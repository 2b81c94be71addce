SPECIFICATION FairSpec
CONSTANTS
  Drafts <- MC_Drafts
INVARIANT PlanIsReference
PROPERTIES PageComesBack
