SPECIFICATION FairSpec
CONSTANTS
  Servers = {s1, s2, s3}
  Clis = {c1}
INVARIANTS RunningIsNamed StoppedIsDown
PROPERTIES SignalledEnds
