--------------------------- MODULE MC_BrowserClaw ----------------------------
\* Bounded instances of BrowserClaw for TLC.
EXTENDS BrowserClaw, TLC
=============================================================================
