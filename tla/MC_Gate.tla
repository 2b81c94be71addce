------------------------------- MODULE MC_Gate -------------------------------
\* Bounded instances of Gate for TLC: payloads on both sides of each limit.
EXTENDS Gate, TLC

Switch(port, type, lines) ==
  [host |-> "h1", device_type |-> type, port |-> port, lines |-> lines]

MC_Payloads ==
  { Switch(22, "cisco_ios", <<"l1">>), Switch(22, "CISCO_IOS", <<"l1">>),
    Switch(22, "cisco_ios", <<"l1", "l2">>), Switch(65535, "cisco_ios", <<"l1">>),
    Switch(0, "cisco_ios", <<"l1">>), Switch(65536, "cisco_ios", <<"l1">>),
    Switch(22, "other", <<"l1">>), Switch(22, "cisco_ios", <<>>),
    Switch(22, "cisco_ios", <<"l1", "l2", "l1">>), Switch(22, "cisco_ios", <<"l1", "odd">>),
    [Switch(22, "cisco_ios", <<"l1">>) EXCEPT !.host = "malformed"] }

Symmetry == Permutations(Calls)
=============================================================================
