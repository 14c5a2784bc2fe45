---------------------------- MODULE MCProtection ----------------------------
(* Instances of Protection for TLC: adapters, lists and servers are model   *)
(* values, the profiles and the budgets are defined here.                   *)
EXTENDS Protection, TLC

CONSTANTS a1, a2, s1, s2, m1, m2, ListA, HeadA

StubOn    == [mode |-> "stub", ipv6 |-> TRUE, vpn |-> FALSE]
StubVpn   == [mode |-> "stub", ipv6 |-> TRUE, vpn |-> TRUE]
NativeNo6 == [mode |-> "native", ipv6 |-> FALSE, vpn |-> FALSE]

OnlyStub == {StubOn}
StubKinds == {StubOn, StubVpn}
BothModes == {StubOn, NativeNo6}

\* ListA is a list of two servers, HeadA its first one alone.
HeadsOf == [c \in Priors |-> IF c = ListA THEN {HeadA} \cap Lists ELSE {}]

MembersOf == [m \in Sets |-> (IF m = m1 THEN {s1} ELSE {s1, s2}) \cap Servers]

B(edit, fault, crash, lnk, move, ask) ==
  [k \in Kinds |-> CASE k = "edit" -> edit [] k = "fault" -> fault
                     [] k = "crash" -> crash [] k = "link" -> lnk
                     [] k = "move" -> move [] k = "ask" -> ask]

\*                  edit fault crash link move ask
StubBudget   == B(1, 0, 1, 1, 0, 1)
NativeBudget == B(0, 2, 1, 0, 1, 2)
LiveBudget   == B(1, 1, 1, 1, 0, 1)
StopBudget   == B(0, 0, 1, 1, 0, 1)
=============================================================================
