--------------------------- MODULE MCInstallation ---------------------------
(* Instances of Installation for TLC.                                       *)
EXTENDS Installation, TLC

CONSTANT w1

ThreeNames == <<"old", "old1", "old2">>

B(verb, window, request, fault, slow, crash, boot) ==
  [k \in Kinds |-> CASE k = "verb" -> verb [] k = "window" -> window
                     [] k = "request" -> request [] k = "fault" -> fault
                     [] k = "slow" -> slow [] k = "crash" -> crash
                     [] k = "boot" -> boot]

\*                 verb window request fault slow crash boot
MachineBudget   == B(2, 1, 1, 1, 1, 1, 1)
UninstallBudget == B(2, 0, 1, 0, 0, 1, 0)
=============================================================================
