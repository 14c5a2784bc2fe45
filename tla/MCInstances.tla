---------------------------- MODULE MCInstances ----------------------------
(* Instances of the module Instances for TLC.                               *)
EXTENDS Instances, TLC

CONSTANTS v1, v2

B(any, launch, click, handover, other, fault, slow, crash) ==
  [k \in Kinds |-> CASE k = "any" -> any [] k = "launch" -> launch [] k = "click" -> click
                     [] k = "handover" -> handover [] k = "other" -> other
                     [] k = "fault" -> fault [] k = "slow" -> slow [] k = "crash" -> crash]

\*                any launch click handover other fault slow crash
SessionBudget  == B(3, 1, 2, 1, 1, 1, 1, 1)
LiveBudget     == B(2, 1, 2, 1, 1, 1, 1, 1)
=============================================================================
