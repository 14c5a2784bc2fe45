----------------------------- MODULE MCResolver -----------------------------
(* Instances of Resolver for TLC.                                           *)
EXTENDS Resolver, TLC

CONSTANTS b, n1, n2

OneMove == {{n1}}
ThereAndBack == {{n1}, {b}}
Round == {{n1}, {n2}}

B(any, move, publish, net, fault, crash, clock, restart) ==
  [k \in Kinds |-> CASE k = "any" -> any [] k = "move" -> move
                     [] k = "publish" -> publish [] k = "net" -> net
                     [] k = "fault" -> fault [] k = "crash" -> crash
                     [] k = "clock" -> clock [] k = "restart" -> restart]

\*                any move publish net fault crash clock restart
ServiceBudget == B(3, 2, 1, 1, 1, 1, 0, 1)
WindowBudget  == B(4, 2, 1, 1, 1, 1, 1, 1)
FollowBudget  == B(1, 1, 0, 0, 0, 0, 0, 0)
=============================================================================
