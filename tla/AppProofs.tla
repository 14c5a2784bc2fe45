------------------------------ MODULE AppProofs ------------------------------
(***************************************************************************)
(* What Protection promises about the adapters and the App itself, for     *)
(* every instance: what counts as applied is backed by a running stub or   *)
(* remembered addresses, the two orders of an enable, stub before loopback *)
(* and templates before addresses, a stop that hands every adapter back,   *)
(* an App that is right about the adapters between operations and leaves   *)
(* nothing behind when it is off, and an end to every operation.           *)
(*                                                                         *)
(* They rest on what an operation under way may count on, gathered in      *)
(* Backed: its steps go with the mode that is set (Fits), nothing it is    *)
(* about to forget or to change is applied (Unapplied), and the templates  *)
(* it has not added yet are on its list (Covered). Where nothing has       *)
(* failed so far, Placement says for every slot that holds a setting of    *)
(* ours who still deals with it, and Leftover the same of the backup.      *)
(***************************************************************************)
EXTENDS LoanProofs

-----------------------------------------------------------------------------
(* What an operation under way may count on *)

\* A process that is down has applied nothing and does nothing.
Rest == phase = "down" => ~enabled /\ At("idle")

\* The steps of an enable go with the mode that is set, and the stub answers
\* by the time an enable in its mode has come to the backup.
Fits ==
  /\ At("stub") => mem.want.mode = "stub"
  /\ job.pc \in {"refresh", "claim", "add"} => mem.want.mode # "stub"
  /\ job.pc \in {"backup", "write"} /\ mem.want.mode = "stub" => "v4" \in stub

\* What an enable has yet to add is all that is missing of its templates.
Covered ==
  /\ At("add") => Members[job.aim] \ templates \subseteq job.adding
  /\ At("write") /\ mem.want.mode # "stub" => Members[job.aim] \subseteq templates

\* What is forgotten or changed is not applied.
Unapplied ==
  /\ job.op = "recover" \/ At("forget") => ~enabled
  /\ At("save") => ~enabled \/ job.wish = mem.want

Backed == Rest /\ Fits /\ Covered /\ Unapplied /\ EnabledBacked

\* Initially nothing is applied and nothing is under way.
LEMMA BackedInit == Init => Backed
BY NoJobType DEF Init, Backed, Rest, Fits, Covered, Unapplied, EnabledBacked, At

\* Every step keeps it (one step per action).
LEMMA BackedNext == IInv /\ IInv' /\ Backed /\ [Next]_vars => Backed'
<1> SUFFICES ASSUME IInv, IInv', Backed, [Next]_vars PROVE Backed'
  OBVIOUS
<1> USE DEF vars, machine, backup, process, history
<1> DEFINE Plain == {"idle", "load", "restore", "withdraw", "quiet", "off"}
<1> DEFINE kept == <<phase, mem, enabled, applied, stub>>
<1>t. TypeOK /\ Aimed
  BY DEF IInv
<1>f. NoJob.pc = "idle" /\ NoJob.op = "none" /\ NoJob.pc \in Plain
  BY NoJobType
<1>e. ASSUME NEW w, EnableEntry(w) = "stub" PROVE w.mode = "stub"
  BY <1>e DEF EnableEntry
<1>g. ASSUME NEW w, EnableEntry(w) = "refresh" PROVE w.mode # "stub"
  BY <1>g DEF EnableEntry
\* A step that comes to a place where an enable expects nothing.
<1>a. ASSUME UNCHANGED kept, phase # "down", ~At("off"), job'.pc \in Plain,
             job'.op = "recover" => job.op = "recover"
      PROVE  Backed'
  BY <1>a DEF Backed, Rest, Fits, Covered, Unapplied, EnabledBacked, At
\* A step that only begins an enable in the mode that is set.
<1>b. ASSUME UNCHANGED kept, phase # "down", ~At("off"), NEW o \in Ops \ {"recover"},
             job' = Begin(o, EnableEntry(mem.want))
      PROVE  Backed'
  <2>1. /\ job'.pc = EnableEntry(mem.want) /\ job'.op = o
        /\ EnableEntry(mem.want) \in {"stub", "refresh"}
    BY <1>b, BeginType, EntryType DEF Steps
  <2>2. Fits'
    BY <1>b, <1>e, <1>g, <2>1 DEF Fits, At
  <2> QED
    BY <1>b, <2>1, <2>2 DEF Backed, Rest, Covered, Unapplied, EnabledBacked, At
\* Everybody else only adds templates.
<1>c. ASSUME UNCHANGED <<kept, job>>, templates \subseteq templates' PROVE Backed'
  BY <1>c DEF Backed, Rest, Fits, Covered, Unapplied, EnabledBacked, At
<1>d. ~At("idle") => phase # "down"
  BY DEF Backed, Rest
<1>1. CASE EnsureStub
  <2>1. CASE "v4" \in stub' /\ job' = Goto("backup")
    <3>1. job'.pc = "backup" /\ job'.op = job.op
      BY <2>1, <1>t, GotoType DEF TypeOK, Steps
    <3> QED
      BY <1>1, <1>d, <2>1, <3>1 DEF EnsureStub, Backed, Rest, Fits, Covered,
                                    Unapplied, EnabledBacked, At
  <2>2. CASE UNCHANGED stub /\ job' = NoJob
    BY <1>1, <1>a, <1>d, <1>f, <2>2 DEF EnsureStub, At
  <2>3. stub # {} => "v4" \in stub
    BY <1>t DEF TypeOK, Families
  <2> QED
    BY <1>1, <2>1, <2>2, <2>3 DEF EnsureStub, Families
<1>2. CASE RefreshEndpoints
  <2>1. job'.pc = "backup" /\ job'.op = job.op
    BY <1>2, <1>t, GotoType DEF RefreshEndpoints, TypeOK, Steps
  <2> QED
    BY <1>2, <1>d, <2>1 DEF RefreshEndpoints, Backed, Rest, Fits, Covered, Unapplied,
                            EnabledBacked, At
<1>3. CASE BackUp
  <2>1. CASE job' = NoJob
    BY <1>3, <1>a, <1>d, <1>f, <2>1 DEF BackUp, At
  <2>2. CASE job' = [Goto(IF mem.want.mode = "stub" THEN "write" ELSE "claim")
                       EXCEPT !.had = onDisk, !.todo = Chosen \X Families,
                              !.aim = current]
    <3> DEFINE p == IF mem.want.mode = "stub" THEN "write" ELSE "claim"
    <3>1. Goto(p) \in Jobs /\ Goto(p).pc = p /\ Goto(p).op = job.op
      BY <1>t, GotoType DEF TypeOK, Steps
    <3>2. p = "write" <=> mem.want.mode = "stub"
      OBVIOUS
    <3>3. p \in {"write", "claim"}
      OBVIOUS
    <3>h. job' = [Goto(p) EXCEPT !.had = onDisk, !.todo = Chosen \X Families,
                                 !.aim = current]
      BY <2>2
    <3> HIDE DEF p
    <3>4. job'.pc = p /\ job'.op = job.op
      BY <3>1, <3>h DEF Jobs
    <3>5. UNCHANGED kept /\ UNCHANGED templates /\ job.pc = "backup" /\ phase # "down"
      BY <1>3, <1>d DEF BackUp, At
    <3>6. Fits'
      BY <3>2, <3>3, <3>4, <3>5 DEF Backed, Fits, At
    <3>7. Covered'
      BY <3>2, <3>3, <3>4, <3>5 DEF Covered, At
    <3> QED
      BY <3>3, <3>4, <3>5, <3>6, <3>7 DEF Backed, Rest, Unapplied, EnabledBacked, At
  <2> QED
    BY <1>3, <2>1, <2>2 DEF BackUp
<1>4. CASE Claim
  <2>1. CASE job' = NoJob
    BY <1>4, <1>a, <1>d, <1>f, <2>1 DEF Claim, At
  <2>2. CASE job' = [Goto("add") EXCEPT
                       !.adding = Members[job.aim] \ templates,
                       !.missing = Members[job.aim] \ templates,
                       !.claimed = (Members[job.aim] \ templates) \ claims]
    <3>1. /\ Goto("add") \in Jobs /\ Goto("add").pc = "add"
          /\ Goto("add").op = job.op /\ Goto("add").aim = job.aim
      BY <1>t, GotoType DEF TypeOK, Steps
    <3>2. /\ job'.pc = "add" /\ job'.op = job.op /\ job'.aim = job.aim
          /\ job'.adding = Members[job.aim] \ templates
      BY <2>2, <3>1 DEF Jobs
    <3> QED
      BY <1>4, <1>d, <3>2 DEF Claim, Backed, Rest, Fits, Covered, Unapplied,
                              EnabledBacked, At
  <2> QED
    BY <1>4, <2>1, <2>2 DEF Claim
<1>5. ASSUME NEW t \in Servers, AddTemplate(t) PROVE Backed'
  <2>1. CASE /\ job' = [job EXCEPT !.adding = @ \ {t}]
             /\ templates' = templates \cup {t}
    <3>1. /\ job'.pc = job.pc /\ job'.op = job.op /\ job'.aim = job.aim
          /\ job'.adding = job.adding \ {t}
      BY <1>t, <2>1 DEF TypeOK, Jobs
    <3> QED
      BY <1>5, <1>d, <2>1, <3>1 DEF AddTemplate, Backed, Rest, Fits, Covered,
                                    Unapplied, EnabledBacked, At
  <2>2. CASE job' = [Goto("withdraw") EXCEPT !.adding = job.missing]
    <3>1. /\ Goto("withdraw") \in Jobs /\ Goto("withdraw").pc = "withdraw"
          /\ Goto("withdraw").op = job.op
      BY <1>t, GotoType DEF TypeOK, Steps
    <3>2. job'.pc = "withdraw" /\ job'.op = job.op
      BY <2>2, <3>1 DEF Jobs
    <3> QED
      BY <1>5, <1>a, <1>d, <3>2 DEF AddTemplate, At
  <2> QED
    BY <1>5, <2>1, <2>2 DEF AddTemplate
<1>6. CASE TemplatesAdded
  <2>1. job'.pc = "write" /\ job'.op = job.op /\ job'.aim = job.aim
    BY <1>6, <1>t, GotoType DEF TemplatesAdded, TypeOK, Steps
  <2>2. Members[job.aim] \subseteq templates
    BY <1>6 DEF TemplatesAdded, Backed, Covered, At
  <2> QED
    BY <1>6, <1>d, <2>1, <2>2 DEF TemplatesAdded, Backed, Rest, Fits, Covered,
                                  Unapplied, EnabledBacked, At
<1>7. ASSUME NEW t \in Servers, WithdrawTemplate(t) \/ RemoveTemplate(t) PROVE Backed'
  <2>1. job'.pc = job.pc /\ job'.op = job.op
    BY <1>7, <1>t DEF WithdrawTemplate, RemoveTemplate, TypeOK, Jobs
  <2> QED
    BY <1>7, <1>a, <1>d, <2>1 DEF WithdrawTemplate, RemoveTemplate, At
<1>8. CASE WithdrawClaims
  BY <1>8, <1>a, <1>d, <1>f DEF WithdrawClaims, At
<1>9. ASSUME NEW s \in Slots, WriteAdapter(s) PROVE Backed'
  <2> DEFINE p == IF s[2] = "v4" THEN "load" ELSE "write"
  <2>1. /\ Goto(p) \in Jobs /\ Goto(p).pc = p /\ Goto(p).op = job.op
        /\ Goto(p).aim = job.aim /\ p \in {"load", "write"}
    BY <1>t, GotoType DEF TypeOK, Steps
  <2>2. job' = [job EXCEPT !.todo = @ \ {s}] \/ job' = [Goto(p) EXCEPT !.todo = @ \ {s}]
    BY <1>9 DEF WriteAdapter
  <2>h. job.pc = "write" /\ UNCHANGED kept /\ UNCHANGED templates
    BY <1>9 DEF WriteAdapter, At
  <2> HIDE DEF p
  <2>3. job'.pc \in {"load", "write"} /\ job'.op = job.op /\ job'.aim = job.aim
    BY <1>t, <2>1, <2>2, <2>h DEF TypeOK, Jobs
  <2> QED
    BY <1>d, <2>h, <2>3 DEF Backed, Rest, Fits, Covered, Unapplied, EnabledBacked, At
<1>10. CASE Applied
  <2>1. applied' # None \/ mem.want.mode = "stub"
    BY <1>10, <1>t, ConfigAssumption DEF Applied, Aimed, At, Ours
  <2>2. mem'.want = mem.want
    BY <1>10, <1>t DEF Applied, TypeOK, Settings
  <2>3. EnabledBacked'
    BY <1>10, <2>1, <2>2 DEF Applied, Backed, Fits, EnabledBacked, At
  <2> QED
    BY <1>10, <1>d, <1>f, <2>3 DEF Applied, Backed, Rest, Fits, Covered, Unapplied, At
<1>11. CASE LoadBackup
  <2>1. CASE onDisk
    <3>1. /\ Goto("restore") \in Jobs /\ Goto("restore").pc = "restore"
          /\ Goto("restore").op = job.op
      BY <1>t, GotoType DEF TypeOK, Steps
    <3>2. job'.pc = "restore" /\ job'.op = job.op
      BY <1>11, <2>1, <3>1 DEF LoadBackup, Jobs
    <3> QED
      BY <1>11, <1>a, <1>d, <3>2 DEF LoadBackup, At
  <2>2. CASE ~onDisk /\ AfterRestore = "idle"
    BY <1>11, <1>a, <1>d, <1>f, <2>2 DEF LoadBackup, At
  <2>3. CASE ~onDisk /\ AfterRestore # "idle"
    <3>1. AfterRestore = "quiet" \/ (AfterRestore = "forget" /\ job.op = "recover")
      BY <2>3 DEF AfterRestore
    <3>2. /\ Goto(AfterRestore) \in Jobs /\ Goto(AfterRestore).pc = AfterRestore
          /\ Goto(AfterRestore).op = job.op
      BY <1>t, <3>1, GotoType DEF TypeOK, Steps
    <3>3. job' = [Goto(AfterRestore) EXCEPT !.result = "err"]
      BY <1>11, <2>3 DEF LoadBackup
    <3>4. job'.pc = AfterRestore /\ job'.op = job.op
      BY <3>2, <3>3 DEF Jobs
    <3> QED
      BY <1>11, <1>d, <3>1, <3>4 DEF LoadBackup, Backed, Rest, Fits, Covered,
                                     Unapplied, EnabledBacked, At
  <2> QED
    BY <2>1, <2>2, <2>3
<1>12. ASSUME NEW s \in Slots, RestoreSlot(s) PROVE Backed'
  <2>1. job'.pc = job.pc /\ job'.op = job.op
    BY <1>12, <1>t DEF RestoreSlot, TypeOK, Jobs
  <2> QED
    BY <1>12, <1>a, <1>d, <2>1 DEF RestoreSlot, At
<1>13. CASE Restored
  <2>1. \/ AfterRestore \in {"quiet", "idle"}
        \/ AfterRestore = "forget" /\ job.op = "recover"
    BY DEF AfterRestore
  <2>2. \/ job'.pc = "idle" /\ job'.op = "none"
        \/ job'.pc = AfterRestore /\ job'.op = job.op
    BY <1>13, <1>t, <1>f, <2>1, GotoType DEF Restored, TypeOK, Steps
  <2> QED
    BY <1>13, <1>d, <2>1, <2>2 DEF Restored, Backed, Rest, Fits, Covered, Unapplied,
                                   EnabledBacked, At
<1>14. CASE StopStub
  <2>1. CASE job.op = "stop"
    BY <1>14, <1>f, <2>1 DEF StopStub, Backed, Rest, Fits, Covered, Unapplied,
                             EnabledBacked, At
  <2>2. CASE job.op # "stop"
    <3>1. job'.pc = "off" /\ job'.op = job.op
      BY <1>14, <1>t, <2>2, GotoType DEF StopStub, TypeOK, Steps
    <3> QED
      BY <1>14, <1>d, <2>2, <3>1 DEF StopStub, Backed, Rest, Fits, Covered,
                                     Unapplied, EnabledBacked, At
  <2> QED
    BY <2>1, <2>2
<1>15. CASE TurnOff
  <2>1. job'.pc = "forget"
    BY <1>15, <1>t, GotoType DEF TurnOff, TypeOK, Steps
  <2> QED
    BY <1>15, <1>d, <2>1 DEF TurnOff, Backed, Rest, Fits, Covered, Unapplied,
                             EnabledBacked, At
<1>16. CASE Forget
  <2>1. job'.pc \in {"save", "idle"} /\ (job'.op = "recover" => job.op = "recover")
    BY <1>16, <1>t, <1>f, GotoType DEF Forget, TypeOK, Steps
  <2>2. ~enabled
    BY <1>16 DEF Forget, Backed, Unapplied
  <2> QED
    BY <1>16, <1>d, <2>1, <2>2 DEF Forget, Backed, Rest, Fits, Covered, Unapplied,
                                   EnabledBacked, At
<1>17. CASE SaveSettings
  <2>1. mem'.want = job.wish
    BY <1>17, <1>t DEF SaveSettings, TypeOK, Settings
  <2>2. ~enabled \/ mem'.want = mem.want
    BY <1>17, <2>1 DEF SaveSettings, Backed, Unapplied
  <2>3. EnabledBacked'
    BY <1>17, <2>2 DEF SaveSettings, Backed, EnabledBacked, At
  <2>4. CASE job' = NoJob
    BY <1>17, <1>d, <1>f, <2>3, <2>4 DEF SaveSettings, Backed, Rest, Fits, Covered,
                                         Unapplied, At
  <2>5. CASE job' = Begin("reapply", EnableEntry(job.wish))
    <3>1. /\ job'.pc = EnableEntry(mem'.want) /\ job'.op = "reapply"
          /\ job'.pc \in {"stub", "refresh"}
      BY <2>1, <2>5, BeginType, EntryType DEF Ops, Steps
    <3>2. Fits'
      BY <1>e, <1>g, <3>1 DEF Fits, At
    <3> QED
      BY <1>17, <1>d, <2>3, <3>1, <3>2 DEF SaveSettings, Backed, Rest, Covered,
                                           Unapplied, At
  <2> QED
    BY <1>17, <2>4, <2>5 DEF SaveSettings
<1>18. CASE Enable
  BY <1>18, <1>b DEF Enable, Request, Idle, At, Ops
<1>19. CASE Disable
  <2>1. Begin("disable", "load").pc = "load" /\ Begin("disable", "load").op = "disable"
    BY BeginType DEF Ops, Steps
  <2> QED
    BY <1>19, <1>a, <2>1 DEF Disable, Request, Idle, At
<1>20. ASSUME NEW w \in Wishes, SetSettings(w) PROVE Backed'
  <2> DEFINE o == IF enabled /\ w # mem.want THEN "settings" ELSE "store"
  <2> DEFINE p == IF enabled /\ w # mem.want THEN "load" ELSE "save"
  <2>1. job' = [Begin(o, p) EXCEPT !.wish = w]
    BY <1>20 DEF SetSettings, Request
  <2>2. o # "recover" /\ p \in {"load", "save"} /\ (p = "save" => ~enabled \/ w = mem.want)
    OBVIOUS
  <2>3. Begin(o, p) \in Jobs /\ Begin(o, p).pc = p /\ Begin(o, p).op = o
    BY BeginType DEF Ops, Steps
  <2> HIDE DEF o, p
  <2>4. job'.pc = p /\ job'.op = o /\ job'.wish = w
    BY <2>1, <2>3 DEF Jobs
  <2>5. UNCHANGED kept /\ phase # "down" /\ job.pc = "idle"
    BY <1>20 DEF SetSettings, Request, Idle, At
  <2> QED
    BY <2>2, <2>4, <2>5 DEF Backed, Rest, Fits, Covered, Unapplied, EnabledBacked, At
<1>21. CASE Guard
  BY <1>21, <1>b DEF Guard, Pass, Idle, At, Ops
<1>22. CASE FollowEndpoints
  <2>1. Begin("follow", "backup").pc = "backup" /\ Begin("follow", "backup").op = "follow"
    BY BeginType DEF Ops, Steps
  <2> QED
    BY <1>22, <2>1 DEF FollowEndpoints, Pass, Idle, Backed, Rest, Fits, Covered,
                       Unapplied, EnabledBacked, At
<1>23. CASE StopRequest
  BY <1>23 DEF StopRequest, Backed, Rest, Fits, Covered, Unapplied, EnabledBacked, At
<1>24. CASE OnStop
  <2> DEFINE p == IF enabled THEN "load" ELSE "quiet"
  <2>1. Begin("stop", p).pc = p /\ Begin("stop", p).op = "stop" /\ p \in Plain
    BY BeginType DEF Ops, Steps
  <2> QED
    BY <1>24, <1>a, <2>1 DEF OnStop, Idle, At
<1>25. CASE Start
  <2>1. ~enabled /\ job.pc = "idle"
    BY <1>25 DEF Start, Backed, Rest, At
  <2>2. CASE UNCHANGED job
    BY <1>25, <2>1, <2>2 DEF Start, Backed, Rest, Fits, Covered, Unapplied,
                             EnabledBacked, At
  <2>3. CASE job' = Begin("boot", EnableEntry(disk.want))
    <3>1. /\ job'.pc = EnableEntry(mem'.want) /\ job'.op = "boot"
          /\ job'.pc \in {"stub", "refresh"}
      BY <1>25, <2>3, BeginType, EntryType DEF Start, Ops, Steps
    <3>2. Fits'
      BY <1>e, <1>g, <3>1 DEF Fits, At
    <3> QED
      BY <1>25, <2>1, <3>1, <3>2 DEF Start, Backed, Rest, Covered, Unapplied,
                                     EnabledBacked, At
  <2>4. CASE job' = Begin("recover", "load")
    <3>1. job'.pc = "load"
      BY <2>4, BeginType DEF Ops, Steps
    <3> QED
      BY <1>25, <2>1, <3>1 DEF Start, Backed, Rest, Fits, Covered, Unapplied,
                               EnabledBacked, At
  <2> QED
    BY <1>25, <2>2, <2>3, <2>4 DEF Start
<1>26. CASE Exit \/ Crash
  BY <1>26, <1>f DEF Exit, Crash, Gone, Backed, Rest, Fits, Covered, Unapplied,
                     EnabledBacked, At
<1>27. CASE Environment
  BY <1>27, <1>c DEF Environment, OthersWrite, OthersAddTemplate, LinkChange, Learn
<1>28. CASE UNCHANGED vars
  BY <1>28, <1>c
<1> QED
  BY <1>1, <1>2, <1>3, <1>4, <1>5, <1>6, <1>7, <1>8, <1>9, <1>10, <1>11, <1>12,
     <1>13, <1>14, <1>15, <1>16, <1>17, <1>18, <1>19, <1>20, <1>21, <1>22, <1>23,
     <1>24, <1>25, <1>26, <1>27, <1>28 DEF Next, Work, Requests, Lifecycle

\* What an operation counts on holds in every reachable state.
LEMMA BackedInduct == Spec => []Backed
<1>1. IInv /\ IInv' /\ Backed /\ [Next]_vars => Backed'
  BY BackedNext
<1> QED
  BY <1>1, BackedInit, IInvInduct, PTL DEF Spec

\* While the service counts itself as applied, the stub answers in stub mode and
\* the addresses written are remembered in native mode (App.enabled, App.applied).
THEOREM EnabledIsBacked == Spec => []EnabledBacked
<1>1. Backed => EnabledBacked
  BY DEF Backed
<1> QED
  BY <1>1, BackedInduct, PTL

-----------------------------------------------------------------------------
(* The two orders of an enable *)

\* The program's own writes: a slot changes to something of ours only by an
\* enable's write, which keeps to the mode that is set.
LEMMA OursWritten ==
  ASSUME IInv, [Next]_vars, NEW s \in Slots, dns[s] # dns'[s], dns'[s] \in Ours
  PROVE  /\ At("write") /\ dns'[s] = Target(s[2])
         /\ UNCHANGED <<templates, stub, mem>>
<1> USE DEF vars, machine, backup, process, history
<1>t. TypeOK /\ Listed
  BY DEF IInv, AddressInv
<1>1. ASSUME NEW r \in Slots, RestoreSlot(r) PROVE dns'[s] = dns[s] \/ dns'[s] \in Priors
  BY <1>1, <1>t, RestoreWrites
<1>2. ASSUME NEW r \in Slots, NEW c \in Priors, OthersWrite(r, c)
      PROVE  dns'[s] = dns[s] \/ dns'[s] \in Priors
  BY <1>2, <1>t DEF OthersWrite, TypeOK
<1>3. ASSUME NEW r \in Slots, WriteAdapter(r)
      PROVE  /\ At("write") /\ dns'[s] = Target(s[2])
             /\ UNCHANGED <<templates, stub, mem>>
  <2>1. dns' = [dns EXCEPT ![r] = Target(r[2])]
    BY <1>3 DEF WriteAdapter
  <2>2. r = s
    BY <1>t, <2>1 DEF TypeOK
  <2> QED
    BY <1>3, <1>t, <2>1, <2>2 DEF WriteAdapter, TypeOK
<1>4. dns'[s] \notin Priors
  BY ConfigAssumption
<1>5. \/ \E r \in Slots : WriteAdapter(r) \/ RestoreSlot(r)
      \/ \E r \in Slots, c \in Priors : OthersWrite(r, c)
  <2>1. CASE \/ EnsureStub \/ RefreshEndpoints \/ BackUp \/ Claim
             \/ \E t \in Servers : AddTemplate(t) \/ WithdrawTemplate(t) \/ RemoveTemplate(t)
             \/ TemplatesAdded \/ WithdrawClaims
             \/ Applied \/ LoadBackup \/ Restored
             \/ StopStub \/ TurnOff \/ Forget \/ SaveSettings
    BY <2>1 DEF EnsureStub, RefreshEndpoints, BackUp, Claim, AddTemplate,
                WithdrawTemplate, RemoveTemplate, TemplatesAdded, WithdrawClaims,
                Applied, LoadBackup, Restored, StopStub, TurnOff, Forget, SaveSettings
  <2>2. CASE Requests \/ Guard \/ FollowEndpoints
    BY <2>2 DEF Requests, Enable, Disable, SetSettings, Request, Guard,
                FollowEndpoints, Pass
  <2>3. CASE Start \/ StopRequest \/ OnStop \/ Exit
    BY <2>3 DEF Start, StopRequest, OnStop, Exit, Gone
  <2>7. CASE Crash
    BY <1>4, <1>t, <2>7, CrashWrites
  <2>4. CASE \/ \E t \in Servers : OthersAddTemplate(t)
             \/ \E a \in Adapters, l \in {"up", "idle", "absent"} : LinkChange(a, l)
             \/ \E m \in Sets : Learn(m)
    BY <2>4 DEF OthersAddTemplate, LinkChange, Learn
  <2>5. CASE \E r \in Slots : WriteAdapter(r) \/ RestoreSlot(r)
    BY <2>5
  <2>6. CASE \E r \in Slots, c \in Priors : OthersWrite(r, c)
    BY <2>6
  <2> QED
    BY <2>1, <2>2, <2>3, <2>4, <2>5, <2>6, <2>7 DEF Next, Work, Lifecycle, Environment
<1> QED
  BY <1>1, <1>2, <1>3, <1>4, <1>5

\* No side of an adapter is pointed at the stub before 127.0.0.1 is answered,
\* through every failed start of it and every stop (enable_stub).
THEOREM StubComesFirst == Spec => StubFirst
<1>1. IInv /\ Backed /\ [Next]_vars =>
        [\A s \in Slots : dns[s] # dns'[s] /\ dns'[s] = Loopback
                            => "v4" \in stub']_vars
  <2> SUFFICES ASSUME IInv, Backed, [Next]_vars, NEW s \in Slots, dns[s] # dns'[s],
                      dns'[s] = Loopback
               PROVE  "v4" \in stub'
    OBVIOUS
  <2>1. /\ At("write") /\ Loopback = Target(s[2])
        /\ UNCHANGED <<templates, stub, mem>>
    BY OursWritten DEF Ours
  <2>2. mem.want.mode = "stub"
    BY <2>1, ConfigAssumption DEF IInv, Aimed, At, Target
  <2> QED
    BY <2>1, <2>2 DEF Backed, Fits, At
<1> QED
  BY <1>1, IInvInduct, BackedInduct, PTL DEF Spec, StubFirst

\* An adapter is pointed at resolver addresses only once each of them has a
\* template, whatever the cache learns meanwhile (enable_native).
THEOREM TemplatesComeFirst == Spec => TemplatesFirst
<1>1. IInv /\ Backed /\ [Next]_vars =>
        [\A s \in Slots : dns[s] # dns'[s] /\ dns'[s] \in Sets
                            => Members[dns'[s]] \subseteq templates']_vars
  <2> SUFFICES ASSUME IInv, Backed, [Next]_vars, NEW s \in Slots, dns[s] # dns'[s],
                      dns'[s] \in Sets
               PROVE  Members[dns'[s]] \subseteq templates'
    OBVIOUS
  <2>1. /\ At("write") /\ dns'[s] = Target(s[2])
        /\ UNCHANGED <<templates, stub, mem>>
    BY OursWritten DEF Ours
  <2>2. mem.want.mode # "stub" /\ dns'[s] = job.aim
    BY <2>1, ConfigAssumption DEF Target
  <2> QED
    BY <2>1, <2>2 DEF Backed, Covered
<1> QED
  BY <1>1, IInvInduct, BackedInduct, PTL DEF Spec, TemplatesFirst

-----------------------------------------------------------------------------
(* A stop gives back *)

\* No adapter carries a setting of ours.
NoneOurs == \A s \in Slots : dns[s] \notin Ours

\* While nothing has failed and no adapter has gone away, the restore of a stop
\* has no warning, and after it nothing of ours is left.
Steady ==
  /\ \A k \in Kinds : left[k] <= Budget[k]
  /\ left["link"] = Budget["link"] => \A a \in Adapters : link[a] = "up"
  /\ job.op = "stop" /\ At("restore") /\ Undisturbed => job.result = "ok"
  /\ job.op = "stop" /\ At("quiet") /\ enabled /\ Undisturbed => NoneOurs

\* Nothing is given back to the budget of events.
LEMMA LeftFalls ==
  ASSUME TypeOK, [Next]_vars PROVE \A k \in Kinds : left'[k] <= left[k]
<1> USE DEF vars, machine, backup, process, history
<1>a. ASSUME UNCHANGED left PROVE \A k \in Kinds : left'[k] <= left[k]
  BY <1>a DEF TypeOK
<1>b. ASSUME NEW e \in Kinds, Spend(e) PROVE \A k \in Kinds : left'[k] <= left[k]
  BY <1>b DEF TypeOK, Spend
<1>c. {"edit", "fault", "crash", "link", "move", "ask"} = Kinds
  BY DEF Kinds
<1>1. CASE EnsureStub \/ RefreshEndpoints \/ BackUp \/ Claim
  BY <1>1, <1>a, <1>b, <1>c DEF EnsureStub, RefreshEndpoints, BackUp, Claim, Free
<1>2. ASSUME NEW t \in Servers,
             AddTemplate(t) \/ WithdrawTemplate(t) \/ RemoveTemplate(t)
      PROVE  \A k \in Kinds : left'[k] <= left[k]
  BY <1>2, <1>a, <1>b, <1>c DEF AddTemplate, WithdrawTemplate, RemoveTemplate, Free
<1>3. CASE TemplatesAdded \/ WithdrawClaims \/ LoadBackup \/ Restored \/ StopStub \/ Forget
  BY <1>3, <1>a, <1>b, <1>c DEF TemplatesAdded, WithdrawClaims, LoadBackup, Restored,
     StopStub, Forget, Deleted, Free
<1>4. ASSUME NEW s \in Slots, WriteAdapter(s) \/ RestoreSlot(s)
      PROVE  \A k \in Kinds : left'[k] <= left[k]
  BY <1>4, <1>a, <1>b, <1>c DEF WriteAdapter, RestoreSlot, Free
<1>5. CASE Applied \/ TurnOff \/ SaveSettings
  BY <1>5, <1>a, <1>b, <1>c DEF Applied, TurnOff, SaveSettings, SaveUnchecked, SaveFails,
     Free
<1>6. CASE Requests \/ Guard \/ FollowEndpoints
  BY <1>6, <1>a, <1>b, <1>c DEF Requests, Enable, Disable, SetSettings, Request, Guard,
     FollowEndpoints, Pass, Free
<1>7. CASE Lifecycle
  BY <1>7, <1>a, <1>b, <1>c DEF Lifecycle, Start, StopRequest, OnStop, Exit, Crash
<1>8. CASE Environment
  BY <1>8, <1>b, <1>c DEF Environment, OthersWrite, OthersAddTemplate, LinkChange, Learn
<1>9. CASE UNCHANGED vars
  BY <1>9, <1>a
<1> QED
  BY <1>1, <1>2, <1>3, <1>4, <1>5, <1>6, <1>7, <1>8, <1>9 DEF Next, Work

\* Initially the budget is whole and every adapter is there.
LEMMA SteadyInit == Init => Steady
<1> SUFFICES ASSUME Init PROVE Steady
  OBVIOUS
<1>1. job.op = "none" /\ left = Budget /\ \A a \in Adapters : link[a] = "up"
  BY NoJobType DEF Init
<1>2. \A k \in Kinds : left[k] <= Budget[k]
  BY <1>1, BudgetAssumption
<1> QED
  BY <1>1, <1>2 DEF Steady

\* Every step keeps it (one step per action a stop takes).
LEMMA SteadyNext == IInv /\ Steady /\ [Next]_vars => Steady'
<1> SUFFICES ASSUME IInv, Steady, [Next]_vars PROVE Steady'
  OBVIOUS
<1> USE DEF vars, machine, backup, process, history
<1>t. TypeOK /\ Recoverable /\ Returning
  BY DEF IInv, AddressInv
<1>f. NoJob.op = "none"
  BY NoJobType
<1>k. /\ "fault" \in Kinds /\ "link" \in Kinds
      /\ left \in [Kinds -> Nat] /\ left' \in [Kinds -> Nat] /\ Budget \in [Kinds -> Nat]
  <2>1. left' \in [Kinds -> Nat]
    BY TypeNext DEF IInv, AddressInv, TypeOK
  <2> QED
    BY <1>t, <2>1, BudgetAssumption DEF TypeOK, Kinds
<1>l. /\ \A k \in Kinds : left'[k] <= Budget[k]
      /\ \A k \in {"fault", "link"} : left'[k] = Budget[k] => left[k] = Budget[k]
  <2>1. ASSUME NEW k \in Kinds
        PROVE  left'[k] <= Budget[k] /\ (left'[k] = Budget[k] => left[k] = Budget[k])
    <3>1. left'[k] <= left[k] /\ left[k] <= Budget[k]
      BY <1>t, LeftFalls DEF Steady
    <3> QED
      BY <1>k, <3>1
  <2> QED
    BY <1>k, <2>1
<1>u. Undisturbed' => Undisturbed
  BY <1>l DEF Undisturbed
<1>v. left'["link"] = Budget["link"] => \A a \in Adapters : link'[a] = "up"
  <2>1. CASE UNCHANGED link
    BY <1>l, <2>1 DEF Steady
  <2>2. CASE Spend("link")
    BY <1>k, <1>l, <2>2 DEF Spend
  <2>3. UNCHANGED link \/ Spend("link")
    <3>1. CASE Work
      BY <3>1 DEF Work, EnsureStub, RefreshEndpoints, BackUp, Claim, AddTemplate,
         WithdrawTemplate, RemoveTemplate, TemplatesAdded, WithdrawClaims, WriteAdapter,
         RestoreSlot, Applied, LoadBackup, Restored, StopStub, TurnOff, Forget, SaveSettings
    <3>2. CASE Requests \/ Guard \/ FollowEndpoints
      BY <3>2 DEF Requests, Enable, Disable, SetSettings, Request, Guard,
         FollowEndpoints, Pass
    <3>3. CASE Lifecycle
      BY <3>3 DEF Lifecycle, Start, StopRequest, OnStop, Exit, Crash, Gone
    <3>4. CASE Environment
      BY <3>4 DEF Environment, OthersWrite, OthersAddTemplate, LinkChange, Learn
    <3>5. CASE UNCHANGED vars
      BY <3>5
    <3> QED
      BY <3>1, <3>2, <3>3, <3>4, <3>5 DEF Next
  <2> QED
    BY <2>1, <2>2, <2>3
<1>s. ~Undisturbed' \/ ~Spend("fault")
  BY <1>k, <1>l DEF Undisturbed, Spend
\* A step that comes to another place, or belongs to another operation.
<1>a. ASSUME job'.op # "stop" \/ job'.pc \notin {"restore", "quiet"} PROVE Steady'
  BY <1>a, <1>l, <1>v DEF Steady, At
\* A step that leaves the operation where it is.
<1>b. ASSUME UNCHANGED <<job, enabled>>, NoneOurs => NoneOurs' PROVE Steady'
  BY <1>b, <1>l, <1>u, <1>v DEF Steady, At
<1>c. ASSUME UNCHANGED dns PROVE NoneOurs => NoneOurs'
  BY <1>c DEF NoneOurs
<1>1. CASE LoadBackup
  <2>1. CASE onDisk
    <3>1. Goto("restore") \in Jobs
      BY <1>t, GotoType DEF TypeOK, Steps
    <3>2. job'.pc = "restore" /\ job'.result = "ok"
      BY <1>1, <1>t, <2>1, <3>1, GotoType DEF LoadBackup, Jobs, TypeOK, Steps
    <3> QED
      BY <1>l, <1>v, <3>2 DEF Steady, At
  <2>2. CASE ~onDisk
    <3>1. NoneOurs'
      BY <1>1, <1>t, <2>2 DEF LoadBackup, Recoverable, NoneOurs
    <3>2. CASE AfterRestore = "idle"
      BY <1>1, <1>a, <1>f, <2>2, <3>2 DEF LoadBackup
    <3>3. CASE AfterRestore # "idle"
      <4>1. AfterRestore \in {"forget", "quiet"}
        BY <3>3 DEF AfterRestore
      <4>2. Goto(AfterRestore) \in Jobs /\ Goto(AfterRestore).pc = AfterRestore
        BY <1>t, <4>1, GotoType DEF TypeOK, Steps
      <4>3. job' = [Goto(AfterRestore) EXCEPT !.result = "err"]
        BY <1>1, <2>2, <3>3 DEF LoadBackup
      <4>4. job'.pc # "restore"
        BY <4>1, <4>2, <4>3 DEF Jobs
      <4> QED
        BY <1>l, <1>v, <3>1, <4>4 DEF Steady, At
    <3> QED
      BY <3>2, <3>3
  <2> QED
    BY <2>1, <2>2
<1>2. ASSUME NEW s \in Slots, RestoreSlot(s) PROVE Steady'
  <2>1. /\ job'.pc = "restore" /\ job'.op = job.op
        /\ \/ job'.result = job.result
           \/ link[s[1]] = "absent" \/ Spend("fault")
    BY <1>2, <1>t DEF RestoreSlot, At, TypeOK, Jobs
  <2>2. Undisturbed' => link[s[1]] # "absent"
    <3>1. s[1] \in Adapters
      BY DEF Slots
    <3> QED
      BY <1>u, <3>1 DEF Undisturbed, Steady
  <2>3. job'.op = "stop" /\ Undisturbed' => job'.result = "ok"
    BY <1>2, <1>u, <1>s, <2>1, <2>2 DEF Steady, RestoreSlot
  <2> QED
    BY <1>l, <1>v, <2>1, <2>3 DEF Steady, At
<1>3. ASSUME NEW t \in Servers, RemoveTemplate(t) PROVE Steady'
  <2>1. /\ job'.pc = "restore" /\ job'.op = job.op
        /\ job'.result = job.result \/ Spend("fault")
    BY <1>3, <1>t DEF RemoveTemplate, At, TypeOK, Jobs
  <2>2. job'.op = "stop" /\ Undisturbed' => job'.result = "ok"
    BY <1>3, <1>u, <1>s, <2>1 DEF Steady, RemoveTemplate
  <2> QED
    BY <1>l, <1>v, <2>1, <2>2 DEF Steady, At
<1>4. CASE Restored
  <2>1. AfterRestore \in {"quiet", "idle", "forget"}
    BY DEF AfterRestore
  <2>2. job'.pc # "restore" /\ (job'.pc = "quiet" => job'.op = job.op)
    BY <1>4, <1>t, <2>1, GotoType, NoJobType DEF Restored, TypeOK, Steps
  <2>3. job.op = "stop" /\ Undisturbed' => NoneOurs'
    BY <1>4, <1>t, <1>u DEF Restored, Steady, Returning, Owed, NoneOurs, At
  <2> QED
    BY <1>l, <1>v, <2>2, <2>3 DEF Steady, At
<1>5. CASE OnStop
  <2>1. CASE enabled
    <3>1. job'.pc = "load"
      BY <1>5, <2>1, BeginType DEF OnStop, Ops, Steps
    <3> QED
      BY <1>a, <3>1
  <2>2. CASE ~enabled
    <3>1. job'.pc = "quiet" /\ enabled' = enabled
      BY <1>5, <2>2, BeginType DEF OnStop, Ops, Steps
    <3> QED
      BY <1>l, <1>v, <2>2, <3>1 DEF Steady, At
  <2> QED
    BY <2>1, <2>2
<1>6. CASE EnsureStub \/ RefreshEndpoints \/ TemplatesAdded \/ TurnOff \/ Forget
  <2>1. \/ job' = NoJob
        \/ \E p \in {"backup", "write", "forget", "save"} : job' = Goto(p)
        \/ job' = Goto("idle")
    BY <1>6 DEF EnsureStub, RefreshEndpoints, TemplatesAdded, TurnOff, Forget
  <2>2. job'.op = "none" \/ job'.pc \in {"backup", "write", "forget", "save"}
    BY <1>f, <1>t, <2>1, GotoType DEF TypeOK, Steps
  <2> QED
    BY <1>a, <2>2
<1>7. CASE BackUp
  <2>1. CASE job' = NoJob
    BY <1>a, <1>f, <2>1
  <2>2. CASE job' = [Goto(IF mem.want.mode = "stub" THEN "write" ELSE "claim")
                       EXCEPT !.had = onDisk, !.todo = Chosen \X Families,
                              !.aim = current]
    <3> DEFINE p == IF mem.want.mode = "stub" THEN "write" ELSE "claim"
    <3>1. Goto(p) \in Jobs /\ Goto(p).pc = p /\ p \in {"write", "claim"}
      BY <1>t, GotoType DEF TypeOK, Steps
    <3> HIDE DEF p
    <3>2. job'.pc = p
      BY <2>2, <3>1 DEF Jobs, p
    <3> QED
      BY <1>a, <3>1, <3>2
  <2> QED
    BY <1>7, <2>1, <2>2 DEF BackUp
<1>8. CASE Claim
  <2>1. CASE job' = NoJob
    BY <1>a, <1>f, <2>1
  <2>2. CASE job' = [Goto("add") EXCEPT
                       !.adding = Members[job.aim] \ templates,
                       !.missing = Members[job.aim] \ templates,
                       !.claimed = (Members[job.aim] \ templates) \ claims]
    <3>1. Goto("add") \in Jobs /\ Goto("add").pc = "add"
      BY <1>t, GotoType DEF TypeOK, Steps
    <3>2. job'.pc = "add"
      BY <2>2, <3>1 DEF Jobs
    <3> QED
      BY <1>a, <3>2
  <2> QED
    BY <1>8, <2>1, <2>2 DEF Claim
<1>9. ASSUME NEW t \in Servers, AddTemplate(t) \/ WithdrawTemplate(t) PROVE Steady'
  <2>1. \/ job' = [Goto("withdraw") EXCEPT !.adding = job.missing]
        \/ job'.pc = job.pc
    BY <1>9, <1>t DEF AddTemplate, WithdrawTemplate, TypeOK, Jobs
  <2>2. Goto("withdraw") \in Jobs /\ Goto("withdraw").pc = "withdraw"
    BY <1>t, GotoType DEF TypeOK, Steps
  <2>3. job'.pc \in {"add", "withdraw"}
    BY <1>9, <2>1, <2>2 DEF AddTemplate, WithdrawTemplate, At, Jobs
  <2> QED
    BY <1>a, <2>3
<1>10. ASSUME NEW s \in Slots, WriteAdapter(s) PROVE Steady'
  <2> DEFINE p == IF s[2] = "v4" THEN "load" ELSE "write"
  <2>1. Goto(p) \in Jobs /\ Goto(p).pc = p /\ p \in {"load", "write"}
    BY <1>t, GotoType DEF TypeOK, Steps
  <2>2. job' = [job EXCEPT !.todo = @ \ {s}] \/ job' = [Goto(p) EXCEPT !.todo = @ \ {s}]
    BY <1>10 DEF WriteAdapter
  <2> HIDE DEF p
  <2>3. job'.pc \in {"load", "write"}
    BY <1>10, <1>t, <2>1, <2>2 DEF WriteAdapter, At, TypeOK, Jobs
  <2> QED
    BY <1>a, <2>3
<1>11. CASE WithdrawClaims \/ Applied \/ Exit \/ Crash
  BY <1>11, <1>a, <1>f DEF WithdrawClaims, Applied, Exit, Crash, Gone
<1>12. CASE StopStub
  <2>1. job' = NoJob \/ job' = Goto("off")
    BY <1>12 DEF StopStub
  <2> QED
    BY <1>a, <1>f, <1>t, <2>1, GotoType DEF TypeOK, Steps
<1>13. CASE SaveSettings
  <2>1. Begin("reapply", EnableEntry(job.wish)).op = "reapply"
    BY EntryType, BeginType DEF Ops, Steps
  <2> QED
    BY <1>13, <1>a, <1>f, <2>1 DEF SaveSettings
<1>14. CASE Enable \/ Disable \/ Guard \/ FollowEndpoints
  <2>1. /\ Begin("enable", EnableEntry(mem.want)).op = "enable"
        /\ Begin("guard", EnableEntry(mem.want)).op = "guard"
        /\ Begin("disable", "load").op = "disable"
        /\ Begin("follow", "backup").op = "follow"
    BY EntryType, BeginType DEF Ops, Steps
  <2> QED
    BY <1>14, <1>a, <2>1 DEF Enable, Disable, Request, Guard, FollowEndpoints, Pass
<1>15. ASSUME NEW w \in Wishes, SetSettings(w) PROVE Steady'
  <2> DEFINE begin == IF enabled /\ w # mem.want THEN Begin("settings", "load")
                                                  ELSE Begin("store", "save")
  <2>1. begin \in Jobs /\ begin.op # "stop"
    BY BeginType DEF Ops, Steps
  <2>2. job' = [begin EXCEPT !.wish = w]
    BY <1>15 DEF SetSettings, Request
  <2> HIDE DEF begin
  <2>3. job'.op # "stop"
    BY <2>1, <2>2 DEF Jobs
  <2> QED
    BY <1>a, <2>3
<1>16. CASE StopRequest
  BY <1>16, <1>b, <1>c DEF StopRequest
<1>17. CASE Start
  <2>1. CASE UNCHANGED job
    BY <1>17, <1>b, <1>c, <2>1 DEF Start
  <2>2. CASE job' = Begin("boot", EnableEntry(disk.want)) \/ job' = Begin("recover", "load")
    <3>1. /\ Begin("boot", EnableEntry(disk.want)).op = "boot"
          /\ Begin("recover", "load").op = "recover"
      BY EntryType, BeginType DEF Ops, Steps
    <3> QED
      BY <1>a, <2>2, <3>1
  <2> QED
    BY <1>17, <2>1, <2>2 DEF Start
<1>18. ASSUME NEW s \in Slots, NEW c \in Priors, OthersWrite(s, c) PROVE Steady'
  <2>1. NoneOurs => NoneOurs'
    BY <1>18, <1>t, ConfigAssumption DEF OthersWrite, NoneOurs, TypeOK
  <2> QED
    BY <1>18, <1>b, <2>1 DEF OthersWrite
<1>19. CASE \/ \E t \in Servers : OthersAddTemplate(t)
            \/ \E a \in Adapters, l \in {"up", "idle", "absent"} : LinkChange(a, l)
            \/ \E m \in Sets : Learn(m)
  BY <1>19, <1>b, <1>c DEF OthersAddTemplate, LinkChange, Learn
<1>20. CASE UNCHANGED vars
  BY <1>20, <1>b, <1>c
<1> QED
  BY <1>1, <1>2, <1>3, <1>4, <1>5, <1>6, <1>7, <1>8, <1>9, <1>10, <1>11, <1>12, <1>13,
     <1>14, <1>15, <1>16, <1>17, <1>18, <1>19, <1>20
     DEF Next, Work, Requests, Lifecycle, Environment

\* A stop of a run that applied protection ends with every adapter handed back,
\* while nothing fails and no adapter goes away, whatever else others write
\* meanwhile and however the requests before it ended (on_stop).
THEOREM StopHandsBack == Spec => StopGivesBack
<1>1. IInv /\ Steady /\ [Next]_vars =>
        [phase = "stopping" /\ phase' = "leaving" /\ enabled /\ Undisturbed =>
           \A s \in Slots : dns[s] \notin Ours]_vars
  <2> SUFFICES ASSUME IInv, Steady, [Next]_vars, phase = "stopping", phase' = "leaving",
                      enabled, Undisturbed
               PROVE  NoneOurs
    BY DEF NoneOurs
  <2> USE DEF vars, machine, backup, process, history
  <2>1. StopStub
    <3>1. CASE Work
      BY <3>1 DEF Work, EnsureStub, RefreshEndpoints, BackUp, Claim, AddTemplate,
         WithdrawTemplate, RemoveTemplate, TemplatesAdded, WithdrawClaims, WriteAdapter,
         RestoreSlot, Applied, LoadBackup, Restored, TurnOff, Forget, SaveSettings
    <3>2. CASE Requests \/ Guard \/ FollowEndpoints
      BY <3>2 DEF Requests, Enable, Disable, SetSettings, Request, Guard,
         FollowEndpoints, Pass
    <3>3. CASE Lifecycle
      BY <3>3 DEF Lifecycle, Start, StopRequest, OnStop, Exit, Crash, Gone
    <3>4. CASE Environment
      BY <3>4 DEF Environment, OthersWrite, OthersAddTemplate, LinkChange, Learn
    <3>5. CASE UNCHANGED vars
      BY <3>5
    <3> QED
      BY <3>1, <3>2, <3>3, <3>4, <3>5 DEF Next
  <2>2. job.op = "stop" /\ At("quiet")
    BY <2>1 DEF StopStub
  <2> QED
    BY <2>2 DEF Steady
<1>2. IInv /\ Steady /\ [Next]_vars => Steady'
  BY SteadyNext
<1> QED
  BY <1>1, <1>2, SteadyInit, IInvInduct, PTL DEF Spec, StopGivesBack
-----------------------------------------------------------------------------
(* The App is right about the adapters *)

\* Whether profile w selects adapter a, and whether an enable under w finds what
\* it needs, when every adapter is up (select_adapters, enable).
Picked(a, w) == w.vpn \/ a \notin Vpn
Feasible(w) ==
  (w.mode = "native" => NativeDoh) /\ \E a \in Adapters : Picked(a, w)

\* The settings file says what the App holds, and what it has enabled can be
\* applied and is, once the enable at start-up has come to its end.
Filed ==
  /\ phase # "down" => disk = mem
  /\ disk.enabled => Feasible(disk.want)
  /\ phase # "down" /\ mem.enabled => enabled \/ job.op = "boot"

\* Where the operation under way can be, nothing having failed: no enable is
\* rolled back, and an enable past its backup writes exactly what is selected.
Routed ==
  /\ job.op = "boot" =>
       mem.enabled /\ job.pc \in {"stub", "refresh", "backup", "claim", "add", "write"}
  /\ job.op = "recover" => ~mem.enabled /\ job.pc \in {"load", "restore", "forget"}
  /\ job.pc \in {"load", "restore"} =>
       job.op \in {"recover", "disable", "settings", "stop"}
  /\ ~At("withdraw")
  /\ job.pc \in {"claim", "add", "write"} =>
       Feasible(mem.want) /\ \A s \in job.todo : Picked(s[1], mem.want)
  /\ job.pc \in {"claim", "add"} =>
       \A s \in Slots : Picked(s[1], mem.want) => s \in job.todo

\* What is true of a slot that holds a setting of ours: the profile in force
\* selects it, the operation under way still has to restore it, has written it,
\* or leaves it as the App remembers it.
Placed(s) ==
  dns[s] \in Ours =>
    /\ phase = "down" /\ disk.enabled => Picked(s[1], disk.want)
    /\ phase # "down" /\ job.op # "recover" => Picked(s[1], mem.want)
    /\ At("restore") => s \in job.todo
    /\ job.pc \notin {"quiet", "off", "forget"}
    /\ At("save") => job.wish = mem.want
    /\ At("write") => s \in job.todo \/ dns[s] = Target(s[2])
    /\ phase = "down" \/ enabled \/ At("write") \/ job.op \in {"boot", "recover"}
    /\ enabled /\ ~At("write") => dns[s] = Written(s[2])

Placement == Filed /\ Routed /\ \A s \in Slots : Placed(s)
AgreeInv == Undisturbed => Placement

\* Initially nothing of ours is anywhere and nothing is enabled.
LEMMA AgreeInit == Init => AgreeInv
<1> SUFFICES ASSUME Init PROVE Placement
  BY DEF AgreeInv
<1>1. job.pc = "idle" /\ job.op = "none" /\ phase = "down" /\ ~disk.enabled
  BY NoJobType DEF Init
<1>2. \A s \in Slots : dns[s] \notin Ours
  BY ConfigAssumption DEF Init
<1> QED
  BY <1>1, <1>2 DEF Placement, Filed, Routed, Placed, At

\* After a step that leaves things undisturbed they were undisturbed before it,
\* the step was no fault, and every adapter is up.
LEMMA StillUndisturbed ==
  ASSUME IInv, Steady, [Next]_vars, Undisturbed'
  PROVE  /\ Undisturbed /\ ~Spend("fault")
         /\ \A a \in Adapters : link[a] = "up"
<1>1. /\ {"fault", "link"} \subseteq Kinds
      /\ left \in [Kinds -> Nat] /\ Budget \in [Kinds -> Nat]
  BY BudgetAssumption DEF IInv, TypeOK, Kinds
<1>2. left' \in [Kinds -> Nat]
  BY TypeNext DEF IInv, AddressInv, TypeOK
<1>3. \A k \in Kinds : left'[k] <= left[k] /\ left[k] <= Budget[k]
  BY LeftFalls DEF IInv, Steady
<1>4. left'["fault"] = Budget["fault"] /\ left'["link"] = Budget["link"]
  BY DEF Undisturbed
<1>5. left["fault"] = Budget["fault"] /\ left["link"] = Budget["link"]
  <2>1. ASSUME NEW k \in {"fault", "link"} PROVE left[k] = Budget[k]
    BY <1>1, <1>2, <1>3, <1>4, <2>1
  <2> QED
    BY <2>1
<1>6. ~Spend("fault")
  BY <1>1, <1>4, <1>5 DEF Spend
<1> QED
  BY <1>5, <1>6 DEF Undisturbed, Steady

\* Every undisturbed step keeps the placement (one step per action).
LEMMA PlacementNext ==
  ASSUME IInv, Backed, Steady, Placement, [Next]_vars, Undisturbed'
  PROVE  Placement'
<1> USE DEF vars, machine, backup, process, history
<1>t. TypeOK /\ Aimed /\ Listed /\ Recoverable
  BY DEF IInv, AddressInv
<1>f. NoJob.pc = "idle" /\ NoJob.op = "none"
  BY NoJobType
<1>s. ~Spend("fault") /\ \A a \in Adapters : link[a] = "up"
  BY StillUndisturbed
<1>c. Chosen = {a \in Adapters : Picked(a, mem.want)}
  BY <1>s DEF Chosen, Picked
<1>d. ~At("idle") => phase # "down"
  BY DEF Backed, Rest
<1>i. phase # "down" /\ At("idle") => job.op \notin {"boot", "recover"}
  BY DEF Placement, Routed, At
<1>e. ASSUME NEW w PROVE EnableEntry(w) \in {"stub", "refresh"}
  BY EntryType
\* A step of an operation that goes on, or ends, without a write.
<1>a. ASSUME UNCHANGED <<dns, disk, phase, mem, enabled, applied>>, phase # "down",
             ~At("write"), job'.op # "recover",
             job'.op = "boot" => job.op = "boot" /\ job'.pc \in {"stub", "refresh", "backup"},
             job'.op # "boot" => job.op \notin {"boot", "recover"},
             job'.pc \notin {"load", "restore", "withdraw", "quiet", "off", "forget",
                             "save", "write", "claim", "add"}
      PROVE  Placement'
  <2>1. Filed' /\ Routed'
    BY <1>a DEF Placement, Filed, Routed, At
  <2>2. ASSUME NEW s \in Slots PROVE Placed(s)'
    <3>1. Placed(s)
      BY DEF Placement
    <3> QED
      BY <1>a, <3>1 DEF Placed, At, Written, Ours
  <2> QED
    BY <2>1, <2>2 DEF Placement
<1>1. CASE EnsureStub
  <2>1. job' = Goto("backup")
    BY <1>1, <1>s DEF EnsureStub
  <2>2. job'.pc = "backup" /\ job'.op = job.op
    BY <1>t, <2>1, GotoType DEF TypeOK, Steps
  <2>3. job.op # "recover"
    BY <1>1 DEF EnsureStub, At, Placement, Routed
  <2> QED
    BY <1>1, <1>a, <1>d, <2>2, <2>3 DEF EnsureStub, At
<1>2. CASE RefreshEndpoints
  <2>1. job'.pc = "backup" /\ job'.op = job.op
    BY <1>2, <1>t, GotoType DEF RefreshEndpoints, TypeOK, Steps
  <2>2. job.op # "recover"
    BY <1>2 DEF RefreshEndpoints, At, Placement, Routed
  <2> QED
    BY <1>2, <1>a, <1>d, <2>1, <2>2 DEF RefreshEndpoints, At
<1>3. CASE BackUp
  <2>1. /\ job.pc = "backup" /\ phase # "down" /\ job.op # "recover"
        /\ UNCHANGED <<dns, disk, phase, mem, enabled, applied>>
    BY <1>3, <1>d DEF BackUp, At, Placement, Routed
  <2>2. CanEnable <=> Feasible(mem.want)
    BY <1>c DEF CanEnable, Feasible
  <2>3. CASE ~CanEnable
    <3>1. job' = NoJob
      BY <1>3, <2>3 DEF BackUp
    <3>2. job.op # "boot"
      BY <2>1, <2>2, <2>3 DEF Placement, Filed, Routed
    <3> QED
      BY <1>a, <1>f, <2>1, <3>1, <3>2 DEF At
  <2>4. CASE CanEnable
    <3> DEFINE p == IF mem.want.mode = "stub" THEN "write" ELSE "claim"
    <3>1. /\ Goto(p) \in Jobs /\ Goto(p).pc = p /\ Goto(p).op = job.op
          /\ p \in {"write", "claim"}
      BY <1>t, GotoType DEF TypeOK, Steps
    <3>2. job' = [Goto(p) EXCEPT !.had = onDisk, !.todo = Chosen \X Families,
                                 !.aim = current]
      BY <1>3, <1>s, <2>4 DEF BackUp
    <3> HIDE DEF p
    <3>3. job'.pc = p /\ job'.op = job.op /\ job'.todo = Chosen \X Families
      BY <3>1, <3>2 DEF Jobs
    <3>4. \A s \in Slots : s \in job'.todo <=> Picked(s[1], mem.want)
      BY <1>c, <3>3 DEF Slots, Families
    <3>5. \A s \in job'.todo : Picked(s[1], mem.want)
      BY <1>c, <3>3
    <3>6. Filed' /\ Routed'
      BY <2>1, <2>2, <2>4, <3>1, <3>3, <3>4, <3>5
         DEF Placement, Filed, Routed, At, Feasible, Picked
    <3>7. ASSUME NEW s \in Slots PROVE Placed(s)'
      <4>1. Placed(s)
        BY DEF Placement
      <4> QED
        BY <2>1, <3>1, <3>3, <3>4, <4>1 DEF Placed, At, Written, Picked, Ours
    <3> QED
      BY <3>6, <3>7 DEF Placement
  <2> QED
    BY <2>3, <2>4
<1>4. CASE Claim
  <2>1. /\ Goto("add") \in Jobs /\ Goto("add").pc = "add"
        /\ Goto("add").op = job.op /\ Goto("add").todo = job.todo
    BY <1>t, GotoType DEF TypeOK, Steps
  <2>2. job' = [Goto("add") EXCEPT
                  !.adding = Members[job.aim] \ templates,
                  !.missing = Members[job.aim] \ templates,
                  !.claimed = (Members[job.aim] \ templates) \ claims]
    BY <1>4, <1>s DEF Claim
  <2>3. job'.pc = "add" /\ job'.op = job.op /\ job'.todo = job.todo
    BY <2>1, <2>2 DEF Jobs
  <2>4. /\ job.pc = "claim" /\ phase # "down"
        /\ UNCHANGED <<dns, disk, phase, mem, enabled, applied>>
    BY <1>4, <1>d DEF Claim, At
  <2>5. Filed' /\ Routed'
    BY <2>3, <2>4 DEF Placement, Filed, Routed, At, Feasible, Picked
  <2>6. ASSUME NEW s \in Slots PROVE Placed(s)'
    <3>1. Placed(s)
      BY DEF Placement
    <3> QED
      BY <2>3, <2>4, <3>1 DEF Placed, At, Written, Picked, Ours
  <2> QED
    BY <2>5, <2>6 DEF Placement
<1>5. ASSUME NEW t \in Servers, AddTemplate(t) \/ RemoveTemplate(t) PROVE Placement'
  <2>1. job' = [job EXCEPT !.adding = @ \ {t}]
    BY <1>5, <1>s DEF AddTemplate, RemoveTemplate
  <2>2. job'.pc = job.pc /\ job'.op = job.op /\ job'.todo = job.todo
    BY <1>t, <2>1 DEF TypeOK, Jobs
  <2>3. /\ job.pc \in {"add", "restore"} /\ phase # "down"
        /\ UNCHANGED <<dns, disk, phase, mem, enabled, applied>>
    BY <1>5, <1>d DEF AddTemplate, RemoveTemplate, At
  <2>4. Filed' /\ Routed'
    BY <2>2, <2>3 DEF Placement, Filed, Routed, At, Feasible, Picked
  <2>5. ASSUME NEW s \in Slots PROVE Placed(s)'
    <3>1. Placed(s)
      BY DEF Placement
    <3> QED
      BY <2>2, <2>3, <3>1 DEF Placed, At, Written, Picked, Ours
  <2> QED
    BY <2>4, <2>5 DEF Placement
<1>6. CASE TemplatesAdded
  <2>1. job'.pc = "write" /\ job'.op = job.op /\ job'.todo = job.todo
    BY <1>6, <1>t, GotoType DEF TemplatesAdded, TypeOK, Steps
  <2>2. /\ job.pc = "add" /\ phase # "down"
        /\ UNCHANGED <<dns, disk, phase, mem, enabled, applied>>
    BY <1>6, <1>d DEF TemplatesAdded, At
  <2>3. job.op # "recover"
    BY <2>2 DEF Placement, Routed
  <2>4. Filed' /\ Routed'
    BY <2>1, <2>2 DEF Placement, Filed, Routed, At, Feasible, Picked
  <2>5. ASSUME NEW s \in Slots PROVE Placed(s)'
    <3>1. Placed(s) /\ (Picked(s[1], mem.want) => s \in job.todo)
      BY <2>2 DEF Placement, Routed
    <3> QED
      BY <2>1, <2>2, <2>3, <3>1 DEF Placed, At, Picked, Ours
  <2> QED
    BY <2>4, <2>5 DEF Placement
<1>w. ~At("withdraw")
  BY DEF Placement, Routed
<1>7. CASE WithdrawClaims
  BY <1>7, <1>w DEF WithdrawClaims
<1>8. ASSUME NEW t \in Servers, WithdrawTemplate(t) PROVE Placement'
  BY <1>8, <1>w DEF WithdrawTemplate
<1>9. ASSUME NEW r \in Slots, WriteAdapter(r) PROVE Placement'
  <2>1. link[r[1]] # "absent"
    BY <1>s DEF Slots
  <2>2. /\ dns' = [dns EXCEPT ![r] = Target(r[2])] /\ job' = [job EXCEPT !.todo = @ \ {r}]
        /\ r \in job.todo
        /\ UNCHANGED <<disk, phase, mem, enabled, applied>>
    BY <1>9, <1>s, <2>1 DEF WriteAdapter, Turn
  <2>3. /\ job'.pc = "write" /\ job'.op = job.op /\ job'.todo = job.todo \ {r}
        /\ job'.aim = job.aim
    BY <1>9, <1>t, <2>2 DEF WriteAdapter, At, TypeOK, Jobs
  <2>4. job.pc = "write" /\ phase # "down"
    BY <1>9, <1>d DEF WriteAdapter, At
  <2>5. Filed' /\ Routed'
    BY <2>2, <2>3, <2>4 DEF Placement, Filed, Routed, At, Feasible, Picked
  <2>6. ASSUME NEW s \in Slots PROVE Placed(s)'
    <3>1. Placed(s) /\ (s \in job.todo => Picked(s[1], mem.want))
      BY <2>4 DEF Placement, Routed
    <3>2. dns'[s] = IF s = r THEN Target(r[2]) ELSE dns[s]
      BY <1>t, <2>2 DEF TypeOK
    <3> QED
      BY <2>2, <2>3, <2>4, <3>1, <3>2 DEF Placed, At, Target, Picked, Ours
  <2> QED
    BY <2>5, <2>6 DEF Placement
<1>10. CASE Applied
  <2>1. disk' = mem' /\ mem' = [mem EXCEPT !.enabled = TRUE] /\ enabled'
    BY <1>10, <1>s DEF Applied, SaveUnchecked, SaveFails
  <2>2. mem'.want = mem.want /\ disk'.want = mem.want
    BY <1>t, <2>1 DEF TypeOK, Settings
  <2>3. /\ job.pc = "write" /\ phase # "down" /\ job.todo = {}
        /\ UNCHANGED <<dns, phase>>
        /\ applied' = IF mem.want.mode = "stub" THEN None ELSE job.aim
        /\ job'.pc = "idle" /\ job'.op = "none"
    BY <1>10, <1>d, <1>f DEF Applied, At
  <2>4. Filed' /\ Routed'
    BY <2>1, <2>2, <2>3 DEF Placement, Filed, Routed, At, Feasible, Picked
  <2>5. ASSUME NEW s \in Slots PROVE Placed(s)'
    <3>1. Placed(s)
      BY DEF Placement
    <3>2. job.op # "recover"
      BY <2>3 DEF Placement, Routed
    <3> QED
      BY <2>1, <2>2, <2>3, <3>1, <3>2 DEF Placed, At, Written, Target, Picked, Ours
  <2> QED
    BY <2>4, <2>5 DEF Placement
<1>11. CASE LoadBackup
  <2>1. /\ job.pc = "load" /\ phase # "down"
        /\ job.op \in {"recover", "disable", "settings", "stop"}
        /\ UNCHANGED <<dns, disk, phase, mem, enabled, applied>>
    BY <1>11, <1>d DEF LoadBackup, At, Placement, Routed
  <2>2. CASE onDisk
    <3>1. /\ Goto("restore") \in Jobs /\ Goto("restore").pc = "restore"
          /\ Goto("restore").op = job.op
      BY <1>t, GotoType DEF TypeOK, Steps
    <3>2. job'.pc = "restore" /\ job'.op = job.op /\ job'.todo = {s \in Slots : rows[s] # None}
      BY <1>11, <2>2, <3>1 DEF LoadBackup, Jobs
    <3>3. Filed' /\ Routed'
      BY <2>1, <3>2 DEF Placement, Filed, Routed, At, Feasible, Picked
    <3>4. ASSUME NEW s \in Slots PROVE Placed(s)'
      <4>1. Placed(s)
        BY DEF Placement
      <4>2. dns[s] \in Ours => s \in job'.todo
        BY <1>t, <3>2, ConfigAssumption DEF Recoverable
      <4> QED
        BY <2>1, <3>2, <4>1, <4>2 DEF Placed, At, Written, Picked, Ours
    <3> QED
      BY <3>3, <3>4 DEF Placement
  <2>3. CASE ~onDisk
    <3>1. AfterRestore \in {"forget", "quiet"} /\ (AfterRestore = "forget" <=> job.op = "recover")
      BY <2>1 DEF AfterRestore
    <3>2. /\ Goto(AfterRestore) \in Jobs /\ Goto(AfterRestore).pc = AfterRestore
          /\ Goto(AfterRestore).op = job.op
      BY <1>t, <3>1, GotoType DEF TypeOK, Steps
    <3>3. job' = [Goto(AfterRestore) EXCEPT !.result = "err"]
      BY <1>11, <2>3, <3>1 DEF LoadBackup
    <3>4. job'.pc = AfterRestore /\ job'.op = job.op
      BY <3>2, <3>3 DEF Jobs
    <3>5. \A s \in Slots : dns'[s] \notin Ours
      BY <1>t, <2>1, <2>3 DEF Recoverable
    <3>6. Filed' /\ Routed'
      BY <2>1, <3>1, <3>4 DEF Placement, Filed, Routed, At, Feasible, Picked
    <3> QED
      BY <3>5, <3>6 DEF Placement, Placed, Ours
  <2> QED
    BY <2>2, <2>3
<1>12. ASSUME NEW r \in Slots, RestoreSlot(r) PROVE Placement'
  <2>1. link[r[1]] # "absent"
    BY <1>s DEF Slots
  <2>2. /\ dns' = [dns EXCEPT ![r] = rows[r]] /\ job' = [job EXCEPT !.todo = @ \ {r}]
        /\ UNCHANGED <<disk, phase, mem, enabled, applied>>
    BY <1>12, <1>s, <2>1 DEF RestoreSlot
  <2>3. job'.pc = "restore" /\ job'.op = job.op /\ job'.todo = job.todo \ {r}
    BY <1>12, <1>t, <2>2 DEF RestoreSlot, At, TypeOK, Jobs
  <2>4. job.pc = "restore" /\ phase # "down"
    BY <1>12, <1>d DEF RestoreSlot, At
  <2>5. Filed' /\ Routed'
    BY <2>2, <2>3, <2>4 DEF Placement, Filed, Routed, At, Feasible, Picked
  <2>6. rows[r] \in Priors
    BY <1>12, <1>t DEF RestoreSlot, Turn, At, Listed, TypeOK
  <2>7. ASSUME NEW s \in Slots PROVE Placed(s)'
    <3>1. Placed(s)
      BY DEF Placement
    <3>2. dns'[s] = IF s = r THEN rows[r] ELSE dns[s]
      BY <1>t, <2>2 DEF TypeOK
    <3>3. s = r => dns'[s] \notin Ours
      BY <2>6, <3>2, ConfigAssumption
    <3> QED
      BY <2>2, <2>3, <2>4, <3>1, <3>2, <3>3 DEF Placed, At, Written, Picked, Ours
  <2> QED
    BY <2>5, <2>7 DEF Placement
<1>13. CASE Restored
  <2>1. /\ job.pc = "restore" /\ phase # "down" /\ job.todo = {}
        /\ job.op \in {"recover", "disable", "settings", "stop"}
        /\ UNCHANGED <<dns, disk, phase, mem, enabled, applied>>
    BY <1>13, <1>d DEF Restored, At, Placement, Routed
  <2>2. AfterRestore \in {"forget", "quiet"} /\ (AfterRestore = "forget" <=> job.op = "recover")
    BY <2>1 DEF AfterRestore
  <2>3. job'.pc = AfterRestore /\ job'.op = job.op
    BY <1>13, <1>t, <2>2, GotoType DEF Restored, TypeOK, Steps
  <2>4. \A s \in Slots : dns'[s] \notin Ours
    BY <2>1 DEF Placement, Placed, At
  <2>5. Filed' /\ Routed'
    BY <2>1, <2>2, <2>3 DEF Placement, Filed, Routed, At, Feasible, Picked
  <2> QED
    BY <2>4, <2>5 DEF Placement, Placed, Ours
\* A step that starts where nothing of ours is left, in an operation that restored.
<1>n. ASSUME job.pc \in {"quiet", "off", "forget"}, UNCHANGED dns, Filed', Routed'
      PROVE  Placement'
  <2>1. \A s \in Slots : dns'[s] \notin Ours
    BY <1>n DEF Placement, Placed
  <2> QED
    BY <1>n, <2>1 DEF Placement, Placed, Ours
<1>14. CASE StopStub
  <2>1. /\ job.pc = "quiet" /\ phase # "down" /\ phase' # "down"
        /\ job.op \notin {"boot", "recover"}
        /\ UNCHANGED <<dns, disk, mem, enabled, applied>>
    BY <1>14, <1>d DEF StopStub, At, Placement, Routed
  <2>2. job' = NoJob \/ job' = Goto("off")
    BY <1>14 DEF StopStub
  <2>3. \/ job'.pc = "idle" /\ job'.op = "none"
        \/ job'.pc = "off" /\ job'.op = job.op
    BY <1>f, <1>t, <2>2, GotoType DEF TypeOK, Steps
  <2>4. Filed' /\ Routed'
    BY <2>1, <2>3 DEF Placement, Filed, Routed, At, Feasible, Picked
  <2> QED
    BY <1>n, <2>1, <2>4
<1>15. CASE TurnOff
  <2>1. disk' = mem' /\ mem' = [mem EXCEPT !.enabled = FALSE] /\ UNCHANGED <<dns, phase>>
    BY <1>15, <1>s DEF TurnOff, SaveUnchecked, SaveFails
  <2>2. ~mem'.enabled /\ ~disk'.enabled
    BY <1>t, <2>1 DEF TypeOK, Settings
  <2>3. job.pc = "off" /\ job'.pc = "forget" /\ job'.op = job.op /\ job.op # "boot"
    BY <1>15, <1>t, GotoType DEF TurnOff, At, TypeOK, Steps, Placement, Routed
  <2>4. Filed' /\ Routed'
    BY <2>1, <2>2, <2>3 DEF Placement, Filed, Routed, At, Feasible, Picked
  <2> QED
    BY <1>n, <2>1, <2>3, <2>4
<1>16. CASE Forget
  <2>1. /\ job.pc = "forget" /\ phase # "down"
        /\ UNCHANGED <<dns, disk, phase, mem, enabled, applied>>
    BY <1>16, <1>d DEF Forget, At
  <2>2. \/ job'.pc = "idle" /\ job'.op = "none"
        \/ job'.pc = "save" /\ job'.op = "settings"
    BY <1>16, <1>f, <1>t, GotoType DEF Forget, TypeOK, Steps
  <2>3. job.op # "boot"
    BY <2>1 DEF Placement, Routed
  <2>4. Filed' /\ Routed'
    BY <2>1, <2>2, <2>3 DEF Placement, Filed, Routed, At, Feasible, Picked
  <2> QED
    BY <1>n, <2>1, <2>4
<1>17. CASE SaveSettings
  <2>1. /\ job.pc = "save" /\ phase # "down" /\ job.op \notin {"boot", "recover"}
        /\ UNCHANGED <<dns, phase, enabled, applied>>
    BY <1>17, <1>d DEF SaveSettings, At, Placement, Routed
  <2>2. disk' = mem' /\ mem' = [mem EXCEPT !.want = job.wish]
    BY <1>17, <1>s DEF SaveSettings, SaveFails
  <2>3. mem'.want = job.wish /\ mem'.enabled = mem.enabled /\ disk'.want = job.wish
    BY <1>t, <2>2 DEF TypeOK, Settings
  <2>4. \/ job'.pc = "idle" /\ job'.op = "none"
        \/ job'.pc \in {"stub", "refresh"} /\ job'.op = "reapply"
    BY <1>17, <1>s, <1>f, <1>e, BeginType, EntryType DEF SaveSettings, SaveFails, Ops, Steps
  <2>5. mem.enabled => job.wish = mem.want
    BY <2>1 DEF Backed, Unapplied, At, Placement, Filed
  <2>6. Filed' /\ Routed'
    BY <2>1, <2>2, <2>3, <2>4, <2>5 DEF Placement, Filed, Routed, At, Feasible, Picked
  <2>7. ASSUME NEW s \in Slots PROVE Placed(s)'
    <3>1. Placed(s)
      BY DEF Placement
    <3> QED
      BY <2>1, <2>3, <2>4, <3>1 DEF Placed, At, Written, Picked, Ours
  <2> QED
    BY <2>6, <2>7 DEF Placement
<1>18. CASE Enable \/ Guard \/ FollowEndpoints
  <2>1. /\ Begin("enable", EnableEntry(mem.want)).op = "enable"
        /\ Begin("guard", EnableEntry(mem.want)).op = "guard"
        /\ Begin("follow", "backup").op = "follow"
        /\ Begin("enable", EnableEntry(mem.want)).pc \in {"stub", "refresh"}
        /\ Begin("guard", EnableEntry(mem.want)).pc \in {"stub", "refresh"}
        /\ Begin("follow", "backup").pc = "backup"
    BY <1>e, BeginType DEF Ops, Steps
  <2>2. /\ phase # "down" /\ At("idle") /\ job'.op \in {"enable", "guard", "follow"}
        /\ job'.pc \in {"stub", "refresh", "backup"}
        /\ UNCHANGED <<dns, disk, phase, mem, enabled, applied>>
    BY <1>18, <2>1 DEF Enable, Request, Guard, FollowEndpoints, Pass, Idle
  <2> QED
    BY <1>a, <1>i, <2>2 DEF At
<1>19. CASE Disable \/ OnStop
  <2>1. /\ Begin("disable", "load").op = "disable" /\ Begin("disable", "load").pc = "load"
        /\ Begin("stop", "load").op = "stop" /\ Begin("stop", "load").pc = "load"
        /\ Begin("stop", "quiet").op = "stop" /\ Begin("stop", "quiet").pc = "quiet"
    BY BeginType DEF Ops, Steps
  <2>2. /\ phase # "down" /\ job.pc = "idle" /\ job'.op \in {"disable", "stop"}
        /\ job'.pc = "load" \/ (job'.pc = "quiet" /\ ~enabled)
        /\ UNCHANGED <<dns, disk, phase, mem, enabled, applied>>
    BY <1>19, <2>1 DEF Disable, Request, OnStop, Idle, At
  <2>3. Filed' /\ Routed'
    BY <1>i, <2>2 DEF Placement, Filed, Routed, At, Feasible, Picked
  <2>4. ASSUME NEW s \in Slots PROVE Placed(s)'
    <3>1. Placed(s)
      BY DEF Placement
    <3> QED
      BY <1>i, <2>2, <3>1 DEF Placed, At, Written, Picked, Ours
  <2> QED
    BY <2>3, <2>4 DEF Placement
<1>20. ASSUME NEW w \in Wishes, SetSettings(w) PROVE Placement'
  <2> DEFINE o == IF enabled /\ w # mem.want THEN "settings" ELSE "store"
  <2> DEFINE p == IF enabled /\ w # mem.want THEN "load" ELSE "save"
  <2>1. job' = [Begin(o, p) EXCEPT !.wish = w]
    BY <1>20 DEF SetSettings, Request
  <2>2. \/ o = "settings" /\ p = "load"
        \/ o = "store" /\ p = "save" /\ (~enabled \/ w = mem.want)
    OBVIOUS
  <2>3. Begin(o, p) \in Jobs /\ Begin(o, p).pc = p /\ Begin(o, p).op = o
    BY BeginType DEF Ops, Steps
  <2> HIDE DEF o, p
  <2>4. job'.pc = p /\ job'.op = o /\ job'.wish = w
    BY <2>1, <2>3 DEF Jobs
  <2>5. /\ phase # "down" /\ job.pc = "idle"
        /\ UNCHANGED <<dns, disk, phase, mem, enabled, applied>>
    BY <1>20 DEF SetSettings, Request, Idle, At
  <2>6. Filed' /\ Routed'
    BY <1>i, <2>2, <2>4, <2>5 DEF Placement, Filed, Routed, At, Feasible, Picked
  <2>7. ASSUME NEW s \in Slots PROVE Placed(s)'
    <3>1. Placed(s)
      BY DEF Placement
    <3> QED
      BY <1>i, <2>2, <2>4, <2>5, <3>1 DEF Placed, At, Written, Picked, Ours
  <2> QED
    BY <2>6, <2>7 DEF Placement
\* A step that leaves the App as it is, and no slot newly ours.
<1>u. ASSUME UNCHANGED <<disk, mem, enabled, applied, job>>,
             (phase = "down") <=> (phase' = "down"),
             \A s \in Slots : dns'[s] = dns[s] \/ dns'[s] \notin Ours
      PROVE  Placement'
  <2>1. Filed' /\ Routed'
    BY <1>u DEF Placement, Filed, Routed, At, Feasible, Picked
  <2>2. ASSUME NEW s \in Slots PROVE Placed(s)'
    <3>1. Placed(s)
      BY DEF Placement
    <3> QED
      BY <1>u, <2>1, <3>1 DEF Placed, At, Written, Target, Picked, Ours
  <2> QED
    BY <2>1, <2>2 DEF Placement
<1>21. CASE StopRequest
  BY <1>21, <1>u DEF StopRequest
<1>22. CASE Start
  <2>1. /\ phase = "down" /\ phase' # "down" /\ mem' = disk /\ ~enabled
        /\ UNCHANGED <<dns, disk, enabled, applied>> /\ job.pc = "idle"
    BY <1>22 DEF Start, Backed, Rest, At
  <2>2. job.op \notin {"boot", "recover"}
    BY <2>1 DEF Placement, Routed
  <2>3. /\ Begin("boot", EnableEntry(disk.want)).op = "boot"
        /\ Begin("boot", EnableEntry(disk.want)).pc \in {"stub", "refresh"}
        /\ Begin("recover", "load").op = "recover" /\ Begin("recover", "load").pc = "load"
    BY <1>e, BeginType DEF Ops, Steps
  <2>4. \/ disk.enabled /\ job'.op = "boot" /\ job'.pc \in {"stub", "refresh"}
        \/ ~disk.enabled /\ job'.op = "recover" /\ job'.pc = "load"
        \/ ~disk.enabled /\ ~onDisk /\ UNCHANGED job
    BY <1>22, <2>3 DEF Start
  <2>5. Filed' /\ Routed'
    BY <2>1, <2>2, <2>4 DEF Placement, Filed, Routed, At, Feasible, Picked
  <2>6. ASSUME NEW s \in Slots PROVE Placed(s)'
    <3>1. Placed(s) /\ (dns[s] \in Ours => onDisk)
      BY <1>t DEF Placement, Recoverable
    <3> QED
      BY <2>1, <2>4, <3>1 DEF Placed, At, Written, Picked, Ours
  <2> QED
    BY <2>5, <2>6 DEF Placement
<1>23. CASE Exit \/ Crash
  <2>1. /\ phase # "down" /\ phase' = "down" /\ ~enabled'
        /\ job'.pc = "idle" /\ job'.op = "none"
        /\ UNCHANGED disk \/ disk' = Blank
    BY <1>23, <1>f DEF Exit, Crash, Gone
  <2>2. ~Blank.enabled
    BY DEF Blank
  <2>3. Filed' /\ Routed'
    BY <2>1, <2>2 DEF Placement, Filed, Routed, At, Feasible, Picked
  <2>4. ASSUME NEW s \in Slots PROVE Placed(s)'
    <3>1. Placed(s) /\ (disk'.enabled => disk' = mem /\ job.op # "recover")
      BY <2>1, <2>2 DEF Placement, Filed, Routed
    <3>2. dns'[s] = dns[s] \/ dns'[s] \notin Ours
      <4>1. CASE Exit
        BY <4>1 DEF Exit
      <4>2. CASE Crash
        BY <1>t, <4>2, CrashWrites, ConfigAssumption
      <4> QED
        BY <1>23, <4>1, <4>2
    <3> QED
      BY <2>1, <3>1, <3>2 DEF Placed, At, Picked, Ours
  <2> QED
    BY <2>3, <2>4 DEF Placement
<1>24. ASSUME NEW s \in Slots, NEW c \in Priors, OthersWrite(s, c) PROVE Placement'
  <2>1. \A r \in Slots : dns'[r] = dns[r] \/ dns'[r] \notin Ours
    BY <1>24, <1>t, ConfigAssumption DEF OthersWrite, TypeOK
  <2> QED
    BY <1>24, <1>u, <2>1 DEF OthersWrite
<1>25. CASE \/ \E t \in Servers : OthersAddTemplate(t)
            \/ \E a \in Adapters, l \in {"up", "idle", "absent"} : LinkChange(a, l)
            \/ \E m \in Sets : Learn(m)
  BY <1>25, <1>u DEF OthersAddTemplate, LinkChange, Learn
<1>26. CASE UNCHANGED vars
  BY <1>26, <1>u
<1> QED
  BY <1>1, <1>2, <1>3, <1>4, <1>5, <1>6, <1>7, <1>8, <1>9, <1>10, <1>11, <1>12, <1>13, <1>14,
     <1>15, <1>16, <1>17, <1>18, <1>19, <1>20, <1>21, <1>22, <1>23, <1>24, <1>25, <1>26
     DEF Next, Work, Requests, Lifecycle, Environment

\* Every step keeps the placement for as long as nothing fails.
LEMMA AgreeNext == IInv /\ Backed /\ Steady /\ AgreeInv /\ [Next]_vars => AgreeInv'
<1> SUFFICES ASSUME IInv, Backed, Steady, AgreeInv, [Next]_vars, Undisturbed'
             PROVE  Placement'
  BY DEF AgreeInv
<1>1. Undisturbed
  BY StillUndisturbed
<1> QED
  BY <1>1, PlacementNext DEF AgreeInv

-----------------------------------------------------------------------------
(* What is off has left nothing behind *)

\* Nothing having failed, a backup is there only with an operation that still
\* deals with it, or for what is applied; and what is being reverted is going well.
Leftover ==
  /\ onDisk => \/ phase = "down" \/ enabled \/ job.op \in {"boot", "recover"}
               \/ job.pc \in {"claim", "add", "write", "forget"}
  /\ job.pc \in {"restore", "quiet", "off", "forget"} /\ onDisk => job.result = "ok"

LeftoverInv == Undisturbed => Leftover

\* Initially there is no backup.
LEMMA LeftoverInit == Init => LeftoverInv
BY NoJobType DEF Init, LeftoverInv, Leftover

\* Every undisturbed step keeps it (one step per action).
LEMMA LeftoverNext ==
  ASSUME IInv, Backed, Steady, Placement, Leftover, [Next]_vars, Undisturbed'
  PROVE  Leftover'
<1> USE DEF vars, machine, backup, process, history
<1>t. TypeOK
  BY DEF IInv, AddressInv
<1>j. job \in Jobs /\ job.pc \in Steps
  BY <1>t DEF TypeOK, Jobs
<1>f. NoJob.pc = "idle" /\ NoJob.op = "none"
  BY NoJobType
<1>s. ~Spend("fault") /\ \A a \in Adapters : link[a] = "up"
  BY StillUndisturbed
<1>c. Chosen = {a \in Adapters : Picked(a, mem.want)}
  BY <1>s DEF Chosen, Picked
\* Nothing of ours was kept, and no backup is made.
<1>n. ASSUME ~onDisk' PROVE Leftover'
  BY <1>n DEF Leftover
\* What is applied stays applied, at a place where no revert is under way.
<1>p. ASSUME UNCHANGED <<onDisk, phase, enabled>>,
             job.op # "boot", job.op # "recover" \/ At("idle"),
             job.pc \notin {"claim", "add", "write", "forget"},
             job'.pc \notin {"restore", "quiet", "off", "forget"}
      PROVE  Leftover'
  <2>1. onDisk /\ At("idle") => phase = "down" \/ enabled
    BY <1>p DEF Leftover, Placement, Routed, At
  <2> QED
    BY <1>p, <2>1 DEF Leftover
<1>1. CASE EnsureStub \/ RefreshEndpoints
  <2>1. job' = Goto("backup") /\ UNCHANGED <<onDisk, phase, enabled>>
        /\ job.pc \in {"stub", "refresh"}
    BY <1>1, <1>s DEF EnsureStub, RefreshEndpoints, At
  <2>2. job'.pc = "backup" /\ job'.op = job.op
    BY <1>j, <2>1, GotoType DEF Steps
  <2> QED
    BY <2>1, <2>2 DEF Leftover
<1>2. CASE BackUp
  <2>1. job.pc = "backup" /\ job.op # "recover" /\ UNCHANGED <<phase, enabled>>
        /\ phase # "down"
    BY <1>2 DEF BackUp, At, Placement, Routed, Backed, Rest
  <2>2. CanEnable <=> Feasible(mem.want)
    BY <1>c DEF CanEnable, Feasible
  <2>3. CASE ~CanEnable
    <3>1. job' = NoJob /\ UNCHANGED onDisk
      BY <1>2, <2>3 DEF BackUp
    <3>2. job.op # "boot"
      BY <2>1, <2>2, <2>3 DEF Placement, Filed, Routed
    <3> QED
      BY <1>f, <2>1, <3>1, <3>2 DEF Leftover
  <2>4. CASE CanEnable
    <3> DEFINE p == IF mem.want.mode = "stub" THEN "write" ELSE "claim"
    <3>1. Goto(p) \in Jobs /\ Goto(p).pc = p /\ p \in {"write", "claim"}
      BY <1>j, GotoType DEF Steps
    <3>2. job' = [Goto(p) EXCEPT !.had = onDisk, !.todo = Chosen \X Families,
                                 !.aim = current]
      BY <1>2, <1>s, <2>4 DEF BackUp
    <3> HIDE DEF p
    <3>3. job'.pc \in {"write", "claim"}
      BY <3>1, <3>2 DEF Jobs
    <3> QED
      BY <3>3 DEF Leftover
  <2> QED
    BY <2>3, <2>4
<1>3. CASE Claim
  <2>1. Goto("add") \in Jobs /\ Goto("add").pc = "add"
    BY <1>j, GotoType DEF Steps
  <2>2. job' = [Goto("add") EXCEPT
                  !.adding = Members[job.aim] \ templates,
                  !.missing = Members[job.aim] \ templates,
                  !.claimed = (Members[job.aim] \ templates) \ claims]
    BY <1>3, <1>s DEF Claim
  <2>3. job'.pc = "add"
    BY <2>1, <2>2 DEF Jobs
  <2> QED
    BY <2>3 DEF Leftover
<1>4. ASSUME NEW t \in Servers, AddTemplate(t) \/ RemoveTemplate(t) PROVE Leftover'
  <2>1. job' = [job EXCEPT !.adding = @ \ {t}] /\ UNCHANGED <<onDisk, phase, enabled>>
    BY <1>4, <1>s DEF AddTemplate, RemoveTemplate
  <2>2. job'.pc = job.pc /\ job'.op = job.op /\ job'.result = job.result
    BY <1>j, <2>1 DEF Jobs
  <2> QED
    BY <2>1, <2>2 DEF Leftover
<1>5. CASE TemplatesAdded
  <2>1. job'.pc = "write"
    BY <1>5, <1>j, GotoType DEF TemplatesAdded, Steps
  <2> QED
    BY <2>1 DEF Leftover
<1>w. ~At("withdraw")
  BY DEF Placement, Routed
<1>6. CASE WithdrawClaims \/ \E t \in Servers : WithdrawTemplate(t)
  <2>1. CASE WithdrawClaims
    BY <1>w, <2>1 DEF WithdrawClaims
  <2>2. ASSUME NEW t \in Servers, WithdrawTemplate(t) PROVE Leftover'
    BY <1>w, <2>2 DEF WithdrawTemplate
  <2> QED
    BY <1>6, <2>1, <2>2
<1>7. ASSUME NEW s \in Slots, WriteAdapter(s) PROVE Leftover'
  <2>1. link[s[1]] # "absent"
    BY <1>s DEF Slots
  <2>2. job' = [job EXCEPT !.todo = @ \ {s}] /\ job.pc = "write"
    BY <1>7, <1>s, <2>1 DEF WriteAdapter, At
  <2>3. job'.pc = "write"
    BY <1>j, <2>2 DEF Jobs
  <2> QED
    BY <2>3 DEF Leftover
<1>8. CASE Applied
  BY <1>8, <1>f DEF Applied, Leftover
<1>9. CASE LoadBackup
  <2>1. job.pc = "load" /\ UNCHANGED <<onDisk, phase, enabled>>
    BY <1>9 DEF LoadBackup, At
  <2>2. CASE onDisk
    <3>1. Goto("restore") \in Jobs /\ Goto("restore").pc = "restore"
          /\ Goto("restore").op = job.op
      BY <1>j, GotoType DEF Steps
    <3>2. job' = [Goto("restore") EXCEPT !.todo = {s \in Slots : rows[s] # None},
                                         !.adding = claims, !.result = "ok"]
      BY <1>9, <2>2 DEF LoadBackup
    <3>3. job'.pc = "restore" /\ job'.op = job.op /\ job'.result = "ok"
      BY <3>1, <3>2 DEF Jobs
    <3> QED
      BY <2>1, <3>3 DEF Leftover
  <2> QED
    BY <1>n, <2>1, <2>2
<1>10. ASSUME NEW s \in Slots, RestoreSlot(s) PROVE Leftover'
  <2>1. link[s[1]] # "absent"
    BY <1>s DEF Slots
  <2>2. job' = [job EXCEPT !.todo = @ \ {s}] /\ UNCHANGED <<onDisk, phase, enabled>>
    BY <1>10, <1>s, <2>1 DEF RestoreSlot
  <2>3. job'.pc = job.pc /\ job'.op = job.op /\ job'.result = job.result
    BY <1>j, <2>2 DEF Jobs
  <2> QED
    BY <2>2, <2>3 DEF Leftover
<1>11. CASE Restored
  <2>1. job.pc = "restore" /\ job.op \in {"recover", "disable", "settings", "stop"}
        /\ job' = Goto(AfterRestore) /\ UNCHANGED <<onDisk, phase, enabled>>
    BY <1>11 DEF Restored, At, Placement, Routed
  <2>2. AfterRestore \in {"forget", "quiet"} /\ AfterRestore \in Steps
    BY <2>1 DEF AfterRestore, Steps
  <2>3. job'.pc \in {"forget", "quiet"} /\ job'.op = job.op /\ job'.result = job.result
    BY <1>j, <2>1, <2>2, GotoType
  <2> QED
    BY <2>1, <2>3 DEF Leftover
<1>12. CASE StopStub
  <2>1. job.pc = "quiet" /\ UNCHANGED <<onDisk, enabled>> /\ phase # "down"
        /\ job.op \notin {"boot", "recover"}
    BY <1>12 DEF StopStub, At, Placement, Routed, Backed, Rest
  <2>2. onDisk => enabled /\ job.result = "ok"
    BY <1>12, <2>1 DEF Leftover, Backed, Rest, At
  <2>3. job' = NoJob \/ (job'.pc = "off" /\ job'.result = job.result)
    BY <1>12, <1>j, GotoType DEF StopStub, Steps
  <2> QED
    BY <1>f, <2>1, <2>2, <2>3 DEF Leftover
<1>13. CASE TurnOff
  <2>1. job.pc = "off" /\ UNCHANGED onDisk
    BY <1>13 DEF TurnOff, At
  <2>2. job'.pc = "forget" /\ job'.result = job.result
    BY <1>13, <1>j, GotoType DEF TurnOff, Steps
  <2> QED
    BY <2>1, <2>2 DEF Leftover
<1>14. CASE Forget
  <2>1. onDisk => DeleteBackup
    BY <1>14, <1>s DEF Forget, Deleted, At, Leftover
  <2>2. ~onDisk => ~onDisk'
    BY <1>14 DEF Forget, Deleted, DeleteBackup, backup
  <2> QED
    BY <1>n, <2>1, <2>2 DEF DeleteBackup
<1>15. CASE SaveSettings
  <2>1. job.pc = "save" /\ UNCHANGED <<onDisk, phase, enabled>>
        /\ job.op \notin {"boot", "recover"}
    BY <1>15 DEF SaveSettings, At, Placement, Routed
  <2>2. job' = NoJob \/ job' = Begin("reapply", EnableEntry(job.wish))
    BY <1>15 DEF SaveSettings
  <2>3. Begin("reapply", EnableEntry(job.wish)).pc \in {"stub", "refresh"}
    BY BeginType, EntryType DEF Ops, Steps
  <2> QED
    BY <1>f, <1>p, <2>1, <2>2, <2>3
<1>16. CASE Requests \/ Guard \/ FollowEndpoints \/ OnStop
  <2>1. At("idle") /\ UNCHANGED <<onDisk, phase, enabled>>
    BY <1>16 DEF Requests, Enable, Disable, SetSettings, Request, Guard,
                 FollowEndpoints, Pass, OnStop, Idle
  <2>2. onDisk => phase = "down" \/ enabled
    BY <2>1 DEF Leftover, Placement, Routed, At
  <2> DEFINE Entry == {"stub", "refresh", "backup", "load", "save"}
  <2>a. ASSUME NEW o \in Ops, NEW p \in Entry \cup {"quiet"} PROVE Begin(o, p).pc = p
    BY BeginType DEF Steps
  <2>3. CASE Requests \/ Guard \/ FollowEndpoints
    <3>1. \A o \in Ops : \A w \in Profiles : Begin(o, EnableEntry(w)).pc \in Entry
      BY <2>a, EntryType
    <3>2. mem.want \in Profiles
      BY <1>t DEF TypeOK, Settings
    <3>3. CASE Enable \/ Disable \/ Guard \/ FollowEndpoints
      <4>1. \/ job' = Begin("enable", EnableEntry(mem.want)) \/ job' = Begin("disable", "load")
            \/ job' = Begin("guard", EnableEntry(mem.want)) \/ job' = Begin("follow", "backup")
        BY <3>3 DEF Enable, Disable, Request, Guard, FollowEndpoints, Pass
      <4>2. job'.pc \in Entry
        BY <2>a, <3>1, <3>2, <4>1 DEF Ops
      <4> QED
        BY <2>1, <2>2, <4>2 DEF Leftover
    <3>4. ASSUME NEW w \in Wishes, SetSettings(w) PROVE Leftover'
      <4>1. ASSUME NEW k, k \in {Begin("settings", "load"), Begin("store", "save")}
            PROVE  k \in Jobs /\ k.pc \in Entry
        BY <4>1, BeginType DEF Ops, Steps
      <4>2. \E k \in {Begin("settings", "load"), Begin("store", "save")} :
               job' = [k EXCEPT !.wish = w]
        BY <3>4 DEF SetSettings, Request
      <4>3. job'.pc \in Entry
        BY <4>1, <4>2 DEF Jobs
      <4> QED
        BY <2>1, <2>2, <4>3 DEF Leftover
    <3> QED
      BY <2>3, <3>3, <3>4 DEF Requests
  <2>4. CASE OnStop
    <3>1. job' = Begin("stop", IF enabled THEN "load" ELSE "quiet") /\ phase = "stopping"
      BY <2>4 DEF OnStop
    <3>2. IF enabled THEN job'.pc = "load" ELSE job'.pc = "quiet"
      BY <2>a, <3>1 DEF Ops
    <3> QED
      BY <2>1, <2>2, <3>1, <3>2 DEF Leftover
  <2> QED
    BY <1>16, <2>3, <2>4
<1>17. CASE Start
  <2>1. UNCHANGED <<onDisk, enabled>>
    BY <1>17 DEF Start
  <2>2. Begin("boot", EnableEntry(disk.want)).op = "boot"
        /\ Begin("boot", EnableEntry(disk.want)).pc \in {"stub", "refresh"}
        /\ Begin("recover", "load").op = "recover" /\ Begin("recover", "load").pc = "load"
    BY BeginType, EntryType DEF Ops, Steps
  <2>3. \/ job'.op = "boot" /\ job'.pc \in {"stub", "refresh"}
        \/ job'.op = "recover" /\ job'.pc = "load"
        \/ ~onDisk
    BY <1>17, <2>2 DEF Start
  <2> QED
    BY <2>1, <2>3 DEF Leftover
<1>18. CASE StopRequest
  BY <1>18 DEF StopRequest, Leftover
<1>19. CASE Exit \/ Crash
  <2>1. phase' = "down" /\ job'.pc = "idle"
    BY <1>19, <1>f DEF Exit, Crash, Gone
  <2> QED
    BY <2>1 DEF Leftover
<1>20. CASE Environment
  BY <1>20 DEF Environment, OthersWrite, OthersAddTemplate, LinkChange, Learn, Leftover
<1>21. CASE UNCHANGED vars
  BY <1>21 DEF Leftover
<1> QED
  BY <1>1, <1>2, <1>3, <1>4, <1>5, <1>6, <1>7, <1>8, <1>9, <1>10, <1>11, <1>12, <1>13,
     <1>14, <1>15, <1>16, <1>17, <1>18, <1>19, <1>20, <1>21 DEF Next, Work, Lifecycle

\* Both hold throughout: the placement is what rules out a rollback in Leftover.
LEMMA RightInduct == Spec => [](AgreeInv /\ LeftoverInv)
<1>1. IInv /\ Backed /\ Steady /\ AgreeInv /\ [Next]_vars => AgreeInv'
  BY AgreeNext
<1>2. IInv /\ Backed /\ Steady /\ AgreeInv /\ LeftoverInv /\ [Next]_vars => LeftoverInv'
  <2> SUFFICES ASSUME IInv, Backed, Steady, AgreeInv, LeftoverInv, [Next]_vars,
                      Undisturbed'
               PROVE  Leftover'
    BY DEF LeftoverInv
  <2>1. Undisturbed
    BY StillUndisturbed
  <2> QED
    BY <2>1, LeftoverNext DEF AgreeInv, LeftoverInv
<1>3. IInv /\ Steady /\ [Next]_vars => Steady'
  BY SteadyNext
<1> QED
  BY <1>1, <1>2, <1>3, AgreeInit, LeftoverInit, SteadyInit, IInvInduct, BackedInduct,
     PTL DEF Spec

\* Between operations, while nothing has failed and no adapter has gone away, the App is
\* right about the machine, whatever crashed, was asked for or moved meanwhile: what is
\* ours on an adapter is what it counts as applied, and if nothing is applied no setting,
\* no template and no backup of ours is left (App.enabled, App.applied, disable).
THEOREM AppKnows == Spec => []AppIsRight
<1>1. IInv /\ AgreeInv /\ LeftoverInv /\ TemplatesClaimed => AppIsRight
  <2> SUFFICES ASSUME IInv, Placement, Leftover, TemplatesClaimed, Idle
               PROVE  IF enabled
                      THEN \A s \in Slots : dns[s] \in Ours => dns[s] = Written(s[2])
                      ELSE ~onDisk /\ mine = {} /\ \A s \in Slots : dns[s] \notin Ours
    BY DEF AgreeInv, LeftoverInv, AppIsRight
  <2>1. job.op \notin {"boot", "recover"} /\ job.pc = "idle" /\ phase # "down"
    BY DEF Placement, Routed, Idle, At
  <2>2. ASSUME enabled, NEW s \in Slots, dns[s] \in Ours PROVE dns[s] = Written(s[2])
    <3>1. Placed(s)
      BY DEF Placement
    <3> QED
      BY <2>1, <2>2, <3>1 DEF Placed, At
  <2>3. ~enabled => ~onDisk
    BY <2>1 DEF Leftover
  <2> QED
    BY <2>2, <2>3 DEF TemplatesClaimed, IInv, AddressInv, Recoverable
<1> QED
  BY <1>1, RightInduct, IInvInduct, TemplatesClaimedAlways, PTL

-----------------------------------------------------------------------------
(* Operations come to an end *)

\* Whether job k is nearer the end of its operation than job j.
Nearer(j, k) ==
  \/ Ahead(k) < Ahead(j)
  \/ /\ Ahead(k) = Ahead(j)
     /\ Shrinks(j.todo, k.todo) \/ (k.todo = j.todo /\ Shrinks(j.adding, k.adding))

\* What Height says, place by place.
LEMMA HeightIs ==
  /\ \A p \in {"refresh", "stub"} : Height(p) = 12
  /\ Height("backup") = 11 /\ Height("claim") = 10 /\ Height("add") = 9
  /\ Height("write") = 8 /\ Height("withdraw") = 7 /\ Height("load") = 6
  /\ Height("restore") = 5 /\ Height("quiet") = 4 /\ Height("off") = 3
  /\ Height("forget") = 2 /\ Height("save") = 1 /\ Height("idle") = 0
BY DEF Height

\* A job that moves to a lower place in the same operation, or is over, is nearer.
LEMMA LowerIsNearer ==
  ASSUME NEW k, ~At("idle"), job.pc \in Steps,
         \/ k.pc = "idle" /\ k.op = "none"
         \/ k.op = job.op /\ k.pc \in Steps /\ Height(k.pc) < Height(job.pc)
  PROVE  Nearer(job, k)
<1>1. ASSUME NEW p \in Steps
      PROVE  Height(p) \in 0..12 /\ (p # "idle" => Height(p) \in 1..12)
  BY HeightIs DEF Steps
<1>2. job.pc # "idle" /\ Height(job.pc) \in 1..12
  BY <1>1 DEF At
<1>3. CASE k.pc = "idle" /\ k.op = "none"
  <2>1. Ahead(k) = 0
    BY <1>3 DEF Ahead, Height
  <2>2. Ahead(job) > 0
    BY <1>2 DEF Ahead
  <2> QED
    BY <2>1, <2>2 DEF Nearer, Ahead
<1>4. CASE k.op = job.op /\ k.pc \in Steps /\ Height(k.pc) < Height(job.pc)
  <2>1. Height(k.pc) \in 0..12
    BY <1>1, <1>4
  <2> QED
    BY <1>2, <1>4, <2>1 DEF Nearer, Ahead
<1> QED
  BY <1>3, <1>4

\* Every operation ends: each step of one under way takes it nearer its end, whatever
\* fails in it and whatever else happens on the machine meanwhile (the App's mutex).
THEOREM OperationsComeToAnEnd == Spec => OperationsEnd
<1>1. TypeOK /\ [Next]_vars => [Work => Nearer(job, job')]_vars
  <2> SUFFICES ASSUME TypeOK, Work PROVE Nearer(job, job')
    OBVIOUS
  <2>f. NoJob.pc = "idle" /\ NoJob.op = "none"
    BY NoJobType
  <2>t. job \in Jobs /\ job.pc \in Steps
    BY DEF TypeOK, Jobs
  <2>j. job.todo \in SUBSET Slots /\ job.adding \in SUBSET Servers
    BY <2>t DEF Jobs
\* A step that is the last, or that moves on to a lower place.
  <2>a. ASSUME ~At("idle"), job' = NoJob PROVE Nearer(job, job')
    BY <2>a, <2>f, <2>t, LowerIsNearer
  <2>b. ASSUME ~At("idle"), job'.op = job.op, job'.pc \in Steps \ {"idle"},
               Height(job'.pc) < Height(job.pc)
        PROVE  Nearer(job, job')
    BY <2>b, <2>t, LowerIsNearer
\* A step that visits one of what is left where it is.
  <2>c. ASSUME job'.op = job.op, job'.pc = job.pc,
               \/ Shrinks(job.todo, job'.todo)
               \/ job'.todo = job.todo /\ Shrinks(job.adding, job'.adding)
        PROVE  Nearer(job, job')
    BY <2>c DEF Nearer, Ahead
  <2>1. CASE EnsureStub \/ RefreshEndpoints
    <3>1. CASE job' = NoJob
      BY <2>1, <2>a, <3>1 DEF EnsureStub, RefreshEndpoints, At
    <3>2. CASE job' = Goto("backup")
      <4>1. job'.op = job.op /\ job'.pc = "backup" /\ "backup" \in Steps
        BY <2>t, <3>2, GotoType DEF Steps
      <4>2. job.pc \in {"stub", "refresh"}
        BY <2>1 DEF EnsureStub, RefreshEndpoints, At
      <4>3. Height(job.pc) = 12
        BY HeightIs, <4>2
      <4> QED
        BY <2>b, HeightIs, <4>1, <4>2, <4>3 DEF At
    <3> QED
      BY <2>1, <3>1, <3>2 DEF EnsureStub, RefreshEndpoints
  <2>2. CASE BackUp
    <3> DEFINE p == IF mem.want.mode = "stub" THEN "write" ELSE "claim"
    <3>1. /\ Goto(p) \in Jobs /\ Goto(p).pc = p /\ Goto(p).op = job.op
          /\ p \in {"write", "claim"} /\ p \in Steps
      BY <2>t, GotoType DEF Steps
    <3>2. \/ job' = NoJob
          \/ job' = [Goto(p) EXCEPT !.had = onDisk, !.todo = Chosen \X Families,
                                    !.aim = current]
      BY <2>2 DEF BackUp
    <3>3. job.pc = "backup"
      BY <2>2 DEF BackUp, At
    <3> HIDE DEF p
    <3>4. job' = NoJob \/ (job'.pc = p /\ job'.op = job.op)
      BY <3>1, <3>2 DEF Jobs
    <3>5. Height(p) < Height(job.pc)
      BY HeightIs, <3>1, <3>3
    <3> QED
      BY <2>a, <2>b, <3>1, <3>3, <3>4, <3>5 DEF At
  <2>3. CASE Claim
    <3>1. /\ Goto("add") \in Jobs /\ Goto("add").pc = "add" /\ Goto("add").op = job.op
          /\ "add" \in Steps
      BY <2>t, GotoType DEF Steps
    <3>2. \/ job' = NoJob
          \/ job' = [Goto("add") EXCEPT
                       !.adding = Members[job.aim] \ templates,
                       !.missing = Members[job.aim] \ templates,
                       !.claimed = (Members[job.aim] \ templates) \ claims]
      BY <2>3 DEF Claim
    <3>3. job.pc = "claim"
      BY <2>3 DEF Claim, At
    <3>4. job' = NoJob \/ (job'.pc = "add" /\ job'.op = job.op)
      BY <3>1, <3>2 DEF Jobs
    <3> QED
      BY <2>a, <2>b, HeightIs, <3>1, <3>3, <3>4 DEF At
  <2>4. ASSUME NEW t \in Servers, AddTemplate(t) \/ WithdrawTemplate(t) \/ RemoveTemplate(t)
        PROVE  Nearer(job, job')
    <3>1. t \in job.adding
      BY <2>4 DEF AddTemplate, WithdrawTemplate, RemoveTemplate
    <3>2. \/ /\ job'.op = job.op /\ job'.pc = job.pc /\ job'.todo = job.todo
             /\ job'.adding = job.adding \ {t}
          \/ job.pc = "add" /\ job' = [Goto("withdraw") EXCEPT !.adding = job.missing]
      BY <2>4, <2>t DEF AddTemplate, WithdrawTemplate, RemoveTemplate, At, Jobs
    <3>3. CASE /\ job'.op = job.op /\ job'.pc = job.pc /\ job'.todo = job.todo
               /\ job'.adding = job.adding \ {t}
      <4>1. Shrinks(job.adding, job'.adding)
        BY <3>1, <3>3 DEF Shrinks
      <4> QED
        BY <2>c, <3>3, <4>1
    <3>4. CASE job.pc = "add" /\ job' = [Goto("withdraw") EXCEPT !.adding = job.missing]
      <4>1. /\ Goto("withdraw") \in Jobs /\ Goto("withdraw").pc = "withdraw"
            /\ Goto("withdraw").op = job.op /\ "withdraw" \in Steps
        BY <2>t, GotoType DEF Steps
      <4>2. job'.pc = "withdraw" /\ job'.op = job.op
        BY <3>4, <4>1 DEF Jobs
      <4> QED
        BY <2>b, HeightIs, <3>4, <4>1, <4>2 DEF At
    <3> QED
      BY <3>2, <3>3, <3>4
  <2>5. CASE TemplatesAdded
    <3>1. job'.op = job.op /\ job'.pc = "write" /\ "write" \in Steps
      BY <2>5, <2>t, GotoType DEF TemplatesAdded, Steps
    <3>2. job.pc = "add"
      BY <2>5 DEF TemplatesAdded, At
    <3> QED
      BY <2>b, HeightIs, <3>1, <3>2 DEF At
  <2>6. CASE WithdrawClaims \/ Applied
    BY <2>6, <2>a DEF WithdrawClaims, Applied, At
  <2>7. ASSUME NEW s \in Slots, WriteAdapter(s) PROVE Nearer(job, job')
    <3> DEFINE p == IF s[2] = "v4" THEN "load" ELSE "write"
    <3>1. /\ Goto(p) \in Jobs /\ Goto(p).pc = p /\ Goto(p).op = job.op
          /\ Goto(p).todo = job.todo /\ p \in {"load", "write"} /\ p \in Steps
      BY <2>t, GotoType DEF Steps
    <3>2. \/ job' = [job EXCEPT !.todo = @ \ {s}]
          \/ job' = [Goto(p) EXCEPT !.todo = @ \ {s}]
      BY <2>7 DEF WriteAdapter
    <3>3. job.pc = "write" /\ s \in job.todo
      BY <2>7 DEF WriteAdapter, At, Turn
    <3> HIDE DEF p
    <3>4. job'.op = job.op /\ job'.pc \in {"load", "write"} /\ job'.todo = job.todo \ {s}
      BY <2>t, <3>1, <3>2, <3>3 DEF Jobs
    <3>5. CASE job'.pc = "load"
      <4>1. "load" \in Steps
        BY DEF Steps
      <4> QED
        BY <2>b, HeightIs, <3>3, <3>4, <3>5, <4>1 DEF At
    <3>6. CASE job'.pc = "write"
      <4>1. Shrinks(job.todo, job'.todo)
        BY <3>3, <3>4 DEF Shrinks
      <4> QED
        BY <2>c, <3>3, <3>4, <3>6, <4>1
    <3> QED
      BY <3>4, <3>5, <3>6
  <2>8. ASSUME NEW s \in Slots, RestoreSlot(s) PROVE Nearer(job, job')
    <3>1. job'.op = job.op /\ job'.pc = job.pc /\ job'.todo = job.todo \ {s}
      BY <2>8, <2>t DEF RestoreSlot, Jobs
    <3>2. Shrinks(job.todo, job'.todo)
      BY <2>8, <3>1 DEF RestoreSlot, Turn, Shrinks
    <3> QED
      BY <2>c, <3>1, <3>2
  <2>9. CASE LoadBackup
    <3>1. job.pc = "load"
      BY <2>9 DEF LoadBackup, At
    <3> DEFINE q == IF onDisk THEN "restore" ELSE AfterRestore
    <3>2. q \in {"restore", "idle", "quiet", "forget"} /\ q \in Steps
      BY DEF AfterRestore, Steps
    <3>3. \/ job' = NoJob
          \/ /\ q # "idle"
             /\ \/ job' = [Goto(q) EXCEPT !.result = "err"]
                \/ job' = [Goto(q) EXCEPT !.todo = {s \in Slots : rows[s] # None},
                                          !.adding = claims, !.result = "ok"]
      BY <2>9 DEF LoadBackup
    <3> HIDE DEF q
    <3>4. q # "idle" => Goto(q) \in Jobs /\ Goto(q).pc = q /\ Goto(q).op = job.op
      BY <2>t, <3>2, GotoType
    <3>5. ASSUME q # "idle", job' # NoJob PROVE job'.pc = q /\ job'.op = job.op
      <4>1. Goto(q) \in Jobs /\ Goto(q).pc = q /\ Goto(q).op = job.op
        BY <3>4, <3>5
      <4>2. CASE job' = [Goto(q) EXCEPT !.result = "err"]
        BY <4>1, <4>2 DEF Jobs
      <4>3. CASE job' = [Goto(q) EXCEPT !.todo = {s \in Slots : rows[s] # None},
                                        !.adding = claims, !.result = "ok"]
        BY <4>1, <4>3 DEF Jobs
      <4> QED
        BY <3>3, <3>5, <4>2, <4>3
    <3>6. q # "idle" => Height(q) < Height(job.pc)
      BY HeightIs, <3>1, <3>2
    <3> QED
      BY <2>a, <2>b, <3>1, <3>2, <3>3, <3>5, <3>6 DEF At
  <2>10. CASE Restored
    <3>1. job.pc = "restore"
      BY <2>10 DEF Restored, At
    <3>2. AfterRestore \in {"idle", "quiet", "forget"} /\ AfterRestore \in Steps
      BY DEF AfterRestore, Steps
    <3>3. \/ job' = NoJob
          \/ AfterRestore # "idle" /\ job'.pc = AfterRestore /\ job'.op = job.op
      BY <2>10, <2>t, <3>2, GotoType DEF Restored
    <3>4. AfterRestore # "idle" => Height(AfterRestore) < Height(job.pc)
      BY HeightIs, <3>1, <3>2
    <3> QED
      BY <2>a, <2>b, <3>1, <3>2, <3>3, <3>4 DEF At
  <2>11. CASE StopStub
    <3>1. job.pc = "quiet"
      BY <2>11 DEF StopStub, At
    <3>2. job' = NoJob \/ (job'.pc = "off" /\ job'.op = job.op /\ "off" \in Steps)
      BY <2>11, <2>t, GotoType DEF StopStub, Steps
    <3> QED
      BY <2>a, <2>b, HeightIs, <3>1, <3>2 DEF At
  <2>12. CASE TurnOff
    <3>1. job.pc = "off"
      BY <2>12 DEF TurnOff, At
    <3>2. job'.pc = "forget" /\ job'.op = job.op /\ "forget" \in Steps
      BY <2>12, <2>t, GotoType DEF TurnOff, Steps
    <3> QED
      BY <2>b, HeightIs, <3>1, <3>2 DEF At
  <2>13. CASE Forget
    <3>1. job.pc = "forget"
      BY <2>13 DEF Forget, At
    <3>2. job' = NoJob \/ (job'.pc = "save" /\ job'.op = job.op /\ "save" \in Steps)
      BY <2>13, <2>t, GotoType DEF Forget, Steps
    <3> QED
      BY <2>a, <2>b, HeightIs, <3>1, <3>2 DEF At
  <2>14. CASE SaveSettings
    <3>1. job.pc = "save"
      BY <2>14 DEF SaveSettings, At
    <3>2. CASE job' = NoJob
      BY <2>a, <3>1, <3>2 DEF At
    <3>3. CASE job.op = "settings" /\ job' = Begin("reapply", EnableEntry(job.wish))
      <4>1. job'.op = "reapply" /\ job'.pc \in {"stub", "refresh"}
        BY <3>3, BeginType, EntryType DEF Ops, Steps
      <4>2. Ahead(job) = 14
        BY HeightIs, <3>1, <3>3 DEF Ahead
      <4>3. Height(job'.pc) = 12
        BY HeightIs, <4>1
      <4>4. Ahead(job') = 12
        BY <4>1, <4>3 DEF Ahead
      <4> QED
        BY <4>2, <4>4 DEF Nearer
    <3> QED
      BY <2>14, <3>2, <3>3 DEF SaveSettings
  <2> QED
    BY <2>1, <2>2, <2>3, <2>4, <2>5, <2>6, <2>7, <2>8, <2>9, <2>10, <2>11, <2>12,
       <2>13, <2>14 DEF Work
<1>2. [Work => Nearer(job, job')]_vars =>
        [Work => \/ Ahead(job') < Ahead(job)
                 \/ /\ Ahead(job') = Ahead(job)
                    /\ \/ Shrinks(job.todo, job'.todo)
                       \/ job'.todo = job.todo /\ Shrinks(job.adding, job'.adding)]_vars
  BY DEF Nearer
<1> QED
  BY <1>1, <1>2, TypeCorrect, PTL DEF Spec, OperationsEnd
=============================================================================
