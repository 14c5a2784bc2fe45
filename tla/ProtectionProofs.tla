--------------------------- MODULE ProtectionProofs ---------------------------
(***************************************************************************)
(* Type correctness, Recoverable and NothingLost for every instance of     *)
(* Protection.                                                             *)
(*                                                                         *)
(* None is inductive. A backup is deleted in three places, each sound for  *)
(* a reason that lies several steps back: the enable that fails made the   *)
(* backup itself (Untaken), or a restore without a warning has passed      *)
(* every slot (Returning, Returned). And what an operation still has to    *)
(* write is what its backup lists (Listed, Aimed). A list put back only in *)
(* part is still owed (Owed), so that no restore which stopped there counts*)
(* as complete. IInv is the conjunction.                                   *)
(***************************************************************************)
EXTENDS Protection, TLAPS

-----------------------------------------------------------------------------
(* The operation under way and its updates *)

\* NoJob, the job between operations, is well formed (App: no operation under way).
LEMMA NoJobType == NoJob \in Jobs /\ NoJob.pc = "idle" /\ NoJob.op = "none"
BY ProfileAssumption DEF NoJob, Jobs, Ops, Steps

\* A job that begins is well formed and keeps its operation and first step.
LEMMA BeginType ==
  ASSUME NEW o \in Ops, NEW p \in Steps
  PROVE  /\ Begin(o, p) \in Jobs
         /\ Begin(o, p).pc = p /\ Begin(o, p).op = o /\ Begin(o, p).result = "ok"
BY NoJobType DEF Begin, Jobs, NoJob

\* Goto keeps a job well formed and moves its step only.
LEMMA GotoType ==
  ASSUME job \in Jobs, NEW p \in Steps
  PROVE  /\ Goto(p) \in Jobs
         /\ p = "idle" => Goto(p) = NoJob
         /\ p # "idle" => /\ Goto(p).pc = p /\ Goto(p).op = job.op
                          /\ Goto(p).todo = job.todo /\ Goto(p).aim = job.aim
                          /\ Goto(p).adding = job.adding
                          /\ Goto(p).missing = job.missing
                          /\ Goto(p).claimed = job.claimed
                          /\ Goto(p).had = job.had
                          /\ Goto(p).result = job.result
BY NoJobType DEF Goto, Jobs

\* An enable begins with the stub or with a refresh (App::enable).
LEMMA EntryType ==
  ASSUME NEW w PROVE EnableEntry(w) \in {"stub", "refresh"}
BY DEF EnableEntry

\* Spending keeps the budget a function of naturals.
LEMMA SpendType ==
  ASSUME left \in [Kinds -> Nat], NEW k \in Kinds, Spend(k)
  PROVE  left' \in [Kinds -> Nat]
BY DEF Spend

\* DnsBackup::delete leaves well-formed, empty records.
LEMMA DeleteType ==
  ASSUME TypeOK, DeleteBackup
  PROVE  /\ onDisk' \in BOOLEAN /\ rows' \in [Slots -> Priors \cup {None}]
         /\ claims' \in SUBSET Servers /\ touched' \in SUBSET Slots
<1>1. onDisk' \in BOOLEAN
  BY DEF DeleteBackup
<1>2. rows' \in [Slots -> Priors \cup {None}]
  BY DEF DeleteBackup
<1>3. claims' \in SUBSET Servers
  BY DEF DeleteBackup
<1>4. touched' \in SUBSET Slots
  BY DEF DeleteBackup, TypeOK
<1> QED
  BY <1>1, <1>2, <1>3, <1>4

\* A deletion that fails leaves them as they are.
LEMMA DeletedType ==
  ASSUME TypeOK, Deleted
  PROVE  /\ onDisk' \in BOOLEAN /\ rows' \in [Slots -> Priors \cup {None}]
         /\ claims' \in SUBSET Servers /\ touched' \in SUBSET Slots
         /\ left' \in [Kinds -> Nat]
<1>1. CASE DeleteBackup /\ Free
  BY <1>1, DeleteType DEF Free, TypeOK
<1>2. CASE UNCHANGED <<backup, touched>> /\ Spend("fault")
  BY <1>2, SpendType DEF backup, TypeOK, Kinds
<1> QED
  BY <1>1, <1>2 DEF Deleted

\* What Settings::load falls back to is well formed.
LEMMA BlankType == Blank \in Settings
BY ProfileAssumption DEF Blank, Settings

\* A save that fails leaves a well-formed file, the old one or none.
LEMMA SaveFailsType ==
  ASSUME disk \in Settings, SaveFails, left \in [Kinds -> Nat]
  PROVE  disk' \in Settings /\ left' \in [Kinds -> Nat]
BY BlankType, SpendType DEF SaveFails, Kinds

\* What a restore makes of a slot, in whole or in part, is somebody's setting.
LEMMA HalfType ==
  ASSUME dns \in [Slots -> Priors \cup Ours], NEW s \in Slots,
         rows[s] \in Priors, UNCHANGED dns \/ HalfWritten(s)
  PROVE  /\ dns' \in [Slots -> Priors \cup Ours]
         /\ \A r \in Slots : dns'[r] = dns[r]
                           \/ (r = s /\ dns'[r] \in Heads[rows[s]] \cap Priors)
<1>1. CASE UNCHANGED dns
  BY <1>1
<1>2. CASE HalfWritten(s)
  <2>1. PICK h \in Heads[rows[s]] : dns' = [dns EXCEPT ![s] = h]
    BY <1>2 DEF HalfWritten
  <2>2. h \in Priors
    BY ConfigAssumption DEF Priors
  <2> QED
    BY <2>1, <2>2
<1> QED
  BY <1>1, <1>2

\* Settings::save keeps the file well formed, saved or not.
LEMMA SaveType ==
  ASSUME disk \in Settings, NEW new \in Settings, SaveUnchecked(new),
         left \in [Kinds -> Nat]
  PROVE  disk' \in Settings /\ left' \in [Kinds -> Nat]
BY SaveFailsType DEF SaveUnchecked, Free

-----------------------------------------------------------------------------
(* Types *)

\* An enable past its backup knows the address set it is about to write.
Aimed == job.pc \in {"claim", "add", "withdraw", "write"} => job.aim \in Sets

\* Every slot an operation still has to write is in the backup on disk.
Listed ==
  job.pc \in {"claim", "add", "withdraw", "write", "restore"} =>
    onDisk /\ \A s \in job.todo : rows[s] # None

\* The initial states are well typed.
LEMMA TypeInit == Init => TypeOK /\ Aimed
<1> SUFFICES ASSUME Init PROVE TypeOK /\ Aimed
  OBVIOUS
<1>1. dns \in [Slots -> Priors \cup Ours] /\ orig \in [Slots -> Priors]
  BY DEF Init
<1>2. PICK w \in Wishes : disk = [enabled |-> FALSE, want |-> w]
  BY DEF Init
<1>3. w \in Profiles
  BY ProfileAssumption
<1>4. disk \in Settings /\ mem \in Settings
  BY <1>2, <1>3, BlankType DEF Settings, Init
<1>5. TypeOK
  BY <1>1, <1>4, NoJobType, BudgetAssumption DEF Init, TypeOK
<1> QED
  BY <1>5 DEF Init, NoJob, Aimed

\* Every step keeps the types, given what the backup lists (one step per action).
LEMMA TypeNext == TypeOK /\ Aimed /\ Listed /\ [Next]_vars => TypeOK' /\ Aimed'
<1> SUFFICES ASSUME TypeOK, Aimed, Listed, [Next]_vars PROVE TypeOK' /\ Aimed'
  OBVIOUS
<1> USE DEF vars, machine, backup, process, history
<1>1. CASE EnsureStub
  <2>1. job' \in Jobs /\ job'.pc \in {"backup", "idle"}
    BY <1>1, GotoType, NoJobType DEF EnsureStub, TypeOK, Steps
  <2>2. left' \in [Kinds -> Nat]
    BY <1>1, SpendType DEF EnsureStub, TypeOK, Kinds, Free
  <2> QED
    BY <1>1, <2>1, <2>2 DEF EnsureStub, TypeOK, Aimed
<1>2. CASE RefreshEndpoints
  <2>1. job' \in Jobs /\ job'.pc = "backup"
    BY <1>2, GotoType DEF RefreshEndpoints, TypeOK, Steps
  <2> QED
    BY <1>2, <2>1 DEF RefreshEndpoints, TypeOK, Aimed, Free
<1>3. CASE BackUp
  <2>1. Preserved \in [Slots -> Priors \cup {None}]
    <3> SUFFICES ASSUME NEW s \in Slots, rows[s] = None
                 PROVE  Captured(dns[s]) \in Priors
      BY DEF TypeOK, Preserved
    <3> QED
      BY DEF TypeOK, Captured, Priors
  <2>2. rows' \in [Slots -> Priors \cup {None}] /\ onDisk' \in BOOLEAN
    BY <1>3, <2>1 DEF BackUp, TypeOK
  <2>3. left' \in [Kinds -> Nat]
    BY <1>3, SpendType DEF BackUp, TypeOK, Kinds, Free
  <2>4. job' \in Jobs /\ Aimed'
    <3>1. CASE job' = NoJob
      BY <3>1, NoJobType DEF Aimed, NoJob
    <3>2. CASE job' = [Goto(IF mem.want.mode = "stub" THEN "write" ELSE "claim")
                     EXCEPT !.had = onDisk, !.todo = Chosen \X Families,
                            !.aim = current]
      <4> DEFINE p == IF mem.want.mode = "stub" THEN "write" ELSE "claim"
      <4>1. Goto(p) \in Jobs
        BY GotoType DEF TypeOK, Steps
      <4>2. Chosen \X Families \in SUBSET Slots
        BY DEF Chosen, Slots
      <4> HIDE DEF p
      <4>3. job' \in Jobs
        BY <3>2, <4>1, <4>2 DEF TypeOK, Jobs, p
      <4>4. job'.aim = current
        BY <3>2, <4>1 DEF Jobs, p
      <4> QED
        BY <1>3, <4>3, <4>4 DEF Aimed, TypeOK, BackUp
    <3> QED
      BY <3>1, <3>2, <1>3 DEF BackUp
  <2> QED
    BY <1>3, <2>2, <2>3, <2>4 DEF BackUp, TypeOK
<1>4. CASE Claim
  <2>1. Members[job.aim] \in SUBSET Servers
    BY <1>4, ConfigAssumption DEF Claim, At, Aimed
  <2>2. left' \in [Kinds -> Nat]
    BY <1>4, SpendType DEF Claim, TypeOK, Kinds, Free
  <2>3. job' \in Jobs /\ Aimed'
    <3>1. CASE job' = NoJob
      BY <3>1, NoJobType DEF Aimed
    <3>2. CASE job' = [Goto("add") EXCEPT
                         !.adding = Members[job.aim] \ templates,
                         !.missing = Members[job.aim] \ templates,
                         !.claimed = (Members[job.aim] \ templates) \ claims]
      <4>1. Goto("add") \in Jobs /\ Goto("add").aim = job.aim
        BY GotoType DEF TypeOK, Steps
      <4>2. job' \in Jobs
        BY <2>1, <3>2, <4>1 DEF Jobs
      <4>3. job'.aim = job.aim
        BY <3>2, <4>1 DEF Jobs
      <4> QED
        BY <1>4, <4>2, <4>3 DEF Aimed, Claim, At
    <3> QED
      BY <1>4, <3>1, <3>2 DEF Claim
  <2>4. /\ onDisk' \in BOOLEAN /\ rows' \in [Slots -> Priors \cup {None}]
        /\ claims' \in SUBSET Servers /\ touched' \in SUBSET Slots
    BY <1>4, <2>1, DeleteType DEF Claim, TypeOK
  <2> QED
    BY <1>4, <2>2, <2>3, <2>4 DEF Claim, TypeOK
<1>5. ASSUME NEW t \in Servers, AddTemplate(t) PROVE TypeOK' /\ Aimed'
  <2>1. left' \in [Kinds -> Nat]
    BY <1>5, SpendType DEF AddTemplate, TypeOK, Kinds, Free
  <2>2. job' \in Jobs /\ job'.aim = job.aim
    <3>1. CASE job' = [job EXCEPT !.adding = @ \ {t}]
      BY <3>1 DEF Jobs, TypeOK
    <3>2. CASE job' = [Goto("withdraw") EXCEPT !.adding = job.missing]
      <4>1. Goto("withdraw") \in Jobs /\ Goto("withdraw").aim = job.aim
        BY GotoType DEF TypeOK, Steps
      <4> QED
        BY <3>2, <4>1 DEF Jobs, TypeOK
    <3> QED
      BY <1>5, <3>1, <3>2 DEF AddTemplate
  <2> QED
    BY <1>5, <2>1, <2>2 DEF AddTemplate, TypeOK, Aimed, At
<1>6. CASE TemplatesAdded
  <2>1. job' \in Jobs /\ job'.aim = job.aim
    BY <1>6, GotoType DEF TemplatesAdded, TypeOK, Steps
  <2> QED
    BY <1>6, <2>1 DEF TemplatesAdded, TypeOK, Aimed, At, Free
<1>7. ASSUME NEW t \in Servers, WithdrawTemplate(t) PROVE TypeOK' /\ Aimed'
  <2>1. left' \in [Kinds -> Nat]
    BY <1>7, SpendType DEF WithdrawTemplate, TypeOK, Kinds, Free
  <2>2. job' \in Jobs /\ job'.aim = job.aim
    <3>1. CASE job' = [job EXCEPT !.adding = @ \ {t}]
      BY <3>1 DEF Jobs, TypeOK
    <3>2. CASE job' = [job EXCEPT !.adding = @ \ {t}, !.claimed = @ \ {t}]
      BY <3>2 DEF Jobs, TypeOK
    <3> QED
      BY <1>7, <3>1, <3>2 DEF WithdrawTemplate
  <2> QED
    BY <1>7, <2>1, <2>2 DEF WithdrawTemplate, TypeOK, Aimed, At
<1>8. CASE WithdrawClaims
  <2>1. /\ onDisk' \in BOOLEAN /\ rows' \in [Slots -> Priors \cup {None}]
        /\ claims' \in SUBSET Servers /\ touched' \in SUBSET Slots
        /\ left' \in [Kinds -> Nat]
    <3>1. CASE Deleted
      BY <3>1, DeletedType
    <3>2. CASE /\ UNCHANGED <<onDisk, rows, touched>>
               /\ \/ claims' = claims \ job.claimed /\ Free
                  \/ UNCHANGED claims /\ Spend("fault")
      BY <3>2, SpendType DEF TypeOK, Kinds, Free
    <3> QED
      BY <1>8, <3>1, <3>2 DEF WithdrawClaims
  <2> QED
    BY <1>8, <2>1, NoJobType DEF WithdrawClaims, TypeOK, Aimed
<1>9. ASSUME NEW s \in Slots, WriteAdapter(s) PROVE TypeOK' /\ Aimed'
  <2>1. left' \in [Kinds -> Nat]
    BY <1>9, SpendType DEF WriteAdapter, TypeOK, Kinds, Free
  <2>2. Target(s[2]) \in Ours
    BY <1>9 DEF WriteAdapter, At, Aimed, Target, Ours
  <2>3. dns' \in [Slots -> Priors \cup Ours]
    BY <1>9, <2>2 DEF WriteAdapter, TypeOK
  <2>4. job' \in Jobs /\ job'.aim = job.aim
    <3> DEFINE p == IF s[2] = "v4" THEN "load" ELSE "write"
    <3>1. Goto(p) \in Jobs /\ Goto(p).aim = job.aim
      BY GotoType DEF TypeOK, Steps
    <3> HIDE DEF p
    <3>2. CASE job' = [job EXCEPT !.todo = @ \ {s}]
      BY <3>2 DEF Jobs, TypeOK
    <3>3. CASE job' = [Goto(p) EXCEPT !.todo = @ \ {s}]
      BY <3>1, <3>3 DEF Jobs
    <3> QED
      BY <1>9, <3>2, <3>3 DEF WriteAdapter, p
  <2> QED
    BY <1>9, <2>1, <2>3, <2>4 DEF WriteAdapter, TypeOK, Aimed, At
<1>10. CASE Applied
  <2>1. [mem EXCEPT !.enabled = TRUE] \in Settings
    BY DEF TypeOK, Settings
  <2>2. disk' \in Settings /\ left' \in [Kinds -> Nat]
    BY <1>10, <2>1, SaveType DEF Applied, TypeOK
  <2>3. applied' \in Sets \cup {None}
    BY <1>10 DEF Applied, Aimed, At
  <2> QED
    BY <1>10, <2>1, <2>2, <2>3, NoJobType DEF Applied, TypeOK, Aimed
<1>11. CASE LoadBackup
  <2>1. job' \in Jobs /\ job'.pc \in {"restore", "idle", "quiet", "forget"}
    <3>1. CASE onDisk
      <4>1. Goto("restore") \in Jobs /\ Goto("restore").pc = "restore"
        BY GotoType DEF TypeOK, Steps
      <4> QED
        BY <1>11, <3>1, <4>1 DEF LoadBackup, Jobs, TypeOK
    <3>2. CASE ~onDisk /\ AfterRestore = "idle"
      BY <1>11, <3>2, NoJobType DEF LoadBackup
    <3>3. CASE ~onDisk /\ AfterRestore # "idle"
      <4>1. AfterRestore \in {"forget", "quiet"}
        BY <3>3 DEF AfterRestore
      <4>2. Goto(AfterRestore) \in Jobs /\ Goto(AfterRestore).pc = AfterRestore
        BY <4>1, GotoType DEF TypeOK, Steps
      <4>3. job' = [Goto(AfterRestore) EXCEPT !.result = "err"]
        BY <1>11, <3>3 DEF LoadBackup
      <4> QED
        BY <4>1, <4>2, <4>3 DEF Jobs
    <3> QED
      BY <3>1, <3>2, <3>3
  <2> QED
    BY <1>11, <2>1 DEF LoadBackup, TypeOK, Aimed, Free
<1>12. ASSUME NEW s \in Slots, RestoreSlot(s) PROVE TypeOK' /\ Aimed'
  <2>1. left' \in [Kinds -> Nat]
    BY <1>12, SpendType DEF RestoreSlot, TypeOK, Kinds, Free
  <2>2. rows[s] \in Priors
    BY <1>12 DEF RestoreSlot, Turn, At, Listed, TypeOK
  <2>3. dns' \in [Slots -> Priors \cup Ours]
    <3>1. CASE dns' = [dns EXCEPT ![s] = rows[s]]
      BY <2>2, <3>1 DEF TypeOK
    <3>2. CASE UNCHANGED dns \/ HalfWritten(s)
      BY <2>2, <3>2, HalfType DEF TypeOK
    <3> QED
      BY <1>12, <3>1, <3>2 DEF RestoreSlot
  <2>4. job' \in Jobs /\ job'.pc = "restore"
    <3>1. CASE job' = [job EXCEPT !.todo = @ \ {s}]
      BY <1>12, <3>1 DEF Jobs, TypeOK, RestoreSlot, At
    <3>2. CASE job' = [job EXCEPT !.todo = @ \ {s}, !.result = "warn"]
      BY <1>12, <3>2 DEF Jobs, TypeOK, RestoreSlot, At
    <3> QED
      BY <1>12, <3>1, <3>2 DEF RestoreSlot
  <2> QED
    BY <1>12, <2>1, <2>3, <2>4 DEF RestoreSlot, TypeOK, Aimed
<1>13. ASSUME NEW t \in Servers, RemoveTemplate(t) PROVE TypeOK' /\ Aimed'
  <2>1. left' \in [Kinds -> Nat]
    BY <1>13, SpendType DEF RemoveTemplate, TypeOK, Kinds, Free
  <2>2. job' \in Jobs /\ job'.pc = "restore"
    <3>1. CASE job' = [job EXCEPT !.adding = @ \ {t}]
      BY <1>13, <3>1 DEF Jobs, TypeOK, RemoveTemplate, At
    <3>2. CASE job' = [job EXCEPT !.adding = @ \ {t}, !.result = "warn"]
      BY <1>13, <3>2 DEF Jobs, TypeOK, RemoveTemplate, At
    <3> QED
      BY <1>13, <3>1, <3>2 DEF RemoveTemplate
  <2> QED
    BY <1>13, <2>1, <2>2 DEF RemoveTemplate, TypeOK, Aimed
<1>14. CASE Restored
  <2>1. AfterRestore \in {"forget", "quiet", "idle"}
    BY DEF AfterRestore
  <2>2. job' \in Jobs /\ job'.pc \in {"forget", "quiet", "idle"}
    BY <1>14, <2>1, GotoType, NoJobType DEF Restored, TypeOK, Steps
  <2> QED
    BY <1>14, <2>2 DEF Restored, TypeOK, Aimed, Free
<1>15. CASE StopStub
  <2>1. job' \in Jobs /\ job'.pc \in {"off", "idle"}
    BY <1>15, GotoType, NoJobType DEF StopStub, TypeOK, Steps
  <2> QED
    BY <1>15, <2>1 DEF StopStub, TypeOK, Aimed, Free
<1>16. CASE TurnOff
  <2>1. [mem EXCEPT !.enabled = FALSE] \in Settings
    BY DEF TypeOK, Settings
  <2>2. disk' \in Settings /\ left' \in [Kinds -> Nat]
    BY <1>16, <2>1, SaveType DEF TurnOff, TypeOK
  <2>3. job' \in Jobs /\ job'.pc = "forget"
    BY <1>16, GotoType DEF TurnOff, TypeOK, Steps
  <2> QED
    BY <1>16, <2>1, <2>2, <2>3 DEF TurnOff, TypeOK, Aimed
<1>17. CASE Forget
  <2>1. job' \in Jobs /\ job'.pc \in {"save", "idle"}
    BY <1>17, GotoType, NoJobType DEF Forget, TypeOK, Steps
  <2>2. /\ onDisk' \in BOOLEAN /\ rows' \in [Slots -> Priors \cup {None}]
        /\ claims' \in SUBSET Servers /\ touched' \in SUBSET Slots
        /\ left' \in [Kinds -> Nat]
    <3>1. CASE Deleted
      BY <3>1, DeletedType
    <3>2. CASE UNCHANGED <<backup, touched>> /\ Free
      BY <3>2 DEF TypeOK, Free
    <3> QED
      BY <1>17, <3>1, <3>2 DEF Forget
  <2> QED
    BY <1>17, <2>1, <2>2 DEF Forget, TypeOK, Aimed
<1>18. CASE SaveSettings
  <2>1. [mem EXCEPT !.want = job.wish] \in Settings
    BY DEF TypeOK, Settings, Jobs
  <2>2. left' \in [Kinds -> Nat] /\ disk' \in Settings
    <3>1. CASE SaveFails
      BY <3>1, SaveFailsType DEF TypeOK
    <3>2. CASE disk' = [mem EXCEPT !.want = job.wish] /\ Free
      BY <2>1, <3>2 DEF TypeOK, Free
    <3> QED
      BY <1>18, <3>1, <3>2 DEF SaveSettings
  <2>3. Begin("reapply", EnableEntry(job.wish)) \in Jobs
        /\ Begin("reapply", EnableEntry(job.wish)).pc \in {"stub", "refresh"}
    BY EntryType, BeginType DEF Ops, Steps
  <2>4. job' \in Jobs /\ job'.pc \in {"stub", "refresh", "idle"}
    BY <1>18, <2>3, NoJobType DEF SaveSettings
  <2> QED
    BY <1>18, <2>1, <2>2, <2>4 DEF SaveSettings, TypeOK, Aimed
<1>19. ASSUME NEW j \in Jobs, Request(j), j.pc \in {"stub", "refresh", "load", "save"}
       PROVE  TypeOK' /\ Aimed'
  <2>1. left' \in [Kinds -> Nat]
    BY <1>19, SpendType DEF Request, TypeOK, Kinds
  <2> QED
    BY <1>19, <2>1 DEF Request, TypeOK, Aimed
<1>20. CASE Enable
  <2> DEFINE j == Begin("enable", EnableEntry(mem.want))
  <2>1. j \in Jobs /\ j.pc \in {"stub", "refresh"}
    BY EntryType, BeginType DEF Ops, Steps
  <2> QED
    BY <1>19, <1>20, <2>1 DEF Enable
<1>21. CASE Disable
  <2>1. Begin("disable", "load") \in Jobs /\ Begin("disable", "load").pc = "load"
    BY BeginType DEF Ops, Steps
  <2> QED
    BY <1>19, <1>21, <2>1 DEF Disable
<1>22. ASSUME NEW w \in Wishes, SetSettings(w) PROVE TypeOK' /\ Aimed'
  <2> DEFINE begin == IF enabled /\ w # mem.want THEN Begin("settings", "load")
                                                  ELSE Begin("store", "save")
  <2> DEFINE j == [begin EXCEPT !.wish = w]
  <2>1. begin \in Jobs /\ begin.pc \in {"load", "save"}
    BY BeginType DEF Ops, Steps
  <2>2. w \in Profiles
    BY ProfileAssumption
  <2>3. Request(j)
    BY <1>22 DEF SetSettings
  <2> HIDE DEF begin
  <2>4. j \in Jobs /\ j.pc = begin.pc
    BY <2>1, <2>2 DEF Jobs
  <2> HIDE DEF j
  <2> QED
    BY <1>19, <2>1, <2>3, <2>4
<1>23. ASSUME NEW o \in Ops, NEW p \in Steps, Pass(o, p), p \in {"stub", "refresh", "backup"}
       PROVE  TypeOK' /\ Aimed'
  <2>1. Begin(o, p) \in Jobs /\ Begin(o, p).pc = p
    BY BeginType
  <2> QED
    BY <1>23, <2>1 DEF Pass, TypeOK, Aimed, Free
<1>24. CASE Guard
  <2>1. EnableEntry(mem.want) \in Steps /\ EnableEntry(mem.want) \in {"stub", "refresh"}
    BY EntryType DEF Steps
  <2>2. "guard" \in Ops
    BY DEF Ops
  <2> QED
    BY <1>23, <1>24, <2>1, <2>2 DEF Guard
<1>25. CASE FollowEndpoints
  <2>1. "follow" \in Ops /\ "backup" \in Steps
    BY DEF Ops, Steps
  <2> QED
    BY <1>23, <1>25, <2>1 DEF FollowEndpoints
<1>26. CASE StopRequest
  BY <1>26 DEF StopRequest, TypeOK, Aimed
<1>27. CASE OnStop
  <2> DEFINE p == IF enabled THEN "load" ELSE "quiet"
  <2>1. Begin("stop", p) \in Jobs /\ Begin("stop", p).pc = p
    BY BeginType DEF Ops, Steps
  <2> QED
    BY <1>27, <2>1 DEF OnStop, TypeOK, Aimed
<1>28. CASE Start
  <2>1. job' \in Jobs /\ Aimed'
    <3>1. CASE job' = Begin("boot", EnableEntry(disk.want))
      <4>1. EnableEntry(disk.want) \in Steps /\ EnableEntry(disk.want) \in {"stub", "refresh"}
        BY EntryType DEF Steps
      <4> QED
        BY <3>1, <4>1, BeginType DEF Ops, Aimed
    <3>2. CASE job' = Begin("recover", "load")
      BY <3>2, BeginType DEF Ops, Steps, Aimed
    <3>3. CASE UNCHANGED job
      BY <3>3 DEF TypeOK, Aimed
    <3> QED
      BY <1>28, <3>1, <3>2, <3>3 DEF Start
  <2> QED
    BY <1>28, <2>1 DEF Start, TypeOK
<1>29. ASSUME Gone, dns' \in [Slots -> Priors \cup Ours], disk' \in Settings,
              left' \in [Kinds -> Nat]
       PROVE  TypeOK' /\ Aimed'
  BY <1>29, BlankType, NoJobType DEF Gone, TypeOK, Aimed
<1>30. CASE Exit
  BY <1>29, <1>30 DEF Exit, TypeOK
<1>31. CASE Crash
  <2>1. left' \in [Kinds -> Nat]
    BY <1>31, SpendType DEF Crash, TypeOK, Kinds
  <2>2. dns' \in [Slots -> Priors \cup Ours]
    <3>1. CASE UNCHANGED dns
      BY <3>1 DEF TypeOK
    <3>2. ASSUME NEW s \in Slots, At("restore"), Turn(s), HalfWritten(s)
          PROVE  dns' \in [Slots -> Priors \cup Ours]
      <4>1. rows[s] \in Priors
        BY <3>2 DEF Turn, At, Listed, TypeOK
      <4> QED
        BY <3>2, <4>1, HalfType DEF TypeOK
    <3> QED
      BY <1>31, <3>1, <3>2 DEF Crash
  <2> QED
    BY <1>29, <1>31, <2>1, <2>2, BlankType DEF Crash, TypeOK
<1>32. ASSUME NEW s \in Slots, NEW c \in Priors, OthersWrite(s, c) PROVE TypeOK' /\ Aimed'
  <2>1. left' \in [Kinds -> Nat]
    BY <1>32, SpendType DEF OthersWrite, TypeOK, Kinds
  <2>2. dns' \in [Slots -> Priors \cup Ours] /\ orig' \in [Slots -> Priors]
    BY <1>32 DEF OthersWrite, TypeOK
  <2>3. touched' \in SUBSET Slots
    BY <1>32 DEF OthersWrite, TypeOK
  <2> QED
    BY <1>32, <2>1, <2>2, <2>3 DEF OthersWrite, TypeOK, Aimed
<1>33. ASSUME NEW t \in Servers, OthersAddTemplate(t) PROVE TypeOK' /\ Aimed'
  BY <1>33, SpendType DEF OthersAddTemplate, TypeOK, Aimed, Kinds
<1>34. ASSUME NEW a \in Adapters, NEW l \in {"up", "idle", "absent"}, LinkChange(a, l)
       PROVE  TypeOK' /\ Aimed'
  BY <1>34, SpendType DEF LinkChange, TypeOK, Aimed, Kinds
<1>35. ASSUME NEW m \in Sets, Learn(m) PROVE TypeOK' /\ Aimed'
  BY <1>35, SpendType DEF Learn, TypeOK, Aimed, Kinds
<1>36. CASE UNCHANGED vars
  BY <1>36 DEF TypeOK, Aimed
<1> QED
  BY <1>1, <1>2, <1>3, <1>4, <1>5, <1>6, <1>7, <1>8, <1>9, <1>10, <1>11, <1>12,
     <1>13, <1>14, <1>15, <1>16, <1>17, <1>18, <1>20, <1>21, <1>22, <1>24,
     <1>25, <1>26, <1>27, <1>28, <1>30, <1>31, <1>32, <1>33, <1>34, <1>35, <1>36
     DEF Next, Work, Requests, Lifecycle, Environment

-----------------------------------------------------------------------------
(* Adapters *)

\* A slot is owed a revert: it holds a setting of ours, or something else than
\* was last chosen there although nobody wrote behind the backup's back.
Owed(s) == dns[s] \in Ours \/ (s \notin touched /\ dns[s] # orig[s])

\* Nothing is owed.
Clear == \A s \in Slots : ~Owed(s)

\* An enable that made the backup has not touched an adapter before it writes.
Untaken ==
  job.pc \in {"claim", "add", "withdraw"} /\ ~job.had => Clear

\* A restore without a warning has put back whole what it has passed.
Returning ==
  job.pc = "restore" /\ job.result = "ok" =>
    \A s \in Slots : Owed(s) => s \in job.todo

\* What follows a restore without a warning finds nothing owed. A stop
\* that restores nothing (quiet, op "stop") never comes to a deletion.
Returned ==
  job.result = "ok" /\ (job.pc \in {"off", "forget"}
                        \/ (job.pc = "quiet" /\ job.op # "stop")) => Clear

AddressInv ==
  Listed /\ Recoverable /\ NothingLost /\ Untaken /\ Returning /\ Returned

\* A restore leaves a recorded slot as it was, or writes its row, in whole or in part.
LEMMA RestoreWrites ==
  ASSUME TypeOK, Listed, NEW s \in Slots, RestoreSlot(s)
  PROVE  /\ rows[s] \in Priors /\ onDisk /\ rows[s] # None
         /\ dns' \in [Slots -> Priors \cup Ours]
         /\ \A q \in Slots :
              \/ dns'[q] = dns[q]
              \/ q = s /\ dns'[q] = rows[s]
              \/ q = s /\ dns'[q] \in Heads[rows[s]] \cap Priors
<1>1. rows[s] \in Priors /\ onDisk /\ rows[s] # None
  BY DEF RestoreSlot, Turn, At, Listed, TypeOK
<1>d. dns \in [Slots -> Priors \cup Ours]
  BY DEF TypeOK
<1>2. CASE dns' = [dns EXCEPT ![s] = rows[s]]
  BY <1>1, <1>2, <1>d
<1>3. CASE UNCHANGED dns \/ HalfWritten(s)
  BY <1>1, <1>3, <1>d, HalfType
<1> QED
  BY <1>1, <1>2, <1>3 DEF RestoreSlot

\* A crash changes an adapter only where it cuts a restore.
LEMMA CrashWrites ==
  ASSUME TypeOK, Listed, Crash
  PROVE  \A q \in Slots :
           \/ dns'[q] = dns[q]
           \/ /\ dns'[q] \in Heads[rows[q]] \cap Priors
              /\ onDisk /\ rows[q] # None
<1>1. CASE UNCHANGED dns
  BY <1>1
<1>2. ASSUME NEW s \in Slots, At("restore"), Turn(s), HalfWritten(s)
      PROVE  \A q \in Slots :
               \/ dns'[q] = dns[q]
               \/ /\ dns'[q] \in Heads[rows[q]] \cap Priors
                  /\ onDisk /\ rows[q] # None
  <2>1. rows[s] \in Priors /\ onDisk /\ rows[s] # None
    BY <1>2 DEF Turn, At, Listed, TypeOK
  <2> QED
    BY <1>2, <2>1, HalfType DEF TypeOK
<1> QED
  BY <1>1, <1>2 DEF Crash

\* Initially nothing of ours is anywhere.
LEMMA AddressInit == Init => AddressInv
<1> SUFFICES ASSUME Init PROVE AddressInv
  OBVIOUS
<1>1. job.pc = "idle"
  BY NoJobType DEF Init
<1>2. Recoverable /\ NothingLost
  BY ConfigAssumption DEF Init, Recoverable, NothingLost
<1> QED
  BY <1>1, <1>2 DEF AddressInv, Listed, Untaken, Returning, Returned

\* Every step keeps the invariant about adapters and backup (one step per action).
LEMMA AddressNext ==
  TypeOK /\ TypeOK' /\ Aimed /\ AddressInv /\ [Next]_vars => AddressInv'
<1> SUFFICES ASSUME TypeOK, TypeOK', Aimed, AddressInv, [Next]_vars
             PROVE  AddressInv'
  OBVIOUS
<1> USE DEF vars, machine, backup, process, history
<1> DEFINE Calm == {"idle", "stub", "refresh", "backup", "load", "save"}
<1> DEFINE same == <<dns, onDisk, rows, orig, touched>>
<1>a. ASSUME job'.pc \in Calm, Recoverable', NothingLost' PROVE AddressInv'
  BY <1>a DEF AddressInv, Listed, Untaken, Returning, Returned
<1>b. ASSUME UNCHANGED same PROVE Recoverable' /\ NothingLost'
  BY <1>b DEF AddressInv, Recoverable, NothingLost, Ours
<1>c. ASSUME UNCHANGED same, job'.pc \in Calm PROVE AddressInv'
  BY <1>a, <1>b, <1>c
<1>d. ASSUME UNCHANGED same, UNCHANGED job PROVE AddressInv'
  BY <1>b, <1>d DEF AddressInv, Listed, Untaken, Returning, Returned, Clear, Owed, Ours
<1>e. ASSUME Clear, DeleteBackup, UNCHANGED <<dns, orig>>
      PROVE  Recoverable' /\ NothingLost'
  <2>1. Recoverable'
    BY <1>e DEF Recoverable, Clear, Owed, Ours
  <2>2. ASSUME NEW s \in Slots, s \notin touched' PROVE rows'[s] = None /\ dns[s] = orig[s]
    BY <1>e, <2>2 DEF DeleteBackup, Clear, Owed
  <2> QED
    BY <1>e, <2>1, <2>2 DEF NothingLost
<1>f. NoJob.pc \in Calm
  BY NoJobType
<1>1. CASE EnsureStub
  <2>1. job'.pc \in Calm
    BY <1>1, <1>f, GotoType DEF EnsureStub, TypeOK, Steps
  <2> QED
    BY <1>1, <1>c, <2>1 DEF EnsureStub
<1>2. CASE RefreshEndpoints
  <2>1. job'.pc \in Calm
    BY <1>2, GotoType DEF RefreshEndpoints, TypeOK, Steps
  <2> QED
    BY <1>2, <1>c, <2>1 DEF RefreshEndpoints
<1>3. CASE BackUp
  <2>1. CASE job' = NoJob /\ UNCHANGED same
    BY <1>3, <1>c, <1>f, <2>1 DEF BackUp
  <2>2. CASE /\ onDisk' = TRUE /\ rows' = Preserved
             /\ job' = [Goto(IF mem.want.mode = "stub" THEN "write" ELSE "claim")
                          EXCEPT !.had = onDisk, !.todo = Chosen \X Families,
                                 !.aim = current]
    <3> DEFINE p == IF mem.want.mode = "stub" THEN "write" ELSE "claim"
    <3>1. Goto(p) \in Jobs /\ Goto(p).pc = p /\ p \in {"write", "claim"}
      BY GotoType DEF TypeOK, Steps
    <3> HIDE DEF p
    <3>2. job'.pc = p /\ job'.had = onDisk /\ job'.todo = Chosen \X Families
      BY <2>2, <3>1 DEF Jobs, p
    <3>3. Recoverable'
      <4> SUFFICES ASSUME NEW s \in Slots, dns[s] \in Ours
                   PROVE  Preserved[s] \in Priors
        BY <1>3, <2>2 DEF BackUp, Recoverable
      <4>1. rows[s] \in Priors
        BY DEF AddressInv, Recoverable
      <4> QED
        BY <4>1, ConfigAssumption DEF Preserved
    <3>4. Listed'
      <4> SUFFICES ASSUME NEW s \in Chosen \X Families
                   PROVE  Preserved[s] # None
        BY <2>2, <3>2 DEF Listed
      <4>1. s \in Slots /\ s[1] \in Chosen
        BY DEF Slots, Chosen
      <4>2. Captured(dns[s]) # None
        BY <4>1, ConfigAssumption DEF Captured, TypeOK, Priors
      <4> QED
        BY <4>1, <4>2 DEF Preserved
    <3>5. Untaken'
      <4> SUFFICES ASSUME ~onDisk PROVE Clear
        BY <1>3, <3>2 DEF Untaken, Clear, Owed, Ours, BackUp
      <4> QED
        BY DEF AddressInv, Recoverable, NothingLost, Clear, Owed
    <3>6. NothingLost'
      <4> SUFFICES ASSUME NEW s \in Slots, s \notin touched
                   PROVE  /\ Preserved[s] # None => Preserved[s] = orig[s]
                          /\ \/ dns[s] \in Ours \cup {orig[s]}
                             \/ dns[s] \in Heads[orig[s]] /\ Preserved[s] # None
        BY <1>3, <2>2 DEF BackUp, NothingLost, Ours
      <4>1. CASE rows[s] # None
        BY <4>1 DEF AddressInv, NothingLost, Preserved
      <4>2. CASE rows[s] = None
        <5>1. dns[s] \notin Ours
          BY <4>2, ConfigAssumption DEF AddressInv, Recoverable
        <5>2. dns[s] = orig[s] /\ Captured(dns[s]) = orig[s]
          BY <4>2, <5>1 DEF AddressInv, NothingLost, Captured
        <5> QED
          BY <4>2, <5>2 DEF Preserved
      <4> QED
        BY <4>1, <4>2
    <3> QED
      BY <3>1, <3>2, <3>3, <3>4, <3>5, <3>6 DEF AddressInv, Returning, Returned
  <2> QED
    BY <1>3, <2>1, <2>2 DEF BackUp
<1>4. CASE Claim
  <2>1. CASE job' = NoJob /\ UNCHANGED <<backup, touched>>
    BY <1>4, <1>c, <1>f, <2>1 DEF Claim
  <2>2. CASE job' = NoJob /\ ~job.had /\ DeleteBackup
    <3>1. Clear
      BY <1>4, <2>2 DEF Claim, At, AddressInv, Untaken
    <3> QED
      BY <1>4, <1>a, <1>e, <1>f, <2>2, <3>1 DEF Claim
  <2>3. CASE /\ job' = [Goto("add") EXCEPT
                         !.adding = Members[job.aim] \ templates,
                         !.missing = Members[job.aim] \ templates,
                         !.claimed = (Members[job.aim] \ templates) \ claims]
             /\ UNCHANGED <<onDisk, rows, touched>>
    <3>1. /\ Goto("add") \in Jobs /\ Goto("add").pc = "add"
          /\ Goto("add").todo = job.todo /\ Goto("add").had = job.had
      BY GotoType DEF TypeOK, Steps
    <3>2. job'.pc = "add" /\ job'.todo = job.todo /\ job'.had = job.had
      BY <2>3, <3>1 DEF Jobs
    <3> QED
      BY <1>4, <1>b, <2>3, <3>2 DEF Claim, At, AddressInv, Listed, Untaken,
                                    Returning, Returned, Clear, Owed, Ours
  <2> QED
    BY <1>4, <2>1, <2>2, <2>3 DEF Claim
<1>5. ASSUME NEW t \in Servers, AddTemplate(t) PROVE AddressInv'
  <2>1. /\ job'.pc \in {"add", "withdraw"}
        /\ job'.todo = job.todo /\ job'.had = job.had
    <3>1. CASE job' = [job EXCEPT !.adding = @ \ {t}]
      BY <1>5, <3>1 DEF AddTemplate, At, TypeOK, Jobs
    <3>2. CASE job' = [Goto("withdraw") EXCEPT !.adding = job.missing]
      <4>1. /\ Goto("withdraw") \in Jobs /\ Goto("withdraw").pc = "withdraw"
            /\ Goto("withdraw").todo = job.todo /\ Goto("withdraw").had = job.had
        BY GotoType DEF TypeOK, Steps
      <4> QED
        BY <3>2, <4>1 DEF Jobs
    <3> QED
      BY <1>5, <3>1, <3>2 DEF AddTemplate
  <2> QED
    BY <1>5, <1>b, <2>1 DEF AddTemplate, At, AddressInv, Listed, Untaken,
                            Returning, Returned, Clear, Owed, Ours
<1>6. CASE TemplatesAdded
  <2>1. job'.pc = "write" /\ job'.todo = job.todo
    BY <1>6, GotoType DEF TemplatesAdded, TypeOK, Steps
  <2> QED
    BY <1>6, <1>b, <2>1 DEF TemplatesAdded, At, AddressInv, Listed, Untaken,
                            Returning, Returned
<1>7. ASSUME NEW t \in Servers, WithdrawTemplate(t) PROVE AddressInv'
  <2>1. job'.pc = job.pc /\ job'.todo = job.todo /\ job'.had = job.had
    <3>1. CASE job' = [job EXCEPT !.adding = @ \ {t}]
      BY <3>1 DEF Jobs, TypeOK
    <3>2. CASE job' = [job EXCEPT !.adding = @ \ {t}, !.claimed = @ \ {t}]
      BY <3>2 DEF Jobs, TypeOK
    <3> QED
      BY <1>7, <3>1, <3>2 DEF WithdrawTemplate
  <2> QED
    BY <1>7, <1>b, <2>1 DEF WithdrawTemplate, At, AddressInv, Listed, Untaken,
                            Returning, Returned, Clear, Owed, Ours
<1>8. CASE WithdrawClaims
  <2>1. CASE UNCHANGED <<onDisk, rows, touched>>
    BY <1>8, <1>c, <1>f, <2>1 DEF WithdrawClaims
  <2>2. CASE ~job.had /\ DeleteBackup
    <3>1. Clear
      BY <1>8, <2>2 DEF WithdrawClaims, At, AddressInv, Untaken
    <3> QED
      BY <1>8, <1>a, <1>e, <1>f, <2>2, <3>1 DEF WithdrawClaims
  <2> QED
    BY <1>8, <2>1, <2>2 DEF WithdrawClaims, Deleted
<1>9. ASSUME NEW s \in Slots, WriteAdapter(s) PROVE AddressInv'
  <2>1. job'.pc \in {"write", "load"} /\ job'.todo = job.todo \ {s}
    <3> DEFINE p == IF s[2] = "v4" THEN "load" ELSE "write"
    <3>1. Goto(p) \in Jobs /\ Goto(p).todo = job.todo /\ Goto(p).pc = p
      BY GotoType DEF TypeOK, Steps
    <3> HIDE DEF p
    <3>2. CASE job' = [job EXCEPT !.todo = @ \ {s}]
      BY <1>9, <3>2 DEF Jobs, TypeOK, WriteAdapter, At
    <3>3. CASE job' = [Goto(p) EXCEPT !.todo = @ \ {s}]
      BY <3>1, <3>3 DEF Jobs, p
    <3> QED
      BY <1>9, <3>2, <3>3 DEF WriteAdapter, p
  <2>2. onDisk /\ rows[s] \in Priors
    BY <1>9 DEF WriteAdapter, At, Turn, AddressInv, Listed, TypeOK
  <2>3. Recoverable'
    BY <1>9, <2>2 DEF WriteAdapter, AddressInv, Recoverable, TypeOK
  <2>4. NothingLost'
    <3>1. Target(s[2]) \in Ours
      BY <1>9 DEF WriteAdapter, At, Aimed, Target, Ours
    <3>2. \A q \in Slots : dns'[q] = dns[q] \/ dns'[q] \in Ours
      BY <1>9, <3>1 DEF WriteAdapter, TypeOK
    <3> QED
      BY <1>9, <3>2 DEF WriteAdapter, AddressInv, NothingLost, Ours
  <2> QED
    BY <1>9, <2>1, <2>3, <2>4 DEF WriteAdapter, At, AddressInv, Listed, Untaken,
                            Returning, Returned
<1>10. CASE Applied
  BY <1>10, <1>c, <1>f DEF Applied
<1>11. CASE LoadBackup
  <2>1. CASE onDisk
    <3>1. Goto("restore") \in Jobs /\ Goto("restore").pc = "restore"
      BY GotoType DEF TypeOK, Steps
    <3>2. job'.pc = "restore" /\ job'.todo = {s \in Slots : rows[s] # None}
      BY <1>11, <2>1, <3>1 DEF LoadBackup, Jobs
    <3>3. Returning'
      BY <1>11, <3>2, ConfigAssumption
         DEF Returning, AddressInv, Recoverable, NothingLost, LoadBackup, Owed, Ours
    <3>4. Listed'
      BY <1>11, <2>1, <3>2 DEF Listed, LoadBackup
    <3> QED
      BY <1>11, <1>b, <3>2, <3>3, <3>4 DEF LoadBackup, AddressInv, Untaken, Returned
  <2>2. CASE ~onDisk /\ AfterRestore = "idle"
    BY <1>11, <1>c, <1>f, <2>2 DEF LoadBackup
  <2>3. CASE ~onDisk /\ AfterRestore # "idle"
    <3>1. AfterRestore \in {"forget", "quiet"}
      BY <2>3 DEF AfterRestore
    <3>2. Goto(AfterRestore) \in Jobs /\ Goto(AfterRestore).pc = AfterRestore
      BY <3>1, GotoType DEF TypeOK, Steps
    <3>3. job' = [Goto(AfterRestore) EXCEPT !.result = "err"]
      BY <1>11, <2>3 DEF LoadBackup
    <3>4. job'.pc \in {"forget", "quiet"} /\ job'.result = "err"
      BY <3>1, <3>2, <3>3 DEF Jobs
    <3> QED
      BY <1>11, <1>b, <3>4 DEF LoadBackup, AddressInv, Listed, Untaken, Returning,
                               Returned
  <2> QED
    BY <2>1, <2>2, <2>3
<1>12. ASSUME NEW s \in Slots, RestoreSlot(s) PROVE AddressInv'
  <2>1. /\ job'.pc = "restore" /\ job'.todo = job.todo \ {s}
        /\ job'.result = "ok" => job.result = "ok" /\ dns' = [dns EXCEPT ![s] = rows[s]]
    <3>1. CASE job' = [job EXCEPT !.todo = @ \ {s}] /\ dns' = [dns EXCEPT ![s] = rows[s]]
      BY <1>12, <3>1 DEF RestoreSlot, At, TypeOK, Jobs
    <3>2. CASE job' = [job EXCEPT !.todo = @ \ {s}, !.result = "warn"]
      BY <1>12, <3>2 DEF RestoreSlot, At, TypeOK, Jobs
    <3> QED
      BY <1>12, <3>1, <3>2 DEF RestoreSlot
  <2>2. /\ rows[s] \in Priors /\ onDisk /\ rows[s] # None
        /\ \A q \in Slots :
             \/ dns'[q] = dns[q]
             \/ q = s /\ dns'[q] = rows[s]
             \/ q = s /\ dns'[q] \in Heads[rows[s]] \cap Priors
    BY <1>12, RestoreWrites DEF AddressInv
  <2>u. UNCHANGED <<onDisk, rows, orig, touched>>
    BY <1>12 DEF RestoreSlot
  <2>3. \A q \in Slots : dns'[q] \in Ours => dns[q] \in Ours
    BY <2>2, ConfigAssumption
  <2>4. Recoverable'
    BY <1>12, <2>3 DEF RestoreSlot, AddressInv, Recoverable
  <2>5. Returning'
    <3> SUFFICES ASSUME job'.result = "ok", NEW q \in Slots, Owed(q)' PROVE q \in job'.todo
      BY DEF Returning
    <3>1. job.result = "ok" /\ dns' = [dns EXCEPT ![s] = rows[s]]
      BY <2>1
    <3>2. CASE q = s
      <4>1. dns'[s] = rows[s] /\ rows[s] \notin Ours
        BY <2>2, <3>1, ConfigAssumption DEF TypeOK
      <4>2. s \notin touched => rows[s] = orig[s]
        BY <2>2 DEF AddressInv, NothingLost
      <4> QED
        BY <2>u, <3>2, <4>1, <4>2 DEF Owed, Ours
    <3>3. CASE q # s
      <4>1. dns'[q] = dns[q]
        BY <3>1, <3>3 DEF TypeOK
      <4>2. Owed(q)
        BY <2>u, <4>1 DEF Owed, Ours
      <4>3. q \in job.todo
        BY <1>12, <3>1, <4>2 DEF RestoreSlot, At, AddressInv, Returning
      <4> QED
        BY <2>1, <3>3, <4>3
    <3> QED
      BY <3>2, <3>3
  <2>7. NothingLost'
    BY <2>2, <2>u DEF AddressInv, NothingLost, Ours
  <2>6. Listed'
    BY <1>12, <2>1 DEF RestoreSlot, At, AddressInv, Listed
  <2> QED
    BY <2>1, <2>4, <2>5, <2>6, <2>7 DEF AddressInv, Untaken, Returned
<1>13. ASSUME NEW t \in Servers, RemoveTemplate(t) PROVE AddressInv'
  <2>1. /\ job'.pc = "restore" /\ job'.todo = job.todo
        /\ job'.result = "ok" => job.result = "ok"
    <3>1. CASE job' = [job EXCEPT !.adding = @ \ {t}]
      BY <1>13, <3>1 DEF RemoveTemplate, At, TypeOK, Jobs
    <3>2. CASE job' = [job EXCEPT !.adding = @ \ {t}, !.result = "warn"]
      BY <1>13, <3>2 DEF RemoveTemplate, At, TypeOK, Jobs
    <3> QED
      BY <1>13, <3>1, <3>2 DEF RemoveTemplate
  <2> QED
    BY <1>13, <1>b, <2>1 DEF RemoveTemplate, At, AddressInv, Listed, Untaken,
                             Returning, Returned, Owed, Ours
<1>14. CASE Restored
  <2>1. AfterRestore \in {"forget", "quiet", "idle"}
    BY DEF AfterRestore
  <2>2. /\ job'.pc \in {"forget", "quiet", "idle"}
        /\ job'.pc # "idle" => job'.result = job.result
    BY <1>14, <2>1, GotoType, NoJobType DEF Restored, TypeOK, Steps
  <2>3. job.result = "ok" => Clear
    BY <1>14 DEF Restored, At, AddressInv, Returning, Clear, Owed, Ours
  <2> QED
    BY <1>14, <1>b, <2>2, <2>3 DEF Restored, AddressInv, Listed, Untaken, Returning,
                                   Returned, Clear, Owed, Ours
<1>15. CASE StopStub
  <2>1. CASE job.op = "stop"
    BY <1>15, <1>c, <1>f, <2>1 DEF StopStub
  <2>2. CASE job.op # "stop"
    <3>1. job'.pc = "off" /\ job'.result = job.result
      BY <1>15, <2>2, GotoType DEF StopStub, TypeOK, Steps
    <3> QED
      BY <1>15, <1>b, <2>2, <3>1 DEF StopStub, At, AddressInv, Listed, Untaken,
                                     Returning, Returned, Clear, Owed, Ours
  <2> QED
    BY <2>1, <2>2
<1>16. CASE TurnOff
  <2>1. job'.pc = "forget" /\ job'.result = job.result
    BY <1>16, GotoType DEF TurnOff, TypeOK, Steps
  <2> QED
    BY <1>16, <1>b, <2>1 DEF TurnOff, At, AddressInv, Listed, Untaken, Returning,
                             Returned, Clear, Owed, Ours
<1>17. CASE Forget
  <2>1. job'.pc \in Calm
    BY <1>17, <1>f, GotoType DEF Forget, TypeOK, Steps
  <2>2. CASE job.result = "ok"
    <3>1. Clear
      BY <1>17, <2>2 DEF Forget, At, AddressInv, Returned
    <3> QED
      BY <1>17, <1>a, <1>c, <1>e, <2>1, <2>2, <3>1 DEF Forget, Deleted
  <2>3. CASE job.result # "ok"
    BY <1>17, <1>c, <2>1, <2>3 DEF Forget
  <2> QED
    BY <2>2, <2>3
<1>18. CASE SaveSettings
  <2>1. Begin("reapply", EnableEntry(job.wish)).pc \in Calm
    BY EntryType, BeginType DEF Ops, Steps
  <2>2. job'.pc \in Calm
    BY <1>18, <1>f, <2>1 DEF SaveSettings
  <2> QED
    BY <1>18, <1>c, <2>2 DEF SaveSettings
<1>20. CASE Enable
  <2>1. Begin("enable", EnableEntry(mem.want)).pc \in Calm
    BY EntryType, BeginType DEF Ops, Steps
  <2> QED
    BY <1>20, <1>c, <2>1 DEF Enable, Request
<1>21. CASE Disable
  <2>1. Begin("disable", "load").pc \in Calm
    BY BeginType DEF Ops, Steps
  <2> QED
    BY <1>21, <1>c, <2>1 DEF Disable, Request
<1>22. ASSUME NEW w \in Wishes, SetSettings(w) PROVE AddressInv'
  <2> DEFINE begin == IF enabled /\ w # mem.want THEN Begin("settings", "load")
                                                  ELSE Begin("store", "save")
  <2>1. begin \in Jobs /\ begin.pc \in Calm
    BY BeginType DEF Ops, Steps
  <2>2. job' = [begin EXCEPT !.wish = w] /\ UNCHANGED same
    BY <1>22 DEF SetSettings, Request
  <2> HIDE DEF begin
  <2>3. job'.pc \in Calm
    BY <2>1, <2>2 DEF Jobs
  <2> QED
    BY <1>c, <2>2, <2>3
<1>24. CASE Guard
  <2>1. Begin("guard", EnableEntry(mem.want)).pc \in Calm
    BY EntryType, BeginType DEF Ops, Steps
  <2> QED
    BY <1>24, <1>c, <2>1 DEF Guard, Pass
<1>25. CASE FollowEndpoints
  <2>1. Begin("follow", "backup").pc \in Calm
    BY BeginType DEF Ops, Steps
  <2> QED
    BY <1>25, <1>c, <2>1 DEF FollowEndpoints, Pass
<1>26. CASE StopRequest
  BY <1>26, <1>d DEF StopRequest
<1>27. CASE OnStop
  <2>1. /\ Begin("stop", "load").pc \in Calm
        /\ Begin("stop", "quiet").pc = "quiet" /\ Begin("stop", "quiet").op = "stop"
    BY BeginType DEF Ops, Steps
  <2>2. CASE enabled
    BY <1>27, <1>c, <2>1, <2>2 DEF OnStop
  <2>3. CASE ~enabled
    BY <1>27, <1>b, <2>1, <2>3 DEF OnStop, AddressInv, Listed, Untaken, Returning,
                                   Returned
  <2> QED
    BY <2>2, <2>3
<1>28. CASE Start
  <2>1. CASE UNCHANGED job
    BY <1>28, <1>d, <2>1 DEF Start
  <2>2. CASE job' = Begin("boot", EnableEntry(disk.want))
    <3>1. Begin("boot", EnableEntry(disk.want)).pc \in Calm
      BY EntryType, BeginType DEF Ops, Steps
    <3> QED
      BY <1>28, <1>c, <2>2, <3>1 DEF Start
  <2>3. CASE job' = Begin("recover", "load")
    <3>1. Begin("recover", "load").pc \in Calm
      BY BeginType DEF Ops, Steps
    <3> QED
      BY <1>28, <1>c, <2>3, <3>1 DEF Start
  <2> QED
    BY <1>28, <2>1, <2>2, <2>3 DEF Start
<1>30. CASE Exit
  BY <1>30, <1>c, <1>f DEF Exit, Gone
<1>31. CASE Crash
  <2>1. \A q \in Slots :
          \/ dns'[q] = dns[q]
          \/ /\ dns'[q] \in Heads[rows[q]] \cap Priors
             /\ onDisk /\ rows[q] # None
    BY <1>31, CrashWrites DEF AddressInv
  <2>2. UNCHANGED <<onDisk, rows, orig, touched>>
    BY <1>31 DEF Crash, Gone
  <2>3. Recoverable'
    BY <2>1, <2>2, ConfigAssumption DEF AddressInv, Recoverable, Ours
  <2>4. NothingLost'
    BY <2>1, <2>2 DEF AddressInv, NothingLost, Ours
  <2> QED
    BY <1>31, <1>a, <1>f, <2>3, <2>4 DEF Crash, Gone
<1>32. ASSUME NEW s \in Slots, NEW c \in Priors, OthersWrite(s, c) PROVE AddressInv'
  <2>1. c \notin Ours
    BY ConfigAssumption
  <2>2. \A r \in Slots : dns'[r] \in Ours => dns[r] \in Ours
    BY <1>32, <2>1 DEF OthersWrite, TypeOK
  <2>3. UNCHANGED <<onDisk, rows, job>>
    BY <1>32 DEF OthersWrite
  <2>4. \A r \in Slots : Owed(r)' => Owed(r)
    BY <1>32, <2>1 DEF OthersWrite, Owed, Ours, TypeOK
  <2>5. NothingLost'
    <3>1. /\ dns'[s] = c /\ orig'[s] = c
          /\ \A r \in Slots \ {s} : dns'[r] = dns[r] /\ orig'[r] = orig[r]
      BY <1>32 DEF OthersWrite, TypeOK
    <3>2. /\ s \notin touched' => rows[s] = None
          /\ \A r \in Slots \ {s} : r \in touched <=> r \in touched'
      BY <1>32 DEF OthersWrite
    <3> QED
      BY <2>3, <3>1, <3>2 DEF AddressInv, NothingLost, Ours
  <2> QED
    BY <2>2, <2>3, <2>4, <2>5 DEF AddressInv, Listed, Recoverable, Untaken, Returning,
                                  Returned, Clear, Owed, Ours
<1>33. ASSUME NEW t \in Servers, OthersAddTemplate(t) PROVE AddressInv'
  BY <1>33, <1>d DEF OthersAddTemplate
<1>34. ASSUME NEW a \in Adapters, NEW l \in {"up", "idle", "absent"}, LinkChange(a, l)
       PROVE  AddressInv'
  BY <1>34, <1>d DEF LinkChange
<1>35. ASSUME NEW m \in Sets, Learn(m) PROVE AddressInv'
  BY <1>35, <1>d DEF Learn
<1>36. CASE UNCHANGED vars
  BY <1>36, <1>d
<1> QED
  BY <1>1, <1>2, <1>3, <1>4, <1>5, <1>6, <1>7, <1>8, <1>9, <1>10, <1>11, <1>12,
     <1>13, <1>14, <1>15, <1>16, <1>17, <1>18, <1>20, <1>21, <1>22, <1>24,
     <1>25, <1>26, <1>27, <1>28, <1>30, <1>31, <1>32, <1>33, <1>34, <1>35, <1>36
     DEF Next, Work, Requests, Lifecycle, Environment

IInv == TypeOK /\ Aimed /\ AddressInv

\* The inductive invariant holds in every reachable state.
LEMMA IInvInduct == Spec => []IInv
<1>1. Init => IInv
  BY TypeInit, AddressInit DEF IInv
<1>2. IInv /\ [Next]_vars => IInv'
  BY TypeNext, AddressNext DEF IInv, AddressInv
<1> QED
  BY <1>1, <1>2, PTL DEF Spec

\* Every variable keeps its type, job's locals included, whatever the number of
\* adapters, servers and profiles.
THEOREM TypeCorrect == Spec => []TypeOK
<1>1. IInv => TypeOK
  BY DEF IInv
<1> QED
  BY <1>1, IInvInduct, PTL

\* While an adapter carries a setting of ours, the backup on disk says what to
\* put back, through every failure and every crash (back_up, restore_from_backup,
\* DnsBackup::delete).
THEOREM RecoverableAlways == Spec => []Recoverable
<1>1. IInv => Recoverable
  BY DEF IInv, AddressInv
<1> QED
  BY <1>1, IInvInduct, PTL

\* Whatever fails, crashes or comes in between, a slot nobody wrote behind the
\* backup's back holds what was last chosen there, a setting of ours, or a part of
\* what was chosen that is still on record whole; and its row is what was last
\* chosen (capture_preserving, restore_from_backup, disable).
THEOREM NothingIsLost == Spec => []NothingLost
<1>1. IInv => NothingLost
  BY DEF IInv, AddressInv
<1> QED
  BY <1>1, IInvInduct, PTL
=============================================================================
