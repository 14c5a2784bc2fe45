------------------------------ MODULE LoanProofs ------------------------------
(***************************************************************************)
(* Protection implements DnsLoan twice. For the adapters' DNS settings     *)
(* (AdapterLoan) lent is what carries a setting of ours and the ledger is  *)
(* the backup's rows; for the DoH templates (TemplateLoan) lent is what    *)
(* this program added and the ledger its claims. Every step of an enable,  *)
(* a restore or a deletion of the backup is a step of the loan, or none.   *)
(*                                                                         *)
(* The first needs IInv of ProtectionProofs; the second an invariant of    *)
(* its own, TemplateInv, whose first part is TemplatesClaimed: no template *)
(* that this program added is left without a claim on disk. It says, for   *)
(* each step of a native enable and of a restore, which of the templates   *)
(* that are ours the operation still has in hand.                          *)
(***************************************************************************)
EXTENDS ProtectionProofs

-----------------------------------------------------------------------------
(* The adapters *)


\* Every step of Protection is a step of the loan or leaves it alone (one step
\* per action that writes a setting or the backup).
LEMMA AdapterLoanStep ==
  IInv /\ IInv' /\ [Next]_vars
    => [AdapterLoan!LoanNext]_<<{s \in Slots : dns[s] \in Ours}, rows>>
<1> DEFINE lent == {s \in Slots : dns[s] \in Ours}
<1> SUFFICES ASSUME IInv, IInv', [Next]_vars
             PROVE  AdapterLoan!LoanNext \/ UNCHANGED <<lent, rows>>
  OBVIOUS
<1> USE DEF vars, machine, backup, process, history
<1>a. ASSUME UNCHANGED <<dns, rows>> PROVE UNCHANGED <<lent, rows>>
  BY <1>a
<1>b. rows' \in [Slots -> Priors \cup {None}] /\ rows \in [Slots -> Priors \cup {None}]
      /\ dns \in [Slots -> Priors \cup Ours]
  BY DEF IInv, TypeOK
<1>c. ASSUME Clear, DeleteBackup, UNCHANGED dns PROVE AdapterLoan!LoanNext
  <2>1. AdapterLoan!Strike
    BY <1>b, <1>c DEF AdapterLoan!Strike, Clear, Owed, DeleteBackup
  <2> QED
    BY <2>1 DEF AdapterLoan!LoanNext
<1>1. CASE BackUp
  <2>1. CASE rows' = Preserved
    <3>1. AdapterLoan!Record
      BY <1>1, <1>b, <2>1 DEF AdapterLoan!Record, BackUp, Preserved
    <3> QED
      BY <3>1 DEF AdapterLoan!LoanNext
  <2> QED
    BY <1>1, <1>a, <2>1 DEF BackUp
<1>2. ASSUME NEW s \in Slots, WriteAdapter(s) PROVE AdapterLoan!LoanNext \/ UNCHANGED <<lent, rows>>
  <2>1. rows[s] # None
    BY <1>2 DEF WriteAdapter, At, Turn, IInv, AddressInv, Listed
  <2>2. CASE UNCHANGED dns
    BY <1>2, <1>a, <2>2 DEF WriteAdapter
  <2>3. CASE dns' = [dns EXCEPT ![s] = Target(s[2])]
    <3>1. Target(s[2]) \in Ours
      BY <1>2 DEF WriteAdapter, At, IInv, Aimed, Target, Ours
    <3>2. lent' = lent \cup {s}
      BY <1>b, <2>3, <3>1
    <3>3. AdapterLoan!Lend(s)
      BY <1>2, <2>1, <3>2 DEF AdapterLoan!Lend, WriteAdapter
    <3> QED
      BY <3>3 DEF AdapterLoan!LoanNext
  <2> QED
    BY <1>2, <2>2, <2>3 DEF WriteAdapter
<1>3. ASSUME NEW s \in Slots, RestoreSlot(s)
      PROVE  AdapterLoan!LoanNext \/ UNCHANGED <<lent, rows>>
  <2>1. /\ rows[s] \in Priors
        /\ \A q \in Slots :
             \/ dns'[q] = dns[q]
             \/ q = s /\ dns'[q] = rows[s]
             \/ q = s /\ dns'[q] \in Heads[rows[s]] \cap Priors
    BY <1>3, RestoreWrites DEF IInv, AddressInv
  <2>2. CASE dns'[s] = dns[s]
    <3>1. lent' = lent
      BY <2>1, <2>2
    <3> QED
      BY <1>3, <3>1 DEF RestoreSlot
  <2>3. CASE dns'[s] # dns[s]
    <3>1. dns'[s] \notin Ours /\ \A q \in Slots : q # s => dns'[q] = dns[q]
      BY <2>1, <2>3, ConfigAssumption
    <3>2. lent' = lent \ {s}
      BY <3>1
    <3>3. AdapterLoan!Return(s)
      BY <1>3, <3>2 DEF AdapterLoan!Return, RestoreSlot
    <3> QED
      BY <3>3 DEF AdapterLoan!LoanNext
  <2> QED
    BY <2>2, <2>3
<1>4. ASSUME NEW s \in Slots, NEW c \in Priors, OthersWrite(s, c)
      PROVE  AdapterLoan!LoanNext \/ UNCHANGED <<lent, rows>>
  <2>1. c \notin Ours
    BY ConfigAssumption
  <2>2. lent' = lent \ {s}
    BY <1>4, <1>b, <2>1 DEF OthersWrite
  <2>3. AdapterLoan!Return(s)
    BY <1>4, <2>2 DEF AdapterLoan!Return, OthersWrite
  <2> QED
    BY <2>3 DEF AdapterLoan!LoanNext
<1>5. CASE Claim
  <2>1. CASE ~job.had
    <3>1. Clear
      BY <1>5, <2>1 DEF Claim, At, IInv, AddressInv, Untaken
    <3> QED
      BY <1>5, <1>a, <1>c, <3>1 DEF Claim
  <2> QED
    BY <1>5, <1>a, <2>1 DEF Claim
<1>6. CASE WithdrawClaims
  <2>1. CASE ~job.had
    <3>1. Clear
      BY <1>6, <2>1 DEF WithdrawClaims, At, IInv, AddressInv, Untaken
    <3> QED
      BY <1>6, <1>a, <1>c, <3>1 DEF WithdrawClaims, Deleted
  <2> QED
    BY <1>6, <1>a, <2>1 DEF WithdrawClaims
<1>7. CASE Forget
  <2>1. CASE job.result = "ok"
    <3>1. Clear
      BY <1>7, <2>1 DEF Forget, At, IInv, AddressInv, Returned
    <3> QED
      BY <1>7, <1>a, <1>c, <2>1, <3>1 DEF Forget, Deleted
  <2> QED
    BY <1>7, <1>a, <2>1 DEF Forget
<1>8. CASE \/ EnsureStub \/ RefreshEndpoints \/ TemplatesAdded \/ Applied
           \/ LoadBackup \/ Restored \/ StopStub \/ TurnOff \/ SaveSettings
           \/ \E t \in Servers : AddTemplate(t) \/ WithdrawTemplate(t) \/ RemoveTemplate(t)
  BY <1>8, <1>a DEF EnsureStub, RefreshEndpoints, TemplatesAdded, Applied, LoadBackup,
     Restored, StopStub, TurnOff, SaveSettings, AddTemplate, WithdrawTemplate,
     RemoveTemplate
<1>9. CASE Requests \/ Guard \/ FollowEndpoints
  BY <1>9, <1>a DEF Requests, Enable, Disable, SetSettings, Request, Guard,
     FollowEndpoints, Pass
<1>10. CASE Start \/ StopRequest \/ OnStop \/ Exit
  BY <1>10, <1>a DEF Start, StopRequest, OnStop, Exit, Gone
<1>13. CASE Crash
  <2>1. UNCHANGED rows
    BY <1>13 DEF Crash, Gone
  <2>2. CASE UNCHANGED dns
    BY <1>a, <2>1, <2>2
  <2>3. ASSUME NEW s \in Slots, At("restore"), Turn(s), HalfWritten(s)
        PROVE  AdapterLoan!LoanNext
    <3>1. rows[s] \in Priors
      BY <1>b, <2>3 DEF Turn, At, IInv, AddressInv, Listed
    <3>2. PICK h \in Heads[rows[s]] : dns' = [dns EXCEPT ![s] = h]
      BY <2>3 DEF HalfWritten
    <3>3. h \notin Ours
      BY <3>1, ConfigAssumption DEF Priors
    <3>4. lent' = lent \ {s}
      BY <1>b, <3>2, <3>3
    <3>5. AdapterLoan!Return(s)
      BY <2>1, <3>4 DEF AdapterLoan!Return
    <3> QED
      BY <3>5 DEF AdapterLoan!LoanNext
  <2> QED
    BY <1>13, <2>2, <2>3 DEF Crash
<1>11. CASE \/ \E t \in Servers : OthersAddTemplate(t)
            \/ \E a \in Adapters, l \in {"up", "idle", "absent"} : LinkChange(a, l)
            \/ \E m \in Sets : Learn(m)
  BY <1>11, <1>a DEF OthersAddTemplate, LinkChange, Learn
<1>12. CASE UNCHANGED vars
  BY <1>12, <1>a
<1> QED
  BY <1>1, <1>2, <1>3, <1>4, <1>5, <1>6, <1>7, <1>8, <1>9, <1>10, <1>11, <1>12,
     <1>13 DEF Next, Work, Lifecycle, Environment

\* The adapters' DNS settings are lent and given back as DnsLoan says:
\* Protection implements it (back_up, write_adapters, restore_from_backup).
THEOREM AdaptersImplementLoan == Spec => AdaptersAreLent
<1>1. Init => AdapterLoan!LoanInit
  <2> SUFFICES ASSUME Init PROVE AdapterLoan!LoanInit
    OBVIOUS
  <2>1. \A s \in Slots : dns[s] \notin Ours
    BY ConfigAssumption DEF Init
  <2> QED
    BY <2>1 DEF Init, AdapterLoan!LoanInit
<1>2. IInv /\ IInv' /\ [Next]_vars => [AdapterLoan!LoanNext]_AdapterLoan!loan
  BY AdapterLoanStep DEF AdapterLoan!loan
<1> QED
  BY <1>1, <1>2, IInvInduct, PTL DEF Spec, AdaptersAreLent, AdapterLoan!LoanSpec

-----------------------------------------------------------------------------
(* The templates *)


\* A backup this enable made may be deleted: nothing of ours is there yet.
Fresh == job.pc = "claim" /\ ~job.had => mine = {}

\* What is about to be added is claimed; the new claims are for templates
\* that were found missing, so a withdrawal goes through all of them.
Adding == job.pc = "add" => job.adding \subseteq claims
                            /\ job.claimed \subseteq job.missing

\* A claim that is about to be withdrawn has no template left of ours, but
\* for those still to be removed.
Withdrawing == job.pc = "withdraw" => mine \cap job.claimed \subseteq job.adding

\* A restore without a warning has removed every one it has passed.
Removing == job.pc = "restore" /\ job.result = "ok" => mine \subseteq job.adding

Removed ==
  job.result = "ok" /\ (job.pc \in {"off", "forget"}
                        \/ (job.pc = "quiet" /\ job.op # "stop")) => mine = {}

TemplateInv ==
  TemplatesClaimed /\ Fresh /\ Adding /\ Withdrawing /\ Removing /\ Removed

\* Initially no template is ours.
LEMMA TemplateInit == Init => TemplateInv
<1> SUFFICES ASSUME Init PROVE TemplateInv
  OBVIOUS
<1>1. job.pc = "idle" /\ mine = {}
  BY NoJobType DEF Init
<1> QED
  BY <1>1 DEF TemplateInv, TemplatesClaimed, Fresh, Adding, Withdrawing, Removing,
              Removed

\* Every step keeps the invariant about templates and claims (one step per action).
LEMMA TemplateNext ==
  TypeOK /\ TypeOK' /\ Listed /\ TemplateInv /\ [Next]_vars => TemplateInv'
<1> SUFFICES ASSUME TypeOK, TypeOK', Listed, TemplateInv, [Next]_vars
             PROVE  TemplateInv'
  OBVIOUS
<1> USE DEF vars, machine, backup, process, history
<1> DEFINE Calm == {"idle", "stub", "refresh", "backup", "write", "load", "save"}
<1>a. ASSUME job'.pc \in Calm, TemplatesClaimed' PROVE TemplateInv'
  BY <1>a DEF TemplateInv, Fresh, Adding, Withdrawing, Removing, Removed
<1>b. ASSUME UNCHANGED <<onDisk, claims, mine>> PROVE TemplatesClaimed'
  BY <1>b DEF TemplateInv, TemplatesClaimed
<1>c. ASSUME UNCHANGED <<onDisk, claims, mine>>, job'.pc \in Calm
      PROVE  TemplateInv'
  BY <1>a, <1>b, <1>c
<1>d. ASSUME UNCHANGED <<onDisk, claims, mine, job>> PROVE TemplateInv'
  BY <1>d DEF TemplateInv, TemplatesClaimed, Fresh, Adding, Withdrawing, Removing,
              Removed
<1>e. ASSUME mine = {}, UNCHANGED mine PROVE TemplatesClaimed'
  BY <1>e DEF TemplatesClaimed
<1>f. NoJob.pc \in Calm
  BY NoJobType
<1>1. CASE EnsureStub
  <2>1. job'.pc \in Calm
    BY <1>1, <1>f, GotoType DEF EnsureStub, TypeOK, Steps
  <2> QED
    BY <1>1, <1>c, <2>1 DEF EnsureStub
<1>2. CASE RefreshEndpoints
  <2>1. job'.pc \in Calm
    BY <1>2, GotoType DEF RefreshEndpoints, TypeOK, Steps
  <2> QED
    BY <1>2, <1>c, <2>1 DEF RefreshEndpoints
<1>3. CASE BackUp
  <2>1. CASE job' = NoJob /\ UNCHANGED <<onDisk, rows>>
    BY <1>3, <1>c, <1>f, <2>1 DEF BackUp
  <2>2. CASE /\ onDisk' = TRUE
             /\ job' = [Goto(IF mem.want.mode = "stub" THEN "write" ELSE "claim")
                          EXCEPT !.had = onDisk, !.todo = Chosen \X Families,
                                 !.aim = current]
    <3> DEFINE p == IF mem.want.mode = "stub" THEN "write" ELSE "claim"
    <3>1. Goto(p) \in Jobs /\ Goto(p).pc = p /\ p \in {"write", "claim"}
      BY GotoType DEF TypeOK, Steps
    <3> HIDE DEF p
    <3>2. job'.pc = p /\ job'.had = onDisk
      BY <2>2, <3>1 DEF Jobs, p
    <3>3. TemplatesClaimed'
      BY <1>3, <2>2 DEF BackUp, TemplateInv, TemplatesClaimed
    <3>4. Fresh'
      BY <1>3, <3>2 DEF BackUp, TemplateInv, TemplatesClaimed, Fresh
    <3> QED
      BY <3>1, <3>2, <3>3, <3>4 DEF TemplateInv, Adding, Withdrawing, Removing, Removed
  <2> QED
    BY <1>3, <2>1, <2>2 DEF BackUp
<1>4. CASE Claim
  <2>1. CASE job' = NoJob /\ UNCHANGED backup
    BY <1>4, <1>c, <1>f, <2>1 DEF Claim
  <2>2. CASE job' = NoJob /\ ~job.had /\ DeleteBackup
    <3>1. mine = {}
      BY <1>4, <2>2 DEF Claim, At, TemplateInv, Fresh
    <3> QED
      BY <1>4, <1>a, <1>e, <1>f, <2>2, <3>1 DEF Claim
  <2>3. CASE /\ job' = [Goto("add") EXCEPT
                         !.adding = Members[job.aim] \ templates,
                         !.missing = Members[job.aim] \ templates,
                         !.claimed = (Members[job.aim] \ templates) \ claims]
             /\ claims' = claims \cup (Members[job.aim] \ templates)
             /\ UNCHANGED <<onDisk, rows>>
    <3> DEFINE absent == Members[job.aim] \ templates
    <3>1. Goto("add") \in Jobs /\ Goto("add").pc = "add"
      BY GotoType DEF TypeOK, Steps
    <3>2. /\ job'.pc = "add" /\ job'.adding = absent
          /\ job'.missing = absent /\ job'.claimed = absent \ claims
      BY <2>3, <3>1 DEF Jobs
    <3>3. TemplatesClaimed'
      BY <1>4, <2>3 DEF Claim, TemplateInv, TemplatesClaimed
    <3>4. Adding'
      BY <2>3, <3>2 DEF Adding
    <3> QED
      BY <3>2, <3>3, <3>4 DEF TemplateInv, Fresh, Withdrawing, Removing, Removed
  <2> QED
    BY <1>4, <2>1, <2>2, <2>3 DEF Claim
<1>5. ASSUME NEW t \in Servers, AddTemplate(t) PROVE TemplateInv'
  <2>1. job.pc = "add" /\ t \in job.adding /\ t \in claims /\ onDisk
    BY <1>5 DEF AddTemplate, At, TemplateInv, Adding, Listed
  <2>2. UNCHANGED <<onDisk, claims>> /\ mine' \subseteq mine \cup {t}
    BY <1>5 DEF AddTemplate
  <2>3. TemplatesClaimed'
    BY <2>1, <2>2 DEF TemplateInv, TemplatesClaimed
  <2>4. CASE job' = [job EXCEPT !.adding = @ \ {t}]
    <3>1. /\ job'.pc = "add" /\ job'.adding = job.adding \ {t}
          /\ job'.missing = job.missing /\ job'.claimed = job.claimed
      BY <2>1, <2>4 DEF TypeOK, Jobs
    <3>2. Adding'
      BY <2>1, <2>2, <3>1 DEF TemplateInv, Adding
    <3> QED
      BY <2>3, <3>1, <3>2 DEF TemplateInv, Fresh, Withdrawing, Removing, Removed
  <2>5. CASE job' = [Goto("withdraw") EXCEPT !.adding = job.missing]
    <3>1. /\ Goto("withdraw") \in Jobs /\ Goto("withdraw").pc = "withdraw"
          /\ Goto("withdraw").claimed = job.claimed
      BY GotoType DEF TypeOK, Steps
    <3>2. /\ job'.pc = "withdraw" /\ job'.adding = job.missing
          /\ job'.claimed = job.claimed
      BY <2>5, <3>1 DEF Jobs
    <3>3. Withdrawing'
      BY <2>1, <3>2 DEF TemplateInv, Adding, Withdrawing
    <3> QED
      BY <2>3, <3>2, <3>3 DEF TemplateInv, Fresh, Adding, Removing, Removed
  <2> QED
    BY <1>5, <2>4, <2>5 DEF AddTemplate
<1>6. CASE TemplatesAdded
  <2>1. job'.pc = "write"
    BY <1>6, GotoType DEF TemplatesAdded, TypeOK, Steps
  <2> QED
    BY <1>6, <1>c, <2>1 DEF TemplatesAdded
<1>7. ASSUME NEW t \in Servers, WithdrawTemplate(t) PROVE TemplateInv'
  <2>1. job.pc = "withdraw" /\ mine \cap job.claimed \subseteq job.adding
    BY <1>7 DEF WithdrawTemplate, At, TemplateInv, Withdrawing
  <2>2. UNCHANGED <<onDisk, claims>> /\ mine' \subseteq mine
    BY <1>7 DEF WithdrawTemplate
  <2>3. TemplatesClaimed'
    BY <2>2 DEF TemplateInv, TemplatesClaimed
  <2>4. job'.pc = "withdraw" /\ mine' \cap job'.claimed \subseteq job'.adding
    <3>1. CASE job' = [job EXCEPT !.adding = @ \ {t}] /\ mine' = mine \ {t}
      BY <2>1, <3>1 DEF TypeOK, Jobs
    <3>2. CASE job' = [job EXCEPT !.adding = @ \ {t}, !.claimed = @ \ {t}]
               /\ mine' = mine
      BY <2>1, <3>2 DEF TypeOK, Jobs
    <3> QED
      BY <1>7, <3>1, <3>2 DEF WithdrawTemplate
  <2> QED
    BY <2>3, <2>4 DEF TemplateInv, Fresh, Adding, Withdrawing, Removing, Removed
<1>8. CASE WithdrawClaims
  <2>1. mine \cap job.claimed = {} /\ onDisk
    BY <1>8 DEF WithdrawClaims, At, TemplateInv, Withdrawing, Listed
  <2>2. mine \subseteq claims \ job.claimed
    BY <2>1 DEF TemplateInv, TemplatesClaimed
  <2>3. CASE ~job.had /\ claims \ job.claimed = {} /\ DeleteBackup
    <3>1. mine = {}
      BY <2>2, <2>3
    <3> QED
      BY <1>8, <1>a, <1>e, <1>f, <3>1 DEF WithdrawClaims
  <2>4. CASE claims' \in {claims, claims \ job.claimed} /\ UNCHANGED onDisk
    <3>1. TemplatesClaimed'
      BY <1>8, <2>1, <2>2, <2>4 DEF WithdrawClaims, TemplatesClaimed
    <3> QED
      BY <1>8, <1>a, <1>f, <3>1 DEF WithdrawClaims
  <2> QED
    BY <1>8, <2>3, <2>4 DEF WithdrawClaims, Deleted
<1>9. ASSUME NEW s \in Slots, WriteAdapter(s) PROVE TemplateInv'
  <2>1. job'.pc \in Calm
    <3> DEFINE p == IF s[2] = "v4" THEN "load" ELSE "write"
    <3>1. Goto(p) \in Jobs /\ Goto(p).pc = p
      BY GotoType DEF TypeOK, Steps
    <3> HIDE DEF p
    <3>2. CASE job' = [job EXCEPT !.todo = @ \ {s}]
      BY <1>9, <3>2 DEF Jobs, TypeOK, WriteAdapter, At
    <3>3. CASE job' = [Goto(p) EXCEPT !.todo = @ \ {s}]
      BY <3>1, <3>3 DEF Jobs, p
    <3> QED
      BY <1>9, <3>2, <3>3 DEF WriteAdapter, p
  <2> QED
    BY <1>9, <1>c, <2>1 DEF WriteAdapter
<1>10. CASE Applied
  BY <1>10, <1>c, <1>f DEF Applied
<1>11. CASE LoadBackup
  <2>1. CASE onDisk
    <3>1. Goto("restore") \in Jobs /\ Goto("restore").pc = "restore"
      BY GotoType DEF TypeOK, Steps
    <3>2. job'.pc = "restore" /\ job'.adding = claims
      BY <1>11, <2>1, <3>1 DEF LoadBackup, Jobs
    <3>3. Removing'
      BY <1>11, <3>2 DEF Removing, TemplateInv, TemplatesClaimed, LoadBackup
    <3> QED
      BY <1>11, <1>b, <3>2, <3>3
         DEF LoadBackup, TemplateInv, Fresh, Adding, Withdrawing, Removed
  <2>2. CASE ~onDisk /\ AfterRestore = "idle"
    BY <1>11, <1>c, <1>f, <2>2 DEF LoadBackup
  <2>3. CASE ~onDisk /\ AfterRestore # "idle"
    <3>1. AfterRestore \in {"forget", "quiet"}
      BY <2>3 DEF AfterRestore
    <3>2. Goto(AfterRestore) \in Jobs /\ Goto(AfterRestore).pc = AfterRestore
      BY <3>1, GotoType DEF TypeOK, Steps
    <3>3. job' = [Goto(AfterRestore) EXCEPT !.result = "err"]
      BY <1>11, <2>3 DEF LoadBackup
    <3>4. job'.pc \in {"forget", "quiet"} /\ job'.result = "err"
      BY <3>1, <3>2, <3>3 DEF Jobs
    <3> QED
      BY <1>11, <1>b, <3>4 DEF LoadBackup, TemplateInv, Fresh, Adding, Withdrawing,
                               Removing, Removed
  <2> QED
    BY <2>1, <2>2, <2>3
<1>12. ASSUME NEW s \in Slots, RestoreSlot(s) PROVE TemplateInv'
  <2>1. /\ job'.pc = "restore" /\ job'.adding = job.adding
        /\ job'.result = "ok" => job.result = "ok"
    <3>1. CASE job' = [job EXCEPT !.todo = @ \ {s}]
      BY <1>12, <3>1 DEF RestoreSlot, At, TypeOK, Jobs
    <3>2. CASE job' = [job EXCEPT !.todo = @ \ {s}, !.result = "warn"]
      BY <1>12, <3>2 DEF RestoreSlot, At, TypeOK, Jobs
    <3> QED
      BY <1>12, <3>1, <3>2 DEF RestoreSlot
  <2> QED
    BY <1>12, <1>b, <2>1 DEF RestoreSlot, At, TemplateInv, Fresh, Adding, Withdrawing,
                             Removing, Removed
<1>13. ASSUME NEW t \in Servers, RemoveTemplate(t) PROVE TemplateInv'
  <2>1. UNCHANGED <<onDisk, claims>> /\ mine' \subseteq mine
    BY <1>13 DEF RemoveTemplate
  <2>2. TemplatesClaimed'
    BY <2>1 DEF TemplateInv, TemplatesClaimed
  <2>3. /\ job'.pc = "restore"
        /\ job'.result = "ok" => /\ job.result = "ok" /\ mine' = mine \ {t}
                                 /\ job'.adding = job.adding \ {t}
    <3>1. CASE job' = [job EXCEPT !.adding = @ \ {t}] /\ mine' = mine \ {t}
      BY <1>13, <3>1 DEF RemoveTemplate, At, TypeOK, Jobs
    <3>2. CASE job' = [job EXCEPT !.adding = @ \ {t}, !.result = "warn"]
      BY <1>13, <3>2 DEF RemoveTemplate, At, TypeOK, Jobs
    <3> QED
      BY <1>13, <3>1, <3>2 DEF RemoveTemplate
  <2>4. Removing'
    BY <1>13, <2>3 DEF RemoveTemplate, At, TemplateInv, Removing
  <2> QED
    BY <2>2, <2>3, <2>4 DEF TemplateInv, Fresh, Adding, Withdrawing, Removed
<1>14. CASE Restored
  <2>1. AfterRestore \in {"forget", "quiet", "idle"}
    BY DEF AfterRestore
  <2>2. /\ job'.pc \in {"forget", "quiet", "idle"}
        /\ job'.pc # "idle" => job'.result = job.result
    BY <1>14, <2>1, GotoType, NoJobType DEF Restored, TypeOK, Steps
  <2>3. job.result = "ok" => mine = {}
    BY <1>14 DEF Restored, At, TemplateInv, Removing
  <2> QED
    BY <1>14, <1>b, <2>2, <2>3 DEF Restored, TemplateInv, Fresh, Adding, Withdrawing,
                                   Removing, Removed
<1>15. CASE StopStub
  <2>1. CASE job.op = "stop"
    BY <1>15, <1>c, <1>f, <2>1 DEF StopStub
  <2>2. CASE job.op # "stop"
    <3>1. job'.pc = "off" /\ job'.result = job.result
      BY <1>15, <2>2, GotoType DEF StopStub, TypeOK, Steps
    <3> QED
      BY <1>15, <1>b, <2>2, <3>1 DEF StopStub, At, TemplateInv, Fresh, Adding,
                                     Withdrawing, Removing, Removed
  <2> QED
    BY <2>1, <2>2
<1>16. CASE TurnOff
  <2>1. job'.pc = "forget" /\ job'.result = job.result
    BY <1>16, GotoType DEF TurnOff, TypeOK, Steps
  <2> QED
    BY <1>16, <1>b, <2>1 DEF TurnOff, At, TemplateInv, Fresh, Adding, Withdrawing,
                             Removing, Removed
<1>17. CASE Forget
  <2>1. job'.pc \in Calm
    BY <1>17, <1>f, GotoType DEF Forget, TypeOK, Steps
  <2>2. CASE job.result = "ok"
    <3>1. mine = {}
      BY <1>17, <2>2 DEF Forget, At, TemplateInv, Removed
    <3> QED
      BY <1>17, <1>a, <1>e, <2>1, <3>1 DEF Forget
  <2>3. CASE job.result # "ok"
    BY <1>17, <1>c, <2>1, <2>3 DEF Forget
  <2> QED
    BY <2>2, <2>3
<1>18. CASE SaveSettings
  <2>1. Begin("reapply", EnableEntry(job.wish)).pc \in Calm
    BY EntryType, BeginType DEF Ops, Steps
  <2>2. job'.pc \in Calm
    BY <1>18, <1>f, <2>1 DEF SaveSettings
  <2> QED
    BY <1>18, <1>c, <2>2 DEF SaveSettings
<1>19. CASE Enable
  <2>1. Begin("enable", EnableEntry(mem.want)).pc \in Calm
    BY EntryType, BeginType DEF Ops, Steps
  <2> QED
    BY <1>19, <1>c, <2>1 DEF Enable, Request
<1>20. CASE Disable
  <2>1. Begin("disable", "load").pc \in Calm
    BY BeginType DEF Ops, Steps
  <2> QED
    BY <1>20, <1>c, <2>1 DEF Disable, Request
<1>21. ASSUME NEW w \in Wishes, SetSettings(w) PROVE TemplateInv'
  <2> DEFINE begin == IF enabled /\ w # mem.want THEN Begin("settings", "load")
                                                  ELSE Begin("store", "save")
  <2>1. begin \in Jobs /\ begin.pc \in Calm
    BY BeginType DEF Ops, Steps
  <2>2. job' = [begin EXCEPT !.wish = w] /\ UNCHANGED <<onDisk, claims, mine>>
    BY <1>21 DEF SetSettings, Request
  <2> HIDE DEF begin
  <2>3. job'.pc \in Calm
    BY <2>1, <2>2 DEF Jobs
  <2> QED
    BY <1>c, <2>2, <2>3
<1>22. CASE Guard
  <2>1. Begin("guard", EnableEntry(mem.want)).pc \in Calm
    BY EntryType, BeginType DEF Ops, Steps
  <2> QED
    BY <1>22, <1>c, <2>1 DEF Guard, Pass
<1>23. CASE FollowEndpoints
  <2>1. Begin("follow", "backup").pc \in Calm
    BY BeginType DEF Ops, Steps
  <2> QED
    BY <1>23, <1>c, <2>1 DEF FollowEndpoints, Pass
<1>24. CASE StopRequest
  BY <1>24, <1>d DEF StopRequest
<1>25. CASE OnStop
  <2>1. /\ Begin("stop", "load").pc \in Calm
        /\ Begin("stop", "quiet").pc = "quiet" /\ Begin("stop", "quiet").op = "stop"
    BY BeginType DEF Ops, Steps
  <2>2. CASE enabled
    BY <1>25, <1>c, <2>1, <2>2 DEF OnStop
  <2>3. CASE ~enabled
    BY <1>25, <1>b, <2>1, <2>3 DEF OnStop, TemplateInv, Fresh, Adding, Withdrawing,
                                   Removing, Removed
  <2> QED
    BY <2>2, <2>3
<1>26. CASE Start
  <2>1. CASE UNCHANGED job
    BY <1>26, <1>d, <2>1 DEF Start
  <2>2. CASE job' = Begin("boot", EnableEntry(disk.want))
    <3>1. Begin("boot", EnableEntry(disk.want)).pc \in Calm
      BY EntryType, BeginType DEF Ops, Steps
    <3> QED
      BY <1>26, <1>c, <2>2, <3>1 DEF Start
  <2>3. CASE job' = Begin("recover", "load")
    <3>1. Begin("recover", "load").pc \in Calm
      BY BeginType DEF Ops, Steps
    <3> QED
      BY <1>26, <1>c, <2>3, <3>1 DEF Start
  <2> QED
    BY <1>26, <2>1, <2>2, <2>3 DEF Start
<1>27. CASE Exit
  BY <1>27, <1>c, <1>f DEF Exit, Gone
<1>28. CASE Crash
  BY <1>28, <1>c, <1>f DEF Crash, Gone
<1>29. ASSUME NEW s \in Slots, NEW c \in Priors, OthersWrite(s, c) PROVE TemplateInv'
  BY <1>29, <1>d DEF OthersWrite
<1>30. ASSUME NEW t \in Servers, OthersAddTemplate(t) PROVE TemplateInv'
  BY <1>30, <1>d DEF OthersAddTemplate
<1>31. ASSUME NEW a \in Adapters, NEW l \in {"up", "idle", "absent"}, LinkChange(a, l)
       PROVE  TemplateInv'
  BY <1>31, <1>d DEF LinkChange
<1>32. ASSUME NEW m \in Sets, Learn(m) PROVE TemplateInv'
  BY <1>32, <1>d DEF Learn
<1>33. CASE UNCHANGED vars
  BY <1>33, <1>d
<1> QED
  BY <1>1, <1>2, <1>3, <1>4, <1>5, <1>6, <1>7, <1>8, <1>9, <1>10, <1>11, <1>12,
     <1>13, <1>14, <1>15, <1>16, <1>17, <1>18, <1>19, <1>20, <1>21, <1>22, <1>23,
     <1>24, <1>25, <1>26, <1>27, <1>28, <1>29, <1>30, <1>31, <1>32, <1>33
     DEF Next, Work, Requests, Lifecycle, Environment

\* The invariant holds in every reachable state.
LEMMA TemplateInduct == Spec => []TemplateInv
<1>1. Init => TemplateInv
  BY TemplateInit
<1>2. IInv /\ IInv' /\ TemplateInv /\ [Next]_vars => TemplateInv'
  BY TemplateNext DEF IInv, AddressInv
<1> QED
  BY <1>1, <1>2, IInvInduct, PTL DEF Spec

\* Every DoH template this program added is named in doh_added on disk for as
\* long as it is there, whatever fails and wherever the process dies
\* (claim_templates, withdraw_templates, DnsBackup::delete).
THEOREM TemplatesClaimedAlways == Spec => []TemplatesClaimed
<1>1. TemplateInv => TemplatesClaimed
  BY DEF TemplateInv
<1> QED
  BY <1>1, TemplateInduct, PTL

-----------------------------------------------------------------------------
(* The templates are on loan *)

\* The ledger of TemplateLoan: what doh_added names.
Claimed == [t \in Servers |-> t \in claims]

\* What the ledger says of a template, as a value.
LEMMA ClaimedIs ==
  ASSUME NEW t \in Servers
  PROVE  /\ t \in claims => Claimed[t] = TRUE
         /\ t \notin claims => Claimed[t] = FALSE
         /\ t \in claims' => Claimed'[t] = TRUE
         /\ t \notin claims' => Claimed'[t] = FALSE
<1>1. ASSUME t \in claims PROVE Claimed[t] = TRUE
  <2>1. (t \in claims) = TRUE
    BY <1>1
  <2>2. Claimed[t] = (t \in claims)
    BY Zenon DEF Claimed
  <2> QED
    BY <2>1, <2>2, Zenon
<1>2. ASSUME t \notin claims PROVE Claimed[t] = FALSE
  <2>1. (t \in claims) = FALSE
    BY <1>2
  <2>2. Claimed[t] = (t \in claims)
    BY Zenon DEF Claimed
  <2> QED
    BY <2>1, <2>2, Zenon
<1>3. ASSUME t \in claims' PROVE Claimed'[t] = TRUE
  <2>1. (t \in claims') = TRUE
    BY <1>3
  <2>2. Claimed'[t] = (t \in claims')
    BY Zenon DEF Claimed
  <2> QED
    BY <2>1, <2>2, Zenon
<1>4. ASSUME t \notin claims' PROVE Claimed'[t] = FALSE
  <2>1. (t \in claims') = FALSE
    BY <1>4
  <2>2. Claimed'[t] = (t \in claims')
    BY Zenon DEF Claimed
  <2> QED
    BY <2>1, <2>2, Zenon
<1> QED
  BY <1>1, <1>2, <1>3, <1>4

\* The ledger has an entry or none for every server.
LEMMA ClaimedType == Claimed' \in [Servers -> {TRUE} \cup {FALSE}]
<1>1. Claimed' = [t \in Servers |-> Claimed'[t]]
  BY Zenon DEF Claimed
<1>2. ASSUME NEW t \in Servers PROVE Claimed'[t] \in {TRUE} \cup {FALSE}
  <2>1. Claimed'[t] = TRUE \/ Claimed'[t] = FALSE
    BY ClaimedIs
  <2> QED
    BY <2>1
<1> QED
  BY <1>1, <1>2, Zenon

\* Claims that are struck out owe nothing: a step of the loan.
LEMMA StrikeClaims ==
  ASSUME UNCHANGED mine, claims' \subseteq claims, mine \cap claims \subseteq claims'
  PROVE  TemplateLoan!LoanNext
<1>1. Claimed' \in [Servers -> {TRUE} \cup {FALSE}]
  BY ClaimedType
<1>2. ASSUME NEW t \in Servers
      PROVE  Claimed'[t] = Claimed[t] \/ (Claimed'[t] = FALSE /\ t \notin mine)
  <2>1. CASE t \in claims'
    BY <1>2, <2>1, ClaimedIs
  <2>2. CASE t \notin claims
    BY <1>2, <2>2, ClaimedIs
  <2>3. CASE t \in claims /\ t \notin claims'
    <3>1. t \notin mine
      BY <2>3
    <3>2. Claimed'[t] = FALSE
      BY <1>2, <2>3, ClaimedIs
    <3> QED
      BY <3>1, <3>2
  <2> QED
    BY <2>1, <2>2, <2>3
<1>3. TemplateLoan!Strike
  BY <1>1, <1>2 DEF TemplateLoan!Strike, Claimed
<1> QED
  BY <1>3 DEF TemplateLoan!LoanNext

\* Claims that are added leave those that stand: a step of the loan.
LEMMA RecordClaims ==
  ASSUME UNCHANGED mine, claims \subseteq claims'
  PROVE  TemplateLoan!LoanNext
<1>1. Claimed' \in [Servers -> {TRUE} \cup {FALSE}]
  BY ClaimedType
<1>2. ASSUME NEW t \in Servers, Claimed[t] # FALSE
      PROVE  Claimed'[t] = Claimed[t]
  <2>1. t \in claims
    BY <1>2, ClaimedIs
  <2> QED
    BY <2>1, ClaimedIs
<1>3. TemplateLoan!Record
  BY <1>1, <1>2 DEF TemplateLoan!Record, Claimed
<1> QED
  BY <1>3 DEF TemplateLoan!LoanNext

\* Every step of Protection is a step of the template loan or leaves it alone
\* (one step per action that writes a template or the claims).
LEMMA TemplateLoanStep ==
  IInv /\ TemplateInv /\ [Next]_vars => [TemplateLoan!LoanNext]_<<mine, Claimed>>
<1> SUFFICES ASSUME IInv, TemplateInv, [Next]_vars
             PROVE  TemplateLoan!LoanNext \/ UNCHANGED <<mine, Claimed>>
  OBVIOUS
<1> USE DEF vars, machine, backup, process, history
<1>a. ASSUME UNCHANGED <<mine, claims>> PROVE UNCHANGED <<mine, Claimed>>
  BY <1>a DEF Claimed
<1>b. ASSUME mine = {}, UNCHANGED mine, DeleteBackup PROVE TemplateLoan!LoanNext
  BY <1>b, StrikeClaims DEF DeleteBackup
<1>1. CASE Claim
  <2>1. CASE claims' = claims \cup (Members[job.aim] \ templates)
    BY <1>1, <2>1, RecordClaims DEF Claim
  <2>2. CASE DeleteBackup /\ ~job.had
    <3>1. mine = {}
      BY <1>1, <2>2 DEF Claim, At, TemplateInv, Fresh
    <3> QED
      BY <1>1, <1>b, <2>2, <3>1 DEF Claim
  <2>3. CASE UNCHANGED backup
    BY <1>1, <1>a, <2>3 DEF Claim
  <2> QED
    BY <1>1, <2>1, <2>2, <2>3 DEF Claim
<1>2. ASSUME NEW t \in Servers, AddTemplate(t)
      PROVE  TemplateLoan!LoanNext \/ UNCHANGED <<mine, Claimed>>
  <2>1. t \in claims
    BY <1>2 DEF AddTemplate, At, TemplateInv, Adding
  <2>h. UNCHANGED claims
    BY <1>2 DEF AddTemplate
  <2>2. Claimed[t] = TRUE /\ UNCHANGED Claimed
    BY <2>h, <2>1, ClaimedIs DEF Claimed
  <2>3. CASE mine' = mine \cup {t}
    <3>1. TemplateLoan!Lend(t)
      BY <2>2, <2>3 DEF TemplateLoan!Lend, Claimed
    <3> QED
      BY <3>1 DEF TemplateLoan!LoanNext
  <2>4. CASE mine' = mine
    BY <2>2, <2>4
  <2> QED
    BY <1>2, <2>3, <2>4 DEF AddTemplate
<1>3. ASSUME NEW t \in Servers, WithdrawTemplate(t) \/ RemoveTemplate(t)
      PROVE  TemplateLoan!LoanNext \/ UNCHANGED <<mine, Claimed>>
  <2>1. UNCHANGED claims
    BY <1>3 DEF WithdrawTemplate, RemoveTemplate
  <2>2. CASE mine' = mine \ {t}
    <3>1. TemplateLoan!Return(t)
      BY <2>1, <2>2 DEF TemplateLoan!Return
    <3> QED
      BY <3>1 DEF TemplateLoan!LoanNext
  <2>3. CASE mine' = mine
    BY <1>a, <2>1, <2>3
  <2> QED
    BY <1>3, <2>2, <2>3 DEF WithdrawTemplate, RemoveTemplate
<1>4. CASE WithdrawClaims
  <2>1. mine \cap job.claimed = {} /\ mine \subseteq claims /\ UNCHANGED mine
    BY <1>4 DEF WithdrawClaims, At, TemplateInv, Withdrawing, TemplatesClaimed
  <2>2. CASE DeleteBackup /\ claims \ job.claimed = {}
    BY <1>b, <2>1, <2>2
  <2>3. CASE claims' = claims \ job.claimed
    BY <2>1, <2>3, StrikeClaims
  <2>4. CASE UNCHANGED claims
    BY <1>a, <2>1, <2>4
  <2> QED
    BY <1>4, <2>2, <2>3, <2>4 DEF WithdrawClaims, Deleted
<1>5. CASE Forget
  <2>1. CASE job.result = "ok"
    <3>1. mine = {}
      BY <1>5, <2>1 DEF Forget, At, TemplateInv, Removed
    <3> QED
      BY <1>5, <1>a, <1>b, <2>1, <3>1 DEF Forget, Deleted
  <2>2. CASE job.result # "ok"
    BY <1>5, <1>a, <2>2 DEF Forget
  <2> QED
    BY <2>1, <2>2
<1>6. CASE EnsureStub \/ RefreshEndpoints \/ BackUp \/ TemplatesAdded \/ Applied
  BY <1>6, <1>a DEF EnsureStub, RefreshEndpoints, BackUp, TemplatesAdded, Applied
<1>7. CASE LoadBackup \/ Restored \/ StopStub \/ TurnOff \/ SaveSettings
  BY <1>7, <1>a DEF LoadBackup, Restored, StopStub, TurnOff, SaveSettings
<1>8. CASE \E s \in Slots : WriteAdapter(s) \/ RestoreSlot(s)
  BY <1>8, <1>a DEF WriteAdapter, RestoreSlot
<1>9. CASE Requests \/ Guard \/ FollowEndpoints
  BY <1>9, <1>a DEF Requests, Enable, Disable, SetSettings, Request, Guard,
                    FollowEndpoints, Pass
<1>10. CASE Lifecycle
  BY <1>10, <1>a DEF Lifecycle, Start, StopRequest, OnStop, Exit, Crash, Gone
<1>11. CASE Environment
  BY <1>11, <1>a DEF Environment, OthersWrite, OthersAddTemplate, LinkChange, Learn
<1>12. CASE UNCHANGED vars
  BY <1>12, <1>a
<1> QED
  BY <1>1, <1>2, <1>3, <1>4, <1>5, <1>6, <1>7, <1>8, <1>9, <1>10, <1>11, <1>12
     DEF Next, Work

\* The DoH templates are lent and given back as DnsLoan says: Protection
\* implements it a second time (claim_templates, withdraw_templates, restore).
THEOREM TemplatesImplementLoan == Spec => TemplatesAreLent
<1>1. Init => TemplateLoan!LoanInit
  <2> SUFFICES ASSUME Init PROVE TemplateLoan!LoanInit
    OBVIOUS
  <2>1. mine = {} /\ claims = {}
    BY DEF Init
  <2>2. [t \in Servers |-> t \in claims] = [t \in Servers |-> FALSE]
    <3>1. ASSUME NEW t \in Servers PROVE (t \in claims) = FALSE
      BY <2>1
    <3> QED
      BY <3>1, Zenon
  <2> QED
    BY <2>1, <2>2 DEF TemplateLoan!LoanInit
<1>2. IInv /\ TemplateInv /\ [Next]_vars => [TemplateLoan!LoanNext]_TemplateLoan!loan
  BY TemplateLoanStep DEF TemplateLoan!loan, Claimed
<1> QED
  BY <1>1, <1>2, IInvInduct, TemplateInduct, PTL
     DEF Spec, TemplatesAreLent, TemplateLoan!LoanSpec
=============================================================================
