------------------------- MODULE InstallationProofs -------------------------
(***************************************************************************)
(* Theorems about the program on a machine, for any number of windows, any *)
(* names to move files aside to and any number of events: no step of any   *)
(* verb, and no interruption of one, schedules the installed program for   *)
(* deletion, loses it, or leaves the adapters on ours with nothing to put  *)
(* them back from, and what a setup reports as done is registered against  *)
(* a file. A removal leaves nothing to whatever boot comes next, unless a  *)
(* call failed that it does not look at (silent), Windows refused a rename *)
(* (refused) or it went past a service that was still there (hurried).     *)
(***************************************************************************)
EXTENDS Installation, FiniteSetTheorems, WellFoundedInduction, TLAPS

\* Which verb is at which step.
Removals == {"uninstall", "remove"}
VerbSteps ==
  /\ job.pc \in {"halt", "wait"} => job.verb \in Removals \cup {"setup", "stop", "restart"}
  /\ job.pc \in {"place", "copy", "clean", "shell", "register"} => job.verb \in {"setup", "install"}
  /\ job.pc = "start" => job.verb \notin Removals
  /\ job.pc \in {"delete", "restore", "forget", "data", "files", "schedule"} => job.verb \in Removals
  /\ job.pc # "idle" => last.verb = "none" /\ job.placed # Nowhere

\* What an installed program relies on: nobody works while Windows does, no
\* entry names a backup, a removal finds the program where it was, and a setup
\* has it in its place or aside.
AtRest == job.pc = "idle" => job = Idle
BootAlone == booting => job.pc = "idle"
QueueNamesNoBackup == \A d \in DataDirs : Backup(d) \notin Queued
TodoIsThere == (job.pc = "files" /\ Exe \in job.todo) => Exe \in there
SetupPlaces ==
  (job.verb = "setup" /\ job.had /\ ~refused)
    => IF job.pc = "copy" THEN Exe \in there \/ job.aside # Nowhere ELSE Exe \in there

\* The file a setup means to register is there all along, and what is registered
\* by the time the service starts.
Installs == job.verb \in {"setup", "install"}
PlacedIsThere ==
  /\ (Installs /\ job.pc # "idle") => job.placed \in there
  /\ (Installs /\ job.pc \in {"halt", "wait", "place", "copy"}) => job.placed = Copy
  /\ (Installs /\ job.pc \in {"start", "report"}) => reg.exe = job.placed /\ ~reg.marked

\* What a backup relies on: only a registered service runs, it enables with a
\* backup on disk, and an uninstall that deletes one has no service left.
OnlyRegisteredRuns == (Up => Registered) /\ (svc.pass # "none" => Up)
BackedUpFirst == (svc.pass = "write" /\ ~hurried) => Backup(svc.home) \in there
Late ==
  \/ job.pc \in {"restore", "forget", "data", "files", "schedule"}
  \/ job.pc = "report" /\ job.verb \in Removals
Alone == (Late /\ ~hurried) => ~Registered
ForgetsOnce == (job.pc = "forget" /\ ~hurried) => ~ours
\* ... and either no backup or, where deleting it failed, nothing that needs one.
Clear == job.verb \in Removals /\ job.pc \in {"data", "files", "report", "schedule"} /\ ~job.warned
GivenBack(home, silent) ==
  ~Registered /\ (Backup(home) \notin there \/ (silent /\ ~ours))
Undone == (Clear /\ ~hurried) => GivenBack(Home(job.from), job.silent)
StaysUndone ==
  (last.verb \in Removals /\ ~last.warned /\ ~hurried) => GivenBack(last.home, last.silent)

DiskInv ==
  /\ TypeOK /\ VerbSteps /\ AtRest /\ BootAlone
  /\ QueueNamesNoBackup /\ TodoIsThere /\ SetupPlaces /\ QueueSpares
DnsInv ==
  /\ OnlyRegisteredRuns /\ BackedUpFirst /\ Alone /\ ForgetsOnce /\ Undone /\ StaysUndone
  /\ LentHasBackup

-----------------------------------------------------------------------------
(* Files and names. *)

\* The places a verb's record can name.
LEMMA Files ==
  /\ Exe # Nowhere /\ Copy # Nowhere /\ Exe # Copy /\ Exe \notin AsideFiles
  /\ Nowhere \notin Program /\ Nowhere \notin Paths
  /\ Program \subseteq Paths /\ AsideFiles \subseteq Program /\ Exe \in Program
  /\ \A d \in DataDirs : /\ {Backup(d), Folder(d), Report(d)} \subseteq Paths
                         /\ {Backup(d), Folder(d), Report(d)} \cap Program = {}
                         /\ \A e \in DataDirs : Backup(d) # Folder(e) /\ Backup(d) # Report(e)
  /\ Folder("program") \in Paths /\ Folder("program") # Exe
  /\ \A d \in DataDirs : Backup(d) # Folder("program")
<1>1. \A n \in DOMAIN Asides : Asides[n] # "exe" /\ Asides[n] # "folder"
  BY AsideAssumption
<1>2. Exe \notin AsideFiles
  BY <1>1 DEF Exe, AsideFiles
<1>3. Nowhere \notin AsideFiles
  BY DEF Nowhere, AsideFiles
<1>4. Exe # Nowhere /\ Copy # Nowhere /\ Exe # Copy
  BY DEF Exe, Copy, Nowhere
<1>5. Exe \in Program /\ AsideFiles \subseteq Program /\ Program \subseteq Paths
  BY DEF Program, Paths
<1>6. Nowhere \notin Program
  BY <1>3, <1>4 DEF Program
<1>7. Folder("program") \in Paths /\ Folder("program") # Exe /\ Folder("program") # Nowhere
  BY DEF Paths, Folder, Exe, Nowhere
<1>8. Nowhere \notin DataDirs \X {"folder", "backup", "report"}
  BY DEF Nowhere, DataDirs
<1>9. Nowhere \notin Paths
  BY <1>4, <1>6, <1>7, <1>8 DEF Paths
<1>10. ASSUME NEW d \in DataDirs
       PROVE  /\ {Backup(d), Folder(d), Report(d)} \subseteq Paths
              /\ {Backup(d), Folder(d), Report(d)} \cap Program = {}
              /\ \A e \in DataDirs : Backup(d) # Folder(e) /\ Backup(d) # Report(e)
              /\ Backup(d) # Folder("program")
  <2>1. Backup(d) \in Paths /\ Folder(d) \in Paths /\ Report(d) \in Paths
    BY DEF Paths, Backup, Folder, Report
  <2>2. d # "program"
    BY DEF DataDirs
  <2>3. Backup(d) # Exe /\ Folder(d) # Exe /\ Report(d) # Exe /\ Backup(d) # Folder("program")
    BY <2>2 DEF Backup, Folder, Report, Exe
  <2>4. \A f \in AsideFiles : f[1] = "program"
    BY DEF AsideFiles
  <2>5. Backup(d) \notin AsideFiles /\ Folder(d) \notin AsideFiles /\ Report(d) \notin AsideFiles
    BY <2>2, <2>4 DEF Backup, Folder, Report
  <2>6. \A e \in DataDirs : Backup(d) # Folder(e) /\ Backup(d) # Report(e)
    BY DEF Backup, Folder, Report
  <2> QED
    BY <2>1, <2>3, <2>5, <2>6 DEF Program
<1> QED
  BY <1>2, <1>4, <1>5, <1>6, <1>7, <1>9, <1>10

LEMMA HomeType == \A exe : Home(exe) \in DataDirs
  BY DEF Home, DataDirs

LEMMA AsidePathType == AsidePath \subseteq AsideFiles
  BY DEF AsidePath, Usable, AsideFiles

-----------------------------------------------------------------------------
(* The type invariant. *)

DiskType == /\ there \subseteq Paths
            /\ image \in [Procs -> Program \cup {Copy, Nowhere}]
            /\ pending \in Seq(Paths) /\ booting \in BOOLEAN
ScmType ==
  /\ reg \in [exe : {Exe, Copy, Nowhere}, auto : BOOLEAN, marked : BOOLEAN]
  /\ svc \in [state : {"stopped", "running", "stopping"}, pass : {"none", "save", "write"},
              applied : BOOLEAN, home : DataDirs, due : BOOLEAN]
DnsType == wish \in [DataDirs -> [enabled : BOOLEAN, auto : BOOLEAN]] /\ ours \in BOOLEAN
JobType ==
  job \in [verb : Verbs \cup {"none"}, pc : Steps, from : {Exe, Copy, Nowhere},
           aside : AsideFiles \cup {Nowhere}, placed : {Exe, Copy, Nowhere},
           todo : SUBSET Program, had : BOOLEAN, warned : BOOLEAN, silent : BOOLEAN]
HistoryType ==
  /\ last \in [verb : Verbs \cup {"none"}, warned : BOOLEAN, silent : BOOLEAN,
              home : DataDirs]
  /\ refused \in BOOLEAN /\ hurried \in BOOLEAN
LeftType == left \in [Kinds -> Nat]

LEMMA TypeParts ==
  TypeOK <=> DiskType /\ ScmType /\ DnsType /\ JobType /\ HistoryType /\ LeftType
  BY DEF TypeOK, DiskType, ScmType, DnsType, JobType, HistoryType, LeftType

LEMMA TypePartsNext ==
  DiskType' /\ ScmType' /\ DnsType' /\ JobType' /\ HistoryType' /\ LeftType' => TypeOK'
  BY DEF TypeOK, DiskType, ScmType, DnsType, JobType, HistoryType, LeftType

LEMMA SpendType == ASSUME LeftType, NEW k \in Kinds, Spend(k) PROVE LeftType'
  BY DEF LeftType, Spend

LEMMA GotoType ==
  ASSUME JobType, NEW pc \in Steps, Goto(pc) \/ Warn(pc) \/ Miss(pc) PROVE JobType'
  BY DEF JobType, Goto, Warn, Miss

LEMMA EndsType ==
  ASSUME JobType, NEW ok, NEW silent \in BOOLEAN, Ends(ok, silent),
         UNCHANGED <<refused, hurried>>, HistoryType
  PROVE  JobType' /\ HistoryType'
<1>1. JobType'
  BY DEF JobType, Ends, Idle, Steps
<1>2. HistoryType'
  BY HomeType DEF JobType, Ends, HistoryType, NoVerb, DataDirs
<1> QED
  BY <1>1, <1>2

LEMMA TypeInit == Init => TypeOK
<1> SUFFICES ASSUME Init PROVE TypeOK
  OBVIOUS
<1>0. PICK installed \in BOOLEAN :
        /\ there = IF installed THEN {Copy, Exe, Folder("program")} ELSE {Copy}
        /\ reg = IF installed THEN [NoReg EXCEPT !.exe = Exe, !.auto = TRUE] ELSE NoReg
        /\ svc = [Down EXCEPT !.due = installed]
  BY DEF Init
<1>1. DiskType
  <2>1. there \subseteq {Copy, Exe, Folder("program")}
    BY <1>0
  <2>2. Copy \in Paths /\ Exe \in Paths
    BY Files DEF Paths
  <2>3. there \subseteq Paths
    BY <2>1, <2>2, Files
  <2>4. pending \in Seq(Paths) /\ booting \in BOOLEAN
    <3>1. pending = <<>> /\ booting = FALSE
      BY DEF Init
    <3>2. <<>> \in Seq(Paths)
      OBVIOUS
    <3> QED
      BY <3>1, <3>2
  <2>5. image \in [Procs -> Program \cup {Copy, Nowhere}]
    BY DEF Init
  <2> QED
    BY <2>3, <2>4, <2>5 DEF DiskType
<1>2. ScmType
  <2>1. reg \in [exe : {Exe, Copy, Nowhere}, auto : BOOLEAN, marked : BOOLEAN]
    BY <1>0 DEF NoReg
  <2>2. Down \in [state : {"stopped", "running", "stopping"}, pass : {"none", "save", "write"},
                  applied : BOOLEAN, home : DataDirs, due : BOOLEAN]
    BY DEF Down, DataDirs
  <2> QED
    BY <1>0, <2>1, <2>2 DEF ScmType
<1>3. DnsType /\ LeftType
  BY BudgetAssumption DEF Init, DnsType, LeftType, Default
<1>4. JobType /\ HistoryType
  BY DEF Init, JobType, HistoryType, Idle, NoVerb, Steps, DataDirs
<1> QED
  BY <1>1, <1>2, <1>3, <1>4, TypeParts

LEMMA EndedType ==
  ASSUME ScmType, DiskType, NEW due \in BOOLEAN, Ended(due),
         UNCHANGED <<there, pending, booting>>
  PROVE  ScmType' /\ DiskType'
<1>1. ScmType'
  BY DEF ScmType, Ended, Down, NoReg, DataDirs
<1>2. DiskType'
  BY DEF DiskType, Ended
<1> QED
  BY <1>1, <1>2

LEMMA StartedType ==
  ASSUME ScmType, DiskType, DnsType, LeftType, Registered, Started(Home(reg.exe)),
         UNCHANGED <<pending, booting, reg, wish>>
  PROVE  ScmType' /\ DiskType' /\ DnsType' /\ LeftType'
<1> DEFINE home == Home(reg.exe)
<1>1. home \in DataDirs /\ reg.exe \in {Exe, Copy} /\ "fault" \in Kinds
  BY HomeType DEF ScmType, Registered, Kinds
<1>2. svc' \in [state : {"stopped", "running", "stopping"}, pass : {"none", "save", "write"},
                applied : BOOLEAN, home : DataDirs, due : BOOLEAN]
  BY <1>1 DEF Started, Down
<1>3. image' \in [Procs -> Program \cup {Copy, Nowhere}]
  BY <1>1, Files DEF Started, DiskType
<1>4. there' \subseteq there
  BY DEF Started, Reverted
<1>5. ours' \in BOOLEAN
  BY DEF Started, Reverted, Restored, DnsType
<1>6. LeftType'
  <2>1. UNCHANGED left \/ Spend("fault")
    BY DEF Started, Reverted, Restored
  <2> QED
    BY <1>1, <2>1, SpendType DEF LeftType
<1> QED
  BY <1>2, <1>3, <1>4, <1>5, <1>6 DEF ScmType, DiskType, DnsType

LEMMA RenameType ==
  ASSUME DiskType, NEW f \in Program, NEW g \in Program, Rename(f, g)
  PROVE  /\ there' \subseteq Paths
         /\ image' \in [Procs -> Program \cup {Copy, Nowhere}]
  BY Files DEF DiskType, Rename

LEMMA AppendType ==
  ASSUME pending \in Seq(Paths), NEW f \in Paths
  PROVE  Append(pending, f) \in Seq(Paths)
  OBVIOUS

\* The service's own steps, and what others do to it.
LEMMA ServiceType ==
  ASSUME TypeOK, Service \/ Disable \/ SetAutostart \/ Kill
  PROVE  TypeOK'
<1>t. DiskType /\ ScmType /\ DnsType /\ JobType /\ HistoryType /\ LeftType
  BY TypeParts
<1> SUFFICES DiskType' /\ ScmType' /\ DnsType' /\ JobType' /\ HistoryType' /\ LeftType'
  BY TypePartsNext
<1> USE <1>t
<1>k. {"fault", "request", "crash"} \subseteq Kinds
  BY DEF Kinds
<1>h. svc.home \in DataDirs
  BY DEF ScmType
<1>1. CASE SvcStart
  <2>1. JobType' /\ HistoryType'
    BY <1>1 DEF SvcStart, JobType, HistoryType, history
  <2> QED
    BY <1>1, <2>1, StartedType DEF SvcStart, Startable
<1>2. CASE Enable
  <2>1. LeftType'
    BY <1>2, <1>k, SpendType DEF Enable, LeftType
  <2> QED
    BY <1>2, <2>1 DEF Enable, DiskType, ScmType, DnsType, JobType, HistoryType, disk, dns, history
<1>3. CASE BackUp
  <2>1. LeftType'
    BY <1>3, <1>k, SpendType DEF BackUp, LeftType
  <2>2. DiskType'
    BY <1>3, <1>h, Files DEF BackUp, DiskType
  <2> QED
    BY <1>3, <2>1, <2>2 DEF BackUp, ScmType, DnsType, JobType, HistoryType, dns, history
<1>4. CASE WriteAdapters
  <2>0. LeftType'
    BY <1>4, <1>k, SpendType DEF WriteAdapters, LeftType
  <2>1. DnsType'
    BY <1>4, <1>h DEF WriteAdapters, DnsType
  <2>2. ScmType'
    BY <1>4 DEF WriteAdapters, ScmType
  <2> QED
    BY <1>4, <2>0, <2>1, <2>2 DEF WriteAdapters, DiskType, JobType, HistoryType, disk, history
<1>5. CASE OnStop
  <2>1. ours' \in BOOLEAN /\ UNCHANGED wish
    BY <1>5 DEF OnStop, Restored, NotRestored, DnsType
  <2>2. LeftType'
    <3>1. UNCHANGED left \/ Spend("fault")
      BY <1>5 DEF OnStop, Restored, NotRestored
    <3> QED
      BY <1>k, <3>1, SpendType DEF LeftType
  <2>3. ScmType' /\ DiskType'
    BY <1>5, EndedType DEF OnStop
  <2>4. JobType' /\ HistoryType'
    BY <1>5 DEF OnStop, JobType, HistoryType, history
  <2> QED
    BY <2>1, <2>2, <2>3, <2>4 DEF DnsType
<1>6. CASE Disable
  <2>1. ours' \in BOOLEAN
    BY <1>6 DEF Disable, Reverted, Restored, DnsType
  <2>2. LeftType'
    <3>1. UNCHANGED left \/ Spend("fault")
      BY <1>6 DEF Disable, Reverted, Restored
    <3> QED
      BY <1>k, <3>1, SpendType DEF LeftType
  <2>3. there' \subseteq there
    BY <1>6 DEF Disable, Reverted
  <2>4. wish' \in [DataDirs -> [enabled : BOOLEAN, auto : BOOLEAN]]
    BY <1>6, <1>h DEF Disable, DnsType
  <2>5. ScmType'
    BY <1>6 DEF Disable, ScmType
  <2>6. DiskType'
    BY <1>6, <2>3 DEF Disable, DiskType
  <2> QED
    BY <1>6, <2>1, <2>2, <2>4, <2>5, <2>6 DEF Disable, DnsType, JobType, HistoryType, history
<1>7. CASE SetAutostart
  <2>1. LeftType'
    BY <1>7, <1>k, SpendType DEF SetAutostart
  <2>2. wish' \in [DataDirs -> [enabled : BOOLEAN, auto : BOOLEAN]]
    BY <1>7, <1>h DEF SetAutostart, DnsType
  <2>3. UNCHANGED <<disk, svc, ours, job, last, refused, hurried>>
    BY <1>7 DEF SetAutostart
  <2>4. reg' \in [exe : {Exe, Copy, Nowhere}, auto : BOOLEAN, marked : BOOLEAN]
    BY <1>7 DEF SetAutostart, ScmType
  <2> QED
    BY <2>1, <2>2, <2>3, <2>4 DEF DiskType, ScmType, DnsType, JobType, HistoryType, disk
<1>8. CASE Kill
  <2>1. LeftType'
    BY <1>8, <1>k, SpendType DEF Kill
  <2>2. ScmType' /\ DiskType'
    <3>1. (svc.state = "running") \in BOOLEAN
      OBVIOUS
    <3> QED
      BY <1>8, <3>1, EndedType DEF Kill
  <2> QED
    BY <1>8, <2>1, <2>2 DEF Kill, DnsType, JobType, HistoryType, dns, history
<1> QED
  BY <1>1, <1>2, <1>3, <1>4, <1>5, <1>6, <1>7, <1>8 DEF Service

\* The steps of a verb.
LEMMA PlacingType ==
  ASSUME TypeOK, MoveAside \/ CopyFile \/ Clean
  PROVE  TypeOK'
<1>t. DiskType /\ ScmType /\ DnsType /\ JobType /\ HistoryType /\ LeftType
  BY TypeParts
<1> SUFFICES DiskType' /\ ScmType' /\ DnsType' /\ JobType' /\ HistoryType' /\ LeftType'
  BY TypePartsNext
<1> USE <1>t
<1>k. "fault" \in Kinds
  BY DEF Kinds
<1>f. Exe \in Program /\ AsidePath \subseteq Program /\ AsidePath \subseteq AsideFiles /\ Program \subseteq Paths
  BY Files, AsidePathType
<1>p. {"copy", "shell", "clean"} \subseteq Steps
  BY DEF Steps
<1>1. CASE MoveAside
  <2>1. LeftType'
    <3>1. UNCHANGED left \/ Spend("fault")
      BY <1>1 DEF MoveAside
    <3> QED
      BY <1>k, <3>1, SpendType DEF LeftType
  <2>2. there' \subseteq Paths /\ image' \in [Procs -> Program \cup {Copy, Nowhere}]
    <3>1. CASE \E f \in AsidePath : Rename(Exe, f)
      BY <1>f, <3>1, RenameType
    <3>2. CASE there' \subseteq there \cup {Folder("program")} /\ UNCHANGED image
      BY <3>2, Files DEF DiskType
    <3> QED
      BY <1>1, <3>1, <3>2 DEF MoveAside
  <2>3. JobType'
    <3>1. CASE Goto("copy") \/ Warn("copy") \/ Warn("shell")
      BY <3>1, <1>p, GotoType
    <3>2. CASE \E f \in AsidePath : job' = [job EXCEPT !.pc = "copy", !.aside = f]
      BY <3>2, <1>f, <1>p DEF JobType
    <3> QED
      BY <1>1, <3>1, <3>2 DEF MoveAside
  <2>4. HistoryType'
    BY <1>1 DEF MoveAside, HistoryType
  <2>5. ScmType' /\ DnsType' /\ UNCHANGED <<pending, booting>>
    BY <1>1 DEF MoveAside, scm, dns, ScmType, DnsType
  <2> QED
    BY <2>1, <2>2, <2>3, <2>4, <2>5 DEF DiskType
<1>2. CASE CopyFile
  <2>1. LeftType'
    <3>1. UNCHANGED left \/ Spend("fault")
      BY <1>2 DEF CopyFile
    <3> QED
      BY <1>k, <3>1, SpendType DEF LeftType
  <2>2. there' \subseteq Paths /\ image' \in [Procs -> Program \cup {Copy, Nowhere}]
    <3>1. CASE job.aside # Nowhere /\ Rename(job.aside, Exe)
      <4>1. job.aside \in Program
        BY <3>1, Files DEF JobType
      <4> QED
        BY <1>f, <3>1, <4>1, RenameType
    <3>2. CASE there' \subseteq there \cup {Exe} /\ UNCHANGED image
      BY <3>2, <1>f DEF DiskType
    <3> QED
      BY <1>2, <3>1, <3>2 DEF CopyFile
  <2>3. JobType'
    <3>1. CASE Warn("shell")
      BY <3>1, <1>p, GotoType
    <3>2. CASE job' = [job EXCEPT !.pc = "clean", !.placed = Exe]
      BY <3>2, <1>p DEF JobType
    <3> QED
      BY <1>2, <3>1, <3>2 DEF CopyFile
  <2>4. HistoryType'
    BY <1>2 DEF CopyFile, HistoryType
  <2>5. ScmType' /\ DnsType' /\ UNCHANGED <<pending, booting>>
    BY <1>2 DEF CopyFile, scm, dns, ScmType, DnsType
  <2> QED
    BY <2>1, <2>2, <2>3, <2>4, <2>5 DEF DiskType
<1>3. CASE Clean
  <2>1. JobType'
    BY <1>3, <1>p, GotoType DEF Clean
  <2>2. job.aside # Nowhere => job.aside \in Paths
    BY Files DEF JobType
  <2>3. pending' \in Seq(Paths) /\ there' \subseteq Paths
    BY <1>3, <2>2, AppendType DEF Clean, DiskType
  <2> QED
    BY <1>3, <2>1, <2>3 DEF Clean, DiskType, ScmType, DnsType, HistoryType, LeftType, scm, dns, history
<1> QED
  BY <1>1, <1>2, <1>3

\* One entry of the program's folder, named.
RemovesEntry(f, lost) ==
  /\ job' = [job EXCEPT !.todo = @ \ {f}, !.silent = @ \/ lost]
  /\ \/ /\ f \in there /\ ~Busy(f) /\ ~lost
        /\ there' = there \ {f}
        /\ UNCHANGED <<image, pending, refused, left>>
     \/ /\ f \in there /\ Busy(f)
        /\ \/ \E g \in AsidePath :
                \/ /\ Rename(f, g) /\ Queue(g, lost) /\ Unnoticed(lost)
                   /\ UNCHANGED refused
                \/ /\ Spend("fault") /\ refused' = TRUE
                   /\ there' = there \ {g} /\ UNCHANGED image
                   /\ Queue(f, lost)
           \/ /\ AsidePath = {} /\ Queue(f, lost) /\ Unnoticed(lost)
              /\ UNCHANGED <<there, image, refused>>
     \/ /\ f \notin there /\ Queue(f, lost) /\ Unnoticed(lost)
        /\ there' = there \ AsidePath
        /\ UNCHANGED <<image, refused>>

LEMMA RemoveFileTakes ==
  ASSUME RemoveFile
  PROVE  \E f \in job.todo, lost \in BOOLEAN : RemovesEntry(f, lost)
  BY DEF RemoveFile, RemovesEntry

LEMMA RemovingType ==
  ASSUME TypeOK, RemoveData \/ RemoveFile \/ RemoveFolder \/ SaveReport \/ Schedule
  PROVE  TypeOK'
<1>t. DiskType /\ ScmType /\ DnsType /\ JobType /\ HistoryType /\ LeftType
  BY TypeParts
<1> SUFFICES DiskType' /\ ScmType' /\ DnsType' /\ JobType' /\ HistoryType' /\ LeftType'
  BY TypePartsNext
<1> USE <1>t
<1>k. "fault" \in Kinds
  BY DEF Kinds
<1>f. AsidePath \subseteq Program /\ Program \subseteq Paths
  BY Files, AsidePathType
<1>d. Home(job.from) \in DataDirs
  BY HomeType
<1>p. {"files", "report", "schedule"} \subseteq Steps
  BY DEF Steps
<1>1. CASE RemoveData
  <2>1. JobType'
    <3>1. PICK over, todo :
            /\ over \in BOOLEAN /\ todo \in {{}, Program \cap there}
            /\ job' = [job EXCEPT !.pc = "files", !.silent = @ \/ over, !.todo = todo]
      BY <1>1 DEF RemoveData
    <3>2. todo \subseteq Program /\ (job.silent \/ over) \in BOOLEAN
      BY <3>1
    <3> QED
      BY <1>p, <3>1, <3>2 DEF JobType
  <2>0. UNCHANGED <<disk, scm, ours, history>>
    BY <1>1 DEF RemoveData
  <2>2. DnsType'
    <3>1. wish' = wish \/ wish' = [wish EXCEPT ![Home(job.from)] = Default]
      BY <1>1 DEF RemoveData
    <3>2. Default \in [enabled : BOOLEAN, auto : BOOLEAN]
      BY DEF Default
    <3>3. wish' \in [DataDirs -> [enabled : BOOLEAN, auto : BOOLEAN]]
      BY <1>d, <3>1, <3>2 DEF DnsType
    <3> QED
      BY <2>0, <3>3 DEF DnsType
  <2>3. LeftType'
    <3>1. UNCHANGED left \/ Spend("fault")
      BY <1>1 DEF RemoveData, Unnoticed
    <3> QED
      BY <1>k, <3>1, SpendType DEF LeftType
  <2> QED
    BY <2>0, <2>1, <2>2, <2>3 DEF DiskType, ScmType, HistoryType, disk, scm, history
<1>2. CASE RemoveFile
  <2>0. PICK f \in job.todo, lost \in BOOLEAN : RemovesEntry(f, lost)
    BY <1>2, RemoveFileTakes
  <2>1. f \in Program
    BY DEF JobType
  <2>2. LeftType'
    <3>1. UNCHANGED left \/ Spend("fault")
      BY <2>0 DEF RemovesEntry, Unnoticed
    <3> QED
      BY <1>k, <3>1, SpendType DEF LeftType
  <2>3. there' \subseteq Paths /\ image' \in [Procs -> Program \cup {Copy, Nowhere}]
    <3>1. CASE \E g \in AsidePath : Rename(f, g)
      BY <1>f, <2>1, <3>1, RenameType
    <3>2. CASE there' \subseteq there /\ UNCHANGED image
      BY <3>2 DEF DiskType
    <3> QED
      BY <2>0, <3>1, <3>2 DEF RemovesEntry
  <2>4. pending' \in Seq(Paths)
    <3>1. pending' = pending \/ \E g \in Paths : pending' = Append(pending, g)
      BY <1>f, <2>0, <2>1 DEF RemovesEntry, Queue
    <3> QED
      BY <3>1, AppendType DEF DiskType
  <2>5. JobType'
    BY <2>0 DEF RemovesEntry, JobType
  <2>6. HistoryType'
    BY <1>2, <2>0 DEF RemoveFile, RemovesEntry, HistoryType
  <2>7. DiskType'
    <3>1. UNCHANGED booting
      BY <1>2 DEF RemoveFile
    <3> QED
      BY <2>3, <2>4, <3>1 DEF DiskType
  <2>8. ScmType' /\ DnsType'
    BY <1>2 DEF RemoveFile, ScmType, DnsType, scm, dns
  <2> QED
    BY <2>2, <2>5, <2>6, <2>7, <2>8
<1>3. CASE RemoveFolder
  <2>1. JobType'
    BY <1>3, <1>p, GotoType DEF RemoveFolder
  <2>2. pending' \in Seq(Paths)
    BY <1>3, Files, AppendType DEF RemoveFolder, Queue, DiskType
  <2>3. LeftType'
    BY <1>3, <1>k, SpendType DEF RemoveFolder, LeftType
  <2> QED
    <3>1. there' \subseteq there /\ UNCHANGED <<image, booting, scm, dns, history>>
      BY <1>3 DEF RemoveFolder
    <3> QED
      BY <2>1, <2>2, <2>3, <3>1 DEF DiskType, ScmType, DnsType, HistoryType, scm, dns, history
<1>4. CASE SaveReport
  <2>1. Folder(Home(job.from)) \in Paths /\ Report(Home(job.from)) \in Paths
    BY <1>d, Files
  <2>2. there' \subseteq Paths
    BY <1>4, <2>1 DEF SaveReport, DiskType
  <2>3. image' \in [Procs -> Program \cup {Copy, Nowhere}]
    BY <1>4 DEF SaveReport, DiskType
  <2>4. JobType' /\ HistoryType'
    <3>1. CASE Goto("schedule") /\ UNCHANGED last
      BY <1>4, <1>p, <3>1, GotoType DEF SaveReport, HistoryType
    <3>2. CASE Ends(job.pc = "report", job.silent)
      <4>1. job.silent \in BOOLEAN
        BY DEF JobType
      <4>2. UNCHANGED <<refused, hurried>>
        BY <1>4 DEF SaveReport
      <4> QED
        BY <3>2, <4>1, <4>2, EndsType
    <3> QED
      BY <1>4, <3>1, <3>2 DEF SaveReport
  <2> QED
    BY <1>4, <2>2, <2>3, <2>4 DEF SaveReport, DiskType, ScmType, DnsType, LeftType, scm, dns
<1>5. CASE Schedule
  <2>1. Folder(Home(job.from)) \in Paths /\ Report(Home(job.from)) \in Paths
    BY <1>d, Files
  <2>2. pending' \in Seq(Paths)
    <3>1. pending \in Seq(Paths)
      BY DEF DiskType
    <3>2. PICK q : q \in {<<Report(Home(job.from)), Folder(Home(job.from))>>,
                         <<Report(Home(job.from))>>, <<Folder(Home(job.from))>>, <<>>}
                   /\ pending' \in {pending, pending \o q}
      BY <1>5 DEF Schedule
    <3>3. q \in Seq(Paths)
      <4> DEFINE rep == Report(Home(job.from))
                 fold == Folder(Home(job.from))
      <4>1. rep \in Paths /\ fold \in Paths
        BY <2>1
      <4>2. q = <<rep, fold>> \/ q = <<rep>> \/ q = <<fold>> \/ q = <<>>
        BY <3>2
      <4> HIDE DEF rep, fold
      <4>3. <<rep, fold>> \in Seq(Paths) /\ <<rep>> \in Seq(Paths) /\ <<fold>> \in Seq(Paths)
        BY <4>1
      <4>4. <<>> \in Seq(Paths)
        OBVIOUS
      <4> QED
        BY <4>2, <4>3, <4>4
    <3>4. pending \o q \in Seq(Paths)
      BY <3>1, <3>3
    <3> QED
      BY <3>1, <3>2, <3>4
  <2>3. JobType' /\ HistoryType'
    <3>1. PICK silent \in BOOLEAN : Ends(TRUE, silent)
      BY <1>5 DEF Schedule, JobType
    <3>2. UNCHANGED <<refused, hurried>>
      BY <1>5 DEF Schedule
    <3> QED
      BY <3>1, <3>2, EndsType
  <2>0. LeftType'
    BY <1>5, <1>k, SpendType DEF Schedule, Unnoticed, LeftType
  <2>4. image' \in [Procs -> Program \cup {Copy, Nowhere}]
    BY <1>5 DEF Schedule, DiskType
  <2> QED
    BY <1>5, <2>0, <2>2, <2>3, <2>4 DEF Schedule, DiskType, ScmType, DnsType, scm, dns
<1> QED
  BY <1>1, <1>2, <1>3, <1>4, <1>5

\* What asking the service to stop, and waiting for it, can lead to.
Onward == {"failed", "place", "restore", "wait", AfterStop}
LeadsOn(pc) ==
  /\ job.verb = "setup" => pc \in {"place", "wait"}
  /\ pc = "place" => job.verb = "setup"
  /\ pc = "restore" => job.verb \notin Control \cup {"setup"} /\ (Registered => hurried')
LEMMA HaltDoes ==
  ASSUME Halt \/ Wait, hurried \in BOOLEAN
  PROVE  /\ job.pc \in {"halt", "wait"}
         /\ \E pc \in Onward : (Goto(pc) \/ Warn(pc)) /\ LeadsOn(pc)
         /\ svc' = svc \/ (svc' = [svc EXCEPT !.state = "stopping"] /\ Up)
         /\ hurried' \in BOOLEAN /\ (hurried => hurried')
         /\ UNCHANGED left \/ Spend("fault") \/ Spend("slow")
         /\ UNCHANGED <<disk, reg, dns, last, refused>>
<1>1. CASE Halt
  <2>1. CASE StopRefused
    <3>1. UNCHANGED svc /\ Spend("fault")
      BY <2>1 DEF StopRefused
    <3>2. hurried' \in BOOLEAN /\ (hurried => hurried')
      BY <2>1 DEF StopRefused, Passes
    <3>3. \E pc \in Onward : Warn(pc) /\ LeadsOn(pc)
      <4>1. CASE job.verb \in Control
        BY <2>1, <4>1 DEF StopRefused, Onward, LeadsOn, Control
      <4>2. CASE job.verb \notin Control
        BY <2>1, <4>2 DEF StopRefused, Onward, LeadsOn, AfterStop
      <4> QED
        BY <4>1, <4>2
    <3> QED
      BY <1>1, <3>1, <3>2, <3>3 DEF Halt
  <2>2. CASE NotOpened
    <3>1. UNCHANGED svc /\ Spend("fault")
      BY <2>2 DEF NotOpened
    <3>2. hurried' \in BOOLEAN /\ (hurried => hurried')
      <4>1. hurried' = (hurried \/ Up) \/ hurried' = hurried \/ hurried' = TRUE
        BY <2>2 DEF NotOpened
      <4>2. (hurried \/ Up) \in BOOLEAN /\ (hurried => (hurried \/ Up))
        OBVIOUS
      <4> QED
        BY <4>1, <4>2
    <3>3. \E pc \in Onward : Goto(pc) /\ LeadsOn(pc)
      BY <2>2 DEF NotOpened, Onward, LeadsOn, Control
    <3> QED
      BY <1>1, <3>1, <3>2, <3>3 DEF Halt
  <2>3. CASE ~(StopRefused \/ NotOpened)
    <3>1. UNCHANGED <<hurried, left>>
      BY <1>1, <2>3 DEF Halt
    <3>2. svc' = svc \/ (svc' = [svc EXCEPT !.state = "stopping"] /\ Up)
      BY <1>1, <2>3 DEF Halt
    <3>3. \E pc \in Onward : Goto(pc) /\ LeadsOn(pc)
      BY <1>1, <2>3 DEF Halt, Onward, LeadsOn, AfterStop, Control
    <3> QED
      BY <1>1, <3>1, <3>2, <3>3 DEF Halt
  <2> QED
    BY <2>1, <2>2, <2>3
<1>2. CASE Wait
  <2>1. hurried' \in BOOLEAN /\ (hurried => hurried')
    BY <1>2 DEF Wait, Passes
  <2>2. \E pc \in Onward : (Goto(pc) \/ Warn(pc)) /\ LeadsOn(pc)
    BY <1>2 DEF Wait, Onward, LeadsOn, AfterStop, Control
  <2>3. UNCHANGED left \/ Spend("fault") \/ Spend("slow")
    BY <1>2 DEF Wait
  <2> QED
    BY <1>2, <2>1, <2>2, <2>3 DEF Wait, scm
<1> QED
  BY <1>1, <1>2

LEMMA ServiceVerbType ==
  ASSUME TypeOK,
         Halt \/ Wait \/ Shell \/ Register \/ StartService \/ DeleteService \/ RestoreBackup \/ Forget
  PROVE  TypeOK'
<1>t. DiskType /\ ScmType /\ DnsType /\ JobType /\ HistoryType /\ LeftType
  BY TypeParts
<1> SUFFICES DiskType' /\ ScmType' /\ DnsType' /\ JobType' /\ HistoryType' /\ LeftType'
  BY TypePartsNext
<1> USE <1>t
<1>k. "fault" \in Kinds /\ "slow" \in Kinds
  BY DEF Kinds
<1>p. /\ \A pc \in {"failed", "place", "restore", "wait", "register", "start", "report", "forget"} :
           pc \in Steps
      /\ Onward \subseteq Steps /\ AfterUninstall \in Steps
  BY DEF Steps, AfterStop, AfterUninstall, Onward
<1>b. hurried \in BOOLEAN
  BY DEF HistoryType
<1>1. CASE Halt \/ Wait
  <2>1. LeftType'
    BY <1>1, <1>k, <1>b, SpendType, HaltDoes DEF LeftType
  <2>2. JobType'
    BY <1>1, <1>p, <1>b, GotoType, HaltDoes
  <2>3. ScmType'
    BY <1>1, <1>b, HaltDoes DEF ScmType
  <2>4. HistoryType'
    BY <1>1, <1>b, HaltDoes DEF HistoryType
  <2> QED
    BY <1>1, <1>b, <2>1, <2>2, <2>3, <2>4, HaltDoes DEF DiskType, DnsType, disk, dns
<1>3. CASE Shell
  <2>1. JobType'
    BY <1>3, <1>p, GotoType DEF Shell
  <2> QED
    BY <1>3, <2>1
    DEF Shell, DiskType, ScmType, DnsType, HistoryType, LeftType, disk, scm, dns, history
<1>4. CASE Register
  <2>1. LeftType'
    <3>1. UNCHANGED left \/ Spend("fault")
      BY <1>4 DEF Register
    <3> QED
      BY <1>k, <3>1, SpendType DEF LeftType
  <2>2. JobType'
    BY <1>4, <1>p, GotoType DEF Register
  <2>3. job.placed \in {Exe, Copy, Nowhere} /\ wish[Home(job.from)].auto \in BOOLEAN
    BY HomeType DEF JobType, DnsType
  <2>4. ScmType'
    <3>1. \/ reg' = [exe |-> job.placed, auto |-> wish[Home(job.from)].auto, marked |-> FALSE]
          \/ reg' = reg
      BY <1>4 DEF Register
    <3>2. svc' = svc
      BY <1>4 DEF Register
    <3>3. reg' \in [exe : {Exe, Copy, Nowhere}, auto : BOOLEAN, marked : BOOLEAN]
      <4>1. CASE reg' = reg
        BY <4>1 DEF ScmType
      <4>2. CASE reg' = [exe |-> job.placed, auto |-> wish[Home(job.from)].auto, marked |-> FALSE]
        BY <2>3, <4>2
      <4> QED
        BY <3>1, <4>1, <4>2
    <3> QED
      BY <3>2, <3>3 DEF ScmType
  <2> QED
    BY <1>4, <2>1, <2>2, <2>4 DEF Register, DiskType, DnsType, HistoryType, disk, dns, history
<1>5. CASE StartService
  <2>1. JobType' /\ HistoryType'
    BY <1>5, <1>p, GotoType DEF StartService, HistoryType, history
  <2>2. CASE Startable /\ Started(Home(reg.exe))
    <3>1. Registered
      BY <2>2 DEF Startable
    <3> QED
      BY <1>5, <2>1, <2>2, <3>1, StartedType DEF StartService
  <2>3. CASE UNCHANGED <<svc, image, ours, there>>
    <3>1. UNCHANGED left \/ Spend("fault") \/ (Startable /\ Started(Home(reg.exe)))
      BY <1>5 DEF StartService
    <3>2. CASE UNCHANGED left \/ Spend("fault")
      <4>1. LeftType'
        BY <1>k, <3>2, SpendType DEF LeftType
      <4> QED
        BY <1>5, <2>1, <2>3, <4>1 DEF StartService, DiskType, ScmType, DnsType
    <3> QED
      BY <2>2, <3>1, <3>2
  <2> QED
    BY <1>5, <2>2, <2>3 DEF StartService
<1>6. CASE DeleteService
  <2>1. LeftType'
    <3>1. UNCHANGED left \/ Spend("fault")
      BY <1>6 DEF DeleteService
    <3> QED
      BY <1>k, <3>1, SpendType DEF LeftType
  <2>2. JobType'
    BY <1>6, <1>p, GotoType DEF DeleteService
  <2>3. ScmType'
    <3>1. reg' = [reg EXCEPT !.marked = TRUE] \/ reg' = NoReg \/ reg' = reg
      BY <1>6 DEF DeleteService, scm
    <3>2. svc' = [svc EXCEPT !.due = FALSE] \/ svc' = svc
      BY <1>6 DEF DeleteService, scm
    <3>3. reg' \in [exe : {Exe, Copy, Nowhere}, auto : BOOLEAN, marked : BOOLEAN]
      <4>1. NoReg \in [exe : {Exe, Copy, Nowhere}, auto : BOOLEAN, marked : BOOLEAN]
        BY DEF NoReg
      <4>2. [reg EXCEPT !.marked = TRUE]
              \in [exe : {Exe, Copy, Nowhere}, auto : BOOLEAN, marked : BOOLEAN]
        BY DEF ScmType
      <4> QED
        BY <3>1, <4>1, <4>2 DEF ScmType
    <3>4. svc' \in [state : {"stopped", "running", "stopping"}, pass : {"none", "save", "write"},
                    applied : BOOLEAN, home : DataDirs, due : BOOLEAN]
      BY <3>2 DEF ScmType
    <3> QED
      BY <3>3, <3>4 DEF ScmType
  <2>4. hurried' \in BOOLEAN
    BY <1>6 DEF DeleteService, HistoryType, Up
  <2> QED
    BY <1>6, <2>1, <2>2, <2>3, <2>4 DEF DeleteService, DiskType, DnsType, HistoryType, disk, dns
<1>7. CASE RestoreBackup
  <2>1. LeftType'
    <3>1. UNCHANGED left \/ Spend("fault")
      BY <1>7 DEF RestoreBackup, Restored, NotRestored
    <3> QED
      BY <1>k, <3>1, SpendType DEF LeftType
  <2>2. JobType'
    BY <1>7, <1>p, GotoType DEF RestoreBackup
  <2>3. ours' \in BOOLEAN
    BY <1>7 DEF RestoreBackup, Restored, NotRestored, DnsType
  <2> QED
    BY <1>7, <2>1, <2>2, <2>3
    DEF RestoreBackup, DiskType, ScmType, DnsType, HistoryType, disk, scm, history
<1>8. CASE Forget
  <2>1. JobType'
    BY <1>8, <1>p, GotoType DEF Forget
  <2>2. LeftType'
    BY <1>8, <1>k, SpendType DEF Forget, LeftType
  <2> QED
    BY <1>8, <2>1, <2>2 DEF Forget, DiskType, ScmType, DnsType, HistoryType, scm, dns, history
<1> QED
  BY <1>1, <1>3, <1>4, <1>5, <1>6, <1>7, <1>8

LEMMA OthersType ==
  ASSUME TypeOK,
         \/ Begin \/ VerbDies \/ \E w \in Windows : OpenWindow(w) \/ CloseWindow(w)
         \/ Reboot \/ BootDelete \/ BootDone \/ UNCHANGED vars
  PROVE  TypeOK'
<1>t. DiskType /\ ScmType /\ DnsType /\ JobType /\ HistoryType /\ LeftType
  BY TypeParts
<1> SUFFICES DiskType' /\ ScmType' /\ DnsType' /\ JobType' /\ HistoryType' /\ LeftType'
  BY TypePartsNext
<1> USE <1>t
<1>k. {"verb", "crash", "window", "boot"} \subseteq Kinds
  BY DEF Kinds
<1>f. Exe \in Program
  BY Files
<1>1. CASE Begin
  <2>0. PICK verb \in Verbs, from \in {Exe, Copy} \cap there :
       /\ job' = [Idle EXCEPT !.verb = verb, !.pc = FirstStep(verb, from),
                              !.from = from, !.placed = from, !.had = Exe \in there]
       /\ image' = [image EXCEPT !["verb"] = from]
    BY <1>1 DEF Begin
  <2>1. FirstStep(verb, from) \in Steps
    BY DEF FirstStep, Steps
  <2>2. JobType'
    <3> DEFINE first == FirstStep(verb, from)
               had == Exe \in there
    <3>1. job' = [verb |-> verb, pc |-> first, from |-> from, aside |-> Nowhere, placed |-> from,
                  todo |-> {}, had |-> had, warned |-> FALSE, silent |-> FALSE]
      BY <2>0 DEF Idle
    <3>2. first \in Steps /\ had \in BOOLEAN
      BY <2>1
    <3> HIDE DEF first, had
    <3> QED
      BY <3>1, <3>2 DEF JobType
  <2>3. image' \in [Procs -> Program \cup {Copy, Nowhere}]
    BY <2>0, <1>f DEF DiskType
  <2>4. LeftType'
    BY <1>1, <1>k, SpendType DEF Begin
  <2>5. HistoryType'
    BY <1>1 DEF Begin, HistoryType, NoVerb, DataDirs
  <2> QED
    BY <1>1, <2>2, <2>3, <2>4, <2>5 DEF Begin, DiskType, ScmType, DnsType, scm, dns
<1>2. CASE VerbDies
  <2>1. JobType' /\ HistoryType'
    BY <1>2, EndsType DEF VerbDies, JobType
  <2>2. LeftType'
    BY <1>2, <1>k, SpendType DEF VerbDies
  <2> QED
    <3>1. image' \in [Procs -> Program \cup {Copy, Nowhere}]
      BY <1>2, <1>f DEF VerbDies, DiskType
    <3>2. DiskType'
      BY <1>2, <3>1 DEF VerbDies, DiskType
    <3>3. ScmType' /\ DnsType'
      BY <1>2 DEF VerbDies, ScmType, DnsType, scm, dns
    <3> QED
      BY <2>1, <2>2, <3>2, <3>3
<1>3. ASSUME NEW w \in Windows, OpenWindow(w) PROVE DiskType' /\ LeftType'
  <2>1. LeftType'
    BY <1>3, <1>k, SpendType DEF OpenWindow
  <2>2. DiskType'
    BY <1>3, <1>f DEF OpenWindow, DiskType
  <2> QED
    BY <2>1, <2>2
<1>4. ASSUME NEW w \in Windows, CloseWindow(w) PROVE DiskType' /\ LeftType'
  BY <1>4 DEF CloseWindow, DiskType, LeftType
<1>5. ASSUME NEW w \in Windows, OpenWindow(w) \/ CloseWindow(w)
      PROVE  ScmType' /\ DnsType' /\ JobType' /\ HistoryType'
  BY <1>5 DEF OpenWindow, CloseWindow, ScmType, DnsType, JobType, HistoryType, scm, dns, history
<1>6. CASE Reboot
  <2>1. ScmType'
    BY <1>6 DEF Reboot, ScmType, Down, NoReg, DataDirs
  <2>2. JobType'
    BY <1>6 DEF Reboot, JobType, Idle, Steps
  <2>3. LeftType'
    BY <1>6, <1>k, SpendType DEF Reboot
  <2> QED
    BY <1>6, <2>1, <2>2, <2>3 DEF Reboot, DiskType, DnsType, HistoryType, dns, history
<1>7. CASE BootDelete
  <2>1. pending' \in Seq(Paths) /\ there' \subseteq there
    BY <1>7 DEF BootDelete, DiskType
  <2> QED
    BY <1>7, <2>1 DEF BootDelete, DiskType, ScmType, DnsType, JobType, HistoryType, LeftType,
       scm, dns, history
<1>8. CASE BootDone
  <2>1. DiskType'
    BY <1>8 DEF BootDone, DiskType
  <2> QED
    BY <1>8, <2>1 DEF BootDone, ScmType, DnsType, JobType, HistoryType, LeftType,
       scm, dns, history
<1>9. CASE UNCHANGED vars
  BY <1>9 DEF vars, disk, scm, dns, history, DiskType, ScmType, DnsType, JobType, HistoryType,
     LeftType
<1> QED
  BY <1>1, <1>2, <1>3, <1>4, <1>5, <1>6, <1>7, <1>8, <1>9

LEMMA TypeStep == TypeOK /\ [Next]_vars => TypeOK'
<1> SUFFICES ASSUME TypeOK, [Next]_vars PROVE TypeOK'
  OBVIOUS
<1> QED
  BY ServiceType, PlacingType, ServiceVerbType, RemovingType, OthersType DEF Next, Verb

\* Type correctness: every variable stays within the values the code gives it,
\* whatever verb, fault, crash or boot comes next.
THEOREM InstallTypeOK == Spec => []TypeOK
  BY TypeInit, TypeStep, PTL DEF Spec

-----------------------------------------------------------------------------
(* The installed program. *)

LEMMA Least ==
  ASSUME NEW S \in SUBSET Nat, S # {}
  PROVE  \E n \in S : \A m \in S : n <= m
<1> DEFINE R == {ss \in Nat \X Nat : ss[1] < ss[2]}
<1>1. IsWellFoundedOn(R, Nat)
  BY NatLessThanWellFounded DEF OpToRel
<1>2. PICK n \in S : \A m \in S : ~ (<<m, n>> \in R)
  <2> HIDE DEF R
  <2> QED
    BY <1>1, WFMin
<1>3. ASSUME NEW m \in S PROVE n <= m
  <2>1. ~(m < n)
    BY <1>2
  <2> QED
    BY <2>1
<1> QED
  BY <1>3

\* There is always a name to move a running program aside to: each name is free
\* unless a process runs it, and one runs the program itself.
LEMMA RoomAside ==
  ASSUME TypeOK, Busy(Exe) PROVE AsidePath # {}
<1>1. Usable # {}
  <2> SUFFICES ASSUME Usable = {} PROVE FALSE
    OBVIOUS
  <2> DEFINE N == Len(Asides)
             Name(n) == IF n = 0 THEN Exe ELSE <<"program", Asides[n]>>
             runs == [n \in 0..N |-> CHOOSE p \in Procs : image[p] = Name(n)]
  <2>1. N \in Nat /\ DOMAIN Asides = 1..N
    BY AsideAssumption
  <2>2. \A n \in 0..N : \E p \in Procs : image[p] = Name(n)
    <3>1. \A n \in 1..N : \E p \in Procs : image[p] = <<"program", Asides[n]>>
      BY <2>1 DEF Usable, Busy
    <3>2. \E p \in Procs : image[p] = Name(0)
      BY DEF Busy
    <3>3. ASSUME NEW n \in 0..N PROVE \E p \in Procs : image[p] = Name(n)
      <4>1. CASE n = 0
        BY <3>2, <4>1
      <4>2. CASE n # 0
        <5>1. n \in 1..N /\ Name(n) = <<"program", Asides[n]>>
          BY <2>1, <4>2
        <5> QED
          BY <3>1, <5>1
      <4> QED
        BY <4>1, <4>2
    <3> QED
      BY <3>3
  <2>3. \A n \in 0..N : runs[n] \in Procs /\ image[runs[n]] = Name(n)
    BY <2>2
  <2>4. \A m, n \in 0..N : Name(m) = Name(n) => m = n
    BY <2>1, AsideAssumption DEF Exe
  <2>5. \A m, n \in 0..N : runs[m] = runs[n] => m = n
    BY <2>3, <2>4
  <2>6. runs \in [0..N -> Procs]
    BY <2>3
  <2>7. IsFiniteSet(Procs) /\ IsFiniteSet(0..N) /\ Cardinality(0..N) = N + 1
    <3>1. IsFiniteSet({"service", "verb"})
      <4>1. IsFiniteSet({"service"})
        BY FS_Singleton
      <4>2. {"service", "verb"} = {"service"} \cup {"verb"}
        OBVIOUS
      <4> QED
        BY <4>1, <4>2, FS_AddElement
    <3>2. IsFiniteSet(Procs)
      BY <3>1, ProcsAssumption, FS_Union DEF Procs
    <3> QED
      BY <2>1, <3>2, FS_Interval
  <2>8. Cardinality(Procs) <= N /\ Cardinality(Procs) \in Nat
    BY <2>7, ProcsAssumption, FS_CardinalityType
  <2> HIDE DEF runs
  <2>9. \E m, n \in 0..N : m # n /\ runs[m] = runs[n]
    BY <2>1, <2>6, <2>7, <2>8, FS_PigeonHole
  <2> QED
    BY <2>5, <2>9
<1>2. Usable \subseteq Nat
  BY AsideAssumption DEF Usable
<1>3. PICK n \in Usable : \A m \in Usable : n <= m
  BY <1>1, <1>2, Least
<1>4. <<"program", Asides[n]>> \in AsidePath
  BY <1>3 DEF AsidePath
<1> QED
  BY <1>4

\* What appending, concatenating and taking the tail do to the queue.
LEMMA QueueAppend ==
  ASSUME pending \in Seq(Paths), NEW f, pending' = Append(pending, f)
  PROVE  Queued' = Queued \cup {f}
<1>1. DOMAIN pending' = 1..(Len(pending) + 1) /\ DOMAIN pending = 1..Len(pending)
  OBVIOUS
<1>2. \A n \in 1..Len(pending) : pending'[n] = pending[n]
  OBVIOUS
<1>3. pending'[Len(pending) + 1] = f /\ Len(pending) \in Nat
  OBVIOUS
<1> QED
  BY <1>1, <1>2, <1>3 DEF Queued

LEMMA QueueTail ==
  ASSUME pending \in Seq(Paths), pending # <<>>, pending' = Tail(pending)
  PROVE  Queued' \subseteq Queued
<1>1. DOMAIN pending' = 1..(Len(pending) - 1) /\ DOMAIN pending = 1..Len(pending)
  OBVIOUS
<1>2. \A n \in 1..(Len(pending) - 1) : pending'[n] = pending[n + 1] /\ n + 1 \in 1..Len(pending)
  OBVIOUS
<1> QED
  BY <1>1, <1>2 DEF Queued

LEMMA QueueMore ==
  ASSUME pending \in Seq(Paths), NEW q \in Seq(Paths), pending' = pending \o q
  PROVE  Queued' \subseteq Queued \cup {q[n] : n \in DOMAIN q}
<1>1. Len(pending) \in Nat /\ Len(q) \in Nat
  OBVIOUS
<1>2. /\ DOMAIN pending' = 1..(Len(pending) + Len(q))
      /\ DOMAIN pending = 1..Len(pending) /\ DOMAIN q = 1..Len(q)
  OBVIOUS
<1>3. ASSUME NEW n \in DOMAIN pending' PROVE pending'[n] \in Queued \cup {q[k] : k \in DOMAIN q}
  <2>1. CASE n <= Len(pending)
    <3>1. n \in DOMAIN pending /\ pending'[n] = pending[n]
      BY <1>1, <1>2, <2>1
    <3> QED
      BY <3>1 DEF Queued
  <2>2. CASE n > Len(pending)
    <3>1. n - Len(pending) \in DOMAIN q /\ pending'[n] = q[n - Len(pending)]
      BY <1>1, <1>2, <2>2
    <3> QED
      BY <3>1
  <2> QED
    BY <1>1, <1>2, <2>1, <2>2
<1> QED
  BY <1>3 DEF Queued

\* What a removal adds at its end is its report, its folder, both or neither.
LEMMA ScheduleAdds ==
  ASSUME TypeOK, Schedule
  PROVE  Queued' \subseteq Queued \cup {Report(Home(job.from)), Folder(Home(job.from))}
<1> DEFINE rep == Report(Home(job.from))
           fold == Folder(Home(job.from))
<1>1. rep \in Paths /\ fold \in Paths
  BY HomeType, Files
<1>2. pending \in Seq(Paths)
  BY DEF TypeOK
<1>3. PICK q : /\ q = <<rep, fold>> \/ q = <<rep>> \/ q = <<fold>> \/ q = <<>>
               /\ pending' \in {pending, pending \o q}
  BY DEF Schedule
<1> HIDE DEF rep, fold
<1>4. q \in Seq(Paths) /\ {q[n] : n \in DOMAIN q} \subseteq {rep, fold}
  <2>1. CASE q = <<rep, fold>>
    BY <1>1, <2>1
  <2>2. CASE q = <<rep>>
    BY <1>1, <2>2
  <2>3. CASE q = <<fold>>
    BY <1>1, <2>3
  <2>4. CASE q = <<>>
    BY <2>4
  <2> QED
    BY <1>3, <2>1, <2>2, <2>3, <2>4
<1>5. CASE pending' = pending
  BY <1>5 DEF Queued
<1>6. CASE pending' = pending \o q
  <2>1. Queued' \subseteq Queued \cup {q[n] : n \in DOMAIN q}
    BY <1>2, <1>4, <1>6, QueueMore
  <2> QED
    BY <1>4, <2>1 DEF rep, fold
<1> QED
  BY <1>3, <1>5, <1>6 DEF rep, fold

LEMMA GotoKeeps ==
  ASSUME JobType, NEW pc, Goto(pc) \/ Warn(pc) \/ Miss(pc)
  PROVE  /\ job'.pc = pc /\ job'.verb = job.verb /\ job'.from = job.from
         /\ job'.aside = job.aside /\ job'.placed = job.placed /\ job'.todo = job.todo
         /\ job'.had = job.had
         /\ job.warned => job'.warned
         /\ job.silent => job'.silent
         /\ Warn(pc) => job'.warned = TRUE /\ job'.silent = job.silent
         /\ Miss(pc) => job'.warned = job.warned /\ job'.silent = TRUE
         /\ Goto(pc) => job'.warned = job.warned /\ job'.silent = job.silent
  BY DEF JobType, Goto, Warn, Miss

LEMMA EndsIdle ==
  ASSUME JobType, NEW ok, NEW silent, Ends(ok, silent)
  PROVE  /\ job' = Idle
         /\ ok => /\ last'.verb = job.verb /\ last'.home = Home(job.from)
                  /\ last'.warned = job.warned /\ last'.silent = silent
         /\ ~ok => last' = NoVerb
  BY DEF Ends, JobType

Others == \/ Service \/ Disable \/ SetAutostart \/ Kill
          \/ \E w \in Windows : OpenWindow(w) \/ CloseWindow(w)
          \/ BootDelete \/ BootDone \/ UNCHANGED vars

\* What is no verb's step leaves the verb alone.
LEMMA OthersKeep ==
  ASSUME Others PROVE UNCHANGED <<job, last, refused, hurried>> /\ (booting' => booting)
<1>1. CASE Service
  <2>1. CASE SvcStart
    BY <2>1 DEF SvcStart, history
  <2>2. CASE Enable \/ BackUp
    BY <2>2 DEF Enable, BackUp, disk, history
  <2>3. CASE WriteAdapters
    BY <2>3 DEF WriteAdapters, disk, history
  <2>4. CASE OnStop
    BY <2>4 DEF OnStop, history
  <2> QED
    BY <1>1, <2>1, <2>2, <2>3, <2>4 DEF Service
<1>2. CASE Disable \/ SetAutostart \/ Kill
  BY <1>2 DEF Disable, SetAutostart, Kill, disk, history
<1>3. CASE \E w \in Windows : OpenWindow(w) \/ CloseWindow(w)
  BY <1>3 DEF OpenWindow, CloseWindow, history
<1>4. CASE BootDelete \/ BootDone \/ UNCHANGED vars
  BY <1>4 DEF BootDelete, BootDone, vars, disk, history
<1> QED
  BY <1>1, <1>2, <1>3, <1>4 DEF Others

LEMMA NextParts == [Next]_vars <=> Others \/ Begin \/ Verb \/ VerbDies \/ Reboot
  BY DEF Next, Others

\* Who is at which step.
LEMMA VerbStep ==
  ASSUME TypeOK, VerbSteps, AtRest, BootAlone, [Next]_vars
  PROVE  VerbSteps' /\ AtRest' /\ BootAlone'
<1>t. JobType /\ HistoryType
  BY TypeParts
<1> USE <1>t
<1>n. NoVerb.verb = "none"
  BY DEF NoVerb
<1>1. CASE Others
  BY <1>1, OthersKeep DEF VerbSteps, AtRest, BootAlone
<1>2. CASE Begin
  <2>0. PICK verb \in Verbs, from \in {Exe, Copy} \cap there :
       job' = [Idle EXCEPT !.verb = verb, !.pc = FirstStep(verb, from),
                              !.from = from, !.placed = from, !.had = Exe \in there]
    BY <1>2 DEF Begin
  <2>1. job'.verb = verb /\ job'.pc = FirstStep(verb, from) /\ job'.placed # Nowhere
    BY <2>0, Files DEF Idle
  <2>2. last'.verb = "none" /\ ~booting'
    BY <1>2, <1>n DEF Begin
  <2> QED
    BY <2>1, <2>2 DEF FirstStep, Verbs, Removals, VerbSteps, AtRest, BootAlone
<1>3. CASE VerbDies \/ Reboot
  <2>1. job' = Idle /\ (VerbDies => ~booting \/ job.pc = "idle") /\ (VerbDies => booting' = booting)
    BY <1>3, EndsIdle DEF VerbDies, Reboot, BootAlone
  <2>2. Idle.pc = "idle"
    BY DEF Idle
  <2> QED
    BY <2>1, <2>2 DEF VerbSteps, AtRest, BootAlone
<1>4. CASE Verb
  <2>1. job.pc # "idle" /\ ~booting /\ ~booting'
    <3>1. job.pc # "idle"
      BY <1>4 DEF Verb, Halt, Wait, MoveAside, CopyFile, Clean, Shell, Register, StartService,
         DeleteService, RestoreBackup, Forget, RemoveData, RemoveFile, RemoveFolder, SaveReport,
         Schedule
    <3>2. booting' = booting
      BY <1>4 DEF Verb, Halt, Wait, MoveAside, CopyFile, Clean, Shell, Register, StartService,
         DeleteService, RestoreBackup, Forget, RemoveData, RemoveFile, RemoveFolder, SaveReport,
         Schedule, disk
    <3> QED
      BY <3>1, <3>2 DEF BootAlone
  <2>2. last.verb = "none" /\ job.placed # Nowhere
    BY <2>1 DEF VerbSteps
  <2>3. CASE SaveReport \/ Schedule
    <3>1. CASE job' = Idle
      BY <2>1, <3>1 DEF Idle, VerbSteps, AtRest, BootAlone
    <3>2. CASE job' # Idle
      <4>1. SaveReport /\ Goto("schedule") /\ last' = last /\ job.verb = "remove"
        BY <2>3, <3>2, EndsIdle DEF SaveReport, Schedule
      <4>2. job'.pc = "schedule" /\ job'.verb = job.verb /\ job'.placed = job.placed
        BY <4>1, GotoKeeps
      <4> QED
        BY <2>1, <2>2, <4>1, <4>2 DEF VerbSteps, AtRest, BootAlone, Removals
    <3> QED
      BY <3>1, <3>2
  <2>4. CASE Halt \/ Wait
    <3>b. hurried \in BOOLEAN
      BY DEF HistoryType
    <3>1. PICK pc \in Onward : (Goto(pc) \/ Warn(pc)) /\ LeadsOn(pc)
      BY <2>4, <3>b, HaltDoes
    <3>2. last' = last
      BY <2>4, <3>b, HaltDoes
    <3>3. job.verb \in Removals \cup {"setup", "stop", "restart"}
      BY <2>4, <3>b, HaltDoes DEF VerbSteps
    <3>4. job'.pc = pc /\ job'.verb = job.verb /\ job'.placed = job.placed
      BY <3>1, GotoKeeps
    <3> QED
      BY <2>1, <2>2, <3>1, <3>2, <3>3, <3>4
      DEF VerbSteps, AtRest, BootAlone, Removals, Onward, LeadsOn, AfterStop, Control
  <2>6. CASE MoveAside \/ CopyFile
    <3>1. /\ job'.pc \in {"copy", "shell", "clean"} /\ job'.verb = job.verb
          /\ job'.placed \in {job.placed, Exe} /\ last' = last
      <4>1. CASE \E f \in AsidePath : job' = [job EXCEPT !.pc = "copy", !.aside = f]
        BY <2>6, <4>1 DEF JobType, MoveAside, CopyFile
      <4>2. CASE job' = [job EXCEPT !.pc = "clean", !.placed = Exe]
        BY <2>6, <4>2 DEF JobType, MoveAside, CopyFile
      <4>3. CASE \E pc \in {"copy", "shell"} : Goto(pc) \/ Warn(pc) \/ Miss(pc)
        BY <2>6, <4>3, GotoKeeps DEF MoveAside, CopyFile
      <4> QED
        BY <2>6, <4>1, <4>2, <4>3 DEF MoveAside, CopyFile
    <3>2. job.verb \in {"setup", "install"}
      BY <2>6 DEF MoveAside, CopyFile, VerbSteps
    <3> QED
      BY <2>1, <2>2, <3>1, <3>2, Files DEF VerbSteps, AtRest, BootAlone, Removals
  <2>7. CASE Clean \/ Shell
    <3>1. PICK pc \in {"shell", "register"} : Goto(pc)
      BY <2>7 DEF Clean, Shell
    <3>2. job.verb \in {"setup", "install"} /\ last' = last
      BY <2>7 DEF Clean, Shell, VerbSteps, history
    <3>3. job'.pc = pc /\ job'.verb = job.verb /\ job'.placed = job.placed
      BY <3>1, GotoKeeps
    <3> QED
      BY <2>1, <2>2, <3>2, <3>3 DEF VerbSteps, AtRest, BootAlone, Removals
  <2>8. CASE Register \/ StartService
    <3>1. PICK pc \in {"start", "failed", "report"} : Goto(pc)
      BY <2>8 DEF Register, StartService
    <3>2. job.verb \notin Removals /\ last' = last
      BY <2>8 DEF Register, StartService, VerbSteps, history, Removals
    <3>3. job'.pc = pc /\ job'.verb = job.verb /\ job'.placed = job.placed
      BY <3>1, GotoKeeps
    <3> QED
      BY <2>1, <2>2, <3>2, <3>3 DEF VerbSteps, AtRest, BootAlone
  <2>9. CASE DeleteService \/ RestoreBackup \/ Forget \/ RemoveFolder
    <3>1. PICK pc \in {"restore", "forget", "data", "report"} : Goto(pc) \/ Warn(pc) \/ Miss(pc)
      BY <2>9 DEF DeleteService, RestoreBackup, Forget, RemoveFolder, AfterUninstall
    <3>2. job.verb \in Removals /\ last' = last
      BY <2>9 DEF DeleteService, RestoreBackup, Forget, RemoveFolder, VerbSteps, history
    <3>3. job'.pc = pc /\ job'.verb = job.verb /\ job'.placed = job.placed
      BY <3>1, GotoKeeps
    <3> QED
      BY <2>1, <2>2, <3>2, <3>3 DEF VerbSteps, AtRest, BootAlone
  <2>10. CASE RemoveData \/ RemoveFile
    <3>1. job'.pc = "files" /\ job'.verb = job.verb /\ job'.placed = job.placed
      BY <2>10 DEF RemoveData, RemoveFile, JobType
    <3>2. job.verb \in Removals /\ last' = last
      BY <2>10 DEF RemoveData, RemoveFile, VerbSteps, history
    <3> QED
      BY <2>1, <2>2, <3>1, <3>2 DEF VerbSteps, AtRest, BootAlone
  <2> QED
    BY <1>4, <2>3, <2>4, <2>6, <2>7, <2>8, <2>9, <2>10 DEF Verb
<1> QED
  BY <1>1, <1>2, <1>3, <1>4, NextParts

\* What is added to Windows' list is no backup, and not the installed program
\* unless a rename was refused.
LEMMA QueueGrows ==
  ASSUME TypeOK, TodoIsThere, [Next]_vars, NEW f \in Queued' \ Queued
  PROVE  (\A d \in DataDirs : f # Backup(d)) /\ (f = Exe => refused')
<1>t. DiskType /\ JobType /\ pending \in Seq(Paths)
  BY TypeParts DEF DiskType
<1> USE <1>t
<1>u. pending' # pending
  BY DEF Queued
<1>1. CASE Others
  <2>1. CASE BootDelete
    BY <2>1, QueueTail DEF BootDelete
  <2>2. CASE Service
    <3>1. CASE SvcStart
      BY <1>u, <3>1 DEF SvcStart
    <3>2. CASE Enable \/ BackUp
      BY <1>u, <3>2 DEF Enable, BackUp, disk
    <3>3. CASE WriteAdapters
      BY <1>u, <3>3 DEF WriteAdapters, disk
    <3>4. CASE OnStop
      BY <1>u, <3>4 DEF OnStop
    <3> QED
      BY <2>2, <3>1, <3>2, <3>3, <3>4 DEF Service
  <2>3. CASE Disable \/ SetAutostart \/ Kill
    BY <1>u, <2>3 DEF Disable, SetAutostart, Kill, disk
  <2>4. CASE \E w \in Windows : OpenWindow(w) \/ CloseWindow(w)
    BY <1>u, <2>4 DEF OpenWindow, CloseWindow
  <2>5. CASE BootDone \/ UNCHANGED vars
    BY <1>u, <2>5 DEF BootDone, vars, disk
  <2> QED
    BY <1>1, <2>1, <2>2, <2>3, <2>4, <2>5 DEF Others
<1>2. CASE Begin \/ VerbDies \/ Reboot
  BY <1>u, <1>2 DEF Begin, VerbDies, Reboot
<1>3. CASE Clean
  <2>1. job.aside \in AsideFiles /\ Queued' = Queued \cup {job.aside}
    BY <1>3, <1>u, QueueAppend DEF Clean, JobType
  <2> QED
    BY <2>1, Files
<1>4. CASE RemoveFile
  <2>0. PICK g \in job.todo :
       \/ pending' = pending
       \/ /\ g \in there /\ Busy(g)
          /\ \/ \E h \in AsidePath : pending' = Append(pending, h)
             \/ refused' = TRUE /\ pending' = Append(pending, g)
             \/ AsidePath = {} /\ pending' = Append(pending, g)
       \/ g \notin there /\ pending' = Append(pending, g)
    BY <1>4 DEF RemoveFile, Queue
  <2>1. g \in Program /\ job.pc = "files"
    BY <1>4 DEF RemoveFile, JobType
  <2>2. CASE \E h \in AsidePath : pending' = Append(pending, h)
    <3>1. PICK h \in AsideFiles : pending' = Append(pending, h)
      BY <2>2, AsidePathType
    <3>2. f = h
      BY <3>1, QueueAppend
    <3> QED
      BY <3>2, Files
  <2>3. CASE pending' = Append(pending, g) /\ (g = Exe => refused')
    <3>1. f = g
      BY <2>3, QueueAppend
    <3> QED
      BY <2>1, <2>3, <3>1, Files
  <2>4. CASE g = Exe /\ Busy(g) /\ AsidePath = {}
    BY <2>4, RoomAside
  <2>5. CASE g = Exe /\ g \notin there
    BY <2>1, <2>5 DEF TodoIsThere
  <2> QED
    BY <1>u, <2>0, <2>2, <2>3, <2>4, <2>5
<1>5. CASE RemoveFolder
  <2>1. Queued' = Queued \cup {Folder("program")}
    BY <1>5, <1>u, QueueAppend DEF RemoveFolder, Queue
  <2> QED
    BY <2>1, Files
<1>6. CASE Schedule
  <2>0. Home(job.from) \in DataDirs
    BY HomeType
  <2>1. Queued' \subseteq Queued \cup {Report(Home(job.from)), Folder(Home(job.from))}
    BY <1>6, ScheduleAdds
  <2>2. Report(Home(job.from)) # Exe /\ Folder(Home(job.from)) # Exe
    BY <2>0, Files
  <2> QED
    BY <2>0, <2>1, <2>2, Files
<1>7. CASE Halt \/ Wait \/ Shell \/ Register \/ DeleteService \/ RestoreBackup \/ RemoveData
  BY <1>u, <1>7 DEF Halt, Wait, Shell, Register, DeleteService, RestoreBackup, RemoveData, disk
<1>8. CASE MoveAside \/ CopyFile \/ StartService \/ Forget \/ SaveReport
  BY <1>u, <1>8 DEF MoveAside, CopyFile, StartService, Forget, SaveReport
<1> QED
  BY <1>1, <1>2, <1>3, <1>4, <1>5, <1>6, <1>7, <1>8, NextParts DEF Verb

LEMMA RefusedStays == ASSUME TypeOK, [Next]_vars PROVE refused => refused'
<1>1. CASE Others
  BY <1>1, OthersKeep
<1>2. CASE Begin \/ VerbDies \/ Reboot
  BY <1>2 DEF Begin, VerbDies, Reboot, history
<1>3. CASE Halt \/ Wait \/ MoveAside \/ CopyFile
  BY <1>3 DEF Halt, Wait, MoveAside, CopyFile
<1>4. CASE Clean \/ Shell \/ Register \/ StartService \/ RestoreBackup \/ Forget \/ RemoveData \/ RemoveFolder
  BY <1>4 DEF Clean, Shell, Register, StartService, RestoreBackup, Forget, RemoveData,
     RemoveFolder, history
<1>5. CASE DeleteService \/ SaveReport \/ Schedule
  BY <1>5 DEF DeleteService, SaveReport, Schedule
<1>6. CASE RemoveFile
  BY <1>6 DEF RemoveFile
<1> QED
  BY <1>1, <1>2, <1>3, <1>4, <1>5, <1>6, NextParts DEF Verb

LEMMA QueueStep ==
  ASSUME TypeOK, TodoIsThere, QueueNamesNoBackup, QueueSpares, [Next]_vars
  PROVE  QueueNamesNoBackup' /\ QueueSpares'
<1>1. \A f \in Queued' : f \in Queued \/ ((\A d \in DataDirs : f # Backup(d)) /\ (f = Exe => refused'))
  BY QueueGrows
<1>2. QueueNamesNoBackup'
  BY <1>1 DEF QueueNamesNoBackup
<1>3. QueueSpares'
  BY <1>1, RefusedStays DEF QueueSpares
<1> QED
  BY <1>2, <1>3

\* Only a verb and the boot touch the program's files.
LEMMA ProgramKept ==
  ASSUME (Others /\ ~booting) \/ Begin \/ VerbDies \/ Reboot, NEW f \in {Exe, Copy} \cap there
  PROVE  f \in there'
<1>1. \A d : f # Backup(d)
  BY DEF Exe, Copy, Backup
<1>h. \A exe : Home(exe) \in DataDirs
  BY HomeType
<1>2. CASE SvcStart
  BY <1>1, <1>2, <1>h DEF SvcStart, Started, Reverted
<1>3. CASE Enable \/ BackUp
  BY <1>3 DEF Enable, BackUp, disk
<1>4. CASE WriteAdapters \/ SetAutostart
  BY <1>4 DEF WriteAdapters, SetAutostart, disk
<1>5. CASE OnStop \/ Kill
  BY <1>5 DEF OnStop, Kill
<1>6. CASE Disable
  BY <1>1, <1>6 DEF Disable, Reverted
<1>7. CASE \E w \in Windows : OpenWindow(w) \/ CloseWindow(w)
  BY <1>7 DEF OpenWindow, CloseWindow
<1>8. CASE ~booting /\ (BootDelete \/ BootDone \/ UNCHANGED vars)
  BY <1>8 DEF BootDelete, BootDone, vars, disk
<1>9. CASE Begin \/ VerbDies \/ Reboot
  BY <1>9 DEF Begin, VerbDies, Reboot
<1> QED
  BY <1>2, <1>3, <1>4, <1>5, <1>6, <1>7, <1>8, <1>9 DEF Others, Service

\* A removal finds the program where it was, and a setup keeps one in its place
\* or aside.
LEMMA PlaceStep ==
  ASSUME TypeOK, VerbSteps, AtRest, BootAlone, TodoIsThere, SetupPlaces, [Next]_vars
  PROVE  TodoIsThere' /\ SetupPlaces'
<1>t. JobType
  BY TypeParts
<1>r. refused => refused'
  BY RefusedStays
<1>i. Idle.had = FALSE /\ Idle.pc = "idle"
  BY DEF Idle
<1> USE <1>t, <1>r, <1>i
<1>a. /\ AsidePath \subseteq AsideFiles /\ Exe \notin AsideFiles /\ Exe # Nowhere
      /\ Folder("program") # Exe /\ Exe \in Program
  BY AsidePathType, Files
<1>b. Exe # Backup(Home(job.from))
  BY DEF Exe, Backup
<1>1. CASE Others
  <2>1. CASE booting
    <3>1. job' = Idle
      BY <1>1, <2>1, OthersKeep DEF BootAlone, AtRest
    <3> QED
      BY <3>1 DEF TodoIsThere, SetupPlaces
  <2>2. CASE ~booting
    <3>1. Exe \in there => Exe \in there'
      BY <1>1, <2>2, ProgramKept
    <3> QED
      BY <1>1, <3>1, OthersKeep DEF TodoIsThere, SetupPlaces
  <2> QED
    BY <2>1, <2>2
<1>2. CASE Begin
  <2>0. PICK verb \in Verbs, from \in {Exe, Copy} \cap there :
       job' = [Idle EXCEPT !.verb = verb, !.pc = FirstStep(verb, from),
                              !.from = from, !.placed = from, !.had = Exe \in there]
    BY <1>2 DEF Begin
  <2>1. job'.pc = FirstStep(verb, from) /\ (job'.had => Exe \in there)
    BY <2>0 DEF Idle
  <2>2. job'.pc # "files"
    BY <2>1 DEF FirstStep
  <2>3. there' = there
    BY <1>2 DEF Begin
  <2> QED
    BY <2>1, <2>2, <2>3 DEF TodoIsThere, SetupPlaces
<1>3. CASE VerbDies \/ Reboot
  <2>1. job' = Idle
    BY <1>3, EndsIdle DEF VerbDies, Reboot
  <2> QED
    BY <2>1 DEF TodoIsThere, SetupPlaces
<1>4. CASE MoveAside
  <2>1. job.pc = "place" /\ job.verb \in {"setup", "install"}
    BY <1>4 DEF MoveAside, VerbSteps
  <2>2. CASE \E f \in AsidePath : job' = [job EXCEPT !.pc = "copy", !.aside = f]
    <3>1. job'.pc = "copy" /\ job'.aside # Nowhere
      BY <2>2, <1>a, Files DEF JobType
    <3> QED
      BY <3>1 DEF TodoIsThere, SetupPlaces
  <2>3. CASE Goto("copy") /\ Exe \notin there
    <3>1. job'.pc = "copy" /\ job'.verb = job.verb /\ job'.had = job.had
      BY <2>3, GotoKeeps
    <3> QED
      BY <2>1, <2>3, <3>1 DEF TodoIsThere, SetupPlaces
  <2>4. CASE (Warn("copy") \/ Warn("shell")) /\ (Exe \in there => Exe \in there')
    <3>1. job'.pc \in {"copy", "shell"} /\ job'.verb = job.verb /\ job'.had = job.had
      BY <2>4, GotoKeeps
    <3> QED
      BY <2>1, <2>4, <3>1 DEF TodoIsThere, SetupPlaces
  <2>5. \/ \E f \in AsidePath : job' = [job EXCEPT !.pc = "copy", !.aside = f]
        \/ Goto("copy") /\ Exe \notin there
        \/ (Warn("copy") \/ Warn("shell")) /\ (Exe \in there => Exe \in there')
    BY <1>4, <1>a DEF MoveAside
  <2> QED
    BY <2>2, <2>3, <2>4, <2>5
<1>5. CASE CopyFile
  <2>1. job.pc = "copy"
    BY <1>5 DEF CopyFile
  <2>2. CASE job' = [job EXCEPT !.pc = "clean", !.placed = Exe] /\ Exe \in there'
    <3>1. job'.pc = "clean"
      BY <2>2 DEF JobType
    <3> QED
      BY <2>2, <3>1 DEF TodoIsThere, SetupPlaces
  <2>3. CASE Warn("shell")
    <3>1. job'.pc = "shell" /\ job'.verb = job.verb /\ job'.had = job.had
      BY <2>3, GotoKeeps
    <3>2. (job.aside = Nowhere /\ there' = there) \/ Exe \in there' \/ refused'
      BY <1>5, <2>3, <3>1, <1>a DEF CopyFile, Rename, JobType
    <3> QED
      BY <2>1, <3>1, <3>2 DEF TodoIsThere, SetupPlaces
  <2> QED
    BY <1>5, <2>2, <2>3 DEF CopyFile
<1>6. CASE Clean
  <2>1. job'.pc = "shell" /\ job'.verb = job.verb /\ job'.had = job.had
    BY <1>6, GotoKeeps DEF Clean
  <2>2. Exe \in there => Exe \in there'
    BY <1>6, <1>a DEF Clean, JobType
  <2>3. job.pc = "clean"
    BY <1>6 DEF Clean
  <2> QED
    BY <2>1, <2>2, <2>3 DEF TodoIsThere, SetupPlaces
<1>7. CASE RemoveData
  <2>1. job'.todo \subseteq Program \cap there /\ job'.verb = job.verb /\ there' = there
    <3>1. PICK kept \in BOOLEAN, unread \in BOOLEAN :
            job' = [job EXCEPT !.pc = "files", !.silent = @ \/ kept \/ unread,
                               !.todo = IF unread THEN {} ELSE Program \cap there]
      BY <1>7 DEF RemoveData
    <3>2. job'.todo \subseteq Program \cap there /\ job'.verb = job.verb
      BY <3>1 DEF JobType
    <3> QED
      BY <1>7, <3>2 DEF RemoveData, disk
  <2>2. job.verb # "setup"
    BY <1>7 DEF RemoveData, VerbSteps, Removals
  <2> QED
    BY <2>1, <2>2 DEF TodoIsThere, SetupPlaces
<1>8. CASE RemoveFile
  <2>0. PICK f \in job.todo, lost \in BOOLEAN : RemovesEntry(f, lost)
    BY <1>8, RemoveFileTakes
  <2>1. job'.todo = job.todo \ {f} /\ job'.verb = job.verb
    BY <2>0 DEF RemovesEntry, JobType
  <2>2. job.verb # "setup" /\ job.pc = "files"
    BY <1>8 DEF RemoveFile, VerbSteps, Removals
  <2>3. (f # Exe /\ Exe \in there) => Exe \in there'
    BY <2>0, <1>a DEF RemovesEntry, Rename
  <2> QED
    BY <2>1, <2>2, <2>3 DEF TodoIsThere, SetupPlaces
<1>9. CASE RemoveFolder \/ Schedule
  <2>1. job.verb # "setup"
    BY <1>9 DEF RemoveFolder, Schedule, VerbSteps, Removals
  <2>2. job' = Idle \/ (job'.pc = "report" /\ job'.verb = job.verb)
    BY <1>9, GotoKeeps, EndsIdle DEF RemoveFolder, Schedule
  <2> QED
    BY <2>1, <2>2 DEF TodoIsThere, SetupPlaces
<1>10. CASE SaveReport
  <2>1. there \subseteq there' /\ job.pc \in {"report", "failed"}
    BY <1>10 DEF SaveReport
  <2>2. job' = Idle \/ (job'.pc = "schedule" /\ job'.verb = job.verb /\ job'.had = job.had)
    BY <1>10, GotoKeeps, EndsIdle DEF SaveReport
  <2> QED
    BY <2>1, <2>2 DEF TodoIsThere, SetupPlaces
<1>11. CASE Halt \/ Wait \/ Shell \/ Register \/ StartService \/ DeleteService \/ RestoreBackup \/ Forget
  <2>1. PICK pc : (Goto(pc) \/ Warn(pc) \/ Miss(pc)) /\ pc # "files" /\ pc # "copy"
    <3>1. hurried \in BOOLEAN
      BY TypeParts DEF HistoryType
    <3>2. CASE Halt \/ Wait
      BY <3>1, <3>2, HaltDoes DEF Onward, AfterStop
    <3> QED
      BY <1>11, <3>2 DEF Shell, Register, StartService, DeleteService, RestoreBackup, Forget,
         AfterUninstall
  <2>2. job'.pc = pc /\ job'.verb = job.verb /\ job'.had = job.had
    BY <2>1, GotoKeeps
  <2>3. Exe \in there => Exe \in there'
    <3>1. CASE StartService
      <4>1. \A d : Exe # Backup(d)
        BY DEF Exe, Backup
      <4> QED
        BY <3>1, <4>1 DEF StartService, Started, Reverted
    <3>2. CASE Forget
      BY <3>2, <1>b DEF Forget
    <3> QED
      BY <1>11, <3>1, <3>2 DEF Halt, Wait, Shell, Register, DeleteService, RestoreBackup, disk
  <2>4. job.pc # "copy"
    BY <1>11 DEF Halt, Wait, Shell, Register, StartService, DeleteService, RestoreBackup, Forget
  <2> QED
    BY <2>1, <2>2, <2>3, <2>4 DEF TodoIsThere, SetupPlaces
<1> QED
  BY <1>1, <1>2, <1>3, <1>4, <1>5, <1>6, <1>7, <1>8, <1>9, <1>10, <1>11, NextParts DEF Verb

\* What a setup is about to register is there.
LEMMA PlacedStep ==
  ASSUME TypeOK, VerbSteps, AtRest, BootAlone, PlacedIsThere, [Next]_vars
  PROVE  PlacedIsThere'
<1>t. JobType
  BY TypeParts
<1> USE <1>t
<1>i. Idle.pc = "idle"
  BY DEF Idle
<1>a. /\ AsidePath \subseteq AsideFiles /\ Exe \notin AsideFiles /\ Copy \notin AsideFiles
      /\ Exe # Copy /\ Exe # Nowhere /\ Copy # Nowhere
  <2>1. Copy \notin AsideFiles
    BY DEF Copy, AsideFiles
  <2> QED
    BY <2>1, AsidePathType, Files
<1>r. Idle.verb = "none"
  BY DEF Idle
<1>d. ASSUME job' = Idle PROVE PlacedIsThere'
  BY <1>d, <1>i DEF PlacedIsThere
\* A verb that goes on: its file stays and its registration does.
<1>k. ASSUME NEW pc, Goto(pc) \/ Warn(pc) \/ Miss(pc), job.pc # "idle", job.placed \in there => job.placed \in there',
             pc \in {"halt", "wait", "place", "copy"} => job.placed = Copy \/ ~Installs,
             pc \in {"start", "report"} => (reg'.exe = job.placed /\ ~reg'.marked) \/ ~Installs
      PROVE  PlacedIsThere'
  <2>1. job'.pc = pc /\ job'.verb = job.verb /\ job'.placed = job.placed
    BY <1>k, GotoKeeps
  <2> QED
    BY <1>k, <2>1 DEF PlacedIsThere, Installs
<1>n. ASSUME ~Installs, job'.verb = job.verb PROVE PlacedIsThere'
  BY <1>n DEF PlacedIsThere, Installs
<1>1. CASE Others
  <2>1. CASE booting
    <3>1. job' = Idle
      BY <1>1, <2>1, OthersKeep DEF BootAlone, AtRest
    <3> QED
      BY <1>d, <3>1
  <2>2. CASE ~booting
    <3>1. job.placed \in {Exe, Copy} \cap there => job.placed \in there'
      BY <1>1, <2>2, ProgramKept
    <3>2. ~reg.marked => reg'.exe = reg.exe /\ reg'.marked = reg.marked
      <4>1. CASE SetAutostart
        <5>1. reg' = reg \/ \E auto \in BOOLEAN : reg' = [reg EXCEPT !.auto = auto]
          BY <4>1 DEF SetAutostart
        <5> QED
          BY <5>1, TypeParts DEF ScmType
      <4>2. CASE SvcStart \/ Enable \/ BackUp \/ WriteAdapters \/ Disable
        BY <4>2 DEF SvcStart, Enable, BackUp, WriteAdapters, Disable
      <4>3. CASE OnStop \/ Kill
        BY <4>3 DEF OnStop, Kill, Ended
      <4>4. CASE \E w \in Windows : OpenWindow(w) \/ CloseWindow(w)
        BY <4>4 DEF OpenWindow, CloseWindow, scm
      <4>5. CASE BootDelete \/ BootDone \/ UNCHANGED vars
        BY <4>5 DEF BootDelete, BootDone, vars, scm
      <4> QED
        BY <1>1, <4>1, <4>2, <4>3, <4>4, <4>5 DEF Others, Service
    <3>3. job.pc # "idle" => job.placed \in {Exe, Copy}
      BY DEF JobType, VerbSteps
    <3> QED
      BY <1>1, <3>1, <3>2, <3>3, OthersKeep DEF PlacedIsThere, Installs
  <2> QED
    BY <2>1, <2>2
<1>2. CASE Begin
  <2>0. PICK verb \in Verbs, from \in {Exe, Copy} \cap there :
       job' = [Idle EXCEPT !.verb = verb, !.pc = FirstStep(verb, from),
                              !.from = from, !.placed = from, !.had = Exe \in there]
    BY <1>2 DEF Begin
  <2>1. /\ job'.verb = verb /\ job'.pc = FirstStep(verb, from) /\ job'.placed = from
        /\ there' = there
    BY <1>2, <2>0 DEF Begin, Idle
  <2>2. verb = "setup" => job'.pc = IF from = Exe THEN "shell" ELSE "halt"
    BY <2>1 DEF FirstStep
  <2>3. verb = "install" => job'.pc = "register"
    BY <2>1 DEF FirstStep
  <2> QED
    BY <2>1, <2>2, <2>3 DEF PlacedIsThere, Installs
<1>3. CASE VerbDies \/ Reboot
  BY <1>3, <1>d, EndsIdle DEF VerbDies, Reboot
<1>4. CASE Halt \/ Wait
  <2>b. hurried \in BOOLEAN
    BY TypeParts DEF HistoryType
  <2>1. PICK pc \in Onward : (Goto(pc) \/ Warn(pc)) /\ LeadsOn(pc)
    BY <1>4, <2>b, HaltDoes
  <2>2. job.pc \in {"halt", "wait"} /\ there' = there
    BY <1>4, <2>b, HaltDoes DEF disk
  <2>3. Installs => pc \in {"place", "wait"} /\ job.placed = Copy
    BY <2>1, <2>2 DEF VerbSteps, Installs, Removals, LeadsOn, PlacedIsThere
  <2> QED
    BY <1>k, <2>1, <2>2, <2>3
<1>6. CASE MoveAside
  <2>1. job.pc = "place" /\ Installs /\ job.placed = Copy /\ Copy \in there
    BY <1>6 DEF MoveAside, VerbSteps, PlacedIsThere, Installs
  <2>2. Copy \in there'
    BY <1>6, <1>a, <2>1 DEF MoveAside, Rename
  <2>3. job'.pc \in {"copy", "shell"} /\ job'.placed = Copy
    <3>1. CASE \E f \in AsidePath : job' = [job EXCEPT !.pc = "copy", !.aside = f]
      BY <2>1, <3>1 DEF JobType
    <3>2. CASE \E pc \in {"copy", "shell"} : Goto(pc) \/ Warn(pc) \/ Miss(pc)
      BY <2>1, <3>2, GotoKeeps
    <3> QED
      BY <1>6, <3>1, <3>2 DEF MoveAside
  <2> QED
    BY <2>2, <2>3 DEF PlacedIsThere
<1>7. CASE CopyFile
  <2>1. job.pc = "copy" /\ Installs /\ job.placed = Copy /\ Copy \in there
    BY <1>7 DEF CopyFile, VerbSteps, PlacedIsThere, Installs
  <2>2. CASE job' = [job EXCEPT !.pc = "clean", !.placed = Exe] /\ there' = there \cup {Exe}
    <3>1. job'.pc = "clean" /\ job'.placed = Exe
      BY <2>2 DEF JobType
    <3> QED
      BY <2>2, <3>1 DEF PlacedIsThere
  <2>3. CASE Warn("shell")
    <3>1. Copy \in there'
      BY <1>7, <1>a, <2>1 DEF CopyFile, Rename, JobType
    <3> QED
      BY <1>k, <2>1, <2>3, <3>1
  <2> QED
    BY <1>7, <2>2, <2>3 DEF CopyFile
<1>8. CASE Clean
  <2>1. job.placed \in {Exe, Copy}
    BY <1>8 DEF JobType, Clean, VerbSteps
  <2>2. job.placed \in there => job.placed \in there'
    BY <1>8, <1>a, <2>1 DEF Clean, JobType
  <2> QED
    BY <1>8, <1>k, <2>2 DEF Clean
<1>9. CASE Shell
  BY <1>9, <1>k DEF Shell, disk
<1>10. CASE Register
  <2>1. CASE Goto("start") /\ reg'.exe = job.placed /\ ~reg'.marked
    BY <1>10, <1>k, <2>1 DEF Register, disk
  <2>2. CASE Goto("failed")
    BY <1>10, <1>k, <2>2 DEF Register, disk
  <2> QED
    BY <1>10, <2>1, <2>2 DEF Register
<1>11. CASE StartService
  <2>1. job.placed \in there => job.placed \in there'
    <3>1. job.placed \in {Exe, Copy}
      BY <1>11 DEF JobType, StartService, VerbSteps
    <3>2. \A d : job.placed # Backup(d)
      BY <3>1 DEF Exe, Copy, Backup
    <3> QED
      BY <1>11, <3>2 DEF StartService, Started, Reverted
  <2>2. job.pc = "start" /\ reg' = reg
    BY <1>11 DEF StartService
  <2>3. PICK pc \in {"report", "failed"} : Goto(pc)
    BY <1>11 DEF StartService
  <2>4. Installs => reg'.exe = job.placed /\ ~reg'.marked
    BY <2>2 DEF PlacedIsThere
  <2> QED
    BY <1>k, <2>1, <2>2, <2>3, <2>4
<1>12. CASE DeleteService \/ RestoreBackup \/ Forget \/ RemoveFolder
  <2>1. ~Installs
    BY <1>12 DEF DeleteService, RestoreBackup, Forget, RemoveFolder, VerbSteps, Installs, Removals
  <2>2. PICK pc : Goto(pc) \/ Warn(pc) \/ Miss(pc)
    BY <1>12 DEF DeleteService, RestoreBackup, Forget, RemoveFolder
  <2> QED
    BY <1>n, <2>1, <2>2, GotoKeeps
<1>13. CASE RemoveData \/ RemoveFile
  <2>1. ~Installs /\ job'.verb = job.verb
    BY <1>13 DEF RemoveData, RemoveFile, VerbSteps, Installs, Removals, JobType
  <2> QED
    BY <1>n, <2>1
<1>14. CASE SaveReport \/ Schedule
  <2>1. job' = Idle \/ (~Installs /\ job'.verb = job.verb)
    BY <1>14, EndsIdle, GotoKeeps DEF SaveReport, Schedule, Installs
  <2> QED
    BY <1>d, <1>n, <2>1
<1> QED
  BY <1>1, <1>2, <1>3, <1>4, <1>6, <1>7, <1>8, <1>9, <1>10, <1>11, <1>12, <1>13,
     <1>14, NextParts DEF Verb

LEMMA DiskInit == Init => DiskInv
<1> SUFFICES ASSUME Init PROVE DiskInv
  OBVIOUS
<1>1. job = Idle /\ pending = <<>> /\ booting = FALSE /\ last = NoVerb
  BY DEF Init
<1>2. Queued = {}
  BY <1>1 DEF Queued
<1>3. Idle.pc = "idle" /\ Idle.had = FALSE
  BY DEF Idle
<1> QED
  BY <1>1, <1>2, <1>3, TypeInit
  DEF DiskInv, VerbSteps, AtRest, BootAlone, QueueNamesNoBackup, TodoIsThere, SetupPlaces, QueueSpares

LEMMA DiskStep == DiskInv /\ [Next]_vars => DiskInv'
<1> SUFFICES ASSUME DiskInv, [Next]_vars PROVE DiskInv'
  OBVIOUS
<1>1. TypeOK' /\ VerbSteps' /\ AtRest' /\ BootAlone'
  BY TypeStep, VerbStep DEF DiskInv
<1>2. QueueNamesNoBackup' /\ QueueSpares'
  BY QueueStep DEF DiskInv
<1>3. TodoIsThere' /\ SetupPlaces'
  BY PlaceStep DEF DiskInv
<1> QED
  BY <1>1, <1>2, <1>3 DEF DiskInv

LEMMA DiskCorrect == Spec => []DiskInv
  BY DiskInit, DiskStep, PTL DEF Spec

\* Windows' list never names the installed program's own path: however removals,
\* reinstalls, upgrades and deaths of a verb alternate before the next boot,
\* there is a free name to move a running file to (remove_program_files).
THEOREM BootSparesProgram == Spec => []QueueSpares
<1>1. DiskInv => QueueSpares
  BY DEF DiskInv
<1> QED
  BY <1>1, DiskCorrect, PTL

\* A setup, whatever step of it fails, leaves a program where one was
\* (ensure_installed), for any number of windows that run it.
THEOREM SetupKeepsProgram == Spec => []ProgramStays
<1>1. DiskInv => ProgramStays
  BY DEF DiskInv, SetupPlaces, ProgramStays, Placing
<1> QED
  BY <1>1, DiskCorrect, PTL

\* When setup or install reports success the service is registered against a
\* file that is there, whichever of its copies it had to fall back to
\* (install_program, install_at).
THEOREM SetupRegisters == Spec => SetupRegistersAFile
<1>1. Init => PlacedIsThere
  <2>1. Idle.pc = "idle"
    BY DEF Idle
  <2> QED
    BY <2>1 DEF Init, PlacedIsThere
<1>2. DiskInv /\ PlacedIsThere /\ [Next]_vars => PlacedIsThere'
  BY PlacedStep DEF DiskInv
<1>3. DiskInv /\ PlacedIsThere /\ [Next]_vars
      => [(last' # last /\ last'.verb \in {"setup", "install"}) => reg'.exe \in there']_vars
  <2> SUFFICES ASSUME DiskInv, PlacedIsThere, [Next]_vars, last' # last,
                      last'.verb \in {"setup", "install"}
               PROVE  reg'.exe \in there'
    OBVIOUS
  <2>1. JobType /\ VerbSteps
    BY TypeParts DEF DiskInv
  <2>2. NoVerb.verb = "none"
    BY DEF NoVerb
  <2>3. CASE SaveReport
    <3>1. Ends(job.pc = "report", job.silent) /\ job.pc \in {"report", "failed"}
      BY <2>3 DEF SaveReport
    <3>2. job.pc = "report" /\ Installs
      BY <2>1, <2>2, <3>1, EndsIdle DEF Installs
    <3>3. reg.exe \in there /\ there \subseteq there' /\ reg' = reg
      BY <2>3, <3>2 DEF SaveReport, PlacedIsThere, scm
    <3> QED
      BY <3>3
  <2>4. CASE Schedule
    <3>1. last'.verb = job.verb /\ job.verb \in Removals
      BY <2>1, <2>4, EndsIdle DEF Schedule, VerbSteps
    <3> QED
      BY <3>1 DEF Removals
  <2>5. CASE Begin \/ VerbDies \/ Reboot
    BY <2>1, <2>2, <2>5, EndsIdle DEF Begin, VerbDies, Reboot, history
  <2>6. CASE Halt \/ Wait \/ MoveAside \/ CopyFile \/ DeleteService \/ RemoveFile
    BY <2>6 DEF Halt, Wait, MoveAside, CopyFile, DeleteService, RemoveFile
  <2>7. CASE Clean \/ Shell \/ Register \/ StartService \/ RestoreBackup \/ Forget \/ RemoveData
             \/ RemoveFolder
    BY <2>7 DEF Clean, Shell, Register, StartService, RestoreBackup, Forget, RemoveData,
       RemoveFolder, history
  <2>8. CASE Others
    BY <2>8, OthersKeep
  <2> QED
    BY <2>3, <2>4, <2>5, <2>6, <2>7, <2>8, NextParts DEF Verb
<1> QED
  BY <1>1, <1>2, <1>3, DiskCorrect, PTL DEF Spec, SetupRegistersAFile

-----------------------------------------------------------------------------
(* The adapters and their backup. *)

LEMMA HurriedStays == ASSUME hurried \in BOOLEAN, [Next]_vars PROVE hurried => hurried'
<1>1. CASE Others
  BY <1>1, OthersKeep
<1>2. CASE Begin \/ VerbDies \/ Reboot
  BY <1>2 DEF Begin, VerbDies, Reboot, history
<1>3. CASE Halt \/ Wait \/ MoveAside \/ CopyFile
  <2>1. CASE Halt \/ Wait
    BY <2>1, HaltDoes
  <2> QED
    BY <1>3, <2>1 DEF MoveAside, CopyFile
<1>4. CASE Clean \/ Shell \/ Register \/ StartService \/ RestoreBackup \/ Forget \/ RemoveData \/ RemoveFolder
  BY <1>4 DEF Clean, Shell, Register, StartService, RestoreBackup, Forget, RemoveData,
     RemoveFolder, history
<1>5. CASE DeleteService \/ SaveReport \/ Schedule \/ RemoveFile
  BY <1>5 DEF DeleteService, SaveReport, Schedule, RemoveFile
<1> QED
  BY <1>1, <1>2, <1>3, <1>4, <1>5, NextParts DEF Verb

Quiet == \/ Enable \/ SetAutostart \/ Begin \/ VerbDies
         \/ \E w \in Windows : OpenWindow(w) \/ CloseWindow(w)
         \/ BootDone \/ UNCHANGED vars

\* A service's process, its registration, the adapters and the backups: what
\* each step does to all four. The first is a start of the service, the second
\* its end.
Begins == ~Up /\ Registered /\ reg' = reg /\ Started(Home(reg.exe))
Finishes == svc'.state = "stopped" /\ svc'.pass = "none" /\ reg' \in {reg, NoReg}
            /\ (ours' => ours) /\ there' = there
NoBackupMoves == \A d \in DataDirs : Backup(d) \in there' <=> Backup(d) \in there
Keeps == svc' = svc /\ reg' = reg /\ ours' = ours /\ NoBackupMoves

LEMMA QuietKeeps ==
  ASSUME TypeOK, Quiet
  PROVE  /\ NoBackupMoves /\ ours' = ours /\ (Registered' <=> Registered)
         /\ svc'.state = svc.state /\ svc'.home = svc.home
         /\ svc'.pass = svc.pass \/ (svc'.pass = "save" /\ Up)
<1>t. ScmType
  BY TypeParts
<1> USE <1>t
<1>1. CASE Enable
  BY <1>1 DEF Enable, NoBackupMoves, ScmType, disk, dns, Registered, Up
<1>2. CASE SetAutostart
  BY <1>2 DEF SetAutostart, NoBackupMoves, ScmType, disk, Registered
<1>3. CASE Begin \/ VerbDies
  BY <1>3 DEF Begin, VerbDies, NoBackupMoves, scm, dns, Registered
<1>4. CASE \E w \in Windows : OpenWindow(w) \/ CloseWindow(w)
  BY <1>4 DEF OpenWindow, CloseWindow, NoBackupMoves, scm, dns, Registered
<1>5. CASE BootDone \/ UNCHANGED vars
  BY <1>5 DEF BootDone, NoBackupMoves, vars, disk, scm, dns, Registered
<1> QED
  BY <1>1, <1>2, <1>3, <1>4, <1>5 DEF Quiet

LEMMA NoRegUnregistered == NoReg.exe = Nowhere
  BY DEF NoReg

\* A backup goes only when the adapters are back, or in an uninstall.
LEMMA StartKeeps ==
  ASSUME TypeOK, Begins
  PROVE  /\ svc'.state = "running" /\ svc'.pass \in {"none", "save"} /\ Registered'
         /\ \A d \in DataDirs : Backup(d) \in there' => Backup(d) \in there
         /\ \A d \in DataDirs : (Backup(d) \in there /\ Backup(d) \notin there') => ours' = FALSE
         /\ ours' => ours
<1>1. svc'.state = "running" /\ svc'.pass \in {"none", "save"}
  BY DEF Begins, Started, Down
<1>2. \/ there' = there /\ ours' = ours
      \/ there' \subseteq there /\ ours' = FALSE
  BY DEF Begins, Started, Reverted, Restored, TypeOK
<1> QED
  BY <1>1, <1>2 DEF Begins, Registered, TypeOK

PlainVerb == \/ Wait \/ MoveAside \/ CopyFile \/ Clean \/ Shell \/ RemoveData \/ RemoveFile
             \/ RemoveFolder \/ SaveReport \/ Schedule
             \/ StartService /\ svc' = svc

\* The files a verb moves and Windows deletes are no backup.
LEMMA PlainKeeps ==
  ASSUME TypeOK, QueueNamesNoBackup, PlainVerb \/ BootDelete
  PROVE  Keeps
<1>t. JobType /\ DiskType
  BY TypeParts
<1> USE <1>t
<1>b. ASSUME NEW d \in DataDirs
      PROVE  /\ Backup(d) \notin Program /\ Backup(d) # Folder("program")
             /\ \A e \in DataDirs : Backup(d) # Folder(e) /\ Backup(d) # Report(e)
  BY Files
<1>a. AsidePath \subseteq Program /\ Exe \in Program
  BY AsidePathType, Files
<1>h. Home(job.from) \in DataDirs
  BY HomeType
<1>1. svc' = svc /\ reg' = reg /\ ours' = ours
  <2>1. CASE Wait \/ MoveAside \/ CopyFile \/ Clean \/ Shell
    BY <2>1 DEF Wait, MoveAside, CopyFile, Clean, Shell, scm, dns
  <2>2. CASE RemoveData \/ RemoveFile \/ RemoveFolder \/ SaveReport \/ Schedule \/ BootDelete
    BY <2>2 DEF RemoveData, RemoveFile, RemoveFolder, SaveReport, Schedule, BootDelete, scm, dns
  <2>3. CASE StartService /\ svc' = svc
    <3>1. Started(Home(reg.exe)) => svc'.state = "running"
      BY DEF Started, Down
    <3>2. ~(Startable /\ Started(Home(reg.exe)))
      BY <2>3, <3>1 DEF Startable, Up
    <3> QED
      BY <2>3, <3>2 DEF StartService
  <2> QED
    BY <2>1, <2>2, <2>3 DEF PlainVerb
<1>2. ASSUME NEW d \in DataDirs PROVE Backup(d) \in there' <=> Backup(d) \in there
  <2>1. CASE Wait \/ Shell \/ RemoveData \/ Schedule
    BY <2>1 DEF Wait, Shell, RemoveData, Schedule, disk
  <2>2. CASE MoveAside
    BY <2>2, <1>a, <1>b DEF MoveAside, Rename
  <2>3. CASE CopyFile
    <3>1. job.aside # Nowhere => job.aside \in Program
      BY Files DEF JobType
    <3> QED
      BY <2>3, <3>1, <1>a, <1>b DEF CopyFile, Rename
  <2>4. CASE Clean
    <3>1. job.aside # Nowhere => job.aside \in Program
      BY Files DEF JobType
    <3> QED
      BY <2>4, <3>1, <1>b DEF Clean
  <2>5. CASE RemoveFile
    <3>0. PICK f \in job.todo, lost \in BOOLEAN : RemovesEntry(f, lost)
      BY <2>5, RemoveFileTakes
    <3>1. f \in Program
      BY DEF JobType
    <3> QED
      BY <3>0, <3>1, <1>a, <1>b DEF RemovesEntry, Rename
  <2>6. CASE RemoveFolder
    BY <2>6, <1>b DEF RemoveFolder
  <2>7. CASE SaveReport
    BY <2>7, <1>b, <1>h DEF SaveReport
  <2>8. CASE BootDelete
    <3>1. Head(pending) \in Queued
      BY <2>8 DEF BootDelete, Queued, DiskType
    <3> QED
      BY <2>8, <3>1 DEF BootDelete, QueueNamesNoBackup
  <2>9. CASE StartService /\ svc' = svc
    <3>1. Started(Home(reg.exe)) => svc'.state = "running"
      BY DEF Started, Down
    <3>2. ~(Startable /\ Started(Home(reg.exe)))
      BY <2>9, <3>1 DEF Startable, Up
    <3> QED
      BY <2>9, <3>2 DEF StartService
  <2> QED
    BY <2>1, <2>2, <2>3, <2>4, <2>5, <2>6, <2>7, <2>8, <2>9 DEF PlainVerb
<1> QED
  BY <1>1, <1>2 DEF Keeps, NoBackupMoves

LEMMA FinishKeeps ==
  ASSUME TypeOK, OnStop \/ Kill \/ Reboot PROVE Finishes
<1>1. CASE OnStop
  BY <1>1 DEF OnStop, Ended, Finishes, Restored, NotRestored, Down
<1>2. CASE Kill
  BY <1>2 DEF Kill, Ended, Finishes, dns, Down
<1>3. CASE Reboot
  BY <1>3 DEF Reboot, Finishes, dns, Down
<1> QED
  BY <1>1, <1>2, <1>3

\* What every step does to the service, its registration, the adapters and the
\* backups.
LEMMA Effects ==
  ASSUME TypeOK, QueueNamesNoBackup, [Next]_vars
  PROVE  \/ Quiet \/ Begins \/ Finishes \/ Keeps
         \/ BackUp \/ WriteAdapters \/ Disable
         \/ Halt \/ Register \/ DeleteService \/ RestoreBackup \/ Forget
<1>1. CASE SvcStart
  BY <1>1 DEF SvcStart, Startable, Begins
<1>2. CASE StartService
  <2>1. \/ svc' = svc \/ Begins
    BY <1>2 DEF StartService, Startable, Begins
  <2> QED
    BY <1>2, <2>1, PlainKeeps DEF PlainVerb
<1>3. CASE OnStop \/ Kill \/ Reboot
  BY <1>3, FinishKeeps
<1>4. CASE PlainVerb \/ BootDelete
  BY <1>4, PlainKeeps
<1> QED
  BY <1>1, <1>2, <1>3, <1>4 DEF Next, Verb, Service, Quiet, PlainVerb

\* What follows from it: who may register, bring or lose a backup, write, start
\* to write.
LEMMA Consequences ==
  ASSUME TypeOK, QueueNamesNoBackup, OnlyRegisteredRuns, VerbSteps, [Next]_vars
  PROVE  /\ (Registered' /\ ~Registered) => job.pc = "register"
         /\ (ours' /\ ~ours) => svc.pass = "write"
         /\ svc'.pass = "write" =>
              \/ svc.pass = "write" /\ svc'.home = svc.home
              \/ Backup(svc'.home) \in there'
         /\ \A d \in DataDirs : (Backup(d) \in there' /\ Backup(d) \notin there) => svc.pass = "save"
         /\ \A d \in DataDirs : (Backup(d) \in there /\ Backup(d) \notin there') =>
              \/ ours' = FALSE /\ svc'.pass # "write"
              \/ Forget
         /\ OnlyRegisteredRuns'
<1>t. ScmType /\ JobType
  BY TypeParts
<1>n. NoReg.exe = Nowhere
  BY NoRegUnregistered
<1>1. CASE Quiet
  BY <1>1, QuietKeeps DEF NoBackupMoves, OnlyRegisteredRuns, Up, Registered
<1>2. CASE Begins
  BY <1>2, StartKeeps DEF OnlyRegisteredRuns, Begins, Up
<1>3. CASE Finishes
  BY <1>3, <1>n DEF Finishes, OnlyRegisteredRuns, Up, Registered
<1>4. CASE Keeps
  BY <1>4 DEF Keeps, NoBackupMoves, OnlyRegisteredRuns, Up, Registered
<1>5. CASE BackUp
  <2>1. svc.pass = "save" /\ reg' = reg /\ ours' = ours /\ svc.home \in DataDirs
    BY <1>5, <1>t DEF BackUp, dns, ScmType
  <2>2. \/ svc' = [svc EXCEPT !.pass = "write"] /\ Backup(svc.home) \in there' /\ there \subseteq there'
        \/ svc' = [svc EXCEPT !.pass = "none"] /\ there' = there
    BY <1>5 DEF BackUp
  <2>3. svc'.state = svc.state /\ svc'.home = svc.home
    BY <1>t, <2>2 DEF ScmType
  <2>4. svc'.pass = "write" => Backup(svc'.home) \in there'
    BY <1>t, <2>2, <2>3 DEF ScmType
  <2> QED
    BY <2>1, <2>2, <2>3, <2>4 DEF OnlyRegisteredRuns, Up, Registered
<1>6. CASE WriteAdapters
  <2>1. svc.pass = "write" /\ reg' = reg /\ there' = there /\ svc'.pass = "none" /\ svc'.state = svc.state
    BY <1>6, <1>t DEF WriteAdapters, disk, ScmType
  <2> QED
    BY <2>1 DEF OnlyRegisteredRuns, Up, Registered
<1>7. CASE Disable
  <2>1. reg' = reg /\ svc'.pass = "none" /\ svc'.state = svc.state
    BY <1>7, <1>t DEF Disable, ScmType
  <2>2. there' = there \/ (there' \subseteq there /\ ours' = FALSE)
    BY <1>7 DEF Disable, Reverted, Restored
  <2>3. ours' => ours
    BY <1>7 DEF Disable, Reverted, Restored
  <2>4. there' \subseteq there
    BY <2>2
  <2> QED
    BY <2>1, <2>2, <2>3, <2>4 DEF OnlyRegisteredRuns, Up, Registered
<1>8. CASE Halt
  <2>0. hurried \in BOOLEAN
    BY TypeParts DEF HistoryType
  <2>1. reg' = reg /\ there' = there /\ ours' = ours
    BY <1>8, <2>0, HaltDoes DEF disk, dns
  <2>2. svc' = svc \/ (svc' = [svc EXCEPT !.state = "stopping"] /\ Up)
    BY <1>8, <2>0, HaltDoes
  <2>3. svc'.pass = svc.pass /\ svc'.home = svc.home /\ (Up' <=> Up)
    BY <1>t, <2>2 DEF ScmType, Up
  <2> QED
    BY <2>1, <2>3 DEF OnlyRegisteredRuns, Registered
<1>9. CASE Register
  <2>1. job.pc = "register" /\ svc' = svc /\ there' = there /\ ours' = ours
    BY <1>9 DEF Register, disk, dns
  <2>2. reg' = reg \/ reg'.exe = job.placed
    BY <1>9 DEF Register
  <2>3. job.placed # Nowhere
    BY <2>1 DEF VerbSteps
  <2>4. Registered => Registered'
    BY <2>2, <2>3 DEF Registered
  <2> QED
    BY <2>1, <2>4 DEF OnlyRegisteredRuns, Up
<1>10. CASE DeleteService
  <2>1. there' = there /\ ours' = ours
    BY <1>10 DEF DeleteService, disk, dns
  <2>2. svc' = svc \/ svc' = [svc EXCEPT !.due = FALSE]
    BY <1>10 DEF DeleteService, scm
  <2>3. svc'.pass = svc.pass /\ svc'.home = svc.home /\ (Up' <=> Up)
    BY <1>t, <2>2 DEF ScmType, Up
  <2>4. reg' = reg \/ (Up /\ reg' = [reg EXCEPT !.marked = TRUE]) \/ (~Up /\ reg' = NoReg)
    BY <1>10 DEF DeleteService, scm
  <2>5. (Registered' => Registered) /\ ((Registered /\ Up) => Registered')
    BY <1>t, <1>n, <2>4 DEF ScmType, Registered
  <2> QED
    BY <2>1, <2>3, <2>5 DEF OnlyRegisteredRuns
<1>11. CASE RestoreBackup
  <2>1. there' = there /\ svc' = svc /\ reg' = reg
    BY <1>11 DEF RestoreBackup, disk, scm
  <2>2. ours' => ours
    BY <1>11 DEF RestoreBackup, Restored, NotRestored
  <2> QED
    BY <2>1, <2>2 DEF OnlyRegisteredRuns, Up, Registered
<1>12. CASE Forget
  <2>1. there' \subseteq there /\ svc' = svc /\ reg' = reg /\ ours' = ours
    BY <1>12 DEF Forget, scm, dns
  <2> QED
    BY <1>12, <2>1 DEF OnlyRegisteredRuns, Up, Registered
<1> QED
  BY <1>1, <1>2, <1>3, <1>4, <1>5, <1>6, <1>7, <1>8, <1>9, <1>10, <1>11, <1>12, Effects

\* How a verb comes to the steps of an uninstall, to forgetting the backup, to
\* the end of it, and to its result.
LEMMA Arrivals ==
  ASSUME TypeOK, VerbSteps, AtRest, [Next]_vars
  PROVE  /\ (Late' /\ ~hurried') => Late \/ ~Registered'
         /\ job'.pc = "forget" => job.pc = "forget" \/ ours' = FALSE
         /\ Clear' => /\ job'.from = job.from
                      /\ job.silent => job'.silent
                      /\ \/ Clear
                         \/ Late /\ Backup(Home(job.from)) \notin there'
                         \/ Forget /\ job'.silent
         /\ last'.verb \in Removals =>
              \/ last' = last
              \/ Clear /\ last'.home = Home(job.from) /\ (job.silent => last'.silent)
              \/ last'.warned
<1>t. JobType /\ ScmType
  BY TypeParts
<1> USE <1>t
<1>n. NoReg.exe = Nowhere /\ NoVerb.verb = "none" /\ "none" \notin Removals
  BY DEF NoReg, NoVerb, Removals
<1>i. Idle.pc = "idle"
  BY DEF Idle
<1>1. CASE Others
  <2>1. job' = job /\ last' = last
    BY <1>1, OthersKeep
  <2>2. CASE Late
    <3>1. job.pc # "idle"
      BY <2>2 DEF Late
    <3>2. Clear => Clear'
      BY <2>1 DEF Clear
    <3> QED
      BY <2>1, <2>2 DEF Clear
  <2>3. CASE ~Late
    BY <2>1, <2>3 DEF Late, Clear
  <2>4. job'.pc = "forget" => job.pc = "forget"
    BY <2>1
  <2> QED
    BY <2>1, <2>2, <2>3, <2>4 DEF Clear
<1>2. CASE Begin
  <2>0. PICK verb \in Verbs, from \in {Exe, Copy} \cap there :
       job' = [Idle EXCEPT !.verb = verb, !.pc = FirstStep(verb, from),
                              !.from = from, !.placed = from, !.had = Exe \in there]
    BY <1>2 DEF Begin
  <2>1. job'.pc \in {"shell", "halt", "register", "start"}
    BY <2>0 DEF Idle, FirstStep
  <2>2. last'.verb = "none"
    BY <1>2, <1>n DEF Begin
  <2> QED
    BY <1>n, <2>1, <2>2 DEF Late, Clear
<1>3. CASE VerbDies \/ Reboot
  <2>1. job' = Idle /\ (last' = NoVerb \/ last' = last)
    BY <1>3, EndsIdle DEF VerbDies, Reboot, history
  <2> QED
    BY <1>i, <1>n, <2>1 DEF Late, Clear
<1>4. CASE Halt \/ Wait
  <2>b. hurried \in BOOLEAN
    BY TypeParts DEF HistoryType
  <2>1. PICK pc \in Onward : (Goto(pc) \/ Warn(pc)) /\ LeadsOn(pc)
    BY <1>4, <2>b, HaltDoes
  <2>2. job'.pc = pc /\ job'.verb = job.verb /\ last' = last /\ reg' = reg
    BY <1>4, <2>b, <2>1, HaltDoes, GotoKeeps
  <2>3. AfterStop = "report" => job.verb \notin Removals
    BY DEF AfterStop, Removals
  <2>4. AfterStop \in {"place", "start", "report", "delete"}
    BY DEF AfterStop
  <2>5. pc = "restore" => ~Registered' \/ hurried'
    BY <2>1, <2>2 DEF LeadsOn, Registered
  <2> QED
    BY <2>1, <2>2, <2>3, <2>4, <2>5 DEF Late, Clear, Onward
<1>6. CASE MoveAside \/ CopyFile
  <2>1. job'.pc \in {"copy", "shell", "clean"} /\ last' = last
    <3>1. CASE \E f \in AsidePath : job' = [job EXCEPT !.pc = "copy", !.aside = f]
      BY <1>6, <3>1 DEF JobType, MoveAside, CopyFile
    <3>2. CASE job' = [job EXCEPT !.pc = "clean", !.placed = Exe]
      BY <1>6, <3>2 DEF JobType, MoveAside, CopyFile
    <3>3. CASE \E pc \in {"copy", "shell"} : Goto(pc) \/ Warn(pc) \/ Miss(pc)
      BY <1>6, <3>3, GotoKeeps DEF MoveAside, CopyFile
    <3> QED
      BY <1>6, <3>1, <3>2, <3>3 DEF MoveAside, CopyFile
  <2> QED
    BY <2>1 DEF Late, Clear
<1>7. CASE Clean \/ Shell \/ Register \/ StartService
  <2>1. PICK pc \in {"shell", "register", "start", "failed", "report"} :
          Goto(pc) /\ (pc = "report" => job.pc = "start")
    BY <1>7 DEF Clean, Shell, Register, StartService
  <2>2. job'.pc = pc /\ job'.verb = job.verb /\ last' = last
    BY <1>7, <2>1, GotoKeeps DEF Clean, Shell, Register, StartService, history
  <2> QED
    BY <2>1, <2>2 DEF Late, Clear, VerbSteps
<1>8. CASE DeleteService
  <2>1. job'.pc = "restore" /\ last' = last
    BY <1>8, GotoKeeps DEF DeleteService
  <2>2. ~hurried' => ~Registered'
    BY <1>8, <1>n DEF DeleteService, Registered, scm
  <2> QED
    BY <2>1, <2>2 DEF Late, Clear
<1>9. CASE RestoreBackup
  <2>1. AfterUninstall \in {"data", "report"}
    BY DEF AfterUninstall
  <2>2. PICK pc \in {"forget", AfterUninstall} :
          /\ \/ Warn(pc) /\ pc = AfterUninstall
             \/ Goto(pc) /\ (pc = "forget" => ours' = FALSE)
                /\ (pc # "forget" => Backup(Home(job.from)) \notin there)
    <3>1. CASE Backup(Home(job.from)) \in there /\ Restored /\ Goto("forget")
      BY <3>1 DEF Restored
    <3>2. CASE Warn(AfterUninstall)
      BY <3>2
    <3>3. CASE Backup(Home(job.from)) \notin there /\ Goto(AfterUninstall)
      BY <2>1, <3>3
    <3> QED
      BY <1>9, <3>1, <3>2, <3>3 DEF RestoreBackup
  <2>3. /\ job'.pc = pc /\ job'.verb = job.verb /\ job'.from = job.from
        /\ Warn(pc) => job'.warned = TRUE
        /\ job.silent => job'.silent
    BY <2>2, GotoKeeps
  <2>4. last' = last /\ there' = there /\ Late
    BY <1>9 DEF RestoreBackup, history, disk, Late
  <2> QED
    BY <2>1, <2>2, <2>3, <2>4 DEF Clear
<1>10. CASE Forget
  <2>1. /\ job'.pc \in {"data", "report"} /\ job'.from = job.from /\ last' = last
        /\ job.silent => job'.silent
    BY <1>10, GotoKeeps DEF Forget, AfterUninstall, history
  <2>2. Late /\ (Backup(Home(job.from)) \notin there' \/ job'.silent)
    <3>1. CASE Miss(AfterUninstall)
      <4>1. job'.silent
        BY <3>1, GotoKeeps
      <4> QED
        BY <1>10, <4>1 DEF Forget, Late
    <3> QED
      BY <1>10, <3>1 DEF Forget, Late
  <2> QED
    BY <1>10, <2>1, <2>2
<1>11. CASE RemoveData \/ RemoveFile
  <2>1. /\ job'.pc = "files" /\ job'.verb = job.verb /\ job'.from = job.from
        /\ job'.warned = job.warned /\ last' = last /\ (job.silent => job'.silent)
    <3>1. CASE RemoveData
      <4>1. PICK kept \in BOOLEAN, unread \in BOOLEAN :
              job' = [job EXCEPT !.pc = "files", !.silent = @ \/ kept \/ unread,
                                 !.todo = IF unread THEN {} ELSE Program \cap there]
        BY <3>1 DEF RemoveData
      <4> QED
        BY <3>1, <4>1 DEF RemoveData, JobType, history
    <3>2. CASE RemoveFile
      <4>1. PICK f \in job.todo, lost \in BOOLEAN : RemovesEntry(f, lost)
        BY <3>2, RemoveFileTakes
      <4>2. job.pc = "files" /\ last' = last
        BY <3>2 DEF RemoveFile
      <4> QED
        BY <4>1, <4>2 DEF RemovesEntry, JobType
    <3> QED
      BY <1>11, <3>1, <3>2
  <2>2. job.pc \in {"data", "files"}
    BY <1>11 DEF RemoveData, RemoveFile
  <2> QED
    BY <2>1, <2>2 DEF Late, Clear
<1>12. CASE RemoveFolder
  <2>1. /\ job'.pc = "report" /\ job'.verb = job.verb /\ job'.from = job.from
        /\ job'.warned = job.warned /\ last' = last /\ (job.silent => job'.silent)
    BY <1>12, GotoKeeps DEF RemoveFolder, history
  <2>2. job.pc = "files"
    BY <1>12 DEF RemoveFolder
  <2> QED
    BY <2>1, <2>2 DEF Late, Clear
<1>13. CASE SaveReport
  <2>1. CASE job.pc = "report" /\ job.verb = "remove" /\ Goto("schedule") /\ last' = last
    <3>1. /\ job'.pc = "schedule" /\ job'.verb = job.verb /\ job'.from = job.from
          /\ job'.warned = job.warned /\ (job.silent => job'.silent)
      BY <2>1, GotoKeeps
    <3>2. Late
      BY <2>1 DEF Late, Removals
    <3> QED
      BY <2>1, <3>1, <3>2 DEF Clear, Removals
  <2>2. CASE Ends(job.pc = "report", job.silent)
    <3>1. job' = Idle
      BY <2>2, EndsIdle
    <3>2. \/ last'.verb = "none"
          \/ /\ job.pc = "report" /\ last'.verb = job.verb /\ last'.home = Home(job.from)
             /\ last'.warned = job.warned /\ last'.silent = job.silent
      BY <1>n, <2>2, EndsIdle
    <3> QED
      BY <1>i, <1>n, <3>1, <3>2 DEF Late, Clear
  <2> QED
    BY <1>13, <2>1, <2>2 DEF SaveReport
<1>14. CASE Schedule
  <2>1. /\ job' = Idle /\ last'.verb = job.verb /\ last'.home = Home(job.from)
        /\ last'.warned = job.warned /\ (job.silent => last'.silent)
    <3>1. PICK silent : Ends(TRUE, silent) /\ (job.silent => silent)
      BY <1>14 DEF Schedule
    <3> QED
      BY <3>1, EndsIdle
  <2>2. job.pc = "schedule"
    BY <1>14 DEF Schedule
  <2> QED
    BY <1>i, <2>1, <2>2 DEF Late, Clear
<1> QED
  BY <1>1, <1>2, <1>3, <1>4, <1>6, <1>7, <1>8, <1>9, <1>10, <1>11, <1>12, <1>13, <1>14,
     NextParts DEF Verb

LEMMA DnsStep ==
  ASSUME DiskInv, DnsInv, [Next]_vars PROVE DnsInv'
<1>d. /\ TypeOK /\ VerbSteps /\ AtRest /\ QueueNamesNoBackup
      /\ OnlyRegisteredRuns /\ BackedUpFirst /\ Alone /\ ForgetsOnce /\ Undone /\ StaysUndone
      /\ LentHasBackup
  BY DEF DiskInv, DnsInv
<1>t. ScmType /\ JobType /\ HistoryType
  BY <1>d, TypeParts
<1>h. hurried => hurried'
  BY <1>t, HurriedStays DEF HistoryType
<1>c. /\ (Registered' /\ ~Registered) => job.pc = "register"
      /\ (ours' /\ ~ours) => svc.pass = "write"
      /\ svc'.pass = "write" =>
           \/ svc.pass = "write" /\ svc'.home = svc.home
           \/ Backup(svc'.home) \in there'
      /\ \A d \in DataDirs : (Backup(d) \in there' /\ Backup(d) \notin there) => svc.pass = "save"
      /\ \A d \in DataDirs : (Backup(d) \in there /\ Backup(d) \notin there') =>
           \/ ours' = FALSE /\ svc'.pass # "write"
           \/ Forget
      /\ OnlyRegisteredRuns'
  BY <1>d, Consequences
<1>a. /\ (Late' /\ ~hurried') => Late \/ ~Registered'
      /\ job'.pc = "forget" => job.pc = "forget" \/ ours' = FALSE
      /\ Clear' => /\ job'.from = job.from
                   /\ job.silent => job'.silent
                   /\ \/ Clear
                      \/ Late /\ Backup(Home(job.from)) \notin there'
                      \/ Forget /\ job'.silent
      /\ last'.verb \in Removals =>
           \/ last' = last
           \/ Clear /\ last'.home = Home(job.from) /\ (job.silent => last'.silent)
           \/ last'.warned
  BY <1>d, Arrivals
<1>f. \A exe : Home(exe) \in DataDirs
  BY HomeType
<1>s. svc.home \in DataDirs /\ last.home \in DataDirs
  BY <1>t DEF ScmType, HistoryType
\* With no service there is no pass: nothing is backed up or written.
<1>q. (~Registered) => svc.pass = "none"
  BY <1>d DEF OnlyRegisteredRuns
<1>g. (Forget /\ ~hurried) => svc.pass = "none" /\ svc' = svc /\ ours = FALSE
  <2>1. Forget => job.pc = "forget" /\ svc' = svc
    BY DEF Forget, scm
  <2> QED
    BY <1>d, <1>q, <2>1 DEF Alone, Late, ForgetsOnce
<1>l. \A d \in DataDirs : (Backup(d) \in there /\ Backup(d) \notin there' /\ ~hurried) =>
        svc'.pass # "write" /\ (ours' => ~ours /\ svc.pass = "none")
  BY <1>c, <1>g
<1>1. BackedUpFirst'
  <2> SUFFICES ASSUME svc'.pass = "write", ~hurried' PROVE Backup(svc'.home) \in there'
    BY DEF BackedUpFirst
  <2>1. CASE svc.pass = "write" /\ svc'.home = svc.home
    <3>1. Backup(svc.home) \in there
      BY <1>d, <1>h, <2>1 DEF BackedUpFirst
    <3> QED
      BY <1>l, <1>h, <1>s, <2>1, <3>1
  <2> QED
    BY <1>c, <2>1
<1>2. LentHasBackup'
  <2> SUFFICES ASSUME ours', ~hurried' PROVE \E d \in DataDirs : Backup(d) \in there'
    BY DEF LentHasBackup
  <2>1. CASE ours
    <3>1. PICK d \in DataDirs : Backup(d) \in there
      BY <1>d, <1>h, <2>1 DEF LentHasBackup
    <3> QED
      BY <1>l, <1>h, <2>1, <3>1
  <2>2. CASE ~ours
    <3>1. svc.pass = "write" /\ Backup(svc.home) \in there
      BY <1>c, <1>d, <1>h, <2>2 DEF BackedUpFirst
    <3> QED
      BY <1>l, <1>h, <1>s, <3>1
  <2> QED
    BY <2>1, <2>2
<1>3. Alone'
  <2>1. Late => job.pc # "register"
    BY DEF Late
  <2> QED
    BY <1>a, <1>c, <1>d, <1>h, <2>1 DEF Alone
<1>4. ForgetsOnce'
  <2>1. (job.pc = "forget" /\ ~hurried) => ~Registered /\ ~ours
    BY <1>d DEF Alone, Late, ForgetsOnce
  <2>2. (job.pc = "forget" /\ ~hurried) => ~ours'
    BY <1>c, <1>q, <2>1
  <2> QED
    BY <1>a, <1>h, <1>t, <2>2 DEF ForgetsOnce
\* What an uninstall has given back stays so, while no verb registers.
<1>b. ASSUME NEW home \in DataDirs, NEW silent, NEW more, silent => more, ~hurried,
             job.pc # "register", GivenBack(home, silent)
      PROVE  ~Registered' /\ (Backup(home) \notin there' \/ (more /\ ~ours'))
  <2>1. ~Registered /\ svc.pass = "none"
    BY <1>b, <1>q DEF GivenBack
  <2>2. ~Registered' /\ (ours' => ours)
    BY <1>b, <1>c, <2>1
  <2>3. Backup(home) \in there' => Backup(home) \in there
    BY <1>c, <2>1
  <2> QED
    BY <1>b, <2>2, <2>3 DEF GivenBack
<1>5. Undone'
  <2> SUFFICES ASSUME Clear', ~hurried'
               PROVE  /\ ~Registered'
                      /\ Backup(Home(job'.from)) \notin there' \/ (job'.silent /\ ~ours')
    BY DEF Undone, GivenBack
  <2>1. job'.from = job.from /\ ~hurried /\ (job.silent => job'.silent)
    BY <1>a, <1>h
  <2>2. CASE Clear
    <3>1. GivenBack(Home(job.from), job.silent) /\ job.pc # "register"
      BY <1>d, <2>1, <2>2 DEF Clear, Undone
    <3> QED
      BY <1>b, <1>f, <2>1, <3>1
  <2>3. CASE Late /\ Backup(Home(job.from)) \notin there'
    <3>1. ~Registered /\ job.pc # "register"
      BY <1>d, <2>1, <2>3 DEF Late, Alone
    <3> QED
      BY <1>c, <2>1, <2>3, <3>1
  <2>4. CASE Forget /\ job'.silent
    <3>1. job.pc = "forget" /\ ours' = ours /\ reg' = reg
      BY <2>4 DEF Forget, scm, dns
    <3>2. ~Registered /\ ~ours
      BY <1>d, <2>1, <3>1 DEF Alone, Late, ForgetsOnce
    <3> QED
      BY <2>4, <3>1, <3>2 DEF Registered
  <2> QED
    BY <1>a, <2>2, <2>3, <2>4
<1>6. StaysUndone'
  <2> SUFFICES ASSUME last'.verb \in Removals, ~last'.warned, ~hurried'
               PROVE  /\ ~Registered'
                      /\ Backup(last'.home) \notin there' \/ (last'.silent /\ ~ours')
    BY DEF StaysUndone, GivenBack
  <2>1. CASE last' = last
    <3>1. GivenBack(last.home, last.silent)
      BY <1>d, <1>h, <2>1 DEF StaysUndone
    <3>2. job.pc # "register"
      BY <1>d, <2>1 DEF VerbSteps, Removals
    <3> QED
      BY <1>b, <1>h, <1>s, <2>1, <3>1, <3>2
  <2>2. CASE Clear /\ last'.home = Home(job.from) /\ (job.silent => last'.silent)
    <3>1. GivenBack(Home(job.from), job.silent) /\ job.pc # "register"
      BY <1>d, <1>h, <2>2 DEF Clear, Undone
    <3> QED
      BY <1>b, <1>h, <1>f, <2>2, <3>1
  <2> QED
    BY <1>a, <2>1, <2>2
<1> QED
  BY <1>c, <1>1, <1>2, <1>3, <1>4, <1>5, <1>6 DEF DnsInv

LEMMA DnsInit == Init => DnsInv
<1> SUFFICES ASSUME Init PROVE DnsInv
  OBVIOUS
<1>1. job = Idle /\ last = NoVerb /\ ours = FALSE /\ svc.state = "stopped" /\ svc.pass = "none"
  BY DEF Init, Down
<1>2. Idle.pc = "idle" /\ NoVerb.verb = "none" /\ "none" \notin Removals
  BY DEF Idle, NoVerb, Removals
<1> QED
  BY <1>1, <1>2
  DEF DnsInv, OnlyRegisteredRuns, Up, BackedUpFirst, Alone, Late, ForgetsOnce, Undone, Clear,
      StaysUndone, LentHasBackup

LEMMA DnsCorrect == Spec => [](DiskInv /\ DnsInv)
<1>1. Init => DiskInv /\ DnsInv
  BY DiskInit, DnsInit
<1>2. DiskInv /\ DnsInv /\ [Next]_vars => DiskInv' /\ DnsInv'
  BY DiskStep, DnsStep
<1> QED
  BY <1>1, <1>2, PTL DEF Spec

\* While the adapters are on a setting of ours there is a backup of what they
\* had, through stops, uninstalls, failed restores, crashes and power cuts,
\* unless a verb went on past a service that was still there (uninstall).
THEOREM BackupOutlivesLoan == Spec => []LentHasBackup
<1>1. DnsInv => LentHasBackup
  BY DEF DnsInv
<1> QED
  BY <1>1, DnsCorrect, PTL

\* An uninstall that reports no warning leaves no service and no adapter on
\* ours, even where deleting the backup failed unnoticed, when the backup is in
\* the folder it looks in and no verb went past a service that was still there.
THEOREM UninstallUndoes == Spec => []UninstallGivesBack
<1>1. ASSUME DiskInv, DnsInv PROVE UninstallGivesBack
  <2> SUFFICES ASSUME last.verb \in {"uninstall", "remove"}, ~last.warned, ~hurried,
                      \A d \in DataDirs \ {last.home} : Backup(d) \notin there
               PROVE  ~ours /\ ~Registered /\ ~Up
    BY DEF UninstallGivesBack
  <2>1. ~Registered /\ (Backup(last.home) \notin there \/ ~ours)
    BY <1>1 DEF DnsInv, StaysUndone, GivenBack, Removals
  <2>2. ~ours
    BY <1>1, <2>1 DEF DnsInv, LentHasBackup
  <2> QED
    BY <1>1, <2>1, <2>2 DEF DnsInv, OnlyRegisteredRuns
<1> QED
  BY <1>1, DnsCorrect, PTL

-----------------------------------------------------------------------------
(* What a removal leaves. *)

\* Windows comes to a folder on its list after all that is in it.
InTurn(c) ==
  c \in there =>
    \E i \in DOMAIN pending :
      /\ pending[i] = c
      /\ \A g \in there : (g[1] = c[1] /\ g # c) => \E j \in 1 .. (i - 1) : pending[j] = g

ProgramGoes == Program \cap there \subseteq Queued /\ InTurn(Folder("program"))

\* A removal: what it has yet to work off or has queued, what it has queued by
\* its report, the settings it has reset, and all of that until the next verb.
Collected ==
  (job.pc = "files" /\ ~refused /\ ~job.silent)
    => Program \cap there \subseteq job.todo \cup Queued
Emptied ==
  (job.verb = "remove" /\ job.pc \in {"report", "schedule"} /\ ~refused /\ ~job.silent)
    => ProgramGoes
Unset ==
  (/\ job.verb = "remove" /\ job.pc \in {"files", "report", "schedule"}
   /\ ~job.warned /\ ~job.silent /\ ~hurried)
    => wish[Home(job.from)] = Default
LeftToBoot ==
  (last.verb = "remove" /\ ~last.warned /\ ~last.silent /\ ~refused /\ ~hurried)
    => ProgramGoes /\ InTurn(Folder(last.home)) /\ wish[last.home] = Default
RemovalInv == Collected /\ Emptied /\ Unset /\ LeftToBoot

\* What is in a folder.
LEMMA Contents ==
  /\ \A g \in Paths : (g[1] = "program" /\ g # Folder("program")) => g \in Program
  /\ \A g \in Program : g[1] = "program" /\ ~IsFolder(g)
  /\ \A d \in DataDirs : \A g \in Paths :
       (g[1] = d /\ g # Folder(d)) => g = Backup(d) \/ g = Report(d)
  /\ \A d \in DataDirs : /\ d # "program" /\ Folder(d)[1] = d /\ IsFolder(Folder(d))
                         /\ Backup(d)[1] = d /\ Report(d)[1] = d
                         /\ ~IsFolder(Backup(d)) /\ ~IsFolder(Report(d))
  /\ Folder("program")[1] = "program" /\ IsFolder(Folder("program"))
<1>1. \A g \in Program : g[1] = "program" /\ g[2] # "folder"
  <2>1. \A g \in AsideFiles : g[1] = "program" /\ g[2] # "folder"
    BY AsideAssumption DEF AsideFiles
  <2> QED
    BY <2>1 DEF Program, Exe
<1>2. ASSUME NEW d \in DataDirs
      PROVE  /\ d # "program" /\ Folder(d)[1] = d /\ IsFolder(Folder(d))
             /\ Backup(d)[1] = d /\ Report(d)[1] = d
             /\ ~IsFolder(Backup(d)) /\ ~IsFolder(Report(d))
  BY DEF DataDirs, Folder, Backup, Report, IsFolder
<1>3. Copy[1] = "download"
  BY DEF Copy
<1>4. ASSUME NEW g \in DataDirs \X {"folder", "backup", "report"}
      PROVE  /\ g[1] \in DataDirs
             /\ g \in {Folder(g[1]), Backup(g[1]), Report(g[1])}
  BY DEF Folder, Backup, Report
<1>5. Folder("program")[1] = "program" /\ IsFolder(Folder("program"))
  BY DEF Folder, IsFolder
<1>6. ASSUME NEW g \in Paths
      PROVE  g \in Program \/ g = Copy \/ g = Folder("program")
               \/ g \in DataDirs \X {"folder", "backup", "report"}
  BY DEF Paths
<1>7. "download" \notin DataDirs /\ "download" # "program"
  BY DEF DataDirs
<1>8. \A g \in Paths : (g[1] = "program" /\ g # Folder("program")) => g \in Program
  BY <1>2, <1>3, <1>4, <1>6, <1>7
<1>9. ASSUME NEW d \in DataDirs, NEW g \in Paths, g[1] = d, g # Folder(d)
      PROVE  g = Backup(d) \/ g = Report(d)
  BY <1>1, <1>2, <1>3, <1>4, <1>5, <1>6, <1>7, <1>9
<1> QED
  BY <1>1, <1>2, <1>5, <1>8, <1>9 DEF IsFolder

LEMMA GrowsAtEnd ==
  ASSUME pending \in Seq(Paths), NEW s \in Seq(Paths),
         pending' = pending \/ pending' = pending \o s \/ (\E f \in Paths : pending' = Append(pending, f))
  PROVE  \A k \in DOMAIN pending : k \in DOMAIN pending' /\ pending'[k] = pending[k]
<1>1. CASE pending' = pending
  BY <1>1
<1>2. CASE pending' = pending \o s
  <2>1. Len(pending) \in Nat /\ Len(s) \in Nat /\ DOMAIN pending = 1 .. Len(pending)
    OBVIOUS
  <2>2. DOMAIN pending' = 1 .. (Len(pending) + Len(s))
    BY <1>2
  <2>3. \A k \in 1 .. Len(pending) : pending'[k] = pending[k]
    BY <1>2
  <2> QED
    BY <2>1, <2>2, <2>3
<1>3. CASE \E f \in Paths : pending' = Append(pending, f)
  <2>1. PICK f \in Paths : pending' = Append(pending, f)
    BY <1>3
  <2>2. Len(pending) \in Nat /\ DOMAIN pending = 1 .. Len(pending)
    OBVIOUS
  <2>3. DOMAIN pending' = 1 .. (Len(pending) + 1)
    BY <2>1
  <2>4. \A k \in 1 .. Len(pending) : pending'[k] = pending[k]
    BY <2>1
  <2> QED
    BY <2>2, <2>3, <2>4
<1> QED
  BY <1>1, <1>2, <1>3

\* A list that grows at its end keeps the order of what is on it.
LEMMA InTurnKept ==
  ASSUME pending \in Seq(Paths), NEW c, NEW s \in Seq(Paths),
         pending' = pending \/ pending' = pending \o s \/ (\E f \in Paths : pending' = Append(pending, f)),
         \A g \in there' : g[1] = c[1] => g \in there,
         c \in there' => c \in there,
         InTurn(c)
  PROVE  InTurn(c)'
<1> SUFFICES ASSUME c \in there'
             PROVE  \E i \in DOMAIN pending' :
                      /\ pending'[i] = c
                      /\ \A g \in there' : (g[1] = c[1] /\ g # c)
                                             => \E j \in 1 .. (i - 1) : pending'[j] = g
  BY DEF InTurn
<1>1. PICK i \in DOMAIN pending :
        /\ pending[i] = c
        /\ \A g \in there : (g[1] = c[1] /\ g # c) => \E j \in 1 .. (i - 1) : pending[j] = g
  BY DEF InTurn
<1>2. ASSUME NEW k \in DOMAIN pending PROVE k \in DOMAIN pending' /\ pending'[k] = pending[k]
  BY GrowsAtEnd
<1>3. Len(pending) \in Nat /\ DOMAIN pending = 1 .. Len(pending)
  OBVIOUS
<1>4. \A j \in 1 .. (i - 1) : j \in DOMAIN pending
  BY <1>1, <1>3
<1>5. c \in there
  OBVIOUS
<1>6. i \in DOMAIN pending' /\ pending'[i] = c
  BY <1>1, <1>2
<1>7. ASSUME NEW g \in there', g[1] = c[1], g # c
      PROVE  \E j \in 1 .. (i - 1) : pending'[j] = g
  <2>1. PICK j \in 1 .. (i - 1) : pending[j] = g
    BY <1>1, <1>7
  <2>2. pending'[j] = g
    BY <1>2, <1>4, <2>1
  <2> QED
    BY <2>1, <2>2
<1> QED
  BY <1>6, <1>7

LEMMA QueuedKept ==
  ASSUME pending \in Seq(Paths), NEW s \in Seq(Paths),
         pending' = pending \/ pending' = pending \o s \/ (\E f \in Paths : pending' = Append(pending, f))
  PROVE  Queued \subseteq Queued'
  BY GrowsAtEnd DEF Queued

\* Windows takes the head of the list, and a folder whose turn it is is empty.
LEMMA BootTakes ==
  ASSUME TypeOK, BootDelete, NEW c, IsFolder(c), c[1] \in DataDirs => wish[c[1]] = Default,
         \A g \in there : (g[1] = c[1] /\ g # c) => ~IsFolder(g),
         InTurn(c)
  PROVE  InTurn(c)'
<1>t. pending \in Seq(Paths) /\ pending # <<>> /\ pending' = Tail(pending)
  BY DEF TypeOK, BootDelete
<1> SUFFICES ASSUME c \in there'
             PROVE  \E i \in DOMAIN pending' :
                      /\ pending'[i] = c
                      /\ \A g \in there' : (g[1] = c[1] /\ g # c)
                                             => \E j \in 1 .. (i - 1) : pending'[j] = g
  BY DEF InTurn
<1>1. there' = IF IsFolder(Head(pending)) /\ ~Empty(Head(pending)) THEN there
               ELSE there \ {Head(pending)}
  BY DEF BootDelete
<1>2. PICK i \in DOMAIN pending :
        /\ pending[i] = c
        /\ \A g \in there : (g[1] = c[1] /\ g # c) => \E j \in 1 .. (i - 1) : pending[j] = g
  BY <1>1 DEF InTurn
<1>3. Len(pending) \in Nat /\ DOMAIN pending = 1 .. Len(pending) /\ Head(pending) = pending[1]
  BY <1>t
<1>4. DOMAIN pending' = 1 .. (Len(pending) - 1)
      /\ \A n \in 1 .. (Len(pending) - 1) : pending'[n] = pending[n + 1]
  BY <1>t
<1>5. i # 1
  <2> SUFFICES ASSUME i = 1 PROVE FALSE
    OBVIOUS
  <2>1. \A g \in there : g[1] = c[1] => g = c
    BY <1>2
  <2>2. Head(pending) = c /\ Empty(c)
    BY <1>2, <1>3, <2>1 DEF Empty
  <2> QED
    BY <1>1, <2>2
<1>6. i - 1 \in DOMAIN pending' /\ pending'[i - 1] = c
  BY <1>2, <1>3, <1>4, <1>5
<1>7. ASSUME NEW g \in there', g[1] = c[1], g # c
      PROVE  \E j \in 1 .. ((i - 1) - 1) : pending'[j] = g
  <2>1. g \in there /\ ~IsFolder(g)
    BY <1>1, <1>7
  <2>2. PICK j \in 1 .. (i - 1) : pending[j] = g
    BY <1>2, <1>7, <2>1
  <2>3. j # 1
    BY <1>1, <1>3, <1>7, <2>1, <2>2
  <2>4. j - 1 \in 1 .. ((i - 1) - 1) /\ pending'[j - 1] = pending[j]
    BY <1>2, <1>3, <1>4, <2>2, <2>3
  <2> QED
    BY <2>2, <2>4
<1> QED
  BY <1>6, <1>7

\* What is no verb's step and not the boot's leaves the list and the program's
\* files, and without a service the rest.
LEMMA OthersLeave ==
  ASSUME TypeOK, OnlyRegisteredRuns, Others, ~BootDelete
  PROVE  /\ pending' = pending
         /\ \A g : g[1] = "program" => (g \in there' <=> g \in there)
         /\ ~Registered => there' = there /\ wish' = wish
<1>t. svc.home \in DataDirs /\ Home(reg.exe) \in DataDirs
  BY HomeType DEF TypeOK
<1>1. \A d \in DataDirs : Backup(d)[1] # "program" /\ Folder(d)[1] # "program"
  BY Contents
<1>2. ~Registered => ~Up /\ svc.state = "stopped" /\ svc.pass = "none"
  BY DEF OnlyRegisteredRuns, Up
<1>3. CASE SvcStart
  <2>1. there' = there \/ there' = there \ {Backup(Home(reg.exe))}
    BY <1>3 DEF SvcStart, Started, Reverted
  <2> QED
    BY <1>t, <1>1, <1>3, <2>1 DEF SvcStart, Startable
<1>4. CASE Enable
  BY <1>4 DEF Enable, disk, dns
<1>5. CASE BackUp
  <2>1. there' = there \/ there' = there \cup {Folder(svc.home), Backup(svc.home)}
    BY <1>5 DEF BackUp
  <2> QED
    BY <1>t, <1>1, <1>2, <1>5, <2>1 DEF BackUp, disk
<1>6. CASE WriteAdapters
  BY <1>2, <1>6 DEF WriteAdapters, disk
<1>7. CASE OnStop \/ Kill
  BY <1>7 DEF OnStop, Kill, dns
<1>8. CASE Disable
  <2>1. there' = there \/ there' = there \ {Backup(svc.home)}
    BY <1>8 DEF Disable, Reverted
  <2> QED
    BY <1>t, <1>1, <1>2, <1>8, <2>1 DEF Disable
<1>9. CASE SetAutostart
  BY <1>2, <1>9 DEF SetAutostart, disk
<1>10. CASE \E w \in Windows : OpenWindow(w) \/ CloseWindow(w)
  BY <1>10 DEF OpenWindow, CloseWindow, dns
<1>11. CASE BootDone \/ UNCHANGED vars
  BY <1>11 DEF BootDone, vars, disk, dns
<1> QED
  BY <1>3, <1>4, <1>5, <1>6, <1>7, <1>8, <1>9, <1>10, <1>11 DEF Others, Service

\* The steps before a removal works off the program's files.
LEMMA BeforeRemoval ==
  ASSUME TypeOK, VerbSteps, Verb,
         ~(RemoveData \/ RemoveFile \/ RemoveFolder \/ SaveReport \/ Schedule)
  PROVE  /\ job'.pc \notin {"files", "schedule"} /\ last' = last
         /\ job'.pc = "report" => job'.verb # "remove"
<1>t. JobType
  BY TypeParts
<1>1. CASE Halt \/ Wait
  <2>b. hurried \in BOOLEAN
    BY TypeParts DEF HistoryType
  <2>1. PICK pc \in Onward : Goto(pc) \/ Warn(pc)
    BY <1>1, <2>b, HaltDoes
  <2>2. job'.pc = pc /\ job'.verb = job.verb /\ last' = last
    BY <1>t, <1>1, <2>b, <2>1, HaltDoes, GotoKeeps
  <2> QED
    BY <2>2 DEF AfterStop, Onward
<1>2. CASE MoveAside \/ CopyFile
  <2>1. job'.pc \in {"copy", "shell", "clean"} /\ last' = last
    <3>1. CASE \E f \in AsidePath : job' = [job EXCEPT !.pc = "copy", !.aside = f]
      BY <1>2, <1>t, <3>1 DEF JobType, MoveAside, CopyFile
    <3>2. CASE job' = [job EXCEPT !.pc = "clean", !.placed = Exe]
      BY <1>2, <1>t, <3>2 DEF JobType, MoveAside, CopyFile
    <3>3. CASE \E pc \in {"copy", "shell"} : Goto(pc) \/ Warn(pc) \/ Miss(pc)
      BY <1>2, <1>t, <3>3, GotoKeeps DEF MoveAside, CopyFile
    <3> QED
      BY <1>2, <3>1, <3>2, <3>3 DEF MoveAside, CopyFile
  <2> QED
    BY <2>1
<1>3. CASE Clean \/ Shell
  <2>1. \E pc \in {"shell", "register"} : Goto(pc)
    BY <1>3 DEF Clean, Shell
  <2> QED
    BY <1>t, <1>3, <2>1, GotoKeeps DEF Clean, Shell, history
<1>4. CASE Register \/ StartService
  <2>1. \E pc \in {"start", "failed", "report"} : Goto(pc)
    BY <1>4 DEF Register, StartService
  <2>2. job.verb # "remove" /\ last' = last
    BY <1>4 DEF Register, StartService, VerbSteps, history, Removals
  <2> QED
    BY <1>t, <2>1, <2>2, GotoKeeps
<1>5. CASE DeleteService
  <2>1. (Goto("restore") \/ Warn("restore")) /\ last' = last
    BY <1>5 DEF DeleteService
  <2>2. job'.pc = "restore"
    BY <1>t, <2>1, GotoKeeps
  <2> QED
    BY <2>1, <2>2
<1>6. CASE RestoreBackup \/ Forget
  <2>1. PICK pc \in {"forget", AfterUninstall} : Goto(pc) \/ Warn(pc) \/ Miss(pc)
    BY <1>6 DEF RestoreBackup, Forget
  <2>2. job'.pc = pc /\ job'.verb = job.verb /\ last' = last
    BY <1>t, <1>6, <2>1, GotoKeeps DEF RestoreBackup, Forget, history
  <2> QED
    BY <2>1, <2>2 DEF AfterUninstall
<1> QED
  BY <1>1, <1>2, <1>3, <1>4, <1>5, <1>6 DEF Verb

LEMMA ProgramGoesKept ==
  ASSUME TypeOK, NEW s \in Seq(Paths),
         pending' = pending \/ pending' = pending \o s,
         \A g : g[1] = "program" => (g \in there' => g \in there),
         ProgramGoes
  PROVE  ProgramGoes'
<1>t. pending \in Seq(Paths)
  BY DEF TypeOK
<1>1. Queued \subseteq Queued'
  BY <1>t, QueuedKept
<1>2. \A g \in Program : g \in there' => g \in there
  BY Contents
<1>3. InTurn(Folder("program"))'
  <2>1. Folder("program")[1] = "program"
    BY Contents
  <2>2. /\ \A g \in there' : g[1] = Folder("program")[1] => g \in there
        /\ Folder("program") \in there' => Folder("program") \in there
        /\ InTurn(Folder("program"))
    BY <2>1 DEF ProgramGoes
  <2> QED
    BY <1>t, <2>2, InTurnKept
<1> QED
  BY <1>1, <1>2, <1>3 DEF ProgramGoes

\* Each entry of the program's folder is deleted, or renamed and queued.
LEMMA FilesWorkedOff ==
  ASSUME TypeOK, Collected, RemoveFile, ~refused', ~job'.silent
  PROVE  Program \cap there' \subseteq job'.todo \cup Queued'
<1>t. JobType /\ DiskType /\ pending \in Seq(Paths) /\ <<>> \in Seq(Paths)
  BY TypeParts DEF DiskType
<1>s. PICK f \in job.todo, lost \in BOOLEAN : RemovesEntry(f, lost)
  BY RemoveFileTakes
<1>l. ~lost /\ ~job.silent
  BY <1>t, <1>s DEF RemovesEntry, JobType
<1>r. ~refused /\ job.pc = "files"
  BY <1>s DEF RemoveFile, RemovesEntry
<1>0. /\ job' = [job EXCEPT !.todo = @ \ {f}, !.silent = @ \/ lost]
      /\ \/ /\ there' = there \ {f} /\ pending' = pending
         \/ \E g \in AsidePath : Rename(f, g) /\ pending' = Append(pending, g)
         \/ there' = there /\ pending' = Append(pending, f)
         \/ /\ f \notin there /\ pending' = Append(pending, f)
            /\ there' = there \ AsidePath
  BY <1>s, <1>l DEF RemovesEntry, Queue
<1>1. job'.todo = job.todo \ {f} /\ f \in Paths
  BY <1>t, <1>0, Files DEF JobType
<1>2. Program \cap there \subseteq job.todo \cup Queued
  BY <1>r, <1>l DEF Collected
<1>3. Queued \subseteq Queued'
  <2>1. AsidePath \subseteq Paths
    BY AsidePathType, Files
  <2>2. pending' = pending \/ \E g \in Paths : pending' = Append(pending, g)
    BY <1>0, <1>1, <2>1
  <2> QED
    BY <1>t, <2>2, QueuedKept
<1>4. CASE there' = there \ {f} /\ pending' = pending
  BY <1>1, <1>2, <1>3, <1>4
<1>5. CASE \E g \in AsidePath : Rename(f, g) /\ pending' = Append(pending, g)
  <2>1. PICK g : Rename(f, g) /\ pending' = Append(pending, g)
    BY <1>5
  <2>2. there' = (there \ {f}) \cup {g} /\ Queued' = Queued \cup {g}
    BY <1>t, <2>1, QueueAppend DEF Rename
  <2> QED
    BY <1>1, <1>2, <2>2
<1>6. CASE there' \subseteq there /\ pending' = Append(pending, f)
  <2>1. Queued' = Queued \cup {f}
    BY <1>t, <1>6, QueueAppend
  <2> QED
    BY <1>1, <1>2, <1>6, <2>1
<1> QED
  BY <1>0, <1>4, <1>5, <1>6

\* The program's folder goes now, or is queued behind what is still in it.
LEMMA FolderLast ==
  ASSUME TypeOK, Collected, RemoveFolder, ~refused, ~job'.silent PROVE ProgramGoes'
<1>t. pending \in Seq(Paths) /\ there \subseteq Paths
  BY DEF TypeOK
<1>g. Goto("report") /\ ~job.silent
  <2>1. JobType
    BY TypeParts
  <2>2. ~Miss("report")
    BY <2>1, GotoKeeps
  <2>3. Goto("report")
    BY <2>2 DEF RemoveFolder
  <2> QED
    BY <2>1, <2>3, GotoKeeps
<1>1. Program \cap there \subseteq Queued
  BY <1>g DEF RemoveFolder, Collected
<1>2. CASE there \cap Program = {}
  <2>1. there' = there \ {Folder("program")} /\ pending' = pending
    BY <1>2 DEF RemoveFolder
  <2>2. Program \cap there' \subseteq Queued' /\ Folder("program") \notin there'
    BY <1>2, <2>1
  <2> QED
    BY <2>2 DEF ProgramGoes, InTurn
<1>3. CASE there \cap Program # {}
  <2>0. ~Miss("report")
    BY TypeParts, GotoKeeps
  <2>1. there' = there /\ pending' = Append(pending, Folder("program"))
    BY <1>3, <2>0 DEF RemoveFolder, Queue
  <2>2. Queued' = Queued \cup {Folder("program")}
    BY <1>t, <2>1, QueueAppend
  <2>3. Len(pending) \in Nat /\ DOMAIN pending = 1 .. Len(pending)
    BY <1>t
  <2>4. /\ Len(pending) + 1 \in DOMAIN pending' /\ pending'[Len(pending) + 1] = Folder("program")
        /\ \A k \in 1 .. Len(pending) : pending'[k] = pending[k]
    BY <1>t, <2>1
  <2>5. ASSUME NEW g \in there', g[1] = Folder("program")[1], g # Folder("program")
        PROVE  \E j \in 1 .. ((Len(pending) + 1) - 1) : pending'[j] = g
    <3>1. g \in Program \cap there
      BY <1>t, <2>1, <2>5, Contents
    <3>2. PICK j \in DOMAIN pending : pending[j] = g
      BY <1>1, <3>1 DEF Queued
    <3> QED
      BY <2>3, <2>4, <3>2
  <2>6. InTurn(Folder("program"))'
    BY <2>4, <2>5 DEF InTurn
  <2> QED
    BY <1>1, <2>1, <2>2, <2>6 DEF ProgramGoes
<1> QED
  BY <1>2, <1>3

\* A removal that no call failed queues its report and its folder.
LEMMA SchedulesBoth ==
  ASSUME TypeOK, Schedule, Backup(Home(job.from)) \notin there, ~last'.silent
  PROVE  /\ pending' = pending \o <<Report(Home(job.from)), Folder(Home(job.from))>>
         /\ ~job.silent
<1> DEFINE both == <<Report(Home(job.from)), Folder(Home(job.from))>>
<1>t. JobType
  BY TypeParts
<1>1. PICK q : pending' = pending \o q /\ Ends(TRUE, job.silent \/ q # both)
  BY DEF Schedule
<1>2. last'.silent = (job.silent \/ q # both)
  BY <1>1 DEF Ends
<1> QED
  BY <1>1, <1>2

\* ... and so is the data folder, behind the report.
LEMMA DataFolderLast ==
  ASSUME TypeOK, Schedule, NEW d \in DataDirs, d = Home(job.from), Backup(d) \notin there,
         ~last'.silent
  PROVE  InTurn(Folder(d))'
<1>t. pending \in Seq(Paths) /\ there \subseteq Paths
  BY DEF TypeOK
<1>1. pending' = pending \o <<Report(d), Folder(d)>> /\ there' = there
  BY SchedulesBoth DEF Schedule
<1>2. Len(pending) \in Nat
  BY <1>t
<1>3. /\ Len(pending) + 2 \in DOMAIN pending'
      /\ pending'[Len(pending) + 2] = Folder(d) /\ pending'[Len(pending) + 1] = Report(d)
  BY <1>t, <1>1
<1>4. ASSUME NEW g \in there', g[1] = Folder(d)[1], g # Folder(d)
      PROVE  \E j \in 1 .. ((Len(pending) + 2) - 1) : pending'[j] = g
  <2>1. g = Report(d)
    BY <1>t, <1>1, <1>4, Contents
  <2>2. Len(pending) + 1 \in 1 .. ((Len(pending) + 2) - 1)
    BY <1>2
  <2> QED
    BY <1>3, <2>1, <2>2
<1>5. \E i \in DOMAIN pending' :
        /\ pending'[i] = Folder(d)
        /\ \A g \in there' : (g[1] = Folder(d)[1] /\ g # Folder(d))
                               => \E j \in 1 .. (i - 1) : pending'[j] = g
  BY <1>3, <1>4
<1> QED
  BY <1>5 DEF InTurn

\* What a removal keeps while it is under way.
LEMMA RemovalStep ==
  ASSUME DiskInv, DnsInv, RemovalInv, [Next]_vars, DiskInv'
  PROVE  RemovalInv'
<1>t. /\ TypeOK /\ JobType /\ DiskType /\ DnsType /\ HistoryType /\ VerbSteps /\ AtRest /\ BootAlone
      /\ OnlyRegisteredRuns /\ Alone /\ Undone /\ StaysUndone
      /\ Collected /\ Emptied /\ Unset /\ LeftToBoot
  BY TypeParts DEF DiskInv, DnsInv, RemovalInv
<1>i. Idle.pc = "idle" /\ Idle.verb = "none" /\ NoVerb.verb = "none"
  BY DEF Idle, NoVerb
<1>s. (refused => refused') /\ (hurried => hurried')
  BY <1>t, RefusedStays, HurriedStays DEF HistoryType
<1>e. <<>> \in Seq(Paths) /\ pending \o <<>> = pending
  BY DEF DiskType
<1>1. CASE Others /\ ~BootDelete
  <2>1. UNCHANGED <<job, last, refused, hurried>> /\ pending' = pending
        /\ (\A g : g[1] = "program" => (g \in there' <=> g \in there))
        /\ (~Registered => there' = there /\ wish' = wish)
    BY <1>1, <1>t, OthersKeep, OthersLeave
  <2>2. Queued' = Queued
    BY <2>1 DEF Queued
  <2>3. Program \cap there' = Program \cap there
    BY <2>1, Contents
  <2>4. ProgramGoes => ProgramGoes'
    BY <1>t, <1>e, <2>1, ProgramGoesKept
  <2>5. Collected' /\ Emptied'
    BY <1>t, <2>1, <2>2, <2>3, <2>4 DEF Collected, Emptied
  <2>6. Unset'
    BY <1>t, <2>1 DEF Unset, Alone, Late, Removals
  <2>7. LeftToBoot'
    <3> SUFFICES ASSUME last.verb = "remove", ~last.warned, ~last.silent, ~refused, ~hurried
                 PROVE  ProgramGoes' /\ InTurn(Folder(last.home))' /\ wish'[last.home] = Default
      BY <2>1 DEF LeftToBoot
    <3>1. ~Registered
      BY <1>t DEF StaysUndone, GivenBack, Removals
    <3>2. ProgramGoes /\ InTurn(Folder(last.home)) /\ wish[last.home] = Default
      BY <1>t DEF LeftToBoot
    <3>3. InTurn(Folder(last.home))'
      BY <2>1, <3>1, <3>2 DEF InTurn
    <3> QED
      BY <2>1, <2>4, <3>1, <3>2, <3>3
  <2> QED
    BY <2>5, <2>6, <2>7 DEF RemovalInv
<1>2. CASE BootDelete
  <2>1. job = Idle /\ job' = job /\ last' = last /\ refused' = refused /\ hurried' = hurried
        /\ wish' = wish
    BY <1>2, <1>t DEF BootDelete, AtRest, BootAlone, history, dns
  <2>2. Collected' /\ Emptied' /\ Unset'
    BY <1>i, <2>1 DEF Collected, Emptied, Unset
  <2>3. ASSUME last.verb = "remove", ~last.warned, ~last.silent, ~refused, ~hurried
        PROVE  ProgramGoes' /\ InTurn(Folder(last.home))' /\ wish'[last.home] = Default
    <3>1. ProgramGoes /\ InTurn(Folder(last.home)) /\ wish[last.home] = Default
      BY <1>t, <2>3 DEF LeftToBoot
    <3>2. InTurn(Folder("program"))'
      <4>1. "program" \notin DataDirs
        BY DEF DataDirs
      <4>2. \A g \in there : (g[1] = Folder("program")[1] /\ g # Folder("program")) => ~IsFolder(g)
        BY <1>t, Contents DEF DiskType
      <4> QED
        BY <1>2, <1>t, <3>1, <4>1, <4>2, BootTakes, Contents DEF ProgramGoes
    <3>3. PICK d \in DataDirs : d = last.home
      BY <1>t DEF HistoryType
    <3>4. InTurn(Folder(d))'
      <4>1. \A g \in there : (g[1] = Folder(d)[1] /\ g # Folder(d)) => ~IsFolder(g)
        BY <1>t, <3>3, Contents DEF DiskType
      <4>2. IsFolder(Folder(d)) /\ wish[Folder(d)[1]] = Default /\ InTurn(Folder(d))
        BY <3>1, <3>3, Contents
      <4> QED
        BY <1>2, <1>t, <4>1, <4>2, BootTakes
    <3>5. InTurn(Folder(last.home))'
      BY <2>1, <3>3, <3>4
    <3>6. Program \cap there' \subseteq Queued'
      <4>1. pending \in Seq(Paths) /\ pending # <<>> /\ pending' = Tail(pending)
        BY <1>2, <1>t DEF BootDelete, DiskType
      <4>2. /\ DOMAIN pending' = 1 .. (Len(pending) - 1) /\ DOMAIN pending = 1 .. Len(pending)
            /\ Len(pending) \in Nat /\ Head(pending) = pending[1]
            /\ \A n \in 1 .. (Len(pending) - 1) : pending'[n] = pending[n + 1]
        BY <4>1
      <4>3. ASSUME NEW f \in Program \cap there' PROVE f \in Queued'
        <5>1. f \in there /\ ~IsFolder(f) /\ f # Head(pending)
          BY <1>2, Contents DEF BootDelete
        <5>2. PICK j \in DOMAIN pending : pending[j] = f
          BY <3>1, <5>1 DEF ProgramGoes, Queued
        <5>3. j # 1 /\ j - 1 \in DOMAIN pending' /\ pending'[j - 1] = f
          BY <4>2, <5>1, <5>2
        <5> QED
          BY <5>3 DEF Queued
      <4> QED
        BY <4>3
    <3> QED
      BY <2>1, <3>1, <3>2, <3>5, <3>6 DEF ProgramGoes
  <2> QED
    BY <2>1, <2>2, <2>3 DEF RemovalInv, LeftToBoot
<1>3. CASE Begin \/ VerbDies \/ Reboot
  <2>1. job'.pc \notin {"files", "report", "schedule"}
    <3>1. CASE Begin
      <4>0. PICK verb \in Verbs, from \in {Exe, Copy} \cap there :
              job' = [Idle EXCEPT !.verb = verb, !.pc = FirstStep(verb, from),
                              !.from = from, !.placed = from, !.had = Exe \in there]
        BY <3>1 DEF Begin
      <4>1. job'.pc = FirstStep(verb, from)
        BY <4>0 DEF Idle
      <4> QED
        BY <4>1 DEF FirstStep
    <3>2. CASE VerbDies \/ Reboot
      BY <1>i, <1>t, <3>2, EndsIdle DEF VerbDies, Reboot
    <3> QED
      BY <1>3, <3>1, <3>2
  <2>2. Collected' /\ Emptied' /\ Unset'
    BY <2>1 DEF Collected, Emptied, Unset
  <2>3. CASE Begin \/ VerbDies
    <3>1. last' = NoVerb
      BY <1>t, <2>3, EndsIdle DEF Begin, VerbDies
    <3> QED
      BY <1>i, <2>2, <3>1 DEF RemovalInv, LeftToBoot
  <2>4. CASE Reboot
    <3>1. UNCHANGED <<there, pending, wish, last, refused, hurried>>
      BY <2>4 DEF Reboot, dns, history
    <3>2. LeftToBoot'
      BY <1>t, <3>1 DEF LeftToBoot, ProgramGoes, InTurn, Queued
    <3> QED
      BY <2>2, <3>2 DEF RemovalInv
  <2> QED
    BY <1>3, <2>3, <2>4
<1>4. CASE Verb /\ ~(RemoveData \/ RemoveFile \/ RemoveFolder \/ SaveReport \/ Schedule)
  <2>1. /\ job'.pc \notin {"files", "schedule"} /\ last' = last
        /\ job'.pc = "report" => job'.verb # "remove"
    BY <1>4, <1>t, BeforeRemoval
  <2>2. last'.verb = "none"
    <3>1. job.pc # "idle"
      BY <1>4 DEF Verb, Halt, Wait, MoveAside, CopyFile, Clean, Shell, Register, StartService,
         DeleteService, RestoreBackup, Forget
    <3> QED
      BY <1>t, <2>1, <3>1 DEF VerbSteps
  <2> QED
    BY <2>1, <2>2 DEF RemovalInv, Collected, Emptied, Unset, LeftToBoot
<1>5. CASE RemoveData
  <2>0. PICK kept \in BOOLEAN, unread \in BOOLEAN :
          /\ wish' = IF Backup(Home(job.from)) \in there \/ kept THEN wish
                     ELSE [wish EXCEPT ![Home(job.from)] = Default]
          /\ job' = [job EXCEPT !.pc = "files", !.silent = @ \/ kept \/ unread,
                                !.todo = IF unread THEN {} ELSE Program \cap there]
    BY <1>5 DEF RemoveData
  <2>4. ~job'.silent => ~kept /\ job'.todo = Program \cap there
    BY <1>t, <2>0 DEF JobType
  <2>5. ~job'.silent => ~job.silent
    BY <1>t, <2>0 DEF JobType
  <2>1. /\ job.pc = "data" /\ job'.pc = "files" /\ job'.verb = job.verb /\ job'.from = job.from
        /\ job'.warned = job.warned
        /\ there' = there /\ last' = last /\ hurried' = hurried
    BY <1>5, <1>t, <2>0 DEF RemoveData, JobType, disk, history
  <2>2. last'.verb = "none" /\ job.verb \in Removals
    BY <1>t, <2>1 DEF VerbSteps
  <2>3. Unset'
    <3> SUFFICES ASSUME ~job.warned, ~hurried, ~job'.silent PROVE wish'[Home(job.from)] = Default
      BY <2>1 DEF Unset
    <3>1. Backup(Home(job.from)) \notin there
      BY <1>t, <2>1, <2>2, <2>5 DEF Undone, Clear, GivenBack
    <3>2. wish' = [wish EXCEPT ![Home(job.from)] = Default]
      BY <2>0, <2>4, <3>1
    <3> QED
      BY <1>t, <3>2, HomeType DEF DnsType
  <2> QED
    BY <2>1, <2>2, <2>3, <2>4 DEF RemovalInv, Collected, Emptied, LeftToBoot
<1>6. CASE RemoveFile
  <2>1. /\ job.pc = "files" /\ job'.pc = "files" /\ job'.verb = job.verb /\ job'.from = job.from
        /\ job'.warned = job.warned /\ wish' = wish /\ last' = last /\ hurried' = hurried
        /\ ~job'.silent => ~job.silent
    <3>1. PICK f \in job.todo, lost \in BOOLEAN : RemovesEntry(f, lost)
      BY <1>6, RemoveFileTakes
    <3>2. job.pc = "files" /\ wish' = wish /\ last' = last /\ hurried' = hurried
      BY <1>6 DEF RemoveFile, dns
    <3> QED
      BY <1>t, <3>1, <3>2 DEF RemovesEntry, JobType
  <2>2. last'.verb = "none"
    BY <1>t, <2>1 DEF VerbSteps
  <2>3. Collected'
    BY <1>6, <1>t, FilesWorkedOff DEF Collected
  <2> QED
    BY <1>t, <2>1, <2>2, <2>3 DEF RemovalInv, Emptied, Unset, LeftToBoot
<1>7. CASE RemoveFolder
  <2>1. /\ Goto("report") \/ Miss("report")
        /\ job.pc = "files" /\ wish' = wish /\ last' = last /\ hurried' = hurried
    BY <1>7 DEF RemoveFolder, dns, history
  <2>2. job'.pc = "report" /\ job'.verb = job.verb /\ job'.from = job.from
        /\ job'.warned = job.warned /\ (job.silent => job'.silent)
    BY <1>t, <2>1, GotoKeeps
  <2>3. last'.verb = "none"
    BY <1>t, <2>1 DEF VerbSteps
  <2>4. Emptied'
    <3>1. (~refused /\ ~job'.silent) => ProgramGoes'
      BY <1>7, <1>t, FolderLast
    <3> QED
      BY <1>s, <3>1 DEF Emptied
  <2> QED
    BY <1>t, <2>1, <2>2, <2>3, <2>4 DEF RemovalInv, Collected, Unset, LeftToBoot
<1>8. CASE SaveReport
  <2>0. job.pc \in {"report", "failed"} /\ refused' = refused /\ hurried' = hurried /\ wish' = wish
        /\ pending' = pending
    BY <1>8 DEF SaveReport, dns
  <2>1. CASE job.pc = "report" /\ job.verb = "remove"
    <3>1. Goto("schedule") /\ last' = last
      BY <1>8, <2>1 DEF SaveReport
    <3>2. job'.pc = "schedule" /\ job'.verb = job.verb /\ job'.from = job.from
          /\ job'.warned = job.warned /\ job'.silent = job.silent
      BY <1>t, <3>1, GotoKeeps
    <3>3. last'.verb = "none"
      BY <1>t, <2>1, <3>1 DEF VerbSteps
    <3>4. \A g : g[1] = "program" => (g \in there' => g \in there)
      <4>1. there' \in {there, there \cup {Folder(Home(job.from)), Report(Home(job.from))}}
        BY <1>8 DEF SaveReport
      <4> QED
        BY <4>1, HomeType, Contents
    <3>5. Emptied'
      BY <1>t, <1>e, <2>0, <2>1, <3>2, <3>4, ProgramGoesKept DEF Emptied
    <3> QED
      BY <1>t, <2>0, <2>1, <3>2, <3>3, <3>5 DEF RemovalInv, Collected, Unset, LeftToBoot
  <2>2. CASE ~(job.pc = "report" /\ job.verb = "remove")
    <3>1. Ends(job.pc = "report", job.silent)
      BY <1>8, <2>2 DEF SaveReport
    <3>2. job' = Idle /\ last'.verb # "remove"
      BY <1>i, <1>t, <2>2, <3>1, EndsIdle
    <3> QED
      BY <1>i, <3>2 DEF RemovalInv, Collected, Emptied, Unset, LeftToBoot
  <2> QED
    BY <2>1, <2>2
<1>9. CASE Schedule
  <2>1. /\ job.pc = "schedule" /\ there' = there /\ wish' = wish
        /\ refused' = refused /\ hurried' = hurried
    BY <1>9 DEF Schedule, dns
  <2>2. job' = Idle /\ last'.verb = job.verb /\ last'.warned = job.warned
        /\ last'.home = Home(job.from) /\ (job.silent => last'.silent)
    <3>1. PICK silent : Ends(TRUE, silent) /\ (job.silent => silent)
      BY <1>9 DEF Schedule
    <3> QED
      BY <1>t, <3>1, EndsIdle
  <2>3. ASSUME job.verb = "remove", ~job.warned, ~last'.silent, ~refused, ~hurried
        PROVE  ProgramGoes' /\ InTurn(Folder(last.home))' /\ wish'[last'.home] = Default
    <3>1. PICK d \in DataDirs : d = Home(job.from)
      BY HomeType
    <3>0. ~job.silent
      BY <2>2, <2>3
    <3>2. Backup(d) \notin there
      BY <1>t, <2>1, <2>3, <3>0, <3>1 DEF Undone, Clear, GivenBack, Removals
    <3>3. InTurn(Folder(d))'
      BY <1>9, <1>t, <2>3, <3>1, <3>2, DataFolderLast
    <3>4. InTurn(Folder(last.home))'
      BY <2>2, <3>1, <3>3
    <3>5. wish'[last'.home] = Default
      BY <1>t, <2>1, <2>2, <2>3, <3>0 DEF Unset
    <3>6. ProgramGoes'
      <4>1. pending' = pending \o <<Report(d), Folder(d)>>
        BY <1>9, <1>t, <2>3, <3>1, <3>2, SchedulesBoth
      <4>2. <<Report(d), Folder(d)>> \in Seq(Paths)
        BY Files
      <4>3. ProgramGoes
        BY <1>t, <2>1, <2>3, <3>0 DEF Emptied
      <4> QED
        BY <1>t, <2>1, <4>1, <4>2, <4>3, ProgramGoesKept
    <3> QED
      BY <3>4, <3>5, <3>6
  <2> QED
    BY <1>i, <2>1, <2>2, <2>3 DEF RemovalInv, Collected, Emptied, Unset, LeftToBoot
<1> QED
  BY <1>1, <1>2, <1>3, <1>4, <1>5, <1>6, <1>7, <1>8, <1>9, NextParts DEF Others

\* After a removal without a warning, and without a call that failed unnoticed,
\* the boot that follows leaves nothing of the program and not the data folder
\* the removing copy looks in: whatever windows ran, whatever was on the list
\* before, and wherever the removal was run from (remove_program_files,
\* schedule_data_dir_removal). The folder of the other copies it does not touch.
THEOREM RemovalLeavesNothing == Spec => RemovalIsComplete
<1>1. Init => RemovalInv
  <2>1. Idle.pc = "idle" /\ Idle.verb = "none" /\ NoVerb.verb = "none"
    BY DEF Idle, NoVerb
  <2> QED
    BY <2>1 DEF Init, RemovalInv, Collected, Emptied, Unset, LeftToBoot
<1>2. DiskInv /\ DnsInv /\ RemovalInv /\ [Next]_vars => RemovalInv'
  BY DiskStep, RemovalStep
<1>3. ASSUME RemovalInv, BootDone, last.verb = "remove", ~last.warned, ~last.silent,
             ~refused, ~hurried
      PROVE  there \cap (Program \cup {Folder("program"), Folder(last.home)}) = {}
  <2>1. pending = <<>> /\ ProgramGoes /\ InTurn(Folder(last.home))
    BY <1>3 DEF BootDone, RemovalInv, LeftToBoot
  <2>2. Queued = {} /\ DOMAIN pending = {}
    BY <2>1 DEF Queued
  <2> QED
    BY <2>1, <2>2 DEF ProgramGoes, InTurn
<1>4. RemovalInv /\ [Next]_vars
      => [(BootDone /\ last.verb = "remove" /\ ~last.warned /\ ~last.silent /\ ~refused
             /\ ~hurried)
          => there \cap (Program \cup {Folder("program"), Folder(last.home)}) = {}]_vars
  BY <1>3
<1> QED
  BY <1>1, <1>2, <1>4, DnsCorrect, PTL DEF Spec, RemovalIsComplete
=============================================================================
