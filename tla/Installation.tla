---------------------------- MODULE Installation ----------------------------
(***************************************************************************)
(* The program on a machine: its file under %ProgramFiles%, the copies     *)
(* moved aside, the service's registration and process, the data folders,  *)
(* and the verbs that change them (client/src/setup.rs, service.rs,        *)
(* main.rs). A verb is a process of its own; one runs at a time, and it    *)
(* may die, or the machine lose power, between any two of its steps.       *)
(*                                                                         *)
(* A file is its path; which file a process runs is `image`, because a     *)
(* running image can be renamed (and then goes with its new name) but not  *)
(* deleted or overwritten. What the service does to adapters is reduced to *)
(* the order of its effects - back up, write, restore - which Protection   *)
(* models in full; all adapters are one.                                   *)
(*                                                                         *)
(* Each process keeps its files where its executable tells it to           *)
(* (core/src/paths.rs): the installed copy in the shared folder, any other *)
(* copy in a folder beside itself.                                         *)
(***************************************************************************)
EXTENDS Integers, Sequences, FiniteSets

CONSTANTS
  Asides,    \* the names aside_path tries, in order
  Windows,   \* windows that may be open
  Budget     \* bound on each kind of event of Kinds

Kinds == {"verb", "window", "request", "fault", "slow", "crash", "boot"}
Procs == {"service", "verb"} \cup Windows

Exe == <<"program", "exe">>       \* install_exe
Copy == <<"download", "exe">>     \* any other copy: a download, a portable one
AsideFiles == {<<"program", Asides[n]>> : n \in DOMAIN Asides}
Program == {Exe} \cup AsideFiles
Folder(d) == <<d, "folder">>
Backup(d) == <<d, "backup">>
Report(d) == <<d, "report">>
DataDirs == {"shared", "beside"}
Paths == Program \cup {Copy, Folder("program")}
           \cup (DataDirs \X {"folder", "backup", "report"})
Nowhere == <<"nowhere", "">>

ASSUME AsideAssumption ==
  /\ Asides \in Seq(STRING)
  /\ \A m, n \in DOMAIN Asides : Asides[m] = Asides[n] => m = n
  /\ \A n \in DOMAIN Asides : Asides[n] \notin {"exe", "folder"}

\* As many names as there can be files that cannot be deleted.
ASSUME ProcsAssumption ==
  /\ IsFiniteSet(Windows) /\ "service" \notin Windows /\ "verb" \notin Windows
  /\ Cardinality(Procs) <= Len(Asides)

ASSUME BudgetAssumption == Budget \in [Kinds -> Nat]

VARIABLES
  there,     \* the files and folders that exist
  image,     \* image[p]: the file process p runs, or Nowhere
  pending,   \* what Windows deletes at the next boot, in order
  booting,   \* the machine is working through that list
  reg,       \* the service's registration
  svc,       \* its process
  wish,      \* wish[d]: the settings file of a data folder
  ours,      \* an adapter is on a setting of ours
  job,       \* the verb that runs
  last,      \* history: the verb that returned Ok, until the next begins
  refused,   \* history: Windows refused to rename a program file
  hurried,   \* history: a verb went on past a service that was still there
  left       \* what is left of Budget

disk == <<there, image, pending, booting>>
scm == <<reg, svc>>
dns == <<wish, ours>>
history == <<last, refused, hurried>>
vars == <<disk, scm, dns, job, history, left>>

\* The files of a portable copy are beside it, those of the installed one are not.
Home(exe) == IF exe \in Program THEN "shared" ELSE "beside"

Default == [enabled |-> FALSE, auto |-> TRUE]
NoReg == [exe |-> Nowhere, auto |-> FALSE, marked |-> FALSE]
Registered == reg.exe # Nowhere
\* pass: what an enable under way does next; due: the SCM will start it
Down == [state |-> "stopped", pass |-> "none", applied |-> FALSE, home |-> "shared",
         due |-> FALSE]

Verbs == {"setup", "remove", "install", "uninstall", "start", "stop", "restart"}
Steps == {"idle", "halt", "wait", "place", "copy", "clean", "shell", "register", "start",
          "delete", "restore", "forget", "data", "files", "report", "schedule", "failed"}
\* silent: something failed that the verb does not look at and no line mentions
Idle == [verb |-> "none", pc |-> "idle", from |-> Nowhere, aside |-> Nowhere,
         placed |-> Nowhere, todo |-> {}, had |-> FALSE, warned |-> FALSE, silent |-> FALSE]
NoVerb == [verb |-> "none", warned |-> FALSE, silent |-> FALSE, home |-> "shared"]

Busy(f) == \E p \in Procs : image[p] = f
Spend(k) == left[k] > 0 /\ left' = [left EXCEPT ![k] = @ - 1]
Goto(pc) == job' = [job EXCEPT !.pc = pc]
Warn(pc) == job' = [job EXCEPT !.pc = pc, !.warned = TRUE]
Miss(pc) == job' = [job EXCEPT !.pc = pc, !.silent = TRUE]

\* What a rename does to the files and to the processes that run them.
Rename(f, g) ==
  /\ there' = (there \ {f}) \cup {g}
  /\ image' = [p \in Procs |-> IF image[p] = f THEN g ELSE image[p]]

Init ==
  /\ \E installed \in BOOLEAN :
       /\ there = IF installed THEN {Copy, Exe, Folder("program")} ELSE {Copy}
       /\ reg = IF installed THEN [NoReg EXCEPT !.exe = Exe, !.auto = TRUE] ELSE NoReg
       /\ svc = [Down EXCEPT !.due = installed]
  /\ image = [p \in Procs |-> Nowhere] /\ pending = <<>> /\ booting = FALSE
  /\ wish = [d \in DataDirs |-> Default] /\ ours = FALSE
  /\ job = Idle /\ last = NoVerb
  /\ refused = FALSE /\ hurried = FALSE /\ left = Budget

-----------------------------------------------------------------------------
(* The service's process. *)

Up == svc.state # "stopped"

\* How a process that ends leaves the SCM: a service marked for deletion goes.
Ended(due) ==
  /\ svc' = [Down EXCEPT !.due = due /\ ~reg.marked]
  /\ reg' = IF reg.marked THEN NoReg ELSE reg
  /\ image' = [image EXCEPT !["service"] = Nowhere]

\* restore_from_backup, given a backup: all goes back, or something does not.
Restored == ours' = FALSE /\ UNCHANGED left
NotRestored == Spend("fault") /\ UNCHANGED ours

\* The service restores and, after a complete revert, deletes the backup; nobody
\* looks whether that worked (DnsBackup::delete).
Reverted(d) ==
  \/ Restored /\ there' = there \ {Backup(d)}
  \/ Spend("fault") /\ ours' \in {FALSE, ours} /\ UNCHANGED there

\* App::restore_on_start: enable, or finish a revert that was cut short.
Started(home) ==
  LET up == [Down EXCEPT !.state = "running", !.home = home]
  IN  /\ svc' = [up EXCEPT !.pass = IF wish[home].enabled THEN "save" ELSE "none"]
      /\ image' = [image EXCEPT !["service"] = reg.exe]
      /\ IF ~wish[home].enabled /\ Backup(home) \in there
         THEN Reverted(home)
         ELSE UNCHANGED <<ours, there, left>>

Startable == Registered /\ ~reg.marked /\ ~Up /\ reg.exe \in there /\ ~booting

\* The SCM, at boot or after a crash.
SvcStart ==
  /\ svc.due /\ Startable /\ Started(Home(reg.exe))
  /\ UNCHANGED <<pending, booting, reg, wish, job, history>>

\* A pass of the guard, or a request to enable; App::enable in three steps.
Enable ==
  /\ svc.state = "running" /\ svc.pass = "none"
  /\ \/ wish[svc.home].enabled /\ ~svc.applied /\ UNCHANGED left
     \/ Spend("request")
  /\ svc' = [svc EXCEPT !.pass = "save"]
  /\ UNCHANGED <<disk, reg, dns, job, history>>

BackUp ==
  /\ svc.pass = "save"
  /\ \/ there' = there \cup {Folder(svc.home), Backup(svc.home)}
        /\ svc' = [svc EXCEPT !.pass = "write"] /\ UNCHANGED left
     \/ Spend("fault") /\ svc' = [svc EXCEPT !.pass = "none"] /\ UNCHANGED there
  /\ UNCHANGED <<image, pending, booting, reg, dns, job, history>>

\* ... which rolls back when an adapter refuses, as far as that goes.
WriteAdapters ==
  /\ svc.pass = "write"
  /\ \/ /\ ours' = TRUE /\ wish' = [wish EXCEPT ![svc.home].enabled = TRUE]
        /\ svc' = [svc EXCEPT !.pass = "none", !.applied = TRUE] /\ UNCHANGED left
     \/ /\ Spend("fault") /\ ours' \in BOOLEAN /\ UNCHANGED wish
        /\ svc' = [svc EXCEPT !.pass = "none"]
  /\ UNCHANGED <<disk, reg, job, history>>

\* A request to disable, which forgets the backup if all went back.
Disable ==
  /\ svc.state = "running" /\ svc.pass = "none"
  /\ wish' = [wish EXCEPT ![svc.home].enabled = FALSE]
  /\ svc' = [svc EXCEPT !.applied = FALSE]
  /\ \/ Backup(svc.home) \in there /\ Reverted(svc.home)
     \/ Backup(svc.home) \notin there /\ UNCHANGED <<ours, there, left>>
  /\ UNCHANGED <<image, pending, booting, reg, job, history>>

\* The switch for automatic start: set_start_type, whose failure is only
\* logged, then Settings::save.
SetAutostart ==
  /\ svc.state = "running" /\ svc.pass = "none" /\ Spend("request")
  /\ \E auto \in BOOLEAN :
       /\ wish' = [wish EXCEPT ![svc.home].auto = auto]
       /\ \/ ~reg.marked /\ reg' = [reg EXCEPT !.auto = auto]
          \/ UNCHANGED reg
  /\ UNCHANGED <<disk, svc, ours, job, last, refused, hurried>>

\* async_main after the stop: the pass under way ends, on_stop restores what
\* was applied in this run, the backup stays.
OnStop ==
  /\ svc.state = "stopping" /\ svc.pass = "none"
  /\ IF svc.applied /\ Backup(svc.home) \in there
     THEN Restored \/ NotRestored
     ELSE UNCHANGED <<ours, left>>
  /\ Ended(FALSE)
  /\ UNCHANGED <<there, pending, booting, wish, job, history>>

Kill ==
  /\ Up /\ Spend("crash") /\ Ended(svc.state = "running")
  /\ UNCHANGED <<there, pending, booting, dns, job, history>>

-----------------------------------------------------------------------------
(* Verbs. *)

\* main: a verb run from either copy, with administrator rights.
FirstStep(verb, from) ==
  CASE verb = "setup" -> IF from = Exe THEN "shell" ELSE "halt"
    [] verb = "install" -> "register"
    [] verb = "start" -> "start"
    [] OTHER -> "halt"

Begin ==
  /\ job.pc = "idle" /\ ~booting /\ Spend("verb")
  /\ \E verb \in Verbs, from \in {Exe, Copy} \cap there :
       /\ job' = [Idle EXCEPT !.verb = verb, !.pc = FirstStep(verb, from),
                              !.from = from, !.placed = from, !.had = Exe \in there]
       /\ image' = [image EXCEPT !["verb"] = from]
  /\ last' = NoVerb
  /\ UNCHANGED <<there, pending, booting, scm, dns, refused, hurried>>

\* The verb's process ends: Ok, or an error.
Ends(ok, silent) ==
  /\ job' = Idle
  /\ last' = IF ok THEN [verb |-> job.verb, warned |-> job.warned, silent |-> silent,
                         home |-> Home(job.from)]
             ELSE NoVerb

Control == {"start", "stop", "restart"}
AfterStop == CASE job.verb = "setup" -> "place"
               [] job.verb = "restart" -> "start"
               [] job.verb = "stop" -> "report"
               [] OTHER -> "delete"

\* A verb goes on past a service that it did not see stop.
Passes == hurried' = (hurried \/ job.verb \notin Control)

\* service.stop: refused, or the state not to be read, it is an error to
\* `control` and a warning to the rest.
StopRefused ==
  /\ Registered /\ (Up \/ job.verb # "setup") /\ Spend("fault") /\ UNCHANGED svc
  /\ IF Up THEN Passes ELSE UNCHANGED hurried
  /\ Warn(IF job.verb \in Control THEN "failed" ELSE AfterStop)

\* The service manager, or the service in it, cannot be opened: an error to
\* `control`, and nothing at all to setup, as little as a state it cannot read
\* (stop_for_upgrade). To an uninstall the first is an error and the second means
\* that there is no service.
NotOpened ==
  /\ Spend("fault") /\ UNCHANGED svc
  /\ \/ /\ job.verb = "setup" /\ hurried' = (hurried \/ Up) /\ Goto("place")
     \/ /\ job.verb # "setup" /\ UNCHANGED hurried /\ Goto("failed")
     \/ /\ job.verb \in {"uninstall", "remove"} /\ Registered
        /\ hurried' = TRUE /\ Goto("restore")

Halt ==
  /\ job.pc = "halt"
  /\ \/ /\ ~Registered
        /\ Goto(CASE job.verb \in Control -> "failed" [] job.verb = "setup" -> "place"
                  [] OTHER -> "restore")
        /\ UNCHANGED <<svc, hurried, left>>
     \/ Registered /\ ~Up /\ Goto(AfterStop) /\ UNCHANGED <<svc, hurried, left>>
     \/ /\ Up /\ svc' = [svc EXCEPT !.state = "stopping"] /\ Goto("wait")
        /\ UNCHANGED <<hurried, left>>
     \/ StopRefused \/ NotOpened
  /\ UNCHANGED <<disk, reg, dns, last, refused>>

\* wait_for_stop: thirty seconds, which a pass under way may outlast, or until
\* the state cannot be read.
Wait ==
  /\ job.pc = "wait"
  /\ \/ ~Up /\ Goto(AfterStop) /\ UNCHANGED <<hurried, left>>
     \/ /\ Up /\ Passes /\ \E k \in {"slow", "fault"} : Spend(k)
        /\ Warn(IF job.verb \in Control THEN "failed" ELSE AfterStop)
  /\ UNCHANGED <<disk, scm, dns, last, refused>>

\* The names aside_path would return: the first that is free or can be freed.
Usable == {n \in DOMAIN Asides :
             LET f == <<"program", Asides[n]>> IN f \notin there \/ ~Busy(f)}
AsidePath == {<<"program", Asides[n]>> :
                n \in {m \in Usable : \A k \in Usable : m <= k}}

\* ensure_installed: the outgoing file is moved aside.
MoveAside ==
  /\ job.pc = "place"
  /\ \/ /\ Exe \notin there
        /\ there' = there \cup {Folder("program")}
        /\ Goto("copy") /\ UNCHANGED <<image, refused, left>>
     \/ /\ Exe \in there
        /\ \E f \in AsidePath :
             \/ /\ Rename(Exe, f)
                /\ job' = [job EXCEPT !.pc = "copy", !.aside = f]
                /\ UNCHANGED <<refused, left>>
             \/ /\ Spend("fault") /\ refused' = TRUE
                /\ there' = there \ {f} /\ Warn("copy") /\ UNCHANGED image
     \/ /\ Exe \in there /\ AsidePath = {}
        /\ Warn("copy") /\ UNCHANGED <<there, image, refused, left>>
     \/ Spend("fault") /\ Warn("shell") /\ UNCHANGED <<there, image, refused>>
  /\ UNCHANGED <<pending, booting, scm, dns, last, hurried>>

\* Seeded fault: the old program is not put back.
CopyFileForgets ==
  /\ job.pc = "copy"
  /\ \/ /\ ~(Exe \in there /\ Busy(Exe))
        /\ there' = there \cup {Exe}
        /\ job' = [job EXCEPT !.pc = "clean", !.placed = Exe]
        /\ UNCHANGED left
     \/ /\ \/ Exe \in there /\ Busy(Exe) /\ UNCHANGED left
           \/ Spend("fault")
        /\ Warn("shell") /\ UNCHANGED there
  /\ UNCHANGED <<image, pending, booting, scm, dns, history>>

\* Seeded fault: a failed copy registers the path it meant to write.
CopyFileMeant ==
  /\ job.pc = "copy"
  /\ \/ /\ ~(Exe \in there /\ Busy(Exe))
        /\ there' = there \cup {Exe} /\ UNCHANGED left
        /\ job' = [job EXCEPT !.pc = "clean", !.placed = Exe]
     \/ /\ Spend("fault") /\ UNCHANGED there
        /\ job' = [job EXCEPT !.pc = "shell", !.placed = Exe, !.warned = TRUE]
  /\ UNCHANGED <<image, pending, booting, scm, dns, history>>

\* ... the new one copied to its place, or the old one put back.
CopyFile ==
  /\ job.pc = "copy"
  /\ \/ /\ ~(Exe \in there /\ Busy(Exe))
        /\ there' = there \cup {Exe}
        /\ job' = [job EXCEPT !.pc = "clean", !.placed = Exe]
        /\ UNCHANGED <<image, refused, left>>
     \/ /\ \/ Exe \in there /\ Busy(Exe) /\ UNCHANGED left
           \/ Spend("fault")
        /\ IF job.aside = Nowhere
           THEN UNCHANGED <<there, image, refused>>
           ELSE \/ Rename(job.aside, Exe) /\ UNCHANGED refused
                \/ refused' = TRUE /\ UNCHANGED <<there, image>>
        /\ Warn("shell")
  /\ UNCHANGED <<pending, booting, scm, dns, last, hurried>>

\* Seeded fault: does not ask whether a file was moved aside.
CleanUnasked ==
  /\ job.pc = "clean" /\ Goto("shell")
  /\ pending' = Append(pending, job.aside)
  /\ UNCHANGED <<there, image, booting, scm, dns, history, left>>

\* delete_now_or_at_reboot, of the file that was moved aside.
Clean ==
  /\ job.pc = "clean" /\ Goto("shell")
  /\ IF job.aside = Nowhere THEN UNCHANGED <<there, pending>>
     ELSE IF Busy(job.aside)
          THEN pending' = Append(pending, job.aside) /\ UNCHANGED there
          ELSE there' = there \ {job.aside} /\ UNCHANGED pending
  /\ UNCHANGED <<image, booting, scm, dns, history, left>>

\* install_program between the file and the service: shortcut and row of the
\* list of programs are the shell's own state and are left out.
Shell ==
  /\ job.pc = "shell" /\ Goto("register")
  /\ UNCHANGED <<disk, scm, dns, history, left>>

\* install_at: point an existing registration at the file, or create one.
Register ==
  /\ job.pc = "register"
  /\ \/ /\ ~reg.marked
        /\ reg' = [exe |-> job.placed, auto |-> wish[Home(job.from)].auto,
                   marked |-> FALSE]
        /\ Goto("start") /\ UNCHANGED left
     \/ /\ reg.marked \/ left["fault"] > 0
        /\ IF reg.marked THEN UNCHANGED left ELSE Spend("fault")
        /\ Goto("failed") /\ UNCHANGED reg
  /\ UNCHANGED <<disk, svc, dns, history>>

\* service.start, the last step of install_at and of `control`. A service that
\* was asked to stop still says it runs.
StartService ==
  /\ job.pc = "start"
  /\ \/ /\ Up /\ job.verb \in {"setup", "install"}
        /\ Goto("report") /\ UNCHANGED <<svc, image, ours, there, left>>
     \/ /\ Up /\ job.verb \in Control
        /\ Goto("failed") /\ UNCHANGED <<svc, image, ours, there, left>>
     \/ /\ Startable /\ Started(Home(reg.exe)) /\ Goto("report")
     \/ /\ ~Up /\ (~Startable \/ left["fault"] > 0)
        /\ IF Startable THEN Spend("fault") ELSE UNCHANGED left
        /\ Goto("failed") /\ UNCHANGED <<svc, image, ours, there>>
  /\ UNCHANGED <<pending, booting, reg, wish, history>>

\* uninstall: service.delete, done when the process is gone.
DeleteService ==
  /\ job.pc = "delete"
  /\ \/ /\ Registered
        /\ reg' = IF Up THEN [reg EXCEPT !.marked = TRUE] ELSE NoReg
        /\ svc' = [svc EXCEPT !.due = FALSE]
        /\ hurried' = (hurried \/ Up) /\ Goto("restore") /\ UNCHANGED left
     \/ /\ Registered /\ Spend("fault") /\ hurried' = TRUE
        /\ Warn("restore") /\ UNCHANGED scm
  /\ UNCHANGED <<disk, dns, last, refused>>

\* Seeded fault: trusts the stop to have restored.
RestoreTrusting ==
  /\ job.pc = "restore"
  /\ Goto(IF job.verb = "remove" THEN "data" ELSE "report")
  /\ UNCHANGED <<disk, scm, dns, history, left>>

\* Seeded fault: the backup is deleted whatever the restore returned.
RestoreRegardless ==
  /\ job.pc = "restore" /\ Goto("forget")
  /\ Restored \/ NotRestored
  /\ UNCHANGED <<disk, scm, wish, history>>

\* ... then the backup, if one is left, and only after a complete revert is it
\* deleted.
AfterUninstall == IF job.verb = "remove" THEN "data" ELSE "report"
RestoreBackup ==
  /\ job.pc = "restore"
  /\ IF Backup(Home(job.from)) \in there
     THEN \/ Restored /\ Goto("forget")
          \/ NotRestored /\ Warn(AfterUninstall)
     ELSE Goto(AfterUninstall) /\ UNCHANGED <<ours, left>>
  /\ UNCHANGED <<disk, scm, wish, history>>

Forget ==
  /\ job.pc = "forget"
  /\ \/ /\ there' = there \ {Backup(Home(job.from))}
        /\ Goto(AfterUninstall) /\ UNCHANGED left
     \/ Spend("fault") /\ UNCHANGED there /\ Miss(AfterUninstall)
  /\ UNCHANGED <<image, pending, booting, scm, dns, history>>

\* One of the calls whose result is dropped fails, or none does.
Unnoticed(failed) == IF failed THEN Spend("fault") ELSE UNCHANGED left

\* remove_data_files: nothing while a backup is there. The entries of the
\* program's folder are collected before the first is touched. A file that
\* cannot be deleted stays, and a folder that cannot be read is an empty one.
RemoveData ==
  /\ job.pc = "data"
  /\ \E kept, unread \in BOOLEAN :
       /\ wish' = IF Backup(Home(job.from)) \in there \/ kept THEN wish
                  ELSE [wish EXCEPT ![Home(job.from)] = Default]
       /\ job' = [job EXCEPT !.pc = "files", !.silent = @ \/ kept \/ unread,
                             !.todo = IF unread THEN {} ELSE Program \cap there]
       /\ Unnoticed(kept \/ unread)
  /\ UNCHANGED <<disk, scm, ours, history>>

\* schedule_delete_at_reboot, which says nothing of a failure.
Queue(f, failed) == pending' = IF failed THEN pending ELSE Append(pending, f)

\* Seeded fault: a busy file is queued where it is.
QueueInPlace ==
  /\ job.pc = "files" /\ job.todo # {}
  /\ \E f \in job.todo :
       /\ job' = [job EXCEPT !.todo = @ \ {f}]
       /\ IF Busy(f) THEN pending' = Append(pending, f) /\ UNCHANGED there
          ELSE there' = there \ {f} /\ UNCHANGED pending
  /\ UNCHANGED <<image, booting, scm, dns, history, left>>

\* remove_program_files, one entry: deleted, or moved aside and queued, or
\* queued under its own name. An entry renamed meanwhile queues a path nothing
\* is at.
RemoveFile ==
  /\ job.pc = "files" /\ job.todo # {}
  /\ \E f \in job.todo, lost \in BOOLEAN :
       /\ job' = [job EXCEPT !.todo = @ \ {f}, !.silent = @ \/ lost]
       /\ \/ /\ f \in there /\ ~Busy(f) /\ ~lost
             /\ there' = there \ {f}
             /\ UNCHANGED <<image, pending, refused, left>>
          \/ /\ f \in there /\ Busy(f)
             /\ \/ \E g \in AsidePath :
                     \/ /\ Rename(f, g) /\ Queue(g, lost) /\ Unnoticed(lost)
                        /\ UNCHANGED refused
                     \/ /\ Spend("fault") /\ refused' = TRUE
                        /\ there' = there \ {g} /\ UNCHANGED image
                        /\ Queue(f, lost)
                \/ /\ AsidePath = {} /\ Queue(f, lost) /\ Unnoticed(lost)
                   /\ UNCHANGED <<there, image, refused>>
          \/ /\ f \notin there /\ Queue(f, lost) /\ Unnoticed(lost)
             /\ there' = there \ AsidePath
             /\ UNCHANGED <<image, refused>>
  /\ UNCHANGED <<booting, scm, dns, last, hurried>>

\* ... and the folder after its contents.
RemoveFolder ==
  /\ job.pc = "files" /\ job.todo = {}
  /\ \/ /\ there \cap Program = {}
        /\ there' = there \ {Folder("program")}
        /\ Goto("report") /\ UNCHANGED <<pending, left>>
     \/ /\ there \cap Program # {} /\ UNCHANGED there
        /\ \/ Queue(Folder("program"), FALSE) /\ Goto("report") /\ UNCHANGED left
           \/ Queue(Folder("program"), TRUE) /\ Miss("report") /\ Spend("fault")
  /\ UNCHANGED <<image, booting, scm, dns, history>>

\* ActionReport::save, in the folder of this copy, if a window asked; a failed
\* verb reports too.
SaveReport ==
  /\ job.pc \in {"report", "failed"}
  /\ LET d == Home(job.from)
     IN  /\ there' \in {there, there \cup {Folder(d), Report(d)}}
         /\ IF job.pc = "report" /\ job.verb = "remove"
            THEN Goto("schedule") /\ UNCHANGED <<image, last>>
            ELSE /\ Ends(job.pc = "report", job.silent)
                 /\ image' = [image EXCEPT !["verb"] = Nowhere]
  /\ UNCHANGED <<pending, booting, scm, dns, refused, hurried, left>>

\* Seeded fault: the folder is queued before what is in it.
FolderFirst ==
  /\ job.pc = "schedule"
  /\ LET d == Home(job.from)
     IN  pending' = IF Backup(d) \in there THEN pending
                    ELSE pending \o <<Folder(d), Report(d)>>
  /\ Ends(TRUE, job.silent)
  /\ image' = [image EXCEPT !["verb"] = Nowhere]
  /\ UNCHANGED <<there, booting, scm, dns, refused, hurried, left>>

\* schedule_data_dir_removal: the report, then its folder, never now.
Schedule ==
  /\ job.pc = "schedule"
  /\ LET d == Home(job.from)
         both == <<Report(d), Folder(d)>>
     IN  IF Backup(d) \in there
         THEN pending' = pending /\ Ends(TRUE, job.silent) /\ UNCHANGED left
         ELSE \E q \in {both, <<Report(d)>>, <<Folder(d)>>, <<>>} :
                /\ pending' = pending \o q
                /\ Unnoticed(q # both) /\ Ends(TRUE, job.silent \/ q # both)
  /\ image' = [image EXCEPT !["verb"] = Nowhere]
  /\ UNCHANGED <<there, booting, scm, dns, refused, hurried>>

VerbDies ==
  /\ job.pc # "idle" /\ Spend("crash") /\ Ends(FALSE, job.silent)
  /\ image' = [image EXCEPT !["verb"] = Nowhere]
  /\ UNCHANGED <<there, pending, booting, scm, dns, refused, hurried>>

Verb ==
  \/ Halt \/ Wait \/ MoveAside \/ CopyFile \/ Clean \/ Shell \/ Register
  \/ StartService \/ DeleteService \/ RestoreBackup \/ Forget \/ RemoveData
  \/ RemoveFile \/ RemoveFolder \/ SaveReport \/ Schedule

-----------------------------------------------------------------------------
(* Everybody else. *)

OpenWindow(w) ==
  /\ image[w] = Nowhere /\ ~booting /\ Spend("window")
  /\ \E f \in {Exe, Copy} \cap there : image' = [image EXCEPT ![w] = f]
  /\ UNCHANGED <<there, pending, booting, scm, dns, job, history>>

CloseWindow(w) ==
  /\ image[w] # Nowhere /\ image' = [image EXCEPT ![w] = Nowhere]
  /\ UNCHANGED <<there, pending, booting, scm, dns, job, history, left>>

\* The machine restarts, or loses power, whatever runs.
Reboot ==
  /\ ~booting /\ Spend("boot")
  /\ booting' = TRUE /\ image' = [p \in Procs |-> Nowhere]
  /\ svc' = [Down EXCEPT !.due = reg.auto /\ ~reg.marked]
  /\ reg' = IF reg.marked THEN NoReg ELSE reg
  /\ job' = Idle /\ UNCHANGED <<there, pending, dns, history>>

IsFolder(f) == f[2] = "folder"
Empty(f) == /\ \A g \in there : g[1] = f[1] => g = f
            /\ f[1] \in DataDirs => wish[f[1]] = Default

\* Windows works through the list: a path is what it is now, a folder goes if
\* it is empty.
BootDelete ==
  /\ booting /\ pending # <<>> /\ pending' = Tail(pending)
  /\ there' = IF IsFolder(Head(pending)) /\ ~Empty(Head(pending)) THEN there
              ELSE there \ {Head(pending)}
  /\ UNCHANGED <<image, booting, scm, dns, job, history, left>>

BootDone ==
  /\ booting /\ pending = <<>> /\ booting' = FALSE
  /\ UNCHANGED <<there, image, pending, scm, dns, job, history, left>>

Service == SvcStart \/ Enable \/ BackUp \/ WriteAdapters \/ OnStop
Next ==
  \/ Service \/ Disable \/ SetAutostart \/ Kill
  \/ Begin \/ Verb \/ VerbDies
  \/ \E w \in Windows : OpenWindow(w) \/ CloseWindow(w)
  \/ Reboot \/ BootDelete \/ BootDone

Spec == Init /\ [][Next]_vars

-----------------------------------------------------------------------------
(* Properties. *)

TypeOK ==
  /\ there \subseteq Paths
  /\ image \in [Procs -> Program \cup {Copy, Nowhere}]
  /\ pending \in Seq(Paths) /\ booting \in BOOLEAN
  /\ reg \in [exe : {Exe, Copy, Nowhere}, auto : BOOLEAN, marked : BOOLEAN]
  /\ svc \in [state : {"stopped", "running", "stopping"}, pass : {"none", "save", "write"},
              applied : BOOLEAN, home : DataDirs, due : BOOLEAN]
  /\ wish \in [DataDirs -> [enabled : BOOLEAN, auto : BOOLEAN]] /\ ours \in BOOLEAN
  /\ job \in [verb : Verbs \cup {"none"}, pc : Steps, from : {Exe, Copy, Nowhere},
              aside : AsideFiles \cup {Nowhere}, placed : {Exe, Copy, Nowhere},
              todo : SUBSET Program, had : BOOLEAN, warned : BOOLEAN, silent : BOOLEAN]
  /\ last \in [verb : Verbs \cup {"none"}, warned : BOOLEAN, silent : BOOLEAN,
              home : DataDirs]
  /\ refused \in BOOLEAN /\ hurried \in BOOLEAN
  /\ left \in [Kinds -> Nat]

Queued == {pending[n] : n \in DOMAIN pending}

\* Windows' list of deletions is by path and nothing takes an entry off it: the
\* installed program's own path is never on it, however removals, reinstalls
\* and upgrades alternate before the next boot (remove_program_files).
QueueSpares == ~refused => Exe \notin Queued

\* A setup that fails or finishes leaves a program where one was before it
\* (ensure_installed), unless Windows refused a rename.
Placing == {"place", "copy"}
ProgramStays ==
  (job.verb = "setup" /\ job.had /\ job.pc \notin Placing /\ ~refused) => Exe \in there

\* While the adapters are on a setting of ours there is a backup to put them
\* back from, whatever verb stopped, deleted or restored in between, as long as
\* none went on past a service that was still there (uninstall).
LentHasBackup == (ours /\ ~hurried) => \E d \in DataDirs : Backup(d) \in there

\* An uninstall without a warning leaves no service and the adapters as they
\* were, unless the backup is in the folder this copy does not look in, or a verb
\* went past a service that was still there, one that did not stop in time or that
\* could not be opened (uninstall).
UninstallGivesBack ==
  (/\ last.verb \in {"uninstall", "remove"} /\ ~last.warned /\ ~hurried
   /\ \A d \in DataDirs \ {last.home} : Backup(d) \notin there)
  => ~ours /\ ~Registered /\ ~Up

\* The service is registered against a file that is there when setup or
\* install reports success (install_program).
SetupRegistersAFile ==
  [][(last' # last /\ last'.verb \in {"setup", "install"}) => reg'.exe \in there']_vars

\* After a removal the next boot leaves no file and no folder of the program, and
\* not the data folder the removing copy looks in (remove_program_files,
\* schedule_data_dir_removal). The data folder of the other copies is left alone,
\* whatever is in it. Excused are a warning, a call that failed unnoticed, a
\* refused rename and a service that was still there.
RemovalIsComplete ==
  [][(BootDone /\ last.verb = "remove" /\ ~last.warned /\ ~last.silent /\ ~refused
        /\ ~hurried)
     => there \cap (Program \cup {Folder("program"), Folder(last.home)}) = {}]_vars

\* What uninstall promises whatever copy it is run from: with the service gone,
\* the machine's DNS is back where it was, or a line of its report says otherwise.
UninstallRestores ==
  (last.verb \in {"uninstall", "remove"} /\ ~last.warned /\ ~hurried) => ~ours
=============================================================================
