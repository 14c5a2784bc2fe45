----------------------------- MODULE Protection -----------------------------
(***************************************************************************)
(* The service that switches a machine's DNS over and back: the App of     *)
(* client/src/app.rs with the backup file of core/src/backup.rs, the       *)
(* settings file of core/src/config.rs and the life of the service process *)
(* in client/src/service.rs.                                               *)
(*                                                                         *)
(* Every operation runs under the App's mutex, so one is under way at a    *)
(* time (op), but it is not atomic: each effect that the rest of the       *)
(* machine can see - one netsh call, one write of a file, the stub coming  *)
(* up or going away - is a step of its own (pc), between any two of which  *)
(* the process may die, an adapter may go away and somebody else may write *)
(* a DNS setting.                                                          *)
(*                                                                         *)
(* A DNS setting is abstracted to what the code tells apart: automatic     *)
(* (Dhcp), a list somebody chose (Lists), the stub's loopback address      *)
(* (Loopback), "static, none" (Empty), or a set of resolver addresses,     *)
(* of which only the name is kept (Sets, Members).                         *)
(* The two address families of an adapter are two slots.                   *)
(***************************************************************************)
EXTENDS Naturals, FiniteSets, FiniteSetsExt

CONSTANTS
  Adapters,     \* network adapters, named by GUID
  Vpn,          \* those of them that are VPN or tunnel adapters
  Lists,        \* static server lists a user or another program may choose
  Heads,        \* Heads[c]: what is left of setting c half written
  Servers,      \* addresses the resolver may be published at
  Sets,         \* names of the address sets the endpoint cache may hold
  Members,      \* Members[m]: the servers in address set m
  Dhcp, Loopback, Empty,
  None,         \* no row in the backup, no address set applied
  Wishes,       \* profiles [mode, ipv6, vpn] a SetSettings may ask for
  Recommended,  \* Settings::recommended: the profile without a settings file
  NativeDoh,    \* whether this Windows has a DoH client (Windows 11)
  Budget        \* bound on each kind of event of Kinds

Families == {"v4", "v6"}
Slots == Adapters \X Families
Ours == Sets \cup {Loopback, Empty}
Priors == Lists \cup {Dhcp}
Profiles == [mode : {"stub", "native"}, ipv6 : BOOLEAN, vpn : BOOLEAN]
Kinds == {"edit", "fault", "crash", "link", "move", "ask"}

ASSUME ConfigAssumption ==
  /\ Vpn \subseteq Adapters
  /\ Members \in [Sets -> SUBSET Servers]
  /\ Priors \cap Ours = {}
  /\ None \notin Priors \cup Ours
  /\ Heads \in [Priors -> SUBSET Lists] /\ Heads[Dhcp] = {}
  /\ Loopback \notin Sets /\ Empty \notin Sets \cup {Loopback}

ASSUME ProfileAssumption ==
  /\ Wishes \subseteq Profiles
  /\ Recommended \in Wishes
  /\ NativeDoh \in BOOLEAN

ASSUME BudgetAssumption == Budget \in [Kinds -> Nat]

VARIABLES
  \* the machine
  dns,        \* dns[a, f]: the configured DNS of family f of adapter a
  link,       \* "up" with a gateway, "idle" without one, or "absent"
  templates,  \* server addresses with a DoH template in Windows
  current,    \* the resolver addresses in the endpoint cache
  \* files
  onDisk,     \* backup.json exists
  rows,       \* its AdapterBackup rows: the setting to go back to
  claims,     \* its doh_added: templates the revert must remove
  disk,       \* settings.json: [enabled, want]
  \* the service process
  phase,      \* "down", "up", "stopping" (stop requested), "leaving"
  mem,        \* App.settings
  enabled,    \* App.enabled: applied in this run
  applied,    \* App.applied: the address set native mode wrote
  stub,       \* App.stub: the families whose port 53 it bound, {} without one
  \* the operation under way, with its locals
  job,
  \* history, read by the properties only
  orig,       \* what was last chosen for a slot by somebody else
  touched,    \* slots whose orig is younger than the row kept for them
  mine,       \* templates present because this program added them
  left        \* what is left of Budget

machine == <<dns, link, templates, current>>
backup  == <<onDisk, rows, claims>>
process == <<phase, mem, enabled, applied, stub>>
history == <<orig, touched, mine>>
vars == <<machine, backup, disk, process, job, history, left>>

Settings == [enabled : BOOLEAN, want : Profiles]
\* What Settings::load makes of a settings file it cannot read.
Blank == [enabled |-> FALSE, want |-> Recommended]

Ops == {"none", "recover", "boot", "enable", "guard", "follow", "reapply",
        "disable", "settings", "store", "stop"}
Steps == {"idle", "stub", "refresh", "backup", "claim", "add", "withdraw",
          "write", "load", "restore", "quiet", "off", "forget", "save"}

\* op       which operation, "none" between operations
\* pc       its next step
\* todo     slots it still has to write
\* aim      the address set a native enable is about to write
\* adding   templates it still has to add or remove
\* missing  templates found absent by this enable
\* claimed  claims this enable added to the backup
\* had      a backup existed before this enable
\* wish     the profile a SetSettings carries
\* result   of restore_from_backup
Jobs == [op : Ops, pc : Steps, todo : SUBSET Slots, aim : Sets \cup {None},
         adding : SUBSET Servers, missing : SUBSET Servers,
         claimed : SUBSET Servers, had : BOOLEAN, wish : Profiles,
         result : {"ok", "warn", "err"}]

NoJob == [op |-> "none", pc |-> "idle", todo |-> {}, aim |-> None,
          adding |-> {}, missing |-> {}, claimed |-> {}, had |-> FALSE,
          wish |-> Recommended, result |-> "ok"]

TypeOK ==
  /\ dns \in [Slots -> Priors \cup Ours]
  /\ link \in [Adapters -> {"up", "idle", "absent"}]
  /\ templates \in SUBSET Servers
  /\ current \in Sets
  /\ onDisk \in BOOLEAN
  /\ rows \in [Slots -> Priors \cup {None}]
  /\ claims \in SUBSET Servers
  /\ disk \in Settings /\ mem \in Settings
  /\ phase \in {"down", "up", "stopping", "leaving"}
  /\ enabled \in BOOLEAN /\ stub \in {{}, {"v4"}, Families}
  /\ applied \in Sets \cup {None}
  /\ job \in Jobs
  /\ orig \in [Slots -> Priors]
  /\ touched \in SUBSET Slots
  /\ mine \in SUBSET Servers
  /\ left \in [Kinds -> Nat]

Init ==
  /\ orig \in [Slots -> Priors] /\ dns = orig
  /\ link = [a \in Adapters |-> "up"]
  /\ templates \in SUBSET Servers
  /\ current \in Sets
  /\ onDisk = FALSE /\ rows = [s \in Slots |-> None] /\ claims = {}
  /\ disk \in {[enabled |-> FALSE, want |-> w] : w \in Wishes}
  /\ mem = Blank
  /\ phase = "down" /\ enabled = FALSE /\ applied = None /\ stub = {}
  /\ job = NoJob
  /\ touched = {} /\ mine = {}
  /\ left = Budget

-----------------------------------------------------------------------------
(* Helpers *)

Spend(k) == left[k] > 0 /\ left' = [left EXCEPT ![k] = @ - 1]
Free == UNCHANGED left

At(p) == job.pc = p

\* Moves the operation on; one that has nowhere to go is over.
Goto(p) == IF p = "idle" THEN NoJob ELSE [job EXCEPT !.pc = p]

\* select_adapters: up, with a default route, a VPN only when asked for.
Chosen == {a \in Adapters : link[a] = "up" /\ (mem.want.vpn \/ a \notin Vpn)}

\* The servers an enable writes into a family. The IPv6 switch off empties
\* the v6 side; it never leaves it as it was.
Target(f) ==
  IF f = "v6" /\ ~mem.want.ipv6 THEN Empty
  ELSE IF mem.want.mode = "stub" THEN Loopback ELSE job.aim

\* read_dns_state as capture stores it: "static, none" reads back as Dhcp,
\* and a setting that is ours is never recorded as somebody's (not_ours).
Captured(c) == IF c \in Ours THEN Dhcp ELSE c

\* The adapters are written one after another, IPv4 before IPv6.
Turn(s) ==
  /\ s \in job.todo
  /\ IF s[2] = "v6" THEN <<s[1], "v4">> \notin job.todo
     ELSE \A b \in Adapters : <<b, "v6">> \in job.todo => <<b, "v4">> \in job.todo

\* Seeded fault: the stub is not started before the adapters are written.
EntryWithoutStub(w) == "refresh"

EnableEntry(w) == IF w.mode = "stub" THEN "stub" ELSE "refresh"

\* Where an operation goes on after restore_from_backup. In an enable the
\* restore is the rollback and the operation has failed.
AfterRestore == IF job.op = "recover" THEN "forget"
                ELSE IF job.op \in {"disable", "settings", "stop"} THEN "quiet"
                ELSE "idle"

DeleteBackup ==
  /\ onDisk' = FALSE /\ rows' = [s \in Slots |-> None] /\ claims' = {}
  /\ touched' = {s \in touched : dns[s] # orig[s]}

\* DnsBackup::delete: that the file could not be removed is not looked at.
Deleted ==
  \/ DeleteBackup /\ Free
  \/ UNCHANGED <<backup, touched>> /\ Spend("fault")

-----------------------------------------------------------------------------
(* Requests over the pipe (dispatch), and the service's own passes. A       *)
(* session that was waiting for the mutex is served whenever the mutex is   *)
(* free, after on_stop too, until the process is gone.                      *)

Idle == At("idle") /\ phase # "down"

Begin(o, p) == [NoJob EXCEPT !.op = o, !.pc = p]

Request(j) ==
  /\ Idle /\ Spend("ask")
  /\ job' = j
  /\ UNCHANGED <<machine, backup, disk, process, history>>

Enable == Request(Begin("enable", EnableEntry(mem.want)))
Disable == Request(Begin("disable", "load"))

\* A change of mode, IPv6 or VPN while applied is a full off and on.
SetSettings(w) ==
  LET begin == IF enabled /\ w # mem.want THEN Begin("settings", "load")
                                         ELSE Begin("store", "save")
  IN Request([begin EXCEPT !.wish = w])

Pass(o, p) ==
  /\ Idle /\ phase # "leaving" /\ Free
  /\ job' = Begin(o, p)
  /\ UNCHANGED <<machine, backup, disk, process, history>>

\* Only an IPv4 side that is automatic again counts as drift.
Drifted == {a \in Chosen : dns[a, "v4"] = Dhcp}

\* Seeded faults: only what was never applied, or only what was, is looked at.
GuardUnapplied ==
  /\ mem.enabled /\ ~enabled
  /\ Pass("guard", EnableEntry(mem.want))

GuardApplied ==
  /\ mem.enabled /\ enabled /\ Drifted # {}
  /\ Pass("guard", EnableEntry(mem.want))

Guard ==
  /\ mem.enabled
  /\ enabled => Drifted # {}
  /\ Pass("guard", EnableEntry(mem.want))

IsProtecting == mem.enabled /\ enabled

FollowEndpoints ==
  /\ IsProtecting /\ mem.want.mode = "native"
  /\ applied # None /\ applied # current
  /\ Pass("follow", "backup")

\* Stop or Shutdown arrives, whatever is under way.
StopRequest ==
  /\ phase = "up" /\ phase' = "stopping"
  /\ UNCHANGED <<machine, backup, disk, mem, enabled, applied, stub, job,
                 history, left>>

\* Seeded faults: the stop restores nothing, or waits for an applied run.
OnStopQuiet ==
  /\ Idle /\ phase = "stopping" /\ job' = Begin("stop", "quiet")
  /\ UNCHANGED <<machine, backup, disk, process, history, left>>

OnStopApplied ==
  /\ Idle /\ phase = "stopping" /\ enabled /\ job' = Begin("stop", "load")
  /\ UNCHANGED <<machine, backup, disk, process, history, left>>

\* async_main gets the mutex: restore only what this run applied.
OnStop ==
  /\ Idle /\ phase = "stopping"
  /\ job' = Begin("stop", IF enabled THEN "load" ELSE "quiet")
  /\ UNCHANGED <<machine, backup, disk, process, history, left>>

-----------------------------------------------------------------------------
(* enable *)

\* ensure_stub, before any adapter is pointed at it. A stub that is there is
\* kept as it is. Not to bind 127.0.0.1 fails the enable, not to bind ::1 is
\* a warning.
EnsureStub ==
  /\ At("stub")
  /\ \/ stub # {} /\ UNCHANGED stub /\ job' = Goto("backup") /\ Free
     \/ /\ stub = {} /\ job' = Goto("backup")
        /\ \/ stub' = (IF mem.want.ipv6 THEN Families ELSE {"v4"}) /\ Free
           \/ mem.want.ipv6 /\ stub' = {"v4"} /\ Spend("fault")
     \/ stub = {} /\ UNCHANGED stub /\ job' = NoJob /\ Spend("fault")
  /\ UNCHANGED <<machine, backup, disk, phase, mem, enabled, applied, history>>

\* refresh_endpoints and rescue: what they learn arrives by Learn.
RefreshEndpoints ==
  /\ At("refresh") /\ job' = Goto("backup") /\ Free
  /\ UNCHANGED <<machine, backup, disk, process, history>>

\* Seeded faults: capture without not_ours; a row for an adapter outside the
\* selection is dropped.
RawCapture == [s \in Slots |-> IF s[1] \in Chosen THEN dns[s] ELSE rows[s]]

SelectionOnly == [s \in Slots |->
  IF s[1] \notin Chosen THEN None
  ELSE IF rows[s] # None THEN rows[s] ELSE Captured(dns[s])]

\* capture_preserving: an existing row wins over a fresh reading, and a row
\* for an adapter outside the selection is kept.
Preserved == [s \in Slots |->
  IF rows[s] # None THEN rows[s]
  ELSE IF s[1] \in Chosen THEN Captured(dns[s]) ELSE None]

CanEnable == (mem.want.mode = "native" => NativeDoh) /\ Chosen # {}

\* back_up. The addresses are read once, before it (enable_native).
BackUp ==
  /\ At("backup")
  /\ \/ /\ CanEnable /\ Free
        /\ onDisk' = TRUE /\ rows' = Preserved
        /\ job' = [Goto(IF mem.want.mode = "stub" THEN "write" ELSE "claim")
                     EXCEPT !.had = onDisk, !.todo = Chosen \X Families,
                            !.aim = current]
     \/ /\ IF CanEnable THEN Spend("fault") ELSE Free
        /\ job' = NoJob /\ UNCHANGED <<onDisk, rows>>
  /\ UNCHANGED <<machine, claims, disk, process, history>>

\* Seeded fault: the claims are assigned over, not added to.
ClaimOver ==
  /\ At("claim") /\ Free
  /\ LET absent == Members[job.aim] \ templates IN
     /\ claims' = absent
     /\ job' = [Goto("add") EXCEPT !.adding = absent, !.missing = absent,
                                   !.claimed = absent \ claims]
  /\ UNCHANGED <<onDisk, rows, touched>>
  /\ UNCHANGED <<machine, disk, process, orig, mine>>

\* Every template this enable is about to add is claimed on disk first. When
\* Windows cannot be asked, a backup this enable created goes again; when the
\* claims cannot be saved, the enable just fails.
Claim ==
  /\ At("claim")
  /\ LET absent == Members[job.aim] \ templates IN
     \/ /\ claims' = claims \cup absent
        /\ job' = [Goto("add") EXCEPT !.adding = absent, !.missing = absent,
                                      !.claimed = absent \ claims]
        /\ UNCHANGED <<onDisk, rows, touched>> /\ Free
     \/ /\ job' = NoJob /\ Spend("fault")
        /\ UNCHANGED <<backup, touched>> \/ (~job.had /\ DeleteBackup)
     \/ /\ absent \ claims # {} /\ job' = NoJob /\ Spend("fault")
        /\ UNCHANGED <<backup, touched>>
  /\ UNCHANGED <<machine, disk, process, orig, mine>>

AddTemplate(t) ==
  /\ At("add") /\ t \in job.adding
  /\ \/ /\ templates' = templates \cup {t}
        /\ mine' = mine \cup ({t} \ templates)
        /\ job' = [job EXCEPT !.adding = @ \ {t}] /\ Free
     \/ /\ job' = [Goto("withdraw") EXCEPT !.adding = job.missing]
        /\ Spend("fault") /\ UNCHANGED <<templates, mine>>
  /\ UNCHANGED <<dns, link, current, backup, disk, process, orig, touched>>

\* Seeded fault: the addresses do not wait for every template.
TemplatesSkipped ==
  /\ At("add") /\ job' = Goto("write") /\ Free
  /\ UNCHANGED <<machine, backup, disk, process, history>>

TemplatesAdded ==
  /\ At("add") /\ job.adding = {} /\ job' = Goto("write") /\ Free
  /\ UNCHANGED <<machine, backup, disk, process, history>>

\* Seeded fault: a claim is withdrawn although its template could not be removed.
WithdrawRegardless(t) ==
  /\ At("withdraw") /\ t \in job.adding
  /\ job' = [job EXCEPT !.adding = @ \ {t}]
  /\ \/ templates' = templates \ {t} /\ mine' = mine \ {t} /\ Free
     \/ Spend("fault") /\ UNCHANGED <<templates, mine>>
  /\ UNCHANGED <<dns, link, current, backup, disk, process, orig, touched>>

\* withdraw_templates: a claim goes only once its template is gone.
WithdrawTemplate(t) ==
  /\ At("withdraw") /\ t \in job.adding
  /\ \/ /\ templates' = templates \ {t} /\ mine' = mine \ {t}
        /\ job' = [job EXCEPT !.adding = @ \ {t}] /\ Free
     \/ /\ job' = [job EXCEPT !.adding = @ \ {t}, !.claimed = @ \ {t}]
        /\ Spend("fault") /\ UNCHANGED <<templates, mine>>
  /\ UNCHANGED <<dns, link, current, backup, disk, process, orig, touched>>

WithdrawClaims ==
  /\ At("withdraw") /\ job.adding = {} /\ job' = NoJob
  /\ LET kept == claims \ job.claimed IN
     \/ ~job.had /\ kept = {} /\ Deleted
     \/ /\ job.had \/ kept # {}
        /\ \/ claims' = kept /\ Free
           \/ kept # claims /\ UNCHANGED claims /\ Spend("fault")
        /\ UNCHANGED <<onDisk, rows, touched>>
  /\ UNCHANGED <<machine, disk, process, orig, mine>>

\* Seeded fault: an IPv6 write that fails is tried again.
WriteUntilDone(s) ==
  /\ At("write") /\ Turn(s)
  /\ \/ /\ link[s[1]] # "absent" /\ Free
        /\ dns' = [dns EXCEPT ![s] = Target(s[2])]
        /\ job' = [job EXCEPT !.todo = @ \ {s}]
     \/ /\ IF link[s[1]] = "absent" THEN Free ELSE Spend("fault")
        /\ job' = IF s[2] = "v4" THEN [Goto("load") EXCEPT !.todo = @ \ {s}] ELSE job
        /\ UNCHANGED dns
  /\ UNCHANGED <<link, templates, current, backup, disk, process, history>>

\* One netsh call or SetInterfaceDnsSettings. A failed IPv4 write rolls the
\* whole enable back, a failed IPv6 write is a warning.
WriteAdapter(s) ==
  /\ At("write") /\ Turn(s)
  /\ \/ /\ link[s[1]] # "absent" /\ Free
        /\ dns' = [dns EXCEPT ![s] = Target(s[2])]
        /\ job' = [job EXCEPT !.todo = @ \ {s}]
     \/ /\ IF link[s[1]] = "absent" THEN Free ELSE Spend("fault")
        /\ job' = [Goto(IF s[2] = "v4" THEN "load" ELSE "write")
                     EXCEPT !.todo = @ \ {s}]
        /\ UNCHANGED dns
  /\ UNCHANGED <<link, templates, current, backup, disk, process, history>>

\* Settings::save writes the file in place: a write that fails may leave the
\* old file or one the next load cannot read.
SaveFails == disk' \in {disk, Blank} /\ Spend("fault")

\* Here nobody looks whether it failed.
SaveUnchecked(new) == (disk' = new /\ Free) \/ SaveFails

\* Seeded fault: what the cache holds by now is remembered, not what was written.
AppliedCurrent ==
  /\ At("write") /\ job.todo = {} /\ job' = NoJob
  /\ enabled' = TRUE
  /\ mem' = [mem EXCEPT !.enabled = TRUE]
  /\ SaveUnchecked([mem EXCEPT !.enabled = TRUE])
  /\ applied' = IF mem.want.mode = "stub" THEN None ELSE current
  /\ UNCHANGED <<machine, backup, phase, stub, history>>

Applied ==
  /\ At("write") /\ job.todo = {} /\ job' = NoJob
  /\ enabled' = TRUE
  /\ mem' = [mem EXCEPT !.enabled = TRUE]
  /\ SaveUnchecked([mem EXCEPT !.enabled = TRUE])
  /\ applied' = IF mem.want.mode = "stub" THEN None ELSE job.aim
  /\ UNCHANGED <<machine, backup, phase, stub, history>>

-----------------------------------------------------------------------------
(* restore_from_backup, and what comes after it *)

LoadBackup ==
  /\ At("load") /\ Free
  /\ job' = IF onDisk
            THEN [Goto("restore") EXCEPT !.todo = {s \in Slots : rows[s] # None},
                                         !.adding = claims, !.result = "ok"]
            ELSE IF AfterRestore = "idle" THEN NoJob
            ELSE [Goto(AfterRestore) EXCEPT !.result = "err"]
  /\ UNCHANGED <<machine, backup, disk, process, history>>

\* A list of several servers is written by one netsh call for each: the first
\* replaces what is there, the others are added behind it.
HalfWritten(s) ==
  /\ link[s[1]] # "absent"
  /\ \E h \in Heads[rows[s]] : dns' = [dns EXCEPT ![s] = h]

\* Seeded fault: a row that could not be put back is no warning.
RestoreSilently(s) ==
  /\ At("restore") /\ Turn(s)
  /\ \/ /\ link[s[1]] # "absent" /\ Free
        /\ dns' = [dns EXCEPT ![s] = rows[s]]
        /\ job' = [job EXCEPT !.todo = @ \ {s}]
     \/ /\ IF link[s[1]] = "absent" THEN Free ELSE Spend("fault")
        /\ job' = [job EXCEPT !.todo = @ \ {s}]
        /\ UNCHANGED dns \/ HalfWritten(s)
  /\ UNCHANGED <<link, templates, current, backup, disk, process, history>>

\* apply_state for one family of one recorded adapter. Whatever goes wrong
\* is a warning.
RestoreSlot(s) ==
  /\ At("restore") /\ Turn(s)
  /\ \/ /\ link[s[1]] # "absent" /\ Free
        /\ dns' = [dns EXCEPT ![s] = rows[s]]
        /\ job' = [job EXCEPT !.todo = @ \ {s}]
     \/ /\ IF link[s[1]] = "absent" THEN Free ELSE Spend("fault")
        /\ job' = [job EXCEPT !.todo = @ \ {s}, !.result = "warn"]
        /\ UNCHANGED dns \/ HalfWritten(s)
  /\ UNCHANGED <<link, templates, current, backup, disk, process, history>>

RemoveTemplate(t) ==
  /\ At("restore") /\ job.todo = {} /\ t \in job.adding
  /\ \/ /\ templates' = templates \ {t} /\ mine' = mine \ {t}
        /\ job' = [job EXCEPT !.adding = @ \ {t}] /\ Free
     \/ /\ job' = [job EXCEPT !.adding = @ \ {t}, !.result = "warn"]
        /\ Spend("fault") /\ UNCHANGED <<templates, mine>>
  /\ UNCHANGED <<dns, link, current, backup, disk, process, orig, touched>>

Restored ==
  /\ At("restore") /\ job.todo = {} /\ job.adding = {}
  /\ job' = Goto(AfterRestore) /\ Free
  /\ UNCHANGED <<machine, backup, disk, process, history>>

\* stop_stub, whatever the restore reported.
StopStub ==
  /\ At("quiet") /\ stub' = {} /\ Free
  /\ IF job.op = "stop" THEN job' = NoJob /\ phase' = "leaving"
                        ELSE job' = Goto("off") /\ UNCHANGED phase
  /\ UNCHANGED <<machine, backup, disk, mem, enabled, applied, history>>

\* Seeded fault: turned off in the settings, still counted as applied.
TurnOffSettings ==
  /\ At("off") /\ job' = Goto("forget")
  /\ mem' = [mem EXCEPT !.enabled = FALSE]
  /\ SaveUnchecked([mem EXCEPT !.enabled = FALSE])
  /\ UNCHANGED <<machine, backup, phase, enabled, applied, stub, history>>

TurnOff ==
  /\ At("off") /\ job' = Goto("forget")
  /\ enabled' = FALSE /\ applied' = None
  /\ mem' = [mem EXCEPT !.enabled = FALSE]
  /\ SaveUnchecked([mem EXCEPT !.enabled = FALSE])
  /\ UNCHANGED <<machine, backup, phase, stub, history>>

\* Seeded fault: a restore with warnings forgets the backup too.
ForgetRegardless ==
  /\ At("forget") /\ Deleted
  /\ job' = Goto(IF job.op = "settings" /\ job.result # "err" THEN "save"
                                                            ELSE "idle")
  /\ UNCHANGED <<machine, disk, process, orig, mine>>

\* The backup goes only after a complete restore. A set_settings whose
\* disable failed ends here.
Forget ==
  /\ At("forget")
  /\ \/ job.result = "ok" /\ Deleted
     \/ job.result # "ok" /\ UNCHANGED <<backup, touched>> /\ Free
  /\ job' = Goto(IF job.op = "settings" /\ job.result # "err" THEN "save"
                                                            ELSE "idle")
  /\ UNCHANGED <<machine, disk, process, orig, mine>>

\* set_settings takes the profile over, keeps `enabled`, saves, and goes on
\* to the second half of an off and on. A failed save ends it.
SaveSettings ==
  /\ At("save")
  /\ mem' = [mem EXCEPT !.want = job.wish]
  /\ \/ /\ disk' = [mem EXCEPT !.want = job.wish] /\ Free
        /\ job' = IF job.op = "settings" THEN Begin("reapply", EnableEntry(job.wish))
                                         ELSE NoJob
     \/ SaveFails /\ job' = NoJob
  /\ UNCHANGED <<machine, backup, phase, enabled, applied, stub, history>>

-----------------------------------------------------------------------------
(* The life of the process *)

\* Seeded fault: a backup left behind is not looked at.
StartPlain ==
  /\ phase = "down" /\ phase' = "up" /\ mem' = disk
  /\ job' = IF disk.enabled THEN Begin("boot", EnableEntry(disk.want)) ELSE job
  /\ UNCHANGED <<machine, backup, disk, enabled, applied, stub, history, left>>

\* App::new and restore_on_start: apply what the settings say, or finish a
\* revert.
Start ==
  /\ phase = "down" /\ phase' = "up" /\ mem' = disk
  /\ \/ disk.enabled /\ job' = Begin("boot", EnableEntry(disk.want))
     \/ ~disk.enabled /\ onDisk /\ job' = Begin("recover", "load")
     \/ ~disk.enabled /\ ~onDisk /\ UNCHANGED job
  /\ UNCHANGED <<machine, backup, disk, enabled, applied, stub, history, left>>

Gone ==
  /\ phase' = "down" /\ enabled' = FALSE /\ applied' = None /\ stub' = {}
  /\ mem' = Blank /\ job' = NoJob
  /\ UNCHANGED <<link, templates, current, backup, history>>

\* After on_stop async_main returns, and the runtime takes a session that is
\* still under way down with it at its next await.
Exit ==
  /\ phase = "leaving" /\ job.pc \in {"idle", "stub", "refresh", "quiet"}
  /\ Gone /\ UNCHANGED <<dns, disk, left>>

\* A process that dies in a save may leave a settings file the next load
\* cannot read, one that dies in a restore a list it had half put back.
Saving == At("off") \/ At("save") \/ (At("write") /\ job.todo = {})

Crash ==
  /\ phase # "down" /\ Spend("crash") /\ Gone
  /\ UNCHANGED disk \/ (Saving /\ disk' = Blank)
  /\ UNCHANGED dns \/ (At("restore") /\ \E s \in Slots : Turn(s) /\ HalfWritten(s))

-----------------------------------------------------------------------------
(* Everybody else *)

\* A user, a VPN client, a network reset or a driver writes a setting.
OthersWrite(s, c) ==
  /\ Spend("edit") /\ c # dns[s] /\ link[s[1]] # "absent"
  /\ dns' = [dns EXCEPT ![s] = c]
  /\ orig' = [orig EXCEPT ![s] = c]
  /\ touched' = IF rows[s] = None THEN touched \ {s} ELSE touched \cup {s}
  /\ UNCHANGED <<link, templates, current, backup, disk, process, job, mine>>

\* Another program registers a DoH template for one of our addresses.
OthersAddTemplate(t) ==
  /\ Spend("edit") /\ t \notin templates
  /\ templates' = templates \cup {t}
  /\ UNCHANGED <<dns, link, current, backup, disk, process, job, history>>

LinkChange(a, l) ==
  /\ Spend("link") /\ l # link[a]
  /\ link' = [link EXCEPT ![a] = l]
  /\ UNCHANGED <<dns, templates, current, backup, disk, process, job, history>>

\* The endpoint cache learns other addresses: the watch, the stub's own
\* recovery, the refresh before a native enable.
Learn(m) ==
  /\ Spend("move") /\ m # current /\ current' = m
  /\ UNCHANGED <<dns, link, templates, backup, disk, process, job, history>>

-----------------------------------------------------------------------------

\* The steps an operation takes once it has begun.
Work ==
  \/ EnsureStub \/ RefreshEndpoints \/ BackUp \/ Claim
  \/ \E t \in Servers : AddTemplate(t) \/ WithdrawTemplate(t) \/ RemoveTemplate(t)
  \/ TemplatesAdded \/ WithdrawClaims
  \/ \E s \in Slots : WriteAdapter(s) \/ RestoreSlot(s)
  \/ Applied \/ LoadBackup \/ Restored
  \/ StopStub \/ TurnOff \/ Forget \/ SaveSettings

Requests == Enable \/ Disable \/ \E w \in Wishes : SetSettings(w)

Lifecycle == Start \/ StopRequest \/ OnStop \/ Exit \/ Crash

Environment ==
  \/ \E s \in Slots, c \in Priors : OthersWrite(s, c)
  \/ \E t \in Servers : OthersAddTemplate(t)
  \/ \E a \in Adapters, l \in {"up", "idle", "absent"} : LinkChange(a, l)
  \/ \E m \in Sets : Learn(m)

Next == Work \/ Requests \/ Guard \/ FollowEndpoints \/ Lifecycle \/ Environment

Spec == Init /\ [][Next]_vars

\* A started operation goes on; the guard runs every GUARD_PERIOD and the
\* address watch every WATCH_PERIOD; the mutex is granted in the order it was
\* asked for, so on_stop gets it in the end; a process that is leaving exits;
\* the SCM starts the service again after a failure and at boot.
Fairness ==
  /\ WF_vars(Work) /\ WF_vars(Guard) /\ WF_vars(FollowEndpoints)
  /\ SF_vars(OnStop) /\ WF_vars(Exit) /\ WF_vars(Start)

LiveSpec == Spec /\ Fairness

-----------------------------------------------------------------------------
(* Safety *)

\* While an adapter carries a setting of ours, the backup on disk says what
\* to put back, and that is never a setting of ours (backup.rs: "what the
\* revert can undo is exactly what reached the disk").
Recoverable ==
  \A s \in Slots : dns[s] \in Ours => onDisk /\ rows[s] \in Priors

\* A DoH template this program added is claimed in the backup on disk for as
\* long as it is there, so some revert still owes its removal (enable_native).
TemplatesClaimed == mine # {} => onDisk /\ mine \subseteq claims

\* Nobody else's setting is lost or invented: where nobody wrote behind the
\* backup's back, the row holds what was last chosen there, and so does the
\* adapter, or it holds ours. A list that was put back only in part is still on
\* record whole, so a later revert owes the rest (capture_preserving,
\* restore_from_backup, disable).
NothingLost ==
  \A s \in Slots \ touched :
    /\ rows[s] # None => rows[s] = orig[s]
    /\ \/ dns[s] \in Ours \cup {orig[s]}
       \/ dns[s] \in Heads[orig[s]] /\ onDisk /\ rows[s] # None

\* While the service counts itself as applied, what the adapters were pointed
\* at is really there: the stub answers, or the addresses written are
\* remembered for the watch to compare with (App.enabled, App.applied).
EnabledBacked ==
  enabled /\ phase # "leaving" /\ ~At("off") =>
    IF mem.want.mode = "stub" THEN "v4" \in stub ELSE applied # None

\* No side of an adapter is pointed at the stub before 127.0.0.1 is answered
\* (enable_stub: the stub comes up FIRST). It does not say that ::1 is answered
\* too when the IPv6 side is pointed there: a stub that is kept, or that only
\* warned, may have no listener on it (ensure_stub).
StubFirst ==
  [][\A s \in Slots : dns[s] # dns'[s] /\ dns'[s] = Loopback
                        => "v4" \in stub']_vars

\* An adapter is pointed at resolver addresses only once each has a template
\* (enable_native: the templates go in BEFORE the addresses).
TemplatesFirst ==
  [][\A s \in Slots : dns[s] # dns'[s] /\ dns'[s] \in Sets
                        => Members[dns'[s]] \subseteq templates']_vars

\* Nothing has failed and no adapter has gone away so far.
Undisturbed ==
  left["fault"] = Budget["fault"] /\ left["link"] = Budget["link"]

\* A stop after protection was applied in this run hands every adapter back
\* before the process goes (on_stop, while nothing fails).
StopGivesBack ==
  [][phase = "stopping" /\ phase' = "leaving" /\ enabled /\ Undisturbed =>
       \A s \in Slots : dns[s] \notin Ours]_vars

\* The order in which an operation can come to its steps, counted from the end.
Height(p) ==
  CASE p = "idle"    -> 0  [] p = "save"     -> 1  [] p = "forget" -> 2
    [] p = "off"     -> 3  [] p = "quiet"    -> 4  [] p = "restore" -> 5
    [] p = "load"    -> 6  [] p = "withdraw" -> 7  [] p = "write"  -> 8
    [] p = "add"     -> 9  [] p = "claim"    -> 10 [] p = "backup" -> 11
    [] p \in {"refresh", "stub"} -> 12

\* A change of profile is an off and an on; every other operation is one of them.
Ahead(j) == Height(j.pc) + IF j.op = "settings" THEN 13 ELSE 0

Shrinks(S, T) == T \subseteq S /\ T # S

\* An operation always comes to an end, and with it the mutex to the next: each
\* of its steps takes it nearer, by its place or by the adapters and templates
\* it has yet to visit, whichever of them fail and whatever is written behind
\* its back. No step goes round: a rollback is not rolled back, and what failed
\* is not tried again under the mutex (App::enable, disable, set_settings, on_stop).
OperationsEnd ==
  [][Work => \/ Ahead(job') < Ahead(job)
             \/ /\ Ahead(job') = Ahead(job)
                /\ \/ Shrinks(job.todo, job'.todo)
                   \/ job'.todo = job.todo /\ Shrinks(job.adding, job'.adding)]_vars

\* What the App remembers of the servers it wrote into a family.
Written(f) ==
  IF f = "v6" /\ ~mem.want.ipv6 THEN Empty
  ELSE IF mem.want.mode = "stub" THEN Loopback ELSE applied

\* Between operations, while nothing fails, the App is right about the machine, across
\* crashes, changes of mode, and moves of the resolver in mid-write: if it counts as
\* applied, what is ours on an adapter is what it remembers (the watch and the guard
\* decide by that alone); if not, nothing is left behind, neither a setting or a template
\* of ours nor a backup that a later enable would take for what the user had
\* (App.enabled, App.applied, restore_on_start, disable, set_settings).
AppIsRight ==
  Undisturbed /\ Idle =>
    IF enabled THEN \A s \in Slots : dns[s] \in Ours => dns[s] = Written(s[2])
    ELSE ~onDisk /\ mine = {} /\ \A s \in Slots : dns[s] \notin Ours

\* The adapters' DNS and the DoH templates are both lent and returned as
\* DnsLoan says: recorded before they are written, kept on record until they
\* are back (back_up, claim_templates, withdraw_templates, DnsBackup::delete).
AdapterLoan == INSTANCE DnsLoan WITH
  Items <- Slots, Values <- Priors, Nothing <- None,
  lent <- {s \in Slots : dns[s] \in Ours}, ledger <- rows

TemplateLoan == INSTANCE DnsLoan WITH
  Items <- Servers, Values <- {TRUE}, Nothing <- FALSE,
  lent <- mine, ledger <- [t \in Servers |-> t \in claims]

AdaptersAreLent == AdapterLoan!LoanSpec
TemplatesAreLent == TemplateLoan!LoanSpec

-----------------------------------------------------------------------------
(* Liveness *)

\* What may still come of failures, link changes and edits, and all there was.
Disturbances == {"fault", "link", "edit"}
Coming       == MapThenSumSet(LAMBDA k : left[k], Disturbances)
AllOfThem    == MapThenSumSet(LAMBDA k : Budget[k], Disturbances)

\* While protection is on and applied, an adapter that is automatic between two
\* operations is pointed at us again (guard), unless the service goes away,
\* protection goes off, or something fails or is changed by somebody else. A
\* re-apply that rolls back to what the backup says does not count.
DriftReclaimed ==
  \A a \in Adapters, n \in 0..AllOfThem :
    (phase = "up" /\ At("idle") /\ IsProtecting /\ a \in Drifted /\ Coming = n)
      ~> (phase # "up" \/ ~IsProtecting \/ dns[a, "v4"] \in Ours \/ Coming < n)

\* Protection that is on in the settings is applied in this run in the end,
\* although the enable at start-up failed (guard: "retrying").
AppliedInTheEnd ==
  (phase = "up" /\ mem.enabled)
    ~> (phase # "up" \/ ~mem.enabled \/ enabled \/ ~CanEnable)

\* A stop that was asked for is carried out, whatever requests are queued and
\* whatever pass is under way (async_main).
StopCompletes == (phase = "stopping") ~> (phase = "down")

\* A revert that was cut short is finished by a later start: while nothing
\* fails, a backup does not stay behind with protection off (restore_on_start).
RevertFinishes ==
  (onDisk /\ ~disk.enabled) ~> (~onDisk \/ disk.enabled \/ ~Undisturbed)

-----------------------------------------------------------------------------
(* What comments in the code say of it, and the code does not do *)

\* service.rs:299: "Restore before the process goes away ... a machine whose
\* adapters point at a stub that is not running has no DNS". While nothing fails
\* and every adapter is there, a stop leaves none of them on the loopback address,
\* whatever this run did before.
StopLeavesNoLoopback ==
  [][/\ phase = "stopping" /\ phase' = "leaving"
     /\ left["fault"] = Budget["fault"]
     /\ \A a \in Adapters : link[a] # "absent"
     => \A s \in Slots : dns[s] # Loopback]_vars
=============================================================================
