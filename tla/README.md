# A verification project for DNS-AI

DNS-AI switches a Windows machine's DNS over to an encrypted resolver and back.
It rewrites the DNS servers of the network adapters, either to a stub resolver
of its own on 127.0.0.1 (*stub* mode) or to the resolver's public addresses with
a DoH template for each in Windows (*native* mode). What the machine had before
goes into a backup file, and the whole program stands or falls with one promise:
whatever happens in between, the machine can be put back.

This directory holds TLA+ models of that program, TLC configurations that check
them on small instances, and proofs that TLAPS checks for all instances.
`PROJECT.json` maps every definition to the lines of the source it models and
lists the runs, mutants, hazards, disagreements and theorems.

## 1. The system

| part | source | state it keeps | operations |
|---|---|---|---|
| App | `client/src/app.rs` | settings in memory, `enabled` (applied in this run), `applied` (the addresses native mode wrote), the stub's handle | `enable` (stub, native), `disable`, `restore_on_start`, `guard`, `follow_endpoints`, `set_settings`, `on_stop`, `resume`, `release` |
| Backup | `core/src/backup.rs` | `backup.json`: one row per adapter with the DNS of both families and the adapter's DoH entries; `doh_added`, the templates to remove | `capture_preserving`, `save`, `load`, `delete` |
| Settings | `core/src/config.rs` | `settings.json`: enabled, mode, ipv6, include_vpn_adapters | `load`, `save` (in place) |
| Service | `client/src/service.rs` | running, stop requested; guard and watch tasks | start, stop, guard loop (15 s), address watch (600 s), install, upgrade, uninstall |
| Pipe | `client/src/pipe.rs`, `core/src/ipc.rs` | open sessions | accept, `dispatch` under the App's mutex |
| Window | `client/src/ui.rs`, `main.rs`, `elevate.rs`, `report.rs` | what is shown, the queue of jobs and the replies, whether it waits for an answer | open, poll, click, tray, hand over to an elevated copy, run a verb, quit |
| Window backend | `client/src/backend.rs` | pipe or a local App | choose, ask, shutdown |
| Adapters | `core/src/netif.rs` | Windows' own: DNS per adapter and family, DoH templates, gateways | select, read, write, add and remove a template |
| Endpoint cache | `core/src/endpoints.rs` | the cache file: live and retired addresses, manifest serial, rescue stamp; a copy in memory per process | learn, adopt, claim the rescue, candidates |
| Rescue | `core/src/endpoints/rescue.rs` | none | public lookup, published manifest (`endpoints.json`), probing |
| Stub | `core/src/stub.rs` | sockets, query tasks, failure counter, search flag, client channel | start, serve UDP and TCP, recover, stop |
| Wire format | `core/src/dnsmsg.rs` | none | build a query, read an answer |
| Installation | `client/src/setup.rs`, `service.rs`, `core/src/paths.rs` | program files, renamed-aside files, the service's registration, what Windows deletes at the next boot, a data folder per copy; the claim on being the window | install, upgrade, remove, install and uninstall the service, claim and release |

How they interact: the SCM starts and stops the service; a window asks it over
the pipe; the guard and the address watch call the same App; all of these take
one `tokio::sync::Mutex<App>`, so operations on the App never overlap. What does
overlap is everything else: the process can die between any two calls into
Windows, adapters come and go, users, VPN clients and drivers write DNS settings
of their own, the endpoint cache moves, and a second process (a window without
the service, `uninstall`) works on the same files and adapters.

What makes each part correct:

* **App and backup.** An adapter is never pointed at us unless the backup on
  disk can undo it; the backup never records our own addresses as somebody's
  choice and never forgets a row that is still owed; nobody else's setting is
  lost; the stub answers before it is pointed at, and templates are there before
  the addresses they are for; a template we added is removed again, and one we
  did not add is not; drift is taken back; a stop gives back; a revert that was
  cut short is finished.
* **Settings.** What is on disk after a crash never strands the machine.
* **Service and pipe.** A stop is carried out whatever is queued.
* **Endpoint cache and rescue.** A retired address stays known as ours; the
  manifest never goes back; rescues are rate limited but never shut off.
* **Stub.** Every query gets an answer or a SERVFAIL; a move of the resolver is
  followed; a stop returns soon, with the sockets free.
* **Installation.** A setup that fails leaves a program where one was; a service is
  registered against a file that is there; nothing that was left for the next boot
  deletes a program that was installed since; an uninstall gives the DNS back and a
  removal leaves nothing.
* **Window.** What it shows catches up with the truth; the result it shows is that
  of its own click; a click is not lost in a hand-over; it never holds the port a
  service wants.
* **Wire format.** A truncated or looping message ends the reading.

The hard behaviours - crashes between steps, partial failures and their
rollbacks, edits by others between a read and a write, stale flags, queued
sessions - are listed line by line under `hazards` in `PROJECT.json`.

## 2. Modules

| module | what it is |
|---|---|
| `Protection` | the service end to end: App, backup file, settings file, the process, the adapters and templates, everybody else |
| `DnsLoan` | the abstract specification: a ledger of what is lent and how it goes back |
| `Resolver` | the endpoint cache and its file, the rescue, the stub's warm-up and recovery, the address watch |
| `StubService` | the serving half of the stub: sockets, listeners, a task per query, the walk over the resolver's addresses, the stop |
| `Installation` | the program's files, the service's registration and process, the data folders, the verbs, the reboot |
| `Instances` | the windows of a session: claim, backend, worker, elevated verbs and the hand-over |
| `MCProtection`, `MCResolver`, `MCStubService`, `MCInstallation`, `MCInstances` | instances for TLC: profiles, address sets, budgets |
| `ProtectionProofs` | `TypeOK`, `Recoverable` and `NothingLost`, for every instance |
| `AppProofs` | the other safety properties of `Protection`, for every instance: orders of writes, what the App may rely on, what off leaves behind, that operations end |
| `LoanProofs` | `Protection` implements `DnsLoan` for the adapters and for the templates, and `TemplatesClaimed` |
| `DnsLoanProofs` | what `DnsLoan` promises |
| `ResolverProofs` | the type invariant and the four safety properties of `Resolver`, for every instance |
| `StubServiceProofs` | the type invariant and the three safety properties of `StubService`, and that its walk passes no address by, for every instance |
| `InstallationProofs` | the type invariant and six safety properties of `Installation`, for every instance |
| `InstancesProofs` | the type invariant and the two safety properties of `Instances`, for every instance |

`Protection` and `Resolver` meet in one place: what `Resolver` learns is what
`Learn` hands to `Protection` as a move of the address list, at any time. Each
leaves the other's half open - `Protection` allows every list at every moment,
`Resolver` does not look at adapters - so what is shown of one does not depend on
the other. The three others meet them in the same way: `StubService` is the stub
that comes and goes in `Protection` and whose failures are `QueryFails` in
`Resolver`; `Installation` reduces a service to the order in which it backs up,
writes and restores; `Instances` reduces the App to what it says and the port it
holds, and a verb, many steps of `Installation`, to one. In `Protection` the stub is
the set of families whose port it bound.

### Protection

Operations hold the mutex, so one is under way at a time (`job`). They are not
atomic: each effect another party can see - one `netsh` call, one file write,
the stub coming up or going away - is one step, and `job.pc` says which is next.
Any of `Crash`, `StopRequest`, `LinkChange`, `OthersWrite`, `OthersAddTemplate`
and `Learn` may come between two steps. The locals of the Rust functions that
live across such steps are fields of `job`: the adapters still to write (`todo`),
the addresses read at the start of a native enable (`aim`), whether a backup
existed (`had`), which templates were missing and claimed.

| code | actions |
|---|---|
| `dispatch`: Enable, Disable, SetSettings | `Enable`, `Disable`, `SetSettings` begin the job |
| `guard`, `follow_endpoints` | `Guard`, `FollowEndpoints` begin it |
| `enable`, `enable_stub` | `EnsureStub`, `BackUp`, `WriteAdapter`, `Applied` |
| `enable_native`, `claim_templates`, `withdraw_templates` | `RefreshEndpoints`, `BackUp`, `Claim`, `AddTemplate`, `TemplatesAdded`, `WithdrawTemplate`, `WithdrawClaims`, `WriteAdapter`, `Applied` |
| `restore_from_backup` | `LoadBackup`, `RestoreSlot`, `RemoveTemplate`, `Restored`; the same steps serve `disable`, `on_stop`, `restore_on_start` and the rollback in `write_adapters`, and `AfterRestore` says where each goes on |
| `disable`, `on_stop` | `StopStub`, `TurnOff`, `Forget` |
| `set_settings` | `SetSettings`, then a whole disable, `SaveSettings`, a whole enable |
| `run_as_service`, `async_main` | `Start`, `StopRequest`, `OnStop`, `Exit` |

Data. A DNS setting is what the code tells apart: automatic (`Dhcp`), a list
somebody chose (`Lists`), the loopback address, "static, none" (`Empty`: what an
enable with IPv6 off writes), or a set of resolver addresses (`Sets`, whose
`Members` are servers with a template each). Each adapter has two slots, one per
family. `Captured` is what the code reads back: "static, none" looks like DHCP in
the registry, and `not_ours` replaces our own addresses by DHCP. A row of the
backup is one value per slot; `disk` is the settings file. `stub` is the set of
families whose port the stub bound: an enable keeps a stub it finds, whatever it was
started for, and a `::1` that cannot be bound is only a warning.

Failures. Every call that the code checks may fail: the stub's bind, the backup
and settings saves, listing, adding and removing a template, each adapter write; and
so may the removal of the backup file, which the code does not check. An absent adapter
refuses writes. A list of several servers is written by one `netsh` call each, so a
restore that fails, or a process that dies in it, may leave only the first of them:
`Heads` gives what may be left of each list (`HalfWritten`), a setting that is neither
ours nor the one on record. `Settings::save` truncates in place: a save that fails, and
a process that dies in one, may leave a file that loads as off (`SaveFails`); the backup
is saved by rename, so it is either old or new.

History variables, read by properties only: `orig` (what somebody else last chose
for a slot), `touched` (chosen after the row for it was taken), `mine` (templates
there because this program added them), `left` (what remains of the budgets).

Definitions commented "Seeded fault" are not reachable from `Spec`: each is a
plausible bug in one operation (a dropped guard, a reset left out, one reading
taken over another), and the mutants in `PROJECT.json` put it in the place of the
correct definition to show that the property notices.

### DnsLoan

Items are lent only while the ledger has an entry for them; an entry does not
change while it stands; it is struck out only for an item that is not lent.
`Protection` implements it twice: the adapters' slots with the backup's rows, and
the templates with `doh_added`.

### Resolver

How the program keeps finding a resolver that moves. Five tasks use the cache,
and `task[t].pc` says where each of them awaits: `warm` (the stub's first query
for the resolver's own name), `search` (`Recovery::search`), `watch` (the service's
`watch_endpoints`), and `warm0` and `search0`, the first two of a stub that has been
replaced: they are detached, have a search flag and a channel of their own and go on
without it (`Orphans`), but the cache they adopt into is everybody's. A task takes the
cache's lock only to read or to adopt, so an adoption with its store is one step and
everything between two awaits may be overtaken.

| code | actions |
|---|---|
| `stub::start`, `refresh_endpoints` | `Start` reads the file and builds the clients; `SelfAnswered`, `SelfSilent`, `Learn` |
| `Recovery` | `QueryAnswered`, `QueryFails`, `QueryLost` (`Failure`), `Woken`, `Build`, `Send`, `Release` |
| `App::disable` and `enable`, `set_settings` | `Restart`: the stub stops and another starts in the same process |
| `rescue` | `Refused`, `Granted` (`claim_rescue`), then `LookedUp`, `AdoptLookup`, `Fetched`, `NotFetched` (`relax_cooldown`), `AdoptManifest` |
| `watch_endpoints` | `WatchEndpoints`, `SelfAnswered`, `SelfSilent`, `CutOff` (the rescue's budget runs out), `Probe` |
| `store`, `load` | `Stored`, `Keep`: a write may fail and leaves the old file; `Start` and `Crash` |
| outside | `Move`, `Publish`, `NetChange`, `Tick`, `ClockBack` |

Data. An address list is a set of IPv4 addresses, because `same_set` is how the
code tells news from none; the retired list is a sequence, because the oldest
entries fall off it. Time exists only as the age of the rescue stamp, in ticks,
where every age from the cooldown on is the same, and a negative age is a stamp in
the future. All calls of a task have time-outs of seconds and the cooldown is half
an hour, so a tick comes only between tasks. Building a client does not fail. A lookup
asks the list its clients were built for (`Asking`), whatever is adopted meanwhile. What
is fetched is the published file or an old copy of it, as a mirror may serve. The
probe is free to find any known address dead while another answers; the list of
suspects it keeps is not modelled. A stub is stopped and its successor started in one
step, and only when the tasks of the stub before it are over (`Alone`, a bound: two
generations of tasks are there, not three).

`owed` is a history variable: how many ticks must pass before another rescue may
be granted. A write that failed, or a clock that jumped, owes nothing: the code
promises a limit that is kept on disk by a clock that runs.

### StubService

| code | actions |
|---|---|
| `start`, `bind_pair` | `Start`, which may find a socket taken (`OtherProgram`) |
| `serve_udp`, `serve_tcp`, `serve_tcp_conn` | `Receive`, `Accept`, `Length`, `Body`, `HangsUp`, `Notice`, `NoticeIdle` |
| `Upstream::forward` | `Answered`, `TriesNext`, `GivesUp`; `Rebuild` is `Recovery::rebuild` under it |
| `StubHandle::stop`, `drain` | `Stop`, `Drain`, `Join`, `Abandon`, `Dropped` |
| outside | `Tick`, `Stall`, `Network` |

A task is where it waits: for the length of a TCP message, for its body, for an
address of the resolver. `told` is what became of a client's last query. Time is
counted only during a stop, in graces (`STOP_GRACE`); it does not pass over something
that is due, except by `Stall`, a machine that stands still, which every promise about
time has to except. What a message says is not modelled, only whether its header can
be echoed (`Garbled`: no SERVFAIL is possible).

### Installation

| code | actions |
|---|---|
| `ensure_installed` | `Halt` (`stop_for_upgrade`), `Wait`, `MoveAside`, `CopyFile`, `Clean` |
| `install_program`, `install_at` | `Shell`, `Register`, `StartService` |
| `uninstall` | `Halt`, `Wait`, `DeleteService`, `RestoreBackup`, `Forget` |
| `remove_program` | the steps of `uninstall`, then `RemoveData`, `RemoveFile`, `RemoveFolder`, `Schedule` |
| `control` | `Halt`, `Wait`, `StartService` |
| `verb` | `Begin`, `SaveReport`, the end |
| the service | `SvcStart`, `Enable`, `BackUp`, `WriteAdapters`, `Disable`, `SetAutostart`, `OnStop`, `Kill` |
| outside | `VerbDies`, `OpenWindow`, `CloseWindow`, `Reboot`, `BootDelete`, `BootDone` |

A file is its path; `image` says which file each process runs, because Windows
renames a running image but does not delete or overwrite it, and the process goes
with the new name. `pending` is Windows' list of deletions for the next boot, which
nothing takes an entry off and which a folder survives if it is not empty at its
turn. `Begin` starts a verb from the installed program or from a copy of it anywhere
else, and from there `Home` follows: the copy has its settings, backup and report
beside itself, the installed program in the shared folder. One verb runs at a time.
Two history variables mark what no verb can make good: `refused` (Windows would not
rename a program file) and `hurried` (a verb went on past a service that was still
there: its stop was refused, took longer than thirty seconds, the service could not be
opened, or the SCM started it between the question and the deletion). A third mark is
part of the verb, `silent`: one of the calls failed whose result the code drops, the
removal of the backup or of a data file, a folder that cannot be read, a file that could
not be put on the list for the next boot. The properties say where they except them.
A pass of the service that writes the adapters may fail and roll back, as far as that
goes, and its revert may leave adapters or the backup behind (`Reverted`).

### Instances

| code | actions |
|---|---|
| `main`, `claim_instance` | `Launch` |
| `ui::run`, `TrayApp::new`, `Backend::choose`, `App::resume` | `Open` (`Chosen`); `Exit` |
| `drain_events` | `Drain` (`Seen`), `Quit` |
| `draw_toggle`, `draw_service_trouble`, `draw_service`, the tray | `Click`, `TrayClick` |
| `spawn_worker`, `ask` | `Poll`, `AskStatus`, `Unheard`, `AskEnable`, `AskDisable` |
| `Job::Elevate` | `LetGo`, `Declined`, `HandOver` |
| `Job::Elevated`, `elevated`, `ActionReport` | `Prepare`, `Prompted`, `Waited` (`Loaded`), `ChooseAgain`, `Retry` |
| verbs and the service | `RunVerb`, `EndVerb`, `OtherVerb`, `ServiceStarts`, `ServiceGuard`, `ServiceDies` |

A window is a record: where its process is (`life`), its rights, its backend, the
jobs its worker has yet to take, the replies its drawing thread has yet to read, and
what is on screen. Only what steers a click is modelled of the screen: on, off,
silent or nothing yet, and the service's state when it is silent. A job is one step
where the worker holds nothing anybody else can change, and several where it waits:
for a prompt, for a verb, for a service that is starting. A turning off that finds no
backup to read, and says so, has turned off all the same (`AskDisable`), and a verb that
fails may have come some way: a service registered but not started, stopped but neither
removed nor started again, or not opened at all and only the adapters restored
(`Failing`). The drawing thread takes one reply at a time, because the worker sends them
one at a time and a click may come between two of them.

## 3. Runs

| run | instance | shows |
|---|---|---|
| `protection_stub` | two adapters, one a VPN; profiles with and without VPN adapters; 1 edit, 1 crash, 1 link change, 1 request | `TypeOK`, `Recoverable`, `StubFirst`, `StopGivesBack`, `AdaptersAreLent` |
| `protection_modes` | one adapter, stub and native profiles, two address sets sharing a server, any templates there at the start; 2 faults, 1 crash, 1 move, 2 requests | `TemplatesClaimed`, `EnabledBacked`, `AppIsRight`, `TemplatesFirst`, `OperationsEnd`, `TemplatesAreLent` |
| `protection_live` | one adapter, a list and what is left of it half written, Windows without a DoH client; 1 edit, 1 fault, 1 crash, 1 link change, 1 request, with fairness | `NothingLost`, `DriftReclaimed`, `AppliedInTheEnd`, `StopCompletes`, `RevertFinishes` |
| `stop_leaves_loopback` | disagreement 1 | `StopLeavesNoLoopback` violated |
| `resolver_service` | the process of the service, address watch on; three addresses, room for two retired, so that the list overflows; any 3 of 2 moves, 1 publication, 1 network change, 1 fault, 1 crash, 1 stub replaced | `TypeOK`, `FlagMeansSearch`, `RescueSpaced`, `ManifestForward`, `NothingForgotten` |
| `resolver_window` | a window's App, no watch, two addresses; any 4 of 2 moves, 1 publication, 1 network change, 1 fault, 1 crash, 1 clock jump, 1 stub replaced, with fairness | `LoneStubFollows` |
| `stub_never_follows` | disagreement 2, with the watch on and no stub replaced | `StubFollowsMove` violated |
| `stub_service` | a UDP and a TCP client, four addresses of which a query tries three, another program on one socket; no bound on queries, starts, stops, stalls | `TypeOK`, `StoppedMeansFree`, `StopIsPrompt`, `SilenceIsExcused`, `QueriesEnd`, `WalkFinds` |
| `installation` | installed or not; 2 verbs, 1 window, 1 request, 1 fault, 1 wait cut short, 1 crash, 1 reboot | `TypeOK`, `QueueSpares`, `ProgramStays`, `LentHasBackup`, `UninstallGivesBack`, `SetupRegistersAFile`, `RemovalIsComplete` |
| `uninstall_restores` | disagreement 3 | `UninstallRestores` violated |
| `instances` | two windows; any 3 of 1 launch, 2 clicks, 1 hand-over, 1 verb by hand, 1 fault, 1 wait cut short, 1 crash | `TypeOK`, `ReportIsMine`, `OneResolver` |
| `instances_live` | the same, any 2 of them, with fairness | `CatchesUp`, `ClickSurvives` |

What the safety properties say, beyond their types:

* `Recoverable`: while any slot holds a setting of ours, the backup is on disk
  and its row for that slot is somebody's setting, not ours.
* `NothingLost`: where nobody wrote behind the backup's back, rows and adapters
  hold what was last chosen there, or the adapter holds ours. An adapter may hold less
  than the list that was chosen only while the backup is there with the whole of it, so
  that a later revert can finish.
* `StubFirst`, `TemplatesFirst`: the order of writes on every path into enable. The stub
  of `StubFirst` is its listener on 127.0.0.1, for the settings of both families; that
  `::1` has one of its own before the IPv6 side is pointed there is not so (section 4).
* `StopGivesBack`: a stop of an applied run without failures ends with no
  adapter on a setting of ours.
* `TemplatesClaimed`: a template we added is claimed on disk while it is there.
* `EnabledBacked`: `App.enabled` and `App.applied` do not outlive the stub or the
  addresses they stand for.
* `AppIsRight`: between operations what is ours on an adapter is what the App counts
  as applied, which is all that the guard and the watch go by; and when nothing is
  applied there is no setting, no template and no backup of ours left. It holds for as
  long as nothing failed and no adapter went away (`Undisturbed`), over crashes, changes
  of mode and moves of the resolver; with a failure it does not, by design: a rollback
  leaves `enabled` as it was, and a revert with warnings keeps the backup. What holds
  with failures too is `Recoverable`, `NothingLost`, `EnabledBacked`.
* `OperationsEnd`: every step of an operation takes it nearer its end, by its place or
  by what it has yet to visit, so none holds the mutex for ever. It is the part of
  `StopCompletes` that needs no fairness.
* `AdaptersAreLent`, `TemplatesAreLent`: the refinements.
* `ManifestForward`: the manifest a process goes by never goes back, whichever of
  two tasks adopts last and whatever copy a mirror serves.
* `NothingForgotten`: an address that was ours stays known as ours (and so is never
  backed up as somebody's choice), whether a lookup, the watch or a manifest replaced
  it; only a full list of the retired forgets, and then the longest retired first.
* `RescueSpaced`: two rescues are a cooldown apart, over both tasks, a crash and a
  restart, if the stamp reached the disk and the clock runs forward.
* `FlagMeansSearch`: the flag that keeps a second search out is up exactly while one
  runs; otherwise a stub would search twice or never again.
* `StoppedMeansFree`, `StopIsPrompt`: a stop comes back after one grace at most, with
  no socket bound and no task left, whatever clients do in the middle of a message.
* `SilenceIsExcused`: who asks is told, an answer or SERVFAIL.
* `QueueSpares`: the installed program's path is never on the list for the next boot.
* `ProgramStays`, `SetupRegistersAFile`: a setup that fails at any step leaves a
  program, and one that succeeds a service that can start.
* `LentHasBackup`, `UninstallGivesBack`: over start, crash, upgrade and uninstall the
  adapters are never on our setting without a backup, and an uninstall without a
  warning that did not go past a service has used it.
* `RemovalIsComplete`: after a removal and a reboot no file and no folder of the program
  is left, and not the data folder the verb looks in, unless something failed that it
  does not look at. A removal run from a copy leaves the shared data folder, with its
  settings, although setup.rs:435 speaks of `%ProgramData%\DNS-AI`.
* `ReportIsMine`: the report on screen is of the verb the click was for, even when an
  earlier one, given up on, writes its own late.
* `OneResolver`: a window gives up its port before a service wants it.

And the liveness properties: drift is taken back while nothing fails, a failed start-up
enable is retried until it applies, a stop completes, an interrupted revert is finished
(`protection_live`), and a stub whose addresses are all dead finds the resolver
again where no watch runs, unless it is replaced with a task of its own under way
(`resolver_window`); a query ends, and with one address answering for good the
queries find it, although every one of them moves the place where the others begin
(`stub_service`: `QueriesEnd`, `WalkFinds`); what a window shows catches up with what
its half of the program would answer, and a click that took a hand-over is carried
out (`instances_live`).

**Bounds.** The only unbounded things are how often the environment acts, and
`Budget` bounds each kind: edits by others, failing calls, crashes, link changes,
moves of the resolver, requests. Guard passes, watch passes, stops and restarts
are not bounded. Two adapters are what it takes for one to be rolled back because
of the other, for the selection to exclude one the backup has, and for drift on
one to touch the other; two address sets sharing a server are what it takes for a
move to add one template while another stays; a list and one shorter list are what it
takes for a restore to be cut in the middle (`protection_live`); two requests are what
it takes to enable and then switch, after a crash or a failure in between. Faults and crashes
strike at every step, so one of each reaches every partial state, and the two
faults of `protection_modes` are a failed addition and a failed withdrawal after
it. Every step of the crashed or failed operation is followed by a restart, guard
passes or a stop, without bound. In `protection_live` the adapter is one: its
promises speak of one adapter at a time and of the service. Deadlock is checked in every run of `Protection`, `Resolver` and
`StubService`; in `Installation` and `Instances` a machine on which everybody has
finished and nothing more happens has really stopped.

In `resolver_window` two addresses, one of them compiled in, are enough for a list to be
left and returned to. In `resolver_service` there are three, and a retired list of two
(`MaxRetired`): it takes the first with room to spare, fills with the second, and a third
makes it drop one of two, where it matters which.
`Tries` of one lets a query miss an address that answers behind one that does not;
`Threshold` 2 makes a single failure and a wrap-around different. A cooldown of two
ticks and a short one of one tell "full", "relaxed" and "over" apart; the clock may jump
back by one. Each kind of event has its bound and all of them together one of three or
four (`any`): it takes at most three to make any two tasks meet over a change (a move, a
fault, a crash, a stub replaced or a stale copy). Queries, watch passes, ticks and starts
are not bounded.

In `stub_service` one client for each transport is enough for two listeners to drain
on their own and for two queries to move `preferred` under each other. Four addresses
with three tries are what it takes for one query to miss the address that answers and
a later one to find it. Only the IPv4 pair of sockets is there; the second family is
covered by the proofs, which hold for any. In `installation` two verbs are a setup or
a removal and what comes after it (or a reboot between them); a window holds a program
file in use; three aside names are as many as processes can hold files. One fault and
one crash strike at every step of either verb. In `instances` two windows are a window
and the copy it hands over to, or one opened next to it; three events are a click, the
verb it starts and what disturbs it.

**Fairness.** `WF(Work)`: a task that holds the mutex runs; no step of an
operation waits for another task. `WF(Guard)`, `WF(FollowEndpoints)`: loops with a
timer. `SF(OnStop)`: the mutex is free again and again rather than continuously,
and tokio's mutex is first come, first served, so `on_stop` gets its turn however
many sessions and passes queue. `WF(Exit)`: `async_main` returns. `WF(Start)`: the
service is installed for automatic start with restart on failure. Nothing is
assumed of requests, stops, edits, links or moves.

In `Resolver`: `WF` of each task's next step, of `Probe` and of `Release` (every
await has a time-out), of `WatchEndpoints` (a timer) and `Start` (as above, or the
user who opens the window again). `WF(QueryFails)`: a machine goes on asking for
names. `SF(Tick)`: time passes, though a tick waits for the tasks to be idle; without
it a query could start a search at every moment and the cooldown would never end,
while in the program half an hour passes in any case.

In `StubService`: `WF` of a query's next step, since every try upstream has a
time-out. Nothing is assumed of clients, stops or the network. In `Instances`: `WF` of
a window's worker and of its drawing thread, of a verb that runs, of the SCM's start
and of the guard. Nobody has to click or to answer a prompt. `Installation` states
safety only.

## 4. Disagreements between comments and code

Each is a run that ends in a violation; `findings` in `PROJECT.json` quotes the
sentence and names the lines.

1. `StopLeavesNoLoopback` - "a machine whose adapters point at a stub that is not
   running has no DNS" (service.rs:299). `on_stop` restores only `if self.enabled`;
   after a crash and a start-up enable that failed (no gateway yet), the adapters
   still point at the stub and a stop leaves them so.
2. `StubFollowsMove` - "the stub follows a move on its own" (app.rs:32).
   `Recovery::search` rebuilds the stub's clients only if its own search changed the
   list. In the service the address watch may have learnt the move first; the search
   then finds the list as it is, and the clients stay aimed at addresses that do not
   answer until a restart. What is left of the sentence is
   `LoneStubFollows`: no watch, and no stub replaced with its tasks under way.
3. `UninstallRestores` - "makes sure the machine's DNS is back where it was"
   (service.rs:583). The backup is looked for in the data folder of the copy that runs
   the verb (`choose_data_dir`). After a service that died with protection applied, an
   uninstall from a downloaded copy finds no backup beside itself, deletes the service
   and reports success; the adapters stay on the loopback address. Run by the
   installed program, or with the backup in its folder, it restores
   (`UninstallGivesBack`, proved).

Met on the way and not made into runs, because each follows from a function or two once
it is pointed at:

* `ensure_stub` keeps any stub it finds, whatever families it was started for
  (app.rs:499). With IPv6 off, an enable that binds 127.0.0.1 and then finds no gateway
  leaves its stub running; turning IPv6 on restarts nothing, because `enabled` is false;
  the next enable points the IPv6 side at `::1`, where nothing listens. No call fails on
  the way. A `::1` that cannot be bound (stub.rs:328, a warning) has the same end.
* A re-apply that fails once rolls back to the list in the backup and leaves `enabled`
  true; the guard looks for automatic adapters only, finds none, and protection stays off
  (app.rs:359, 405), although "protection is on in the settings, so the adapters should
  point at us" (app.rs:387). `DriftReclaimed` is what holds: nothing fails.
* A stub that is replaced while its search is under way, by `disable` and `enable` or a
  change of settings, leaves that search behind: a detached task, it adopts the move and
  rebuilds the clients of the stub that is gone, and the new stub's searches find nothing
  new (app.rs:508, stub.rs:159). `LoneStubFollows` excuses it (`Orphans`).
* Whatever `open_service` fails of is taken for a service that is not registered
  (service.rs:623): the stop and the deletion are skipped, the adapters restored, and the
  verb reports success with the service still there.
* Drift on one adapter makes `guard` call `enable`, which rewrites every chosen
  adapter, one with a list somebody chose included (app.rs:424; the comment at
  app.rs:396 says a list is never re-written).
* A claim in `doh_added` survives a stop although its template does not; a template
  somebody else then registers for that address is removed by the next revert
  (app.rs:746, 203).
* An address that was left and is in use again is still on the retired list, so
  `effective_v4` passes it over (endpoints.rs:390).
* `relax_cooldown` is the last step of a rescue; the watch and `enable` drop a rescue
  after eight seconds, before an offline machine gets there (service.rs:364).
* `set_settings` turns protection off on disk and then on again; if the second half
  fails it stays off ("the service re-applies", ipc.rs:38).
* A failing `set_start_type` is only logged, and the settings then say what the service
  manager does not do (service.rs:129).
* An uninstall that finds the service stopped does not wait, and the SCM may start it
  before the deletion: it then applies protection behind the verb's back (`hurried`).
* After a hand-over nobody holds the claim: the window that let it go has ended, and
  the elevated copy never claims (setup.rs:702, main.rs:88). A later launch opens a
  second window.
* Any reply, also to a poll, ends a window's wait for the answer to its click
  (ui.rs:508); the job stays queued, and a second click queues another.
* The body of a TCP message is read without a time-out (stub.rs:540); the stop cuts it.

## 5. Proofs

The theorems hold for every number of adapters, lists, servers, address sets and
profiles and every budget. They assume what the constants mean
(`ConfigAssumption`: VPN adapters are adapters, our settings and other people's
are disjoint, and the loopback address, "static, none" and the address sets differ; `ProfileAssumption`; `BudgetAssumption`; for `Resolver`: `AddressAssumption`,
compiled-in addresses exist, are addresses and are finitely many;
`TimingAssumption`; `EventAssumption`; for `StubService`: `StubAssumption`, there are
addresses and tries, and the outer limit of a stop is more than one grace; for
`Installation`: `AsideAssumption`, aside names are names and differ, and
`ProcsAssumption`, there are as many of them as processes; for `Instances`:
`WindowAssumption`, the first window is one and none is called "nobody" or "service"), nothing about fairness or the number of
events. TLC evaluates the assumptions in every run.

* `TypeCorrect`: `Spec => []TypeOK`, inductive as it stands once the profile and
  constant assumptions are given.
* `RecoverableAlways`: `Spec => []Recoverable`. Not inductive: an adapter is
  written some steps after its row was saved, and the backup is deleted some steps
  after the last slot was restored. The strengthening `IInv` adds what holds in
  between: a native job past the backup has an address set to write (`Aimed`);
  every slot still to be written has a row in the backup on disk (`Listed`); an
  enable that made the backup itself and has not reached its first write finds
  nothing of ours, so it may delete that backup again (`Untaken`); during a restore
  every slot that still holds ours is on the to-do list or the result is no longer
  "ok" (`Returning`); and an operation past its restore with result "ok" has nothing
  of ours left (`Returned`), which is what lets `Forget` delete the backup.
* `TemplatesClaimedAlways`: `Spec => []TemplatesClaimed`, by the same argument for
  templates: what is yet to be added is claimed (`Adding`); a claim about to be
  withdrawn has no template left but those still to be removed (`Withdrawing`); the
  same of a restore (`Removing`, `Removed`); and an enable that made its own backup
  finds no template of ours (`Fresh`).
* `NothingIsLost`: `Spec => []NothingLost`, from the same `IInv`, of which it is a
  conjunct. What the last three parts say of a slot with a setting of ours they say of
  one that is `Owed` anything: a list written only in part is neither ours nor what was
  chosen, and a restore that left one is no longer "ok".
* In `AppProofs`, on a second invariant, `Backed`, the theorems `EnabledIsBacked`,
  `StubComesFirst` and `TemplatesComeFirst`. `Backed` says what an enable under way may
  count on: its steps go with the mode that is set and the stub is up by then (`Fits`),
  what is missing of its templates is on its list (`Covered`), nothing that is forgotten
  or changed is applied (`Unapplied`), a service that is down has neither (`Rest`).
  `StopHandsBack` needs besides (`Steady`) that budgets only fall and that links are up
  until a link event: `StopGivesBack` recognises a stop without failures by the budgets
  that were left when it began.
* `AppKnows`: `Spec => []AppIsRight`. The property speaks of the moments between
  operations, so its invariant has to follow every operation through: `Filed` (the
  settings file says what the App holds, and what it has enabled can be applied and is,
  once the start-up enable has ended), `Routed` (where each kind of operation can be; in
  particular no enable is rolled back, and one past its backup writes exactly the
  selected adapters) and, for each slot that holds a setting of ours, `Placed`: the
  operation under way still has to restore it, has written it, or leaves it as the App
  remembers it. Together they are `Placement`, inductive beside `IInv`, `Backed` and
  `Steady` for as long as nothing fails; `Leftover` is the same for the backup: it is
  there only with an operation that deals with it or for what is applied. The part
  about templates follows from `TemplatesClaimedAlways`.
* `OperationsComeToAnEnd`: by a measure, the place of the step (`Height`) and below it
  the sets `todo` and `adding`, for every step of `Work` (`Nearer`). It needs types only.
* `AdaptersImplementLoan`: `Spec => AdaptersAreLent`. Every step of `Protection` is
  a step of `DnsLoan` or a stutter, given `IInv`: `BackUp` records, `WriteAdapter`
  lends, `RestoreSlot` and other people's edits return, `Forget` strikes out.
* `TemplatesImplementLoan`: `Spec => TemplatesAreLent`, the second refinement, on the
  invariant of `TemplatesClaimedAlways`: a template is lent by `AddTemplate`, its entry
  made by `Claim` and struck out by `WithdrawClaims` or `Forget`, by then without a template.
* `LoanCovered`: `DnsLoan` keeps an entry for everything lent, so the refinement
  carries a guarantee of its own.
* In `ResolverProofs`, for every set of addresses, threshold, cooldown and length of
  the retired list: `TypeCorrect`, `FlagMeansSearchAlways`, `ManifestForwardAlways`,
  `NothingForgottenAlways`, `RescueSpacedAlways`. One invariant `IInv` carries all of
  them. `Places` says which steps a task of each kind can be at, without which one
  could take a step that belongs to another; `Quiet`, that a process that is down has
  no tasks; with `FlagMeansSearch` they make up `Control`. `Owing` relates
  the history variable to the file: what is still owed is no more than what the
  stamp on disk has yet to age, and the copy in memory has the same stamp.
  `NothingForgotten` rests on `remember_retired`: each adoption moves addresses from the
  list in use to the end of the retired, and what is cut off is the front of a list that
  is full.
* In `StubServiceProofs`, for every set of clients, addresses, tries, socket families
  and graces: `StubTypeOK`, `StopFrees`, `StopTakesOneGrace`, `SilenceOnlyExcused`, `WalksMoveOn`. The
  invariant behind them says which sockets can still have tasks at each point of a stop
  and that the clock has not passed the grace while anything is due. `WalksMoveOn` is
  arithmetic: a walk meets no route twice before it is all the way round
  (`WalkIsFresh`), and has then met every one (`WalkIsFull`), so no query asks an address
  twice and one that fails leaves the next an address it has not asked. It is the safety
  core of `WalkFinds`.
* In `InstallationProofs`, for every set of aside names, windows and budgets:
  `InstallTypeOK`, `BootSparesProgram`, `SetupKeepsProgram`, `BackupOutlivesLoan`,
  `UninstallUndoes`, `SetupRegisters`, `RemovalLeavesNothing`. Two invariants carry them;
  `SetupRegisters` needs besides that the file a setup has decided to register is there
  (`PlacedIsThere`), `RemovalLeavesNothing` what a removal has behind it (`RemovalInv`).
  `DiskInv` is about files: which steps a
  verb of each kind can be at (`VerbSteps`, `AtRest`), that a boot has no processes
  (`BootAlone`), that what is queued is no backup (`QueueNamesNoBackup`), that a removal
  works off files that exist (`TodoIsThere`), and where a setup has put the program by
  each step (`SetupPlaces`). That a running program can always be moved aside, and so is
  never queued under its own name, is a counting argument (`RoomAside`): no more aside
  names are busy than there are other processes. `DnsInv` is about the loan: only a
  registered service runs, it backs up before it writes, a verb that waited for it to
  go is alone from then on (`Alone`, `Late`), and an uninstall past its restore has undone
  it (`Undone`, `StaysUndone`): the adapters are back, and the backup is gone unless its
  removal failed unnoticed (`GivenBack`). `RemovalInv` is about order: every program file is yet to
  be worked off or queued (`Collected`), a folder comes on the list after all that is in
  it (`InTurn`), and the settings were reset before their folder was queued (`Unset`); it
  holds from the removal's own steps to the end of the next boot, because without a
  registered service nobody else creates a file, and it says nothing of a removal in which
  a call failed unnoticed (`silent`) or that went past a service (`hurried`).
* In `InstancesProofs`, for every set of windows, number of retries and budget:
  `InstancesTypeOK`, `ReportAnswersClick`, `OneResolverAlways`. `ReportInv` is about the
  numbers clicks carry: two windows that wait have different ones and nobody has one
  that was not given out (`Numbered`), so a verb or a report with the number a window
  waits for is of the job it asked for (`Answering`), however late another verb writes
  its own. `PortInv` is about who has what: a process that is gone has nothing
  (`Vacant`), a window has no backend from letting go of its App until it chooses again
  (`Between`), the port is held by the App of a window that is there (`Held`), and
  undisturbed there is one window, which waits while a verb of its runs (`Single`).

Every safety property of the passing runs is proved. Model-checked only: the liveness
properties (`protection_live`, `resolver_window`, `instances_live`, `QueriesEnd`,
`WalkFinds`), which are out of the prover's reach, as are `ENABLED` and induction over
data.

## 6. Not modelled

* App and backup: the adapters' own DoH entries (`merge_doh`, `clean_doh`,
  `restore_doh_entries`), which are written and returned beside the server lists, with
  failures that only warn; a backup file edited by hand (`sanitised`).
* Settings: start-minimised and the window's own autostart key.
* Endpoint cache: IPv6, order and truncation of lists, `sanitised`, suspects, two
  processes over one file, `rescue_forced`.
* Stub: statistics, the cut of a UDP reply that does not fit, and an HTTPS client that
  cannot be built (stub.rs:175 keeps the old ones).
* Installation: the show signal (a launch that finds the claim taken wakes the window
  and exits), shortcut and registry contents, which are one step each; two verbs at
  the same time; the fallback to the shared folder when the one beside a copy cannot be
  written (paths.rs:43); an open portable window that writes into a data folder after a
  removal.
* Window: drawing, and the settings switches, whose request is `SetSettings` in
  `Protection`; a window that cannot start its App; the service's registration against a
  file that is gone, which changes what a button says; a service marked for deletion that
  lives on, which `Installation` has.
* The wire format: functions from bytes to values, without state, with unit tests of
  their own; what they return reaches `Resolver` as any set of addresses. Whether
  compression loops end is a question about a recursive reading of bytes that unit
  tests answer (`a_pointer_cycle_does_not_hang`).
* The diagnostic reports (`probe`, `test-doh`, `test-update`), logging, COM and the
  setup scripts, which keep no state that outlives a call; the Windows API itself,
  which is taken as the code uses it.

## 7. Plan

In the order of importance.

1. Two processes over one cache file as an extension of `Resolver` (there the serial on
   disk does go back); order, truncation and the IPv6 side of the lists.
2. Adapter DoH entries as an extension of the backup's rows.
3. An abstract specification of a verb that `Installation` implements step by step and
   `Instances` uses as one step.
