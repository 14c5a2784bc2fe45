------------------------------ MODULE Resolver ------------------------------
(***************************************************************************)
(* How this program keeps finding its resolver: the endpoint cache of      *)
(* core/src/endpoints.rs, the rescue of endpoints/rescue.rs, and their     *)
(* users - the stub's warm-up and recovery (core/src/stub.rs) and the      *)
(* address watch of the service (client/src/service.rs).                   *)
(*                                                                         *)
(* The cache is a copy in the memory of the process and one file; a task   *)
(* takes the copy's lock only to read it or to adopt an answer, never      *)
(* across an await. So an adoption is one step, and between an answer and  *)
(* its adoption, or a rebuild's reading of the list and its sending of the *)
(* clients, any other task may run.                                        *)
(*                                                                         *)
(* Address lists are sets (same_set: order is not a change) of IPv4        *)
(* addresses; their order, the IPv6 side and the filters of sanitised are  *)
(* left out. Time is the age of the rescue stamp, in ticks.                *)
(***************************************************************************)
EXTENDS Integers, Sequences, FiniteSets

CONSTANTS
  Addrs,       \* addresses the resolver may be at
  BuiltIn,     \* RESOLVER_IPS
  MaxRetired,  \* MAX_RETIRED
  Threshold,   \* FAILURES_BEFORE_RESCUE
  Tries,       \* TRIES_PER_QUERY
  Cooldown,    \* RESCUE_COOLDOWN_SECS, in ticks
  Short,       \* the minute relax_cooldown leaves of it, in ticks
  Back,        \* how far the clock may jump back, in ticks
  Announced,   \* the addresses in the published file to begin with
  Homes,       \* address sets the resolver may move to
  Watching,    \* the process runs the address watch: the service, not a window
  Budget       \* bound on each kind of event of Kinds

Kinds == {"any", "move", "publish", "net", "fault", "crash", "clock", "restart"}

ASSUME AddressAssumption ==
  /\ IsFiniteSet(Addrs) /\ BuiltIn \subseteq Addrs /\ BuiltIn # {}
  /\ Announced \subseteq Addrs
  /\ Homes \subseteq SUBSET Addrs /\ {} \notin Homes

ASSUME TimingAssumption ==
  /\ MaxRetired \in Nat /\ Tries \in Nat /\ Threshold \in Nat \ {0}
  /\ Short \in Nat /\ Cooldown \in Nat /\ Short <= Cooldown
  /\ Back \in Nat

ASSUME EventAssumption == Watching \in BOOLEAN /\ Budget \in [Kinds -> Nat]

VARIABLES
  home,       \* where the resolver is, and what its own name resolves to
  published,  \* endpoints.json as published
  online,     \* the network carries anything at all
  file,       \* the cache file
  cache,      \* the copy in memory
  running,    \* the process is, and its stub serves
  routes,     \* the addresses the stub's HTTPS clients are built for
  fails,      \* Recovery.failures, modulo Threshold
  searching,  \* searching[s]: Recovery.searching of the stub whose search is s
  task,       \* task[t]: the tasks that use the cache
  owed,       \* history: ticks until a rescue may be granted again
  left        \* what is left of Budget

world == <<home, published, online>>
store == <<file, cache, running>>
stub  == <<routes, fails, searching>>
vars == <<world, store, stub, task, owed, left>>

\* A stub's tasks are detached and outlive it: "warm0" and "search0" are those of
\* the stub before this one, with a Recovery and a channel of its own that
\* nothing reads any more.
Warms == {"warm", "warm0"}
Searches == {"search", "search0"}
Orphans == {"warm0", "search0"}
Tasks == Warms \cup Searches \cup {"watch"}

\* The search a warm-up calls for.
SearchOf(t) == IF t = "warm" THEN "search" ELSE "search0"

Caches == [live : SUBSET Addrs, retired : Seq(Addrs), serial : Nat,
           age : (0 - Back) .. Cooldown]
Manifests == [serial : Nat, live : SUBSET Addrs, retired : SUBSET Addrs]

\* Endpoints::default. A stamp of the year 1970 is as old as can be.
NothingLearnt == [live |-> {}, retired |-> <<>>, serial |-> 0, age |-> Cooldown]
\* A copy of the first list published, as a mirror may still have it, and the
\* list published since.
OldManifest == [serial |-> 1, live |-> BuiltIn, retired |-> {}]
FirstManifest == [serial |-> 2, live |-> Announced, retired |-> BuiltIn \ Announced]

\* pc       where the task awaits
\* heard    the address list it asks, was last told, or is about to send
\* seen     the manifest it has fetched
\* reached  anything out there has answered (search's `reached`)
\* second   the watch is past its probe
States == [pc : {"idle", "self", "learn", "claim", "lookup", "adopt", "fetch",
                 "manifest", "probe", "build", "send", "release"},
           heard : SUBSET Addrs, seen : Manifests, reached : BOOLEAN,
           second : BOOLEAN]

Rest == [pc |-> "idle", heard |-> {}, seen |-> OldManifest,
         reached |-> FALSE, second |-> FALSE]

TypeOK ==
  /\ home \in SUBSET Addrs /\ published \in Manifests /\ online \in BOOLEAN
  /\ file \in Caches /\ cache \in Caches
  /\ running \in BOOLEAN
  /\ routes \in SUBSET Addrs /\ fails \in 0 .. (Threshold - 1)
  /\ searching \in [Searches -> BOOLEAN]
  /\ task \in [Tasks -> States]
  /\ owed \in 0 .. Cooldown
  /\ left \in [Kinds -> Nat]

Init ==
  /\ home = BuiltIn /\ published = FirstManifest /\ online = TRUE
  /\ file = NothingLearnt /\ cache = NothingLearnt /\ running = FALSE
  /\ routes = {} /\ fails = 0 /\ searching = [s \in Searches |-> FALSE]
  /\ task = [t \in Tasks |-> Rest]
  /\ owed = 0
  /\ left = Budget

-----------------------------------------------------------------------------
(* The endpoint cache *)

\* Events are bounded one kind at a time and all together.
Spend(k) ==
  /\ left[k] > 0 /\ left["any"] > 0
  /\ left' = [left EXCEPT ![k] = @ - 1, !["any"] = @ - 1]
Free == UNCHANGED left

Members(q) == {q[i] : i \in 1 .. Len(q)}

\* The ways to write a set down.
Orders(S) == {q \in [1 .. Cardinality(S) -> S] :
                \A x \in S : \E i \in 1 .. Cardinality(S) : q[i] = x}

\* Seeded fault: a full list is cut at its end.
Truncated(q) == IF Len(q) > MaxRetired THEN SubSeq(q, 1, MaxRetired) ELSE q

\* remember_retired: appended once each, the oldest fall off.
Newest(q) ==
  IF Len(q) > MaxRetired THEN SubSeq(q, Len(q) - MaxRetired + 1, Len(q)) ELSE q
Remembered(q, gone) == {Newest(q \o o) : o \in Orders(gone \ Members(q))}

\* What the machine is using, before it has learnt anything as well.
Using(c) == IF c.live = {} THEN BuiltIn ELSE c.live

\* candidates: the compiled-in addresses are always among them.
Candidates(c) == c.live \cup BuiltIn

\* known_addresses
Known(c) == Candidates(c) \cup Members(c.retired)

\* adopt_addresses, of a list with an address in it.
Adopted(c, list) ==
  {[c EXCEPT !.live = list, !.retired = r] : r \in Remembered(c.retired, c.live \ list)}

\* adopt_manifest, of one that is not refused.
AdoptedManifest(c, m) ==
  {[c EXCEPT !.live = m.live, !.retired = r, !.serial = m.serial] :
     r \in Remembered(c.retired, (c.live \ m.live) \cup m.retired)}

\* A stamp in the future is no stamp (claim_rescue).
Cold(c) == c.age \in 0 .. (Cooldown - 1)

\* store, best effort: a write that fails leaves the old file.
Stored(c, written) ==
  /\ cache' = c /\ file' = IF written THEN c ELSE file
  /\ UNCHANGED running

Keep(c) ==
  \/ Stored(c, TRUE) /\ Free
  \/ Stored(c, FALSE) /\ Spend("fault")

\* Nothing is owed for a stamp that did not reach the disk.
Waiting(ticks) == owed' = IF file'.age = cache'.age THEN ticks ELSE 0

-----------------------------------------------------------------------------
(* Tasks *)

At(t, p) == task[t].pc = p
Step(t, p) == [task[t] EXCEPT !.pc = p]
Goto(t, p) == task' = [task EXCEPT ![t] = Step(t, p)]
Fresh(p) == [Rest EXCEPT !.pc = p]

\* lookup_self, on clients built for this list: they stay the ones it asks.
Asking(list) == [Fresh("self") EXCEPT !.heard = list]

\* Recovery::search: one at a time, swap on the flag.
Woken(tasks, s) ==
  IF searching[s] THEN tasks ELSE [tasks EXCEPT ![s] = Fresh("claim")]

\* Seeded fault: a search without a result leaves the flag up.
EndedAtOnce(t, changed) ==
  IF t \in Searches THEN (IF changed THEN Fresh("build") ELSE Rest)
  ELSE IF task[t].second THEN Rest ELSE Fresh("probe")

\* Seeded fault: the stub keeps the clients it has.
EndedUnbuilt(t, changed) ==
  IF t \in Searches THEN Fresh("release")
  ELSE IF task[t].second THEN Rest ELSE Fresh("probe")

\* What follows a search: the stub rebuilds its clients if anything changed,
\* the watch goes on to its probe, and after a second one waits.
Ended(t, changed) ==
  IF t \in Searches THEN (IF changed THEN Fresh("build") ELSE Fresh("release"))
  ELSE IF task[t].second THEN Rest ELSE Fresh("probe")

Answers(list) == online /\ home \cap list # {}

\* forward tries no more than Tries of them: it may never come to a good one.
MayMiss(list) == Answers(list) => Cardinality(list \ home) >= Tries

\* lookup_self comes back, perhaps with an answer that has no addresses.
SelfAnswered(t) ==
  /\ At(t, "self") /\ Answers(task[t].heard)
  /\ \E a \in {home, {}} :
       /\ IF a = {} THEN Spend("fault") ELSE Free
       /\ task' = [task EXCEPT ![t] = [Step(t, "learn") EXCEPT !.heard = a]]
  /\ UNCHANGED <<world, store, stub, owed>>

\* Nobody answers in time. The warm-up starts a search, the watch asks for a
\* rescue.
SelfSilent(t) ==
  /\ At(t, "self")
  /\ IF MayMiss(task[t].heard) THEN Free ELSE Spend("fault")
  /\ IF t \in Warms
     THEN /\ task' = Woken([task EXCEPT ![t] = Rest], SearchOf(t))
          /\ searching' = [searching EXCEPT ![SearchOf(t)] = TRUE]
     ELSE /\ task' = [task EXCEPT ![t] = Fresh("claim")]
          /\ UNCHANGED searching
  /\ UNCHANGED <<world, store, routes, fails, owed>>

\* Where a learn leads.
Learnt(t, changed) ==
  IF t = "watch" THEN Fresh("probe")
  ELSE IF changed THEN Fresh("build") ELSE Rest

\* learn: an answer without addresses is ignored.
Learn(t) ==
  LET list == task[t].heard IN
  /\ At(t, "learn")
  /\ task' = [task EXCEPT ![t] = Learnt(t, list # {} /\ list # Using(cache))]
  /\ fails' = IF t = "warm" THEN 0 ELSE fails
  /\ IF list = {} THEN UNCHANGED <<store, owed, left>>
     ELSE /\ \E c \in Adopted(cache, list) : Keep(c)
          /\ Waiting(owed)
  /\ UNCHANGED <<world, routes, searching>>

\* rescue, asking starts the clock.
Refused(t) ==
  /\ At(t, "claim") /\ Cold(cache)
  /\ task' = [task EXCEPT ![t] = Ended(t, FALSE)] /\ Free
  /\ UNCHANGED <<world, store, stub, owed>>

\* Seeded fault: the stamp is kept in memory only.
GrantedUnsaved(t) ==
  /\ At(t, "claim") /\ ~Cold(cache)
  /\ cache' = [cache EXCEPT !.age = 0] /\ owed' = Cooldown
  /\ Goto(t, "lookup") /\ Free
  /\ UNCHANGED <<world, file, running, stub>>

Granted(t) ==
  /\ At(t, "claim") /\ ~Cold(cache)
  /\ Keep([cache EXCEPT !.age = 0])
  /\ Waiting(Cooldown)
  /\ Goto(t, "lookup")
  /\ UNCHANGED <<world, stub>>

\* Tier 2: a public resolver is asked for the resolver's name.
LookedUp(t) ==
  /\ At(t, "lookup")
  /\ \/ /\ online /\ Free
        /\ task' = [task EXCEPT ![t] = [Step(t, "adopt") EXCEPT !.heard = home,
                                                               !.reached = TRUE]]
     \/ /\ IF online THEN Spend("fault") ELSE Free
        /\ \E r \in {FALSE, online} :
             task' = [task EXCEPT ![t] = [Step(t, "fetch") EXCEPT !.reached = r]]
  /\ UNCHANGED <<world, store, stub, owed>>

\* Its answer is adopted; one that is news ends the search.
AdoptLookup(t) ==
  /\ At(t, "adopt")
  /\ \E c \in Adopted(cache, task[t].heard) : Keep(c)
  /\ Waiting(owed)
  /\ task' = [task EXCEPT ![t] =
       IF task[t].heard # Using(cache) THEN Ended(t, TRUE)
       ELSE [Step(t, "fetch") EXCEPT !.heard = {}]]
  /\ UNCHANGED <<world, stub>>

\* Tier 3: the published file, or a copy of an old one from a mirror.
Fetched(t) ==
  /\ At(t, "fetch") /\ online
  /\ \E m \in {published, OldManifest} :
       /\ IF m = published THEN Free ELSE Spend("fault")
       /\ task' = [task EXCEPT ![t] = [Step(t, "manifest") EXCEPT !.seen = m,
                                                                  !.reached = TRUE]]
  /\ UNCHANGED <<world, store, stub, owed>>

\* Neither copy could be had. An attempt that reached nothing at all gives
\* most of the cooldown back (relax_cooldown).
NotFetched(t) ==
  /\ At(t, "fetch")
  /\ IF task[t].reached
     THEN /\ IF online THEN Spend("fault") ELSE Free
          /\ UNCHANGED <<store, owed>>
     ELSE \E written \in BOOLEAN :
          /\ IF written /\ ~online THEN Free ELSE Spend("fault")
          /\ Stored([cache EXCEPT !.age = Cooldown - Short], written)
          /\ Waiting(Short)
  /\ task' = [task EXCEPT ![t] = Ended(t, FALSE)]
  /\ UNCHANGED <<world, stub>>

\* Seeded fault: the rollback check is left out.
RefusesEmpty(c, m) == m.live = {}

Refuses(c, m) == m.live = {} \/ m.serial < c.serial

AdoptManifest(t) ==
  LET m == task[t].seen
      refused == Refuses(cache, m) IN
  /\ At(t, "manifest")
  /\ IF refused THEN UNCHANGED <<store, owed, left>>
     ELSE /\ \E c \in AdoptedManifest(cache, m) : Keep(c)
          /\ Waiting(owed)
  /\ task' = [task EXCEPT ![t] = Ended(t, ~refused /\ m.live # Using(cache))]
  /\ UNCHANGED <<world, stub>>

\* The watch gives a rescue RESCUE_BUDGET and drops it at an await. Offline the
\* attempts alone may take longer; online it takes a fault.
CutOff ==
  /\ task["watch"].pc \in {"lookup", "adopt", "fetch", "manifest"}
  /\ task' = [task EXCEPT !["watch"] = Ended("watch", FALSE)]
  /\ IF online THEN Spend("fault") ELSE Free
  /\ UNCHANGED <<world, store, stub, owed>>

\* probe_addresses: one address is dead while another one answers. It probes
\* some of the addresses known, the suspects of the last time among them.
Probe ==
  /\ At("watch", "probe") /\ Free
  /\ \/ task' = [task EXCEPT !["watch"] = Rest]
     \/ /\ Answers(Known(cache)) /\ Known(cache) \ home # {}
        /\ task' = [task EXCEPT !["watch"] = [Fresh("claim") EXCEPT !.second = TRUE]]
  /\ UNCHANGED <<world, store, stub, owed>>

\* Recovery::rebuild reads the list, builds, and sends: the clients of an orphan
\* reach no one.
Build(t) ==
  /\ At(t, "build") /\ Free
  /\ task' = [task EXCEPT ![t] = [Step(t, "send") EXCEPT !.heard = Candidates(cache)]]
  /\ UNCHANGED <<world, store, stub, owed>>

Send(t) ==
  /\ At(t, "send") /\ Free
  /\ IF t \in Orphans THEN UNCHANGED <<routes, fails>>
     ELSE routes' = task[t].heard /\ fails' = 0
  /\ task' = [task EXCEPT ![t] = IF t \in Searches THEN Fresh("release") ELSE Rest]
  /\ UNCHANGED <<world, store, searching, owed>>

Release(s) ==
  /\ At(s, "release") /\ Free
  /\ searching' = [searching EXCEPT ![s] = FALSE] /\ task' = [task EXCEPT ![s] = Rest]
  /\ UNCHANGED <<world, store, routes, fails, owed>>

-----------------------------------------------------------------------------
(* Queries, and what starts the tasks *)

\* forward finds an address that answers (Recovery::success).
QueryAnswered ==
  /\ running /\ Answers(routes) /\ Free
  /\ fails' = 0
  /\ UNCHANGED <<world, store, routes, searching, task, owed>>

\* Seeded fault: every failure from the threshold on counts.
FailureUnbounded ==
  /\ fails' = fails + 1
  /\ task' = IF fails' >= Threshold THEN Woken(task, "search") ELSE task
  /\ searching' = [searching EXCEPT !["search"] = @ \/ fails' >= Threshold]
  /\ UNCHANGED <<world, store, routes, owed>>

\* Recovery::failure
Failure ==
  /\ fails' = (fails + 1) % Threshold
  /\ task' = IF fails' = 0 THEN Woken(task, "search") ELSE task
  /\ searching' = [searching EXCEPT !["search"] = @ \/ fails' = 0]
  /\ UNCHANGED <<world, store, routes, owed>>

\* None of the addresses one query tries does.
QueryFails == running /\ MayMiss(routes) /\ Free /\ Failure

\* A query is lost, or was under way on the clients before these.
QueryLost == running /\ ~MayMiss(routes) /\ Spend("fault") /\ Failure

\* The process starts its stub: the file is read, the clients are built, the
\* warm-up is spawned (stub::start).
Start ==
  /\ ~running /\ running' = TRUE /\ Free
  /\ cache' = file
  /\ routes' = Candidates(file) /\ fails' = 0 /\ UNCHANGED searching
  /\ task' = [task EXCEPT !["warm"] = Asking(Candidates(file))]
  /\ UNCHANGED <<world, file, owed>>

\* Bound: a stub is replaced only when its predecessor's tasks are over.
Alone == \A t \in Orphans : At(t, "idle")

\* The App stops its stub and starts another in the same process (disable and
\* enable, set_settings): new clients, a new Recovery and a new warm-up, while
\* what the old stub spawned goes on.
Restart ==
  /\ running /\ Alone /\ Spend("restart")
  /\ routes' = Candidates(cache) /\ fails' = 0
  /\ searching' = [s \in Searches |-> s \in Orphans /\ searching["search"]]
  /\ task' = [task EXCEPT !["warm0"] = task["warm"], !["search0"] = task["search"],
                          !["warm"] = Asking(Candidates(cache)), !["search"] = Rest]
  /\ UNCHANGED <<world, store, owed>>

WatchEndpoints ==
  /\ Watching /\ running /\ At("watch", "idle") /\ Free
  /\ task' = [task EXCEPT !["watch"] = Asking(Candidates(cache))]
  /\ UNCHANGED <<world, store, stub, owed>>

Crash ==
  /\ running /\ Spend("crash")
  /\ running' = FALSE /\ cache' = NothingLearnt
  /\ routes' = {} /\ fails' = 0 /\ searching' = [s \in Searches |-> FALSE]
  /\ task' = [t \in Tasks |-> Rest]
  /\ UNCHANGED <<world, file, owed>>

-----------------------------------------------------------------------------
(* The outside world *)

Move(list) ==
  /\ Spend("move") /\ list # home /\ home' = list
  /\ UNCHANGED <<published, online, store, stub, task, owed>>

\* The operator publishes where the resolver is, and where it was.
Publish ==
  /\ Spend("publish") /\ home # published.live
  /\ published' = [serial |-> published.serial + 1, live |-> home,
                   retired |-> (published.live \cup published.retired) \ home]
  /\ UNCHANGED <<home, online, store, stub, task, owed>>

NetChange ==
  /\ Spend("net") /\ online' = ~online
  /\ UNCHANGED <<home, published, store, stub, task, owed>>

Later(age) == IF age = Cooldown THEN age ELSE age + 1

\* An age of Cooldown stands for that and every greater one.
Earlier(age, d) ==
  IF age = Cooldown THEN (Cooldown - d) .. Cooldown
  ELSE {IF age - d < 0 - Back THEN 0 - Back ELSE age - d}

\* Every call of a task has a time-out of seconds: a task is over within a tick.
Tick ==
  /\ \A t \in Tasks : At(t, "idle")
  /\ Free
  /\ file' = [file EXCEPT !.age = Later(@)]
  /\ cache' = [cache EXCEPT !.age = Later(@)]
  /\ owed' = IF owed > 0 THEN owed - 1 ELSE 0
  /\ UNCHANGED <<world, running, stub, task>>

\* The clock jumps back, as a VM's does when it resumes from a snapshot.
ClockBack(d) ==
  /\ Spend("clock")
  /\ \E f \in Earlier(file.age, d), c \in Earlier(cache.age, d) :
       /\ file.age = cache.age => f = c
       /\ file' = [file EXCEPT !.age = f]
       /\ cache' = [cache EXCEPT !.age = c]
  /\ owed' = 0
  /\ UNCHANGED <<world, running, stub, task>>

-----------------------------------------------------------------------------

TaskStep(t) ==
  \/ SelfAnswered(t) \/ SelfSilent(t) \/ Learn(t)
  \/ Refused(t) \/ Granted(t) \/ LookedUp(t) \/ AdoptLookup(t)
  \/ Fetched(t) \/ NotFetched(t) \/ AdoptManifest(t)
  \/ Build(t) \/ Send(t)

Queries == QueryAnswered \/ QueryFails \/ QueryLost

Lifecycle == Start \/ Restart \/ WatchEndpoints \/ Crash

Outside ==
  \/ \E list \in Homes : Move(list)
  \/ Publish \/ NetChange \/ Tick
  \/ \E d \in 1 .. Back : ClockBack(d)

Next ==
  \/ \E t \in Tasks : TaskStep(t)
  \/ CutOff \/ Probe \/ \E s \in Searches : Release(s)
  \/ Queries \/ Lifecycle \/ Outside

Spec == Init /\ [][Next]_vars

\* Tasks run, queries keep coming, time passes, the watch has its period and a
\* process that died is started again.
Fairness ==
  /\ \A t \in Tasks : WF_vars(TaskStep(t))
  /\ \A s \in Searches : WF_vars(Release(s))
  /\ WF_vars(Probe) /\ WF_vars(QueryFails) /\ SF_vars(Tick)
  /\ WF_vars(Start) /\ WF_vars(WatchEndpoints)

LiveSpec == Spec /\ Fairness

-----------------------------------------------------------------------------
(* Safety *)

\* What the process has seen of the published list never goes back, whatever a
\* mirror serves and however long an answer was under way (adopt_manifest:
\* "the rollback check").
ManifestForward ==
  [][running /\ running' => cache'.serial >= cache.serial]_vars

\* All that c knows d knows, but for the k addresses longest retired, and those
\* only where the list is full. Where more retire at once than it has room for, it
\* holds nothing else.
LosesOldest(c, d, k) ==
  LET q == c.retired
      r == d.retired IN
  /\ Len(q) - k <= Len(r) /\ \A i \in 1 .. Len(q) - k : r[i] = q[k + i]
  /\ k > 0 => Len(r) = MaxRetired
  /\ \/ Candidates(c) \subseteq Known(d) \cup {q[i] : i \in 1 .. k}
     \/ k = Len(q) /\ Len(r) = MaxRetired /\ Members(q) \cap Members(r) = {}

\* An address that was ours stays known as ours, whichever of the channels
\* replaces it and in whatever order they do: it is forgotten only when the list
\* of the retired is full, and then the longest retired first (remember_retired).
NothingForgotten ==
  [][running /\ running' => \E k \in 0 .. Len(cache.retired) : LosesOldest(cache, cache', k)]_vars

\* The service asks the outside world once per cooldown, over any number of
\* tasks, crashes and restarts, unless the clock jumped or the stamp on disk was
\* lost (claim_rescue: "persisted rather than kept in memory").
RescueSpaced ==
  [][\A t \in Searches \cup {"watch"} :
       At(t, "claim") /\ task'[t].pc = "lookup" => owed = 0]_vars

\* The flag that holds back a second search is up while one is under way, and
\* only then, whatever the order failures and searches come in (Recovery).
FlagMeansSearch == \A s \in Searches : searching[s] <=> ~At(s, "idle")

-----------------------------------------------------------------------------
(* Liveness *)

\* The stub reaches none of its addresses, its start is over, and the list in
\* memory is not what the resolver would say.
Lost ==
  /\ running /\ At("warm", "idle")
  /\ routes \cap home = {} /\ Using(cache) # home

Found == ~running \/ ~online \/ routes \cap home # {}

\* In a process without the watch, a stub that is lost while no task of an earlier
\* stub is under way gets addresses that answer, while queries come in and the
\* network works - unless it is replaced with a task of its own under way
\* (Recovery: nothing but its search is left to bring the news).
LoneStubFollows == (Lost /\ Alone) ~> (Found \/ ~Alone)

\* A lost stub gets addresses that answer (app.rs:32, "the stub follows a move on
\* its own"). Whoever else hears of the move first keeps it from that: the watch
\* of the service, or the search of a stub this one replaced. No search then
\* brings the stub news, and it never rebuilds its clients.
StubFollowsMove == Lost ~> Found
=============================================================================
