------------------------- MODULE StubServiceProofs -------------------------
(***************************************************************************)
(* Theorems about the serving half of the stub, for any number of clients, *)
(* of addresses and of socket families: what stop leaves behind, how long  *)
(* it takes, when a query may go unanswered, and that the walk over the    *)
(* routes passes none by. Liveness (QueriesEnd, WalkFinds) is only         *)
(* model-checked.                                                          *)
(***************************************************************************)
EXTENDS StubService, TLAPS

\* How what a listener leaves open, what a task lives under and what an
\* abandoned stop leaves hang together.
NothingRuns == owner = "off" => \A s \in Sockets : ~Running(s)
AbandonedIsStalled == ~stalled => \A s \in Sockets : listener[s] # "aborted"
TasksHaveListeners == \A c \in Clients : task[c].pc # "none" => listener[Via[c]] # "none"

IInv == TypeOK /\ NothingRuns /\ AbandonedIsStalled /\ TasksHaveListeners /\ StopIsPrompt

Task == [pc : {"none", "idle", "reading", "forward"}, start : Routes,
         k : 0 .. Reach - 1, current : BOOLEAN]

-----------------------------------------------------------------------------
(* Routes and tasks. *)

LEMMA ReachType == Reach \in Nat \ {0} /\ Reach <= N
  BY StubAssumption DEF Reach

LEMMA RouteMod == ASSUME NEW n \in Nat PROVE n % N \in Routes
  BY StubAssumption DEF Routes

LEMMA NoTaskType == NoTask \in Task
  BY ReachType, StubAssumption DEF NoTask, Task, Routes

\* Each task record an action writes is one.
LEMMA TaskTypes ==
  ASSUME TypeOK
  PROVE  /\ \A pc \in {"none", "idle", "reading", "forward"} :
              [NoTask EXCEPT !.pc = pc] \in Task
         /\ [NoTask EXCEPT !.pc = "forward", !.start = preferred] \in Task
         /\ \A c \in Clients : /\ [task[c] EXCEPT !.current = FALSE] \in Task
                               /\ task[c].k + 1 < Reach => [task[c] EXCEPT !.k = @ + 1] \in Task
                               /\ At(c) \in Routes
                               /\ (task[c].start + Reach) % N \in Routes
<1>1. task \in [Clients -> Task] /\ preferred \in Routes
  BY DEF TypeOK, Task
<1>2. Reach \in Nat \ {0} /\ N \in Nat \ {0}
  BY ReachType, StubAssumption
<1>3. \A pc \in {"none", "idle", "reading", "forward"} : [NoTask EXCEPT !.pc = pc] \in Task
  BY NoTaskType DEF Task
<1>4. [NoTask EXCEPT !.pc = "forward", !.start = preferred] \in Task
  BY <1>1, NoTaskType DEF Task
<1>5. ASSUME NEW c \in Clients
      PROVE  /\ [task[c] EXCEPT !.current = FALSE] \in Task
             /\ task[c].k + 1 < Reach => [task[c] EXCEPT !.k = @ + 1] \in Task
             /\ At(c) \in Routes
             /\ (task[c].start + Reach) % N \in Routes
  <2>1. task[c] \in Task
    BY <1>1
  <2>2. task[c].start \in Nat /\ task[c].k \in Nat
    BY <1>2, <2>1 DEF Task, Routes
  <2>3. [task[c] EXCEPT !.current = FALSE] \in Task
    BY <2>1 DEF Task
  <2>4. ASSUME task[c].k + 1 < Reach PROVE [task[c] EXCEPT !.k = @ + 1] \in Task
    BY <1>2, <2>1, <2>2, <2>4 DEF Task
  <2>5. At(c) \in Routes
    BY <2>2, RouteMod DEF At
  <2>6. (task[c].start + Reach) % N \in Routes
    BY <1>2, <2>2, RouteMod
  <2> QED
    BY <2>3, <2>4, <2>5, <2>6
<1> QED
  BY <1>3, <1>4, <1>5
-----------------------------------------------------------------------------
(* The type invariant. *)

LEMMA TypeInit == Init => TypeOK
<1> SUFFICES ASSUME Init PROVE TypeOK
  OBVIOUS
<1>1. task \in [Clients -> Task]
  BY NoTaskType DEF Init
<1>2. up \subseteq Routes /\ preferred \in Routes /\ clock \in 0 .. Limit
  BY StubAssumption DEF Init, Routes
<1>3. listener \in [Sockets -> {"none", "serving", "draining", "aborted"}]
      /\ told \in [Clients -> {"asking", "told", "untold"}]
  BY DEF Init
<1> QED
  BY <1>1, <1>2, <1>3 DEF Init, TypeOK, Task

LEMMA TypeStep == TypeOK /\ [Next]_vars => TypeOK'
<1> SUFFICES ASSUME TypeOK, [Next]_vars PROVE TypeOK'
  OBVIOUS
<1> DEFINE Typed == /\ owner \in {"off", "on", "stopping"}
                    /\ listener \in [Sockets -> {"none", "serving", "draining", "aborted"}]
                    /\ task \in [Clients -> Task]
                    /\ told \in [Clients -> {"asking", "told", "untold"}]
                    /\ other \subseteq Contested /\ up \subseteq Routes /\ preferred \in Routes
                    /\ clock \in 0 .. Limit /\ stalled \in BOOLEAN
<1>t. TypeOK <=> Typed
  BY DEF TypeOK, Task
<1>p. TypeOK' <=> Typed'
  BY DEF TypeOK, Task
<1>n. 0 \in Routes /\ Limit \in Nat
  BY StubAssumption DEF Routes
<1> SUFFICES Typed'
  BY <1>p
<1> HIDE DEF Typed
<1>w. /\ NoTask \in Task
      /\ \A pc \in {"none", "idle", "reading", "forward"} : [NoTask EXCEPT !.pc = pc] \in Task
      /\ [NoTask EXCEPT !.pc = "forward", !.start = preferred] \in Task
  BY NoTaskType, TaskTypes
<1>c. ASSUME NEW s \in Sockets, Cancelled(s)
      PROVE  task' \in [Clients -> Task] /\ told' \in [Clients -> {"asking", "told", "untold"}]
  <2> HIDE DEF Task
  <2> QED
    BY <1>c, <1>t, <1>w DEF Cancelled, Typed
<1>m. ASSUME NEW c \in Clients, NEW pc \in {"none", "idle", "reading", "forward"}, Moves(c, pc)
      PROVE  Typed'
  BY <1>m, <1>t, <1>w DEF Moves, Typed
<1>f. ASSUME NEW c \in Clients, Forwarded(c)
      PROVE  task' \in [Clients -> Task] /\ told' \in [Clients -> {"asking", "told", "untold"}]
  BY <1>f, <1>t, <1>w DEF Forwarded, Typed
<1>a. ASSUME NEW c \in Clients, NEW said, After(c, said)
      PROVE  task' \in [Clients -> Task] /\ told' \in [Clients -> {"asking", "told", "untold"}]
  <2>1. PICK pc \in {"none", "idle"} : task' = [task EXCEPT ![c] = [NoTask EXCEPT !.pc = pc]]
    BY <1>a DEF After
  <2>2. told' \in [Clients -> {"asking", "told", "untold"}]
    BY <1>a, <1>t DEF After, Typed
  <2> QED
    BY <2>1, <2>2, <1>t, <1>w DEF Typed
<1>1. CASE Start
  BY <1>1, <1>t, <1>n DEF Start, Typed
<1>2. CASE Stop
  BY <1>2, <1>t, <1>n DEF Stop, Typed
<1>3. CASE Join
  BY <1>3, <1>t DEF Join, Typed
<1>4. CASE Abandon
  BY <1>4, <1>t DEF Abandon, Typed
<1>5. CASE Tick
  BY <1>5, <1>t, <1>n DEF Tick, Typed
<1>6. CASE Stall
  BY <1>6, <1>t DEF Stall, Typed
<1>7. ASSUME NEW c \in Clients, Query(c) PROVE Typed'
  <2>1. /\ task[c].k + 1 < Reach => [task[c] EXCEPT !.k = @ + 1] \in Task
        /\ At(c) \in Routes /\ (task[c].start + Reach) % N \in Routes
    BY TaskTypes
  <2>2. ASSUME NEW i \in Routes, Prefer(c, i) PROVE preferred' \in Routes
    BY <2>2, <1>t DEF Prefer, Typed
  <2>3. CASE Answered(c)
    BY <2>1, <2>2, <2>3, <1>a, <1>t DEF Answered, Typed
  <2>4. CASE TriesNext(c)
    BY <2>1, <2>4, <1>t DEF TriesNext, Typed
  <2>5. CASE GivesUp(c)
    BY <2>1, <2>2, <2>5, <1>a, <1>t DEF GivesUp, Typed
  <2> QED
    BY <1>7, <2>3, <2>4, <2>5 DEF Query
<1>8. ASSUME NEW c \in Clients, Client(c) PROVE Typed'
  <2>1. CASE Receive(c)
    BY <2>1, <1>f, <1>t DEF Receive, Typed
  <2>2. CASE Body(c)
    BY <2>2, <1>f, <1>t DEF Body, Typed
  <2> QED
    BY <1>8, <1>m, <2>1, <2>2 DEF Client, Accept, Length, HangsUp
<1>9. ASSUME NEW c \in Clients, NoticeIdle(c) PROVE Typed'
  BY <1>9, <1>m DEF NoticeIdle
<1>10. ASSUME NEW s \in Sockets, Listener(s) PROVE Typed'
  <2>1. CASE Notice(s)
    BY <2>1, <1>t DEF Notice, Typed
  <2>2. CASE Drain(s)
    BY <2>2, <1>c, <1>t DEF Drain, Typed
  <2>3. CASE Dropped(s)
    BY <2>3, <1>c, <1>t DEF Dropped, Typed
  <2> QED
    BY <1>10, <2>1, <2>2, <2>3 DEF Listener
<1>11. CASE Rebuild
  <2>1. \A c \in Clients : [task[c] EXCEPT !.current = FALSE] \in Task
    BY TaskTypes
  <2> QED
    BY <1>11, <2>1, <1>t, <1>n DEF Rebuild, Typed
<1>12. CASE OtherProgram
  BY <1>12, <1>t DEF OtherProgram, Typed
<1>13. CASE Network
  BY <1>13, <1>t, StubAssumption DEF Network, Typed
<1>14. CASE UNCHANGED vars
  BY <1>14, <1>t DEF vars, Typed
<1> QED
  BY <1>1, <1>2, <1>3, <1>4, <1>5, <1>6, <1>7, <1>8, <1>9, <1>10, <1>11, <1>12, <1>13, <1>14
  DEF Next
-----------------------------------------------------------------------------
(* What stop leaves. *)

LEMMA InvInit == Init => IInv
  BY TypeInit DEF Init, IInv, NothingRuns, AbandonedIsStalled, TasksHaveListeners,
     StopIsPrompt, Running, NoTask

\* A task that begins, goes on or ends lives where it lived.
LEMMA TasksStay ==
  ASSUME IInv, NEW c \in Clients,
         UNCHANGED <<owner, listener, clock, stalled>>,
         task' \in [Clients -> Task],
         \A d \in Clients \ {c} : task'[d].pc = task[d].pc,
         task'[c].pc = "none" \/ listener[Via[c]] # "none"
  PROVE  NothingRuns' /\ AbandonedIsStalled' /\ TasksHaveListeners' /\ StopIsPrompt'
<1> USE DEF IInv
<1>1. \A d \in Clients : task'[d].pc # "none" => listener[Via[d]] # "none"
  BY DEF TasksHaveListeners
<1>2. TasksHaveListeners'
  BY <1>1 DEF TasksHaveListeners
<1>3. NothingRuns' /\ AbandonedIsStalled' /\ StopIsPrompt'
  BY DEF NothingRuns, AbandonedIsStalled, StopIsPrompt, Running
<1> QED
  BY <1>2, <1>3

LEMMA InvStep == IInv /\ [Next]_vars => IInv'
<1> SUFFICES ASSUME IInv, [Next]_vars
             PROVE  NothingRuns' /\ AbandonedIsStalled' /\ TasksHaveListeners' /\ StopIsPrompt'
  BY TypeStep DEF IInv
<1> USE DEF IInv
<1>t. TypeOK'
  BY TypeStep
<1>s. /\ listener \in [Sockets -> {"none", "serving", "draining", "aborted"}]
      /\ task \in [Clients -> Task] /\ task' \in [Clients -> Task]
      /\ clock \in Nat /\ stalled \in BOOLEAN /\ Via \in [Clients -> Sockets]
      /\ Limit \in Nat /\ Limit > 1
  BY <1>t, StubAssumption DEF TypeOK, Task
<1> DEFINE Rest == NothingRuns' /\ AbandonedIsStalled' /\ TasksHaveListeners' /\ StopIsPrompt'
<1>p. ASSUME NEW c \in Clients, NEW r, task' = [task EXCEPT ![c] = r],
             UNCHANGED <<owner, listener, clock, stalled>>,
             r.pc = "none" \/ listener[Via[c]] # "none"
      PROVE  Rest
  <2>1. task'[c] = r /\ \A d \in Clients \ {c} : task'[d] = task[d]
    BY <1>p, <1>s
  <2> QED
    BY <2>1, <1>p, <1>s, TasksStay
\* The tasks under a listener that ends have ended.
<1>l. ASSUME NEW s \in Sockets, listener' = [listener EXCEPT ![s] = "none"],
             UNCHANGED <<owner, clock, stalled>>,
             \A c \in Clients : task'[c].pc = IF Via[c] = s THEN "none" ELSE task[c].pc
      PROVE  Rest
  <2>1. NothingRuns' /\ AbandonedIsStalled' /\ StopIsPrompt'
    BY <1>l, <1>s DEF NothingRuns, AbandonedIsStalled, StopIsPrompt, Running
  <2>2. TasksHaveListeners'
    BY <1>l, <1>s DEF TasksHaveListeners
  <2> QED
    BY <2>1, <2>2
<1>c. ASSUME NEW s \in Sockets, Cancelled(s)
      PROVE  \A c \in Clients : task'[c].pc = IF Via[c] = s THEN "none" ELSE task[c].pc
  BY <1>c DEF Cancelled, NoTask
<1>1. CASE Start
  <2>1. PICK asked \in {f \in SUBSET Families : "v4" \in f} :
          listener' = [s \in Sockets |->
            IF s[2] \in asked /\ \A p \in Pair(s[2]) : Free(p) THEN "serving" ELSE listener[s]]
    BY <1>1 DEF Start
  <2>2. NothingRuns' /\ StopIsPrompt'
    BY <1>1 DEF Start, NothingRuns, StopIsPrompt
  <2>3. AbandonedIsStalled' /\ TasksHaveListeners'
    BY <1>1, <1>s, <2>1 DEF Start, AbandonedIsStalled, TasksHaveListeners
  <2> QED
    BY <2>2, <2>3
<1>2. CASE Stop
  BY <1>2 DEF Stop, NothingRuns, AbandonedIsStalled, TasksHaveListeners, StopIsPrompt
<1>3. CASE Join
  BY <1>3 DEF Join, NothingRuns, AbandonedIsStalled, TasksHaveListeners, StopIsPrompt, Running
<1>4. CASE Abandon
  <2>1. stalled
    BY <1>4, <1>s DEF Abandon, StopIsPrompt
  <2>2. /\ \A s \in Sockets : listener'[s] = IF Running(s) THEN "aborted" ELSE listener[s]
        /\ UNCHANGED <<task, clock, stalled>> /\ owner' = "off"
    BY <1>4 DEF Abandon
  <2>3. NothingRuns'
    BY <2>2, <1>s DEF NothingRuns, Running
  <2>4. TasksHaveListeners'
    BY <2>2, <1>s DEF TasksHaveListeners, Running
  <2> QED
    BY <2>1, <2>2, <2>3, <2>4 DEF AbandonedIsStalled, StopIsPrompt
\* After the first grace there is nothing left to wait for but what is due.
<1>5. CASE Tick
  <2>1. ASSUME ~stalled, clock = 1 PROVE FALSE
    BY <1>5, <1>s, <2>1 DEF Tick, Due, Deadline, Running
  <2>2. StopIsPrompt'
    BY <1>5, <1>s, <2>1 DEF Tick, StopIsPrompt
  <2> QED
    BY <1>5, <2>2 DEF Tick, NothingRuns, AbandonedIsStalled, TasksHaveListeners, Running
<1>6. CASE Stall
  BY <1>6 DEF Stall, NothingRuns, AbandonedIsStalled, TasksHaveListeners, StopIsPrompt, Running
<1>7. ASSUME NEW c \in Clients, Query(c) PROVE Rest
  <2>1. listener[Via[c]] # "none"
    BY <1>7 DEF Query, Answered, TriesNext, GivesUp, TasksHaveListeners
  <2>2. UNCHANGED <<owner, listener, clock, stalled>>
    BY <1>7 DEF Query, Answered, TriesNext, GivesUp
  <2>3. \E r : task' = [task EXCEPT ![c] = r]
    BY <1>7 DEF Query, Answered, TriesNext, GivesUp, After
  <2> QED
    BY <1>p, <2>1, <2>2, <2>3
<1>8. ASSUME NEW c \in Clients, Client(c) PROVE Rest
  <2>1. listener[Via[c]] # "none"
    BY <1>8 DEF Client, Receive, Accept, Length, Body, HangsUp, TasksHaveListeners
  <2>2. UNCHANGED <<owner, listener, clock, stalled>>
    BY <1>8 DEF Client, Receive, Accept, Length, Body, HangsUp, Moves
  <2>3. \E r : task' = [task EXCEPT ![c] = r]
    BY <1>8 DEF Client, Receive, Accept, Length, Body, HangsUp, Moves, Forwarded
  <2> QED
    BY <1>p, <2>1, <2>2, <2>3
<1>9. ASSUME NEW c \in Clients, NoticeIdle(c) PROVE Rest
  <2>1. listener[Via[c]] # "none"
    BY <1>9 DEF NoticeIdle, TasksHaveListeners
  <2> QED
    BY <1>9, <1>p, <2>1 DEF NoticeIdle, Moves
<1>10. ASSUME NEW s \in Sockets, Listener(s) PROVE Rest
  <2>1. CASE Notice(s)
    BY <2>1, <1>s DEF Notice, NothingRuns, AbandonedIsStalled, TasksHaveListeners,
       StopIsPrompt, Running
  <2>2. CASE Drain(s)
    <3>1. \A c \in Clients : task'[c].pc = IF Via[c] = s THEN "none" ELSE task[c].pc
      BY <2>2, <1>c DEF Drain, Tasks
    <3> QED
      BY <2>2, <3>1, <1>l DEF Drain
  <2>3. CASE Dropped(s)
    BY <2>3, <1>c, <1>l DEF Dropped
  <2> QED
    BY <1>10, <2>1, <2>2, <2>3 DEF Listener
<1>11. CASE Rebuild
  <2>1. \A c \in Clients : task'[c].pc = task[c].pc
    BY <1>11, <1>s DEF Rebuild, Task
  <2> QED
    BY <1>11, <2>1 DEF Rebuild, NothingRuns, AbandonedIsStalled, TasksHaveListeners,
       StopIsPrompt, Running
<1>12. CASE OtherProgram \/ Network \/ UNCHANGED vars
  BY <1>12 DEF OtherProgram, Network, vars, NothingRuns, AbandonedIsStalled,
     TasksHaveListeners, StopIsPrompt, Running
<1> QED
  BY <1>1, <1>2, <1>3, <1>4, <1>5, <1>6, <1>7, <1>8, <1>9, <1>10, <1>11, <1>12 DEF Next

\* Every state of the stub has the types TypeOK gives.
THEOREM StubTypeOK == Spec => []TypeOK
<1>1. IInv => TypeOK
  BY DEF IInv
<1> QED
  BY <1>1, InvInit, InvStep, PTL DEF Spec

\* A stop that has returned leaves no socket open and no task behind, whatever
\* was in flight (stub.rs: "Stops every listener and returns once their sockets
\* are closed").
THEOREM StopFrees == Spec => []StoppedMeansFree
<1>1. IInv => StoppedMeansFree
  <2> SUFFICES ASSUME IInv, owner = "off", ~stalled
               PROVE  /\ \A s \in Sockets : listener[s] = "none"
                      /\ \A c \in Clients : task[c].pc = "none"
    BY DEF StoppedMeansFree, Held, Running
  <2>1. \A s \in Sockets : listener[s] = "none"
    BY DEF IInv, TypeOK, NothingRuns, AbandonedIsStalled, Running
  <2> QED
    BY <2>1, StubAssumption DEF IInv, TasksHaveListeners
<1> QED
  BY <1>1, InvInit, InvStep, PTL DEF Spec

\* A stop never needs its outer limit (stub.rs: "the outer limit only guards
\* that reasoning").
THEOREM StopTakesOneGrace == Spec => []StopIsPrompt
<1>1. IInv => StopIsPrompt
  BY DEF IInv
<1> QED
  BY <1>1, InvInit, InvStep, PTL DEF Spec

\* Whoever asked gets an answer or a SERVFAIL, unless the question cannot be
\* echoed or a stop has waited its grace for it.
THEOREM SilenceOnlyExcused == Spec => SilenceIsExcused
<1>1. ASSUME IInv, [Next]_vars, NEW c \in Clients, told[c] = "asking", told'[c] = "untold"
      PROVE  c \in Garbled \/ clock >= 1 \/ stalled
  <2> SUFFICES ASSUME c \notin Garbled PROVE clock >= 1 \/ stalled
    OBVIOUS
  <2>1. told \in [Clients -> {"asking", "told", "untold"}]
    BY <1>1 DEF IInv, TypeOK
  <2>2. ASSUME NEW d \in Clients, After(d, d \notin Garbled) PROVE FALSE
    BY <1>1, <2>1, <2>2 DEF After
  <2>3. ASSUME NEW d \in Clients, After(d, TRUE) PROVE FALSE
    BY <1>1, <2>1, <2>3 DEF After
  <2>4. ASSUME NEW d \in Clients, Forwarded(d) PROVE FALSE
    BY <1>1, <2>1, <2>4 DEF Forwarded
  <2>5. PICK s \in Sockets : Drain(s) \/ Dropped(s)
    BY <1>1, <2>1, <2>2, <2>3, <2>4
    DEF Next, vars, Start, Stop, Join, Abandon, Tick, Stall, Query, Answered, TriesNext,
        GivesUp, Client, Receive, Accept, Length, Body, HangsUp, Moves, NoticeIdle, Listener,
        Notice, Rebuild, OtherProgram, Network
  <2>6. CASE Drain(s)
    BY <1>1, <2>6 DEF Drain, Deadline
  <2>7. CASE Dropped(s)
    BY <1>1, <2>7 DEF Dropped, IInv, AbandonedIsStalled
  <2> QED
    BY <2>5, <2>6, <2>7
<1>2. IInv /\ [Next]_vars
        => [\A c \in Clients :
              (told[c] = "asking" /\ told'[c] = "untold")
                => c \in Garbled \/ clock >= 1 \/ stalled]_vars
  BY <1>1
<1> QED
  BY <1>2, InvInit, InvStep, PTL DEF Spec, SilenceIsExcused
-----------------------------------------------------------------------------
(* The walk over the routes. *)

\* The routes that a query has asked, the one it is at included.
Asked(c) == {(task[c].start + k) % N : k \in 0 .. task[c].k}

\* No query asks a route twice, and one that fails leaves the next a route it has
\* not asked itself, unless it has asked them all (Upstream::forward).
WalkMovesOn ==
  [][\A c \in Clients :
       /\ TriesNext(c) => At(c)' \notin Asked(c)
       /\ GivesUp(c) /\ task[c].current =>
            preferred' \notin Asked(c) \/ Asked(c) = Routes]_vars

LEMMA ModBelow == ASSUME NEW n \in Nat \ {0}, NEW m \in 0 .. n - 1 PROVE m % n = m
  OBVIOUS

LEMMA ModAbove == ASSUME NEW n \in Nat \ {0}, NEW m \in n .. n + n - 1 PROVE m % n = m - n
  OBVIOUS

\* Where k steps from a route lead.
LEMMA Walked ==
  ASSUME NEW start \in Routes, NEW k \in 0 .. N
  PROVE  (start + k) % N = IF start + k < N THEN start + k ELSE start + k - N
<1>1. N \in Nat \ {0} /\ start \in 0 .. N - 1
  BY StubAssumption DEF Routes
<1>2. CASE start + k < N
  <2>1. start + k \in 0 .. N - 1
    BY <1>1, <1>2
  <2>2. (start + k) % N = start + k
    BY <1>1, <2>1, ModBelow
  <2> QED
    BY <1>2, <2>2
<1>3. CASE ~(start + k < N)
  <2> DEFINE m == start + k
  <2>1. m \in N .. N + N - 1
    BY <1>1, <1>3
  <2> HIDE DEF m
  <2>2. m % N = m - N
    BY <1>1, <2>1, ModAbove
  <2> QED
    BY <1>1, <1>3, <2>2 DEF m
<1> QED
  BY <1>2, <1>3

\* A walk does not meet a route again before it has been all the way round ...
LEMMA WalkIsFresh ==
  ASSUME NEW start \in Routes, NEW j \in 0 .. N, NEW k \in 0 .. N, j < k,
         (start + j) % N = (start + k) % N
  PROVE  j = 0 /\ k = N
<1>1. N \in Nat \ {0} /\ start \in 0 .. N - 1
  BY StubAssumption DEF Routes
<1>2. /\ (start + j) % N = IF start + j < N THEN start + j ELSE start + j - N
      /\ (start + k) % N = IF start + k < N THEN start + k ELSE start + k - N
  BY Walked
<1> QED
  BY <1>1, <1>2

\* ... and then has met every one.
LEMMA WalkIsFull ==
  ASSUME NEW start \in Routes
  PROVE  {(start + k) % N : k \in 0 .. N - 1} = Routes
<1>1. N \in Nat \ {0} /\ start \in 0 .. N - 1
  BY StubAssumption DEF Routes
<1>2. ASSUME NEW k \in 0 .. N - 1 PROVE (start + k) % N \in Routes
  BY <1>1, <1>2, Walked DEF Routes
<1>3. ASSUME NEW r \in Routes PROVE \E k \in 0 .. N - 1 : r = (start + k) % N
  <2> DEFINE back == IF start <= r THEN r - start ELSE r - start + N
  <2>1. back \in 0 .. N - 1 /\ back \in 0 .. N
    BY <1>1 DEF Routes
  <2>2. r = IF start + back < N THEN start + back ELSE start + back - N
    BY <1>1 DEF Routes
  <2> HIDE DEF back
  <2>3. r = (start + back) % N
    BY <2>1, <2>2, Walked
  <2> QED
    BY <2>1, <2>3
<1> QED
  BY <1>2, <1>3

\* A query asks as many different routes as it may, and the queries after it go on
\* where it stopped, for any number of addresses and of tries (Upstream::forward).
THEOREM WalksMoveOn == Spec => WalkMovesOn
<1>1. ASSUME TypeOK, NEW c \in Clients
      PROVE  /\ TriesNext(c) => At(c)' \notin Asked(c)
             /\ GivesUp(c) /\ task[c].current =>
                  preferred' \notin Asked(c) \/ Asked(c) = Routes
  <2> DEFINE start == task[c].start
  <2>1. /\ task[c] \in Task /\ task \in [Clients -> Task]
        /\ start \in Routes /\ task[c].k \in 0 .. Reach - 1
    BY <1>1 DEF TypeOK, Task
  <2>2. Reach \in Nat \ {0} /\ Reach <= N /\ N \in Nat \ {0}
    BY ReachType, StubAssumption
  <2>3. ASSUME TriesNext(c) PROVE At(c)' \notin Asked(c)
    <3>1. task'[c].start = start /\ task'[c].k = task[c].k + 1 /\ task[c].k + 1 < Reach
      BY <2>1, <2>3 DEF TriesNext, Task
    <3>2. At(c)' = (start + (task[c].k + 1)) % N
      BY <3>1 DEF At
    <3> SUFFICES ASSUME NEW j \in 0 .. task[c].k,
                        (start + j) % N = (start + (task[c].k + 1)) % N
                 PROVE  FALSE
      BY <3>2 DEF Asked
    <3>3. /\ j \in 0 .. N /\ task[c].k + 1 \in 0 .. N
          /\ j < task[c].k + 1 /\ task[c].k + 1 # N
      BY <2>1, <2>2, <3>1
    <3> QED
      BY <2>1, <3>3, WalkIsFresh
  <2>4. ASSUME GivesUp(c), task[c].current
        PROVE  preferred' \notin Asked(c) \/ Asked(c) = Routes
    <3>1. task[c].k + 1 = Reach /\ preferred' = (start + Reach) % N
      BY <2>4 DEF GivesUp, Prefer
    <3>2. task[c].k = Reach - 1
      BY <2>1, <2>2, <3>1
    <3>3. Asked(c) = {(start + k) % N : k \in 0 .. Reach - 1}
      BY <3>2 DEF Asked
    <3>4. CASE Reach = N
      BY <2>1, <3>3, <3>4, WalkIsFull
    <3>5. CASE Reach # N
      <4> SUFFICES ASSUME NEW j \in 0 .. Reach - 1,
                          (start + j) % N = (start + Reach) % N
                   PROVE  FALSE
        BY <3>1, <3>3
      <4>1. j \in 0 .. N /\ Reach \in 0 .. N /\ j < Reach
        BY <2>2
      <4> QED
        BY <2>1, <3>5, <4>1, WalkIsFresh
    <3> QED
      BY <3>4, <3>5
  <2> QED
    BY <2>3, <2>4
<1>2. IInv /\ [Next]_vars
        => [\A c \in Clients :
              /\ TriesNext(c) => At(c)' \notin Asked(c)
              /\ GivesUp(c) /\ task[c].current =>
                   preferred' \notin Asked(c) \/ Asked(c) = Routes]_vars
  BY <1>1 DEF IInv
<1> QED
  BY <1>2, InvInit, InvStep, PTL DEF Spec, WalkMovesOn
=============================================================================
