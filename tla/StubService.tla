---------------------------- MODULE StubService ----------------------------
(***************************************************************************)
(* The serving half of the stub (core/src/stub.rs): binding the loopback   *)
(* sockets, a task per UDP query and per TCP connection, the walk over the *)
(* resolver's addresses that a query makes, and the stop that returns only *)
(* when the sockets are closed. What a query failure sets in motion and    *)
(* where the addresses come from is Resolver; who starts and stops the     *)
(* stub, one call at a time, is Protection.                                *)
(*                                                                         *)
(* Time runs only while a stop is under way, in units of STOP_GRACE, and   *)
(* never past something that is due (a task that has been told, an empty   *)
(* JoinSet), unless the machine stalls. A query upstream may take longer   *)
(* than any grace: UPSTREAM_TIMEOUT_SECS is several.                       *)
(***************************************************************************)
EXTENDS Integers, FiniteSets

CONSTANTS
  Clients,   \* who asks: each has one UDP query or one TCP connection
  Garbled,   \* those whose queries servfail cannot echo
  Via,       \* Via[c]: the socket client c talks to
  Families,  \* "v4", and "v6" if the setting asks for it
  N,         \* addresses of the resolver, in order: routes 0 .. N - 1
  Tries,     \* TRIES_PER_QUERY
  Answering, \* the sets of routes that may answer at a time
  Contested, \* sockets that another program may take
  Limit      \* the outer limit of stop, in graces

Routes == 0 .. N - 1
Sockets == {"udp", "tcp"} \X Families
Udp(s) == s[1] = "udp"
Pair(family) == {<<"udp", family>>, <<"tcp", family>>}
Reach == IF N < Tries THEN N ELSE Tries   \* n.min(TRIES_PER_QUERY)

ASSUME StubAssumption ==
  /\ Garbled \subseteq Clients /\ Via \in [Clients -> Sockets]
  /\ "v4" \in Families /\ N \in Nat \ {0} /\ Tries \in Nat \ {0}
  /\ Limit \in Nat \ {0, 1} /\ Answering \subseteq SUBSET Routes
  /\ Contested \subseteq Sockets

VARIABLES
  owner,     \* the StubHandle: "off", "on", or "stopping"
  listener,  \* listener[s]: the task of a listener
  task,      \* task[c]: the task that serves a client
  told,      \* told[c]: what became of the last query
  other,     \* sockets another program holds
  up,        \* the addresses that answer
  preferred, \* the route that the next query starts from
  clock,     \* graces since the stop signal
  stalled    \* history: the machine stood still during this stop, or something
             \* is left of one during which it did

vars == <<owner, listener, task, told, other, up, preferred, clock, stalled>>

NoTask == [pc |-> "none", start |-> 0, k |-> 0, current |-> TRUE]
Tasks(s) == {c \in Clients : Via[c] = s /\ task[c].pc # "none"}

\* A UDP socket is shared by its listener and every query task; serve_tcp drops
\* its listener before it waits for the connections. One that was abandoned may
\* hold its socket until the runtime has dropped it.
Held(s) == IF Udp(s) THEN listener[s] \in {"serving", "draining", "aborted"}
           ELSE listener[s] \in {"serving", "aborted"}

Init ==
  /\ owner = "off" /\ listener = [s \in Sockets |-> "none"]
  /\ task = [c \in Clients |-> NoTask] /\ told = [c \in Clients |-> "told"]
  /\ other = {} /\ up \in Answering /\ preferred = 0 /\ clock = 0 /\ stalled = FALSE

-----------------------------------------------------------------------------
(* Start. *)

Free(s) == ~Held(s) /\ s \notin other

\* start, listen, bind_pair: IPv4 is required, IPv6 a warning, each both or
\* neither. A start that fails changes nothing.
Start ==
  /\ owner = "off"
  /\ \A s \in Pair("v4") : Free(s)
  /\ \E asked \in {f \in SUBSET Families : "v4" \in f} :
       listener' = [s \in Sockets |->
         IF s[2] \in asked /\ \A p \in Pair(s[2]) : Free(p) THEN "serving" ELSE listener[s]]
  /\ owner' = "on" /\ preferred' = 0
  /\ UNCHANGED <<task, told, other, up, clock, stalled>>

-----------------------------------------------------------------------------
(* Queries. *)

\* A query begins where the last one found an answer.
Forwarded(c) ==
  /\ task' = [task EXCEPT ![c] = [NoTask EXCEPT !.pc = "forward", !.start = preferred]]
  /\ told' = [told EXCEPT ![c] = "asking"]

\* serve_udp: a datagram, a task.
Receive(c) ==
  /\ Udp(Via[c]) /\ listener[Via[c]] = "serving" /\ task[c].pc = "none"
  /\ Forwarded(c)
  /\ UNCHANGED <<owner, listener, other, up, preferred, clock, stalled>>

\* serve_tcp: a connection, a task; serve_tcp_conn: a length, then a query.
Moves(c, pc) ==
  /\ task' = [task EXCEPT ![c] = [NoTask EXCEPT !.pc = pc]]
  /\ UNCHANGED <<owner, listener, told, other, up, preferred, clock, stalled>>

Accept(c) == ~Udp(Via[c]) /\ listener[Via[c]] = "serving" /\ task[c].pc = "none" /\ Moves(c, "idle")
Length(c) == task[c].pc = "idle" /\ Moves(c, "reading")
Body(c) ==
  /\ task[c].pc = "reading" /\ Forwarded(c)
  /\ UNCHANGED <<owner, listener, other, up, preferred, clock, stalled>>

\* Twenty seconds of silence, a length of zero, or a client that hangs up.
HangsUp(c) == task[c].pc \in {"idle", "reading"} /\ Moves(c, "none")

\* The task after its query: a UDP task is over, a connection goes on unless
\* its client has gone or there was nothing to say.
After(c, said) ==
  /\ told' = [told EXCEPT ![c] = IF said THEN "told" ELSE "untold"]
  /\ \E pc \in IF Udp(Via[c]) \/ ~said THEN {"none"} ELSE {"idle", "none"} :
       task' = [task EXCEPT ![c] = [NoTask EXCEPT !.pc = pc]]

At(c) == (task[c].start + task[c].k) % N
Prefer(c, i) == preferred' = IF task[c].current THEN i ELSE preferred

\* Seeded fault: the next route is preferred, and no modulus.
AnsweredNext(c) ==
  /\ task[c].pc = "forward" /\ At(c) \in up
  /\ preferred' = At(c) + 1
  /\ After(c, TRUE)
  /\ UNCHANGED <<owner, listener, other, up, clock, stalled>>

\* Upstream::forward, one route at a time.
Answered(c) ==
  /\ task[c].pc = "forward" /\ At(c) \in up
  /\ IF task[c].k > 0 THEN Prefer(c, At(c)) ELSE UNCHANGED preferred
  /\ After(c, TRUE)
  /\ UNCHANGED <<owner, listener, other, up, clock, stalled>>

\* Seeded fault: the same route again.
TriesSame(c) ==
  /\ task[c].pc = "forward" /\ At(c) \notin up /\ task[c].k + 1 < Reach
  /\ UNCHANGED vars

TriesNext(c) ==
  /\ task[c].pc = "forward" /\ At(c) \notin up /\ task[c].k + 1 < Reach
  /\ task' = [task EXCEPT ![c].k = @ + 1]
  /\ UNCHANGED <<owner, listener, told, other, up, preferred, clock, stalled>>

\* Seeded fault: the next query begins where this one began.
GivesUpThere(c) ==
  /\ task[c].pc = "forward" /\ At(c) \notin up /\ task[c].k + 1 = Reach
  /\ After(c, c \notin Garbled)
  /\ UNCHANGED <<owner, listener, other, up, preferred, clock, stalled>>

\* Seeded fault: no SERVFAIL, the client waits out its own timeout.
GivesUpSilently(c) ==
  /\ task[c].pc = "forward" /\ At(c) \notin up /\ task[c].k + 1 = Reach
  /\ Prefer(c, (task[c].start + Reach) % N)
  /\ After(c, FALSE)
  /\ UNCHANGED <<owner, listener, other, up, clock, stalled>>

\* ... and when they are spent, SERVFAIL, and the next query begins after them.
GivesUp(c) ==
  /\ task[c].pc = "forward" /\ At(c) \notin up /\ task[c].k + 1 = Reach
  /\ Prefer(c, (task[c].start + Reach) % N)
  /\ After(c, c \notin Garbled)
  /\ UNCHANGED <<owner, listener, other, up, clock, stalled>>

\* Recovery::rebuild: new clients, which the queries under way do not use.
Rebuild ==
  /\ owner # "off" /\ preferred' = 0
  /\ task' = [c \in Clients |-> IF task[c].pc = "forward" THEN [task[c] EXCEPT !.current = FALSE]
                                ELSE task[c]]
  /\ UNCHANGED <<owner, listener, told, other, up, clock, stalled>>

-----------------------------------------------------------------------------
(* Stop. *)

Stop ==
  /\ owner = "on" /\ owner' = "stopping" /\ clock' = 0
  /\ stalled' = \E s \in Sockets : listener[s] = "aborted"
  /\ UNCHANGED <<listener, task, told, other, up, preferred>>

Notice(s) ==
  /\ owner = "stopping" /\ listener[s] = "serving"
  /\ listener' = [listener EXCEPT ![s] = "draining"]
  /\ UNCHANGED <<owner, task, told, other, up, preferred, clock, stalled>>

\* A connection between two queries ends at once.
NoticeIdle(c) == owner = "stopping" /\ task[c].pc = "idle" /\ Moves(c, "none")

\* The tasks of s end where they are, and with them what they hold.
Cancelled(s) ==
  /\ task' = [c \in Clients |-> IF Via[c] = s THEN NoTask ELSE task[c]]
  /\ told' = [c \in Clients |-> IF Via[c] = s /\ task[c].pc = "forward" THEN "untold" ELSE told[c]]

\* Seeded fault: a drain that waits as long as it takes.
NoDeadline(s) == FALSE

Deadline(s) == listener[s] = "draining" /\ clock >= 1

\* drain: until none is left, or the grace is over and the rest is cancelled.
Drain(s) ==
  /\ listener[s] = "draining" /\ listener' = [listener EXCEPT ![s] = "none"]
  /\ \/ Tasks(s) = {} /\ UNCHANGED <<task, told>>
     \/ Tasks(s) # {} /\ Deadline(s) /\ Cancelled(s)
  /\ UNCHANGED <<owner, other, up, preferred, clock, stalled>>

Running(s) == listener[s] \in {"serving", "draining"}

\* Seeded fault: stop returns once its signal is sent.
JoinNone ==
  /\ owner = "stopping" /\ owner' = "off"
  /\ UNCHANGED <<listener, task, told, other, up, preferred, clock, stalled>>

\* StubHandle::stop: every listener joined ...
Join ==
  /\ owner = "stopping" /\ \A s \in Sockets : ~Running(s)
  /\ owner' = "off"
  /\ UNCHANGED <<listener, task, told, other, up, preferred, clock, stalled>>

\* ... or the limit passed, and those that are left aborted but not waited for.
Abandon ==
  /\ owner = "stopping" /\ clock = Limit /\ \E s \in Sockets : Running(s)
  /\ owner' = "off"
  /\ listener' = [s \in Sockets |-> IF Running(s) THEN "aborted" ELSE listener[s]]
  /\ UNCHANGED <<task, told, other, up, preferred, clock, stalled>>

Dropped(s) ==
  /\ listener[s] = "aborted" /\ listener' = [listener EXCEPT ![s] = "none"]
  /\ Cancelled(s)
  /\ UNCHANGED <<owner, other, up, preferred, clock, stalled>>

\* What happens before time goes on.
Due ==
  \/ \E s \in Sockets : \/ listener[s] = "serving"
                        \/ listener[s] = "draining" /\ Tasks(s) = {}
                        \/ Deadline(s)
  \/ \E c \in Clients : task[c].pc = "idle"
  \/ \A s \in Sockets : ~Running(s)

Tick ==
  /\ owner = "stopping" /\ clock < Limit /\ (Due => stalled)
  /\ clock' = clock + 1
  /\ UNCHANGED <<owner, listener, task, told, other, up, preferred, stalled>>

Stall ==
  /\ owner = "stopping" /\ ~stalled /\ stalled' = TRUE
  /\ UNCHANGED <<owner, listener, task, told, other, up, preferred, clock>>

-----------------------------------------------------------------------------
(* The world. *)

\* Another program takes a socket that is free, or lets go of it.
OtherProgram ==
  /\ \E s \in Contested :
       \/ s \notin other /\ ~Held(s) /\ other' = other \cup {s}
       \/ s \in other /\ other' = other \ {s}
  /\ UNCHANGED <<owner, listener, task, told, up, preferred, clock, stalled>>

Network ==
  /\ up' \in Answering \ {up}
  /\ UNCHANGED <<owner, listener, task, told, other, preferred, clock, stalled>>

Query(c) == Answered(c) \/ TriesNext(c) \/ GivesUp(c)
Client(c) == Receive(c) \/ Accept(c) \/ Length(c) \/ Body(c) \/ HangsUp(c)
Listener(s) == Notice(s) \/ Drain(s) \/ Dropped(s)

Next ==
  \/ Start \/ Stop \/ Join \/ Abandon \/ Tick \/ Stall
  \/ \E c \in Clients : Query(c) \/ Client(c) \/ NoticeIdle(c)
  \/ \E s \in Sockets : Listener(s)
  \/ Rebuild \/ OtherProgram \/ Network

\* A POST returns or times out. Nobody has to ask, to hang up, or to stop.
Fairness == \A c \in Clients : WF_vars(Query(c))

Spec == Init /\ [][Next]_vars /\ Fairness

-----------------------------------------------------------------------------
(* Properties. *)

TypeOK ==
  /\ owner \in {"off", "on", "stopping"}
  /\ listener \in [Sockets -> {"none", "serving", "draining", "aborted"}]
  /\ task \in [Clients -> [pc : {"none", "idle", "reading", "forward"}, start : Routes,
                           k : 0 .. Reach - 1, current : BOOLEAN]]
  /\ told \in [Clients -> {"asking", "told", "untold"}]
  /\ other \subseteq Contested /\ up \subseteq Routes /\ preferred \in Routes
  /\ clock \in 0 .. Limit /\ stalled \in BOOLEAN

\* When stop has returned no socket of ours is open and no task holds one, so a
\* start that follows cannot fail because of us (StubHandle::stop, drain). Only
\* on a machine that stood still may it give up waiting.
StoppedMeansFree ==
  (owner = "off" /\ ~stalled) =>
    /\ \A s \in Sockets : ~Held(s) /\ ~Running(s)
    /\ \A c \in Clients : task[c].pc = "none"

\* A query that has gone upstream gets an answer or a SERVFAIL: silence is for
\* one that cannot be echoed, and for one that outlived the grace of a stop
\* (drain, serve_udp, serve_tcp_conn).
SilenceIsExcused ==
  [][\A c \in Clients :
       (told[c] = "asking" /\ told'[c] = "untold") => c \in Garbled \/ clock >= 1 \/ stalled]_vars

\* stop takes one grace and no more, whatever is still on its way upstream and
\* however long a TCP client keeps quiet in the middle of a query: the outer
\* limit is never reached, unless the machine stands still (StubHandle::stop).
StopIsPrompt == (owner = "stopping" /\ ~stalled) => clock <= 1

\* A query ends: the routes it may try are few, and it tries each of them once
\* (Upstream::forward).
QueriesEnd == \A c \in Clients : (task[c].pc = "forward") ~> (task[c].pc # "forward")

\* With one address answering for good, the queries find it and then no longer
\* fail, although each tries Tries of them and each moves the place where the
\* others begin (Upstream::forward).
Steady(r) == owner = "on" /\ up = {r}
WalkFinds ==
  \A r \in Routes :
    (<>[]Steady(r) /\ <>[][~Rebuild]_vars) => <>[][\A c \in Clients : ~GivesUp(c)]_vars
=============================================================================
