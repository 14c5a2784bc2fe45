---------------------------- MODULE InstancesProofs ----------------------------
(***************************************************************************)
(* What Instances promises, for every set of windows, number of retries    *)
(* and budget: the types, that a window shows the report of its own click, *)
(* and that an undisturbed window and the service never want the port at   *)
(* the same time.                                                          *)
(*                                                                         *)
(* ReportInv is about numbers: a click's is used by one window, one verb   *)
(* and one report (Numbered, Answering), so that a late report of an       *)
(* earlier verb cannot pass for it. PortInv is about who has what: a       *)
(* window holds the port only through its App (Held), gives that up before *)
(* it asks for a verb (Between), and has one again only if no service is   *)
(* registered by then (Single).                                            *)
(***************************************************************************)
EXTENDS Instances, SequenceTheorems, TLAPS

\* The worker waits for a prompt or for a verb.
Asking(w) == win[w].work.pc \in {"prompt", "waiting"}

\* What it waits for is a verb.
Pending == \A w \in Windows : Asking(w) => win[w].work.job \in Verbs

\* No number is used twice: those in use were given out, and two windows that
\* wait have different ones.
Numbered ==
  /\ \A w \in Windows : Asking(w) => win[w].work.click \in 1 .. clicks
  /\ \A v, w \in Windows : v # w /\ Asking(v) /\ Asking(w)
                            => win[v].work.click # win[w].work.click
  /\ \A c \in children : c.click <= clicks
  /\ report.click <= clicks

\* A verb, or a report, with the number a window waits for is the one it asked for.
Answering ==
  \A w \in Windows : Asking(w) =>
    /\ \A c \in children : c.click = win[w].work.click => c.verb = win[w].work.job
    /\ report.click = win[w].work.click => report.verb = win[w].work.job

\* Nothing is kept of the last job once it is done.
Blank == \A w \in Windows : win[w].work.pc = "idle" => win[w].work.batch = <<>>

\* A process that is not there has nothing, one that is opening no task yet.
Vacant == \A w \in Windows : /\ win[w].life = "gone" => win[w] = Gone
                             /\ win[w].life = "choosing" => win[w].work = Idle

\* Between letting go of its App and choosing again a window has neither half.
Between == \A w \in Windows : win[w].work.pc \in {"prompt", "waiting", "choose"}
                               => win[w].backend = "none"

\* Only the App of a window that is there holds the port for it.
Held == \A w \in Windows : port = w => Living(w) /\ win[w].backend = "local"

\* A service that is not registered does not run.
Registered == ~svc.reg => svc.state = "stopped"

\* Nothing is given back to the budget of events.
Within == \A k \in Kinds : left[k] <= Budget[k]

\* Undisturbed, there is one window; while a verb of its runs it waits, and an
\* App of its own it has only as long as no service is registered.
Single == Undisturbed =>
  /\ \A w \in Windows \ {First} : win[w].life = "gone"
  /\ win[First].backend = "local" => ~svc.reg
  /\ children # {} => \/ win[First].life = "gone"
                      \/ /\ win[First].work.pc = "waiting"
                         /\ \A c \in children : c.click = win[First].work.click

PortInv == Vacant /\ Between /\ Held /\ Registered /\ Within /\ Single

ReportInv == TypeOK /\ Pending /\ Numbered /\ Answering /\ Blank /\ ReportIsMine

-----------------------------------------------------------------------------
(* Types *)

\* The first window is opening, the others are not there.
LEMMA TypeInit == Init => TypeOK
<1> SUFFICES ASSUME Init PROVE TypeOK
  OBVIOUS
<1>1. Idle \in Task
  BY BudgetAssumption DEF Idle, Task
<1>2. Gone \in Window
  BY <1>1 DEF Gone, Window
<1>3. [Gone EXCEPT !.life = "choosing"] \in Window
  BY <1>2 DEF Window
<1>4. win \in [Windows -> Window]
  BY <1>2, <1>3 DEF Init
<1>5. svc \in [reg : BOOLEAN, state : {"stopped", "starting", "running"}, on : BOOLEAN]
  <2>1. NoService \in [reg : BOOLEAN, state : {"stopped", "starting", "running"}, on : BOOLEAN]
    BY DEF NoService
  <2>2. [NoService EXCEPT !.reg = TRUE, !.state = "starting"]
          \in [reg : BOOLEAN, state : {"stopped", "starting", "running"}, on : BOOLEAN]
    BY DEF NoService
  <2> QED
    BY <2>1, <2>2 DEF Init
<1>6. report \in [click : Nat, verb : Verbs \cup {"none"}]
  BY DEF Init, NoReport
<1> QED
  BY <1>4, <1>5, <1>6, WindowAssumption, BudgetAssumption DEF Init, TypeOK, Nobody

\* What the steps of a worker are made of (the loop of spawn_worker).
LEMMA IdleType == Idle \in Task
BY BudgetAssumption DEF Idle, Task

LEMMA DoneType ==
  ASSUME NEW r \in Window, NEW batch \in Seq(Replies) PROVE Done(r, batch) \in Window
<1>1. r.mail \o batch \in Seq(Replies)
  BY DEF Window
<1> QED
  BY <1>1, IdleType DEF Done, Window

LEMMA SeenType ==
  ASSUME NEW r \in Window, NEW reply \in Replies PROVE Seen(r, reply) \in Window
BY ZenonT(60) DEF Seen, Window, Replies

LEMMA TakeType ==
  ASSUME TypeOK, NEW w \in Windows, win[w].queue # <<>>
  PROVE  Take(w) \in Window /\ Head(win[w].queue) \in Jobs
<1>1. win[w] \in Window /\ win[w].queue \in Seq(Jobs)
  BY DEF TypeOK, Window
<1>2. Tail(win[w].queue) \in Seq(Jobs) /\ Head(win[w].queue) \in Jobs
  BY <1>1, HeadTailProperties
<1> QED
  BY <1>1, <1>2 DEF Take, Window

LEMMA BecomesType ==
  ASSUME TypeOK, NEW w \in Windows, NEW r \in Window, Becomes(w, r)
  PROVE  win' \in [Windows -> Window]
BY DEF TypeOK, Becomes

LEMMA ReplyType ==
  /\ \A on \in BOOLEAN : Reply("ok", State(on)) \in Replies /\ Reply("failed", State(on)) \in Replies
  /\ \A verb \in Verbs \cup {"none"} : Reply("output", verb) \in Replies
  /\ \A half \in {"local", "service"} : Reply("backend", half) \in Replies
  /\ Reply("ok", "on") \in Replies /\ Reply("ok", "off") \in Replies
  /\ Reply("failed", "off") \in Replies
  /\ Reply("silent", "none") \in Replies /\ Reply("over", "none") \in Replies
  /\ \A seen \in {"no", "stopped", "running"} : Reply("installed", seen) \in Replies
BY DEF Reply, Replies, State

LEMMA StatusType ==
  ASSUME TypeOK, NEW w \in Windows
  PROVE  Silence \in Seq(Replies) /\ Status(w) \in Seq(Replies)
<1>1. Silence \in Seq(Replies)
  BY ReplyType DEF Silence
<1>2. svc.on \in BOOLEAN /\ win[w].on \in BOOLEAN
  BY DEF TypeOK, Window
<1> QED
  BY <1>1, <1>2, ReplyType DEF Status

\* A worker's task moves on (the arms of its match).
LEMMA WorkType ==
  ASSUME NEW r \in Window
  PROVE  /\ [r EXCEPT !.work.pc = "waiting"] \in Window
         /\ \A b \in Seq(Replies) : [r EXCEPT !.work.pc = "choose", !.work.batch = b] \in Window
         /\ \A n \in 0 .. Retries : [r EXCEPT !.work.tries = n] \in Window
         /\ \A n \in 0 .. Retries, b \in Seq(Replies) :
              [r EXCEPT !.work.pc = "retry", !.work.tries = n, !.work.batch = b] \in Window
<1>3. [r EXCEPT !.work.pc = "waiting"] \in Window
  BY DEF Window, Task
<1>4. ASSUME NEW b \in Seq(Replies)
      PROVE  [r EXCEPT !.work.pc = "choose", !.work.batch = b] \in Window
  BY DEF Window, Task
<1>5. ASSUME NEW n \in 0 .. Retries PROVE [r EXCEPT !.work.tries = n] \in Window
  BY DEF Window, Task
<1>6. ASSUME NEW n \in 0 .. Retries, NEW b \in Seq(Replies)
      PROVE  [r EXCEPT !.work.pc = "retry", !.work.tries = n, !.work.batch = b] \in Window
  BY DEF Window, Task
<1> QED
  BY <1>3, <1>4, <1>5, <1>6

LEMMA PromptType ==
  ASSUME NEW job \in Jobs, NEW n \in Nat
  PROVE  [Idle EXCEPT !.pc = "prompt", !.job = job, !.click = n] \in Task
BY IdleType DEF Task

LEMMA GoneType ==
  /\ Gone \in Window
  /\ \A elsewhere \in BOOLEAN : [Gone EXCEPT !.life = "choosing", !.exempt = elsewhere] \in Window
  /\ \A act \in {"enable", "disable"} :
       [Gone EXCEPT !.life = "choosing", !.admin = TRUE, !.exempt = TRUE, !.act = act] \in Window
<1>1. Gone \in Window
  BY IdleType DEF Gone, Window
<1> QED
  BY <1>1 DEF Window

LEMMA SpendType == ASSUME TypeOK, NEW k \in Kinds, Spend(k) PROVE left' \in [Kinds -> Nat]
BY DEF TypeOK, Spend, Kinds

\* A window asks the service if one is registered, and its own App if not.
LEMMA ChosenBecomes ==
  ASSUME NEW w, NEW r, Chosen(r, w)
  PROVE  \E b, c : /\ Becomes(w, [r EXCEPT !.backend = b, !.on = c])
                   /\ \/ b = "local" /\ ~svc.reg
                      \/ b = "service" /\ svc.reg /\ UNCHANGED port
<1>1. CASE svc.reg
  <2>1. Becomes(w, [r EXCEPT !.backend = "service", !.on = FALSE]) /\ UNCHANGED port
    BY <1>1 DEF Chosen
  <2> QED
    BY <1>1, <2>1
<1>2. CASE ~svc.reg
  <2>1. Becomes(w, [r EXCEPT !.backend = "local", !.on = (wish /\ port = Nobody)])
    BY <1>2 DEF Chosen
  <2>2. \E c : Becomes(w, [r EXCEPT !.backend = "local", !.on = c])
    BY <2>1
  <2> QED
    BY <1>2, <2>2
<1> QED
  BY <1>1, <1>2

LEMMA ChosenType ==
  ASSUME TypeOK, NEW w \in Windows, NEW r \in Window, Chosen(r, w)
  PROVE  /\ win' \in [Windows -> Window]
         /\ port' \in Windows \cup {Nobody, "service"} /\ ours' \in BOOLEAN
<1>1. CASE svc.reg
  <2>1. [r EXCEPT !.backend = "service", !.on = FALSE] \in Window
    BY DEF Window
  <2> QED
    BY <1>1, <2>1, BecomesType DEF Chosen, TypeOK
<1>2. CASE ~svc.reg
  <2> DEFINE bound == wish /\ port = Nobody
  <2>1. bound \in BOOLEAN
    BY DEF TypeOK
  <2>2. [r EXCEPT !.backend = "local", !.on = bound] \in Window
    BY <2>1 DEF Window
  <2>3. win' \in [Windows -> Window]
    BY <1>2, <2>2, BecomesType DEF Chosen
  <2>4. port' = (IF bound THEN w ELSE port) /\ ours' = (IF r.admin THEN wish /\ (bound \/ ours) ELSE ours)
    BY <1>2 DEF Chosen
  <2> QED
    BY <2>1, <2>3, <2>4 DEF TypeOK
<1> QED
  BY <1>1, <1>2

\* What a window opens with (TrayApp::new).
OpenQueue(w) == <<"status">> \o (IF win[w].act = "none" THEN <<>> ELSE <<win[w].act>>)

LEMMA OpenType ==
  ASSUME TypeOK, NEW w \in Windows
  PROVE  /\ OpenQueue(w) \in Seq(Jobs)
         /\ [win[w] EXCEPT !.life = "open", !.local = ~svc.reg, !.busy = TRUE,
                           !.queue = OpenQueue(w)] \in Window
<1>f. win[w] \in Window /\ svc.reg \in BOOLEAN
  BY DEF TypeOK
<1>1. "status" \in Jobs /\ win[w].act \in Jobs \cup {"none"}
  BY <1>f DEF Window, Jobs, Requests
<1>2. CASE win[w].act = "none"
  <2>1. OpenQueue(w) \in Seq(Jobs)
    BY <1>1, <1>2 DEF OpenQueue
  <2> QED
    BY <1>f, <2>1 DEF Window
<1>3. CASE win[w].act # "none"
  <2>1. OpenQueue(w) \in Seq(Jobs)
    BY <1>1, <1>3 DEF OpenQueue
  <2> QED
    BY <1>f, <2>1 DEF Window
<1> QED
  BY <1>2, <1>3

\* What a window is when it chooses again, after a verb.
LEMMA AgainChosen ==
  ASSUME TypeOK, NEW w \in Windows, ChooseAgain(w)
  PROVE  \E q \in Window, half \in {"local", "service"} :
           /\ Chosen(q, w) /\ q.work.pc = "retry" /\ q.work.job = win[w].work.job
           /\ q.work.batch = Append(win[w].work.batch, Reply("backend", half))
           /\ q.life = win[w].life
<1> DEFINE half == IF svc.reg THEN "service" ELSE "local"
<1> DEFINE batch == Append(win[w].work.batch, Reply("backend", half))
<1> DEFINE q == [win[w] EXCEPT !.work.pc = "retry", !.work.tries = Retries, !.work.batch = batch]
<1>f. win[w] \in Window
  BY DEF TypeOK
<1>1. batch \in Seq(Replies) /\ half \in {"local", "service"}
  BY <1>f, ReplyType DEF Window, Task
<1>2. Chosen(q, w)
  <2>1. q = [win[w] EXCEPT !.work.pc = "retry", !.work.tries = Retries,
                           !.work.batch = Append(@, Reply("backend", half))]
    BY <1>f DEF Window, Task
  <2> QED
    BY <2>1 DEF ChooseAgain
<1>3. Retries \in 0 .. Retries
  BY BudgetAssumption
<1> HIDE DEF batch
<1>4. q \in Window
  BY <1>f, <1>1, <1>3, WorkType
<1>5. /\ q.work.pc = "retry" /\ q.work.job = win[w].work.job /\ q.work.batch = batch
      /\ q.life = win[w].life
  BY <1>f DEF Window, Task
<1> HIDE DEF q, half
<1> QED
  BY <1>1, <1>2, <1>4, <1>5 DEF batch

\* Every step keeps every variable in its type (one step per action).
LEMMA TypeNext == TypeOK /\ Pending /\ [Next]_vars => TypeOK'
<1> SUFFICES ASSUME TypeOK, Pending, [Next]_vars PROVE TypeOK'
  OBVIOUS
<1> USE DEF vars, machine, verbs
<1>f. /\ win \in [Windows -> Window] /\ \A w \in Windows : win[w] \in Window
      /\ left \in [Kinds -> Nat] /\ {"any", "launch", "click", "handover", "other", "fault", "slow", "crash"} \subseteq Kinds
      /\ clicks \in Nat /\ svc.on \in BOOLEAN /\ svc.reg \in BOOLEAN
      /\ wish \in BOOLEAN /\ ours \in BOOLEAN
  BY DEF TypeOK, Kinds
<1>s. ASSUME NEW k \in Kinds, Spend(k) PROVE left' \in [Kinds -> Nat]
  BY <1>s, SpendType
<1>0. ASSUME NEW w \in Windows, NEW r \in Window, Becomes(w, r) PROVE win' \in [Windows -> Window]
  BY <1>0, BecomesType
<1>d. ASSUME NEW w \in Windows, NEW r \in Window, NEW batch \in Seq(Replies),
             Becomes(w, Done(r, batch))
      PROVE  win' \in [Windows -> Window]
  BY <1>d, BecomesType, DoneType
<1>1. ASSUME NEW w \in Windows, Poll(w) PROVE TypeOK'
  <2>1. win' \in [Windows -> Window]
    BY <1>1, <1>d, <1>f, StatusType DEF Poll
  <2> QED
    BY <1>1, <2>1 DEF Poll, TypeOK
<1>2. ASSUME NEW w \in Windows, AskStatus(w) PROVE TypeOK'
  <2>1. win' \in [Windows -> Window]
    BY <1>2, <1>d, TakeType, StatusType DEF AskStatus, Next1
  <2> QED
    BY <1>2, <2>1 DEF AskStatus, TypeOK
<1>3. ASSUME NEW w \in Windows, Unheard(w) PROVE TypeOK'
  <2>1. win' \in [Windows -> Window]
    BY <1>3, <1>d, TakeType, StatusType DEF Unheard, Next1
  <2> QED
    BY <1>3, <2>1 DEF Unheard, TypeOK
<1>o. ASSUME NEW w \in Windows, NEW r \in Window, NEW on \in BOOLEAN,
             NEW batch \in Seq(Replies), TurnsOn(w, r, on, batch)
      PROVE  /\ win' \in [Windows -> Window]
             /\ svc' \in [reg : BOOLEAN, state : {"stopped", "starting", "running"}, on : BOOLEAN]
  <2>1. [r EXCEPT !.on = on] \in Window
    BY DEF Window
  <2> QED
    BY <1>o, <1>d, <2>1 DEF TurnsOn, TypeOK
<1>w. \A w \in Windows : Who(w) \in Windows \cup {Nobody, "service"} /\ IsOn(w) \in BOOLEAN
                        /\ Free(w) \in Windows \cup {Nobody, "service"}
                        /\ Unclaimed(w) \in Windows \cup {Nobody}
  BY <1>f DEF Who, IsOn, Window, Free, Unclaimed, TypeOK
<1>4. ASSUME NEW w \in Windows, AskEnable(w) PROVE TypeOK'
  <2>0. Take(w) \in Window
    BY <1>4, TakeType DEF AskEnable, Next1
  <2>1. CASE /\ port' = Who(w) /\ ours' = TRUE /\ wish' = TRUE
             /\ TurnsOn(w, Take(w), TRUE, <<Reply("ok", "on")>>) /\ UNCHANGED left
    <3>1. <<Reply("ok", "on")>> \in Seq(Replies)
      BY ReplyType
    <3> QED
      BY <1>4, <1>o, <1>w, <2>0, <2>1, <3>1 DEF AskEnable, TypeOK
  <2>2. CASE /\ Becomes(w, Done(Take(w), <<Reply("failed", State(IsOn(w)))>>))
             /\ UNCHANGED <<svc, wish>>
             /\ \/ UNCHANGED <<port, ours, left>>
                \/ port' = Who(w) /\ ((Spend("fault") /\ ours' = FALSE) \/ UNCHANGED <<ours, left>>)
    <3>1. <<Reply("failed", State(IsOn(w)))>> \in Seq(Replies)
      BY <1>w, ReplyType
    <3>2. win' \in [Windows -> Window]
      BY <1>d, <2>0, <2>2, <3>1
    <3>3. left' \in [Kinds -> Nat]
      BY <1>s, <1>f, <2>2
    <3> QED
      BY <1>4, <1>w, <2>2, <3>2, <3>3 DEF AskEnable, TypeOK
  <2> QED
    BY <1>4, <2>1, <2>2 DEF AskEnable
<1>5. ASSUME NEW w \in Windows, AskDisable(w) PROVE TypeOK'
  <2>0. Take(w) \in Window
    BY <1>5, TakeType DEF AskDisable, Next1
  <2>1. <<Reply("ok", "off")>> \in Seq(Replies)
    BY ReplyType
  <2>5. <<Reply("failed", "off")>> \in Seq(Replies)
    BY ReplyType
  <2>2. /\ win' \in [Windows -> Window]
        /\ svc' \in [reg : BOOLEAN, state : {"stopped", "starting", "running"}, on : BOOLEAN]
    BY <1>5, <1>o, <2>0, <2>1, <2>5 DEF AskDisable
  <2>4. left' \in [Kinds -> Nat]
    BY <1>5, <1>s, <1>f DEF AskDisable
  <2>3. port' \in Windows \cup {Nobody, "service"} /\ ours' \in BOOLEAN /\ wish' \in BOOLEAN
    BY <1>5, <1>f, <1>w DEF AskDisable, TypeOK, Able
  <2> QED
    BY <1>5, <2>2, <2>3, <2>4 DEF AskDisable, TypeOK
<1>6. ASSUME NEW w \in Windows, LetGo(w) PROVE TypeOK'
  <2>1. Take(w) \in Window /\ Head(win[w].queue) \in Jobs
    BY <1>6, TakeType DEF LetGo, Next1
  <2>2. [Take(w) EXCEPT !.work.pc = "becoming", !.work.job = Head(win[w].queue)] \in Window
    BY <2>1 DEF Window, Task
  <2> QED
    BY <1>6, <1>0, <1>w, <2>2 DEF LetGo, TypeOK
<1>7. ASSUME NEW w \in Windows, Prepare(w) PROVE TypeOK'
  <2>1. Take(w) \in Window /\ Head(win[w].queue) \in Jobs
    BY <1>7, TakeType DEF Prepare, Next1
  <2>2. [Idle EXCEPT !.pc = "prompt", !.job = Head(win[w].queue), !.click = clicks + 1] \in Task
    <3> DEFINE n == clicks + 1
    <3>1. n \in Nat
      BY <1>f
    <3> HIDE DEF n
    <3>2. [Idle EXCEPT !.pc = "prompt", !.job = Head(win[w].queue), !.click = n] \in Task
      BY <2>1, <3>1, PromptType
    <3> QED
      BY <3>2 DEF n
  <2>3. [Take(w) EXCEPT !.backend = "none", !.on = FALSE,
           !.work = [Idle EXCEPT !.pc = "prompt", !.job = Head(win[w].queue), !.click = clicks + 1]]
          \in Window
    BY <2>1, <2>2 DEF Window
  <2> QED
    BY <1>7, <1>0, <1>f, <1>w, <2>3 DEF Prepare, TypeOK
<1>8. ASSUME NEW w \in Windows, Waited(w) PROVE TypeOK'
  <2>1. \A verb \in Verbs \cup {"none"} :
          [win[w] EXCEPT !.work.pc = "choose", !.work.batch = <<Reply("output", verb)>>] \in Window
    <3> SUFFICES ASSUME NEW verb \in Verbs \cup {"none"}
                 PROVE  [win[w] EXCEPT !.work.pc = "choose",
                                       !.work.batch = <<Reply("output", verb)>>] \in Window
      OBVIOUS
    <3>1. <<Reply("output", verb)>> \in Seq(Replies)
      BY ReplyType
    <3> QED
      BY <1>f, <3>1, WorkType
  <2>2. Loaded(win[w].work.click) \in Verbs \cup {"none"}
    BY DEF Loaded, TypeOK
  <2>3. win' \in [Windows -> Window]
    BY <1>8, <1>0, <2>1, <2>2 DEF Waited
  <2>4. left' \in [Kinds -> Nat]
    BY <1>8, <1>s, <1>f DEF Waited
  <2> QED
    BY <1>8, <2>3, <2>4 DEF Waited, TypeOK
<1>9. ASSUME NEW w \in Windows, ChooseAgain(w) PROVE TypeOK'
  BY <1>9, AgainChosen, ChosenType DEF ChooseAgain, TypeOK
<1>10. ASSUME NEW w \in Windows, Retry(w) PROVE TypeOK'
  <2>1. win[w].work.batch \in Seq(Replies) /\ win[w].work.tries \in 0 .. Retries
    BY <1>f DEF Window, Task
  <2>2. win[w].work.batch \o Status(w) \in Seq(Replies)
    BY <2>1, StatusType
  <2>3. CASE Becomes(w, Done(win[w], win[w].work.batch \o Status(w)))
    BY <1>10, <1>d, <1>f, <2>2, <2>3 DEF Retry, TypeOK
  <2>4. CASE /\ Becomes(w, [win[w] EXCEPT !.work.tries = @ - 1])
             /\ win[w].work.tries # 0
    <3>1. [win[w] EXCEPT !.work.tries = @ - 1] \in Window
      <4>1. win[w].work.tries - 1 \in 0 .. Retries
        BY <2>1, <2>4, BudgetAssumption
      <4>2. [win[w] EXCEPT !.work.tries = @ - 1]
              = [win[w] EXCEPT !.work.tries = win[w].work.tries - 1]
        BY <1>f DEF Window, Task
      <4>3. \A n \in 0 .. Retries : [win[w] EXCEPT !.work.tries = n] \in Window
        BY <1>f, WorkType
      <4> QED
        BY <4>1, <4>2, <4>3
    <3> QED
      BY <1>10, <1>0, <2>4, <3>1 DEF Retry, TypeOK
  <2> QED
    BY <1>10, <2>3, <2>4 DEF Retry
<1>11. ASSUME NEW w \in Windows, Open(w) PROVE TypeOK'
  BY <1>11, OpenType, ChosenType DEF Open, OpenQueue, TypeOK
<1>12. ASSUME NEW w \in Windows, Drain(w) PROVE TypeOK'
  <2>1. Tail(win[w].mail) \in Seq(Replies) /\ Head(win[w].mail) \in Replies
    BY <1>12, <1>f, HeadTailProperties DEF Drain, Window
  <2>2. [win[w] EXCEPT !.mail = Tail(@)] \in Window
    BY ZenonT(60), <1>f, <2>1 DEF Window
  <2> QED
    BY <1>12, <1>0, <2>1, <2>2, SeenType DEF Drain, TypeOK
<1>13. ASSUME NEW w \in Windows, Ends(w), left' \in [Kinds -> Nat] PROVE TypeOK'
  <2>1. Gone \in Window
    BY GoneType
  <2> QED
    BY <1>13, <1>0, <1>w, <2>1 DEF Ends, TypeOK
<1>14. ASSUME NEW w \in Windows, Exit(w) \/ Crash(w) PROVE TypeOK'
  BY <1>14, <1>13, <1>s, <1>f DEF Exit, Crash
<1>15. ASSUME NEW w \in Windows, Launch(w) PROVE TypeOK'
  <2>1. \A elsewhere \in BOOLEAN : [Gone EXCEPT !.life = "choosing", !.exempt = elsewhere] \in Window
    BY GoneType
  <2> QED
    BY <1>15, <1>0, <1>s, <1>f, <2>1 DEF Launch, TypeOK
<1>16. ASSUME NEW w \in Windows, NEW job \in Jobs,
              Becomes(w, [win[w] EXCEPT !.queue = Append(@, job), !.busy = TRUE])
       PROVE  win' \in [Windows -> Window]
  <2>1. Append(win[w].queue, job) \in Seq(Jobs)
    BY <1>f DEF Window
  <2>2. [win[w] EXCEPT !.queue = Append(@, job), !.busy = TRUE] \in Window
    BY ZenonT(60), <1>f, <2>1 DEF Window
  <2> QED
    BY <1>0, <1>16, <2>2
<1>t. \A w \in Windows : Toggle(w) \in Jobs /\ VerbButtons(w) \subseteq Jobs /\ "start" \in Jobs
  BY DEF Toggle, VerbButtons, Jobs, Requests, Verbs
<1>17. ASSUME NEW w \in Windows, Click(w) \/ TrayClick(w) PROVE TypeOK'
  <2>1. left' \in [Kinds -> Nat]
    BY <1>17, <1>s, <1>f DEF Click, TrayClick
  <2>2. \E job \in Jobs : Becomes(w, [win[w] EXCEPT !.queue = Append(@, job), !.busy = TRUE])
    BY <1>17, <1>t DEF Click, TrayClick
  <2> QED
    BY <1>17, <1>16, <2>1, <2>2 DEF Click, TrayClick, TypeOK
<1>18. ASSUME NEW w \in Windows, Quit(w) PROVE TypeOK'
  <2>1. [win[w] EXCEPT !.life = "leaving"] \in Window
    BY ZenonT(60), <1>f DEF Window
  <2> QED
    BY <1>18, <1>0, <1>s, <1>f, <2>1 DEF Quit, TypeOK
<1>19. ASSUME NEW w \in Windows, Declined(w) PROVE TypeOK'
  <2>1. <<Reply("output", "none")>> \in Seq(Replies)
    BY ReplyType
  <2> QED
    BY <1>19, <1>d, <1>f, <2>1 DEF Declined, TypeOK
<1>20. ASSUME NEW w \in Windows, HandOver(w) PROVE TypeOK'
  <2>1. <<Reply("over", "none")>> \in Seq(Replies)
    BY ReplyType
  <2>2. Done(win[w], <<Reply("over", "none")>>) \in Window
    BY <1>f, <2>1, DoneType
  <2>3. \A act \in {"enable", "disable"} :
          [Gone EXCEPT !.life = "choosing", !.admin = TRUE, !.exempt = TRUE, !.act = act] \in Window
    BY GoneType
  <2>4. win' \in [Windows -> Window]
    BY <1>20, <1>f, <2>2, <2>3 DEF HandOver
  <2> QED
    BY <1>20, <1>s, <1>f, <2>4 DEF HandOver, TypeOK
<1>21. ASSUME NEW w \in Windows, Prompted(w) PROVE TypeOK'
  <2>1. <<Reply("output", "none")>> \in Seq(Replies)
    BY ReplyType
  <2>2. /\ [win[w] EXCEPT !.work.pc = "waiting"] \in Window
        /\ [win[w] EXCEPT !.work.pc = "choose",
                          !.work.batch = <<Reply("output", "none")>>] \in Window
    BY <1>f, <2>1, WorkType
  <2>3. win' \in [Windows -> Window]
    BY <1>21, <1>0, <2>2 DEF Prompted
  <2>4. \A c \in children' : c \in [click : Nat, verb : Verbs, pc : {"run", "report"}]
    <3>1. win[w].work.click \in Nat /\ (At(w, "prompt") => win[w].work.job \in Verbs)
      BY <1>f DEF Window, Task, Pending, Asking, At
    <3>2. children' \subseteq children
            \cup {[click |-> win[w].work.click, verb |-> win[w].work.job, pc |-> "run"]}
      BY <1>21 DEF Prompted
    <3>3. \A c \in children : c \in [click : Nat, verb : Verbs, pc : {"run", "report"}]
      BY DEF TypeOK
    <3>4. At(w, "prompt")
      BY <1>21 DEF Prompted
    <3> QED
      BY <3>1, <3>2, <3>3, <3>4
  <2> QED
    BY <1>21, <2>3, <2>4 DEF Prompted, TypeOK
<1>22. ASSUME NEW c \in children, RunVerb(c) PROVE TypeOK'
  <2>1. c \in [click : Nat, verb : Verbs, pc : {"run", "report"}]
    BY DEF TypeOK
  <2>2. [c EXCEPT !.pc = "report"] \in [click : Nat, verb : Verbs, pc : {"run", "report"}]
    BY <2>1
  <2>3. \A d \in children' : d \in [click : Nat, verb : Verbs, pc : {"run", "report"}]
    BY <1>22, <2>2 DEF RunVerb, TypeOK
  <2>4. /\ Launched \in [reg : BOOLEAN, state : {"stopped", "starting", "running"}, on : BOOLEAN]
        /\ Halted \in [reg : BOOLEAN, state : {"stopped", "starting", "running"}, on : BOOLEAN]
        /\ [svc EXCEPT !.reg = TRUE]
             \in [reg : BOOLEAN, state : {"stopped", "starting", "running"}, on : BOOLEAN]
        /\ [Halted EXCEPT !.reg = FALSE]
             \in [reg : BOOLEAN, state : {"stopped", "starting", "running"}, on : BOOLEAN]
        /\ [Halted EXCEPT !.state = "starting"]
             \in [reg : BOOLEAN, state : {"stopped", "starting", "running"}, on : BOOLEAN]
    BY DEF TypeOK, Launched, Halted
  <2>5. svc' \in [reg : BOOLEAN, state : {"stopped", "starting", "running"}, on : BOOLEAN]
    BY <1>22, <2>4 DEF RunVerb, Failing, TypeOK
  <2>6. port' \in Windows \cup {Nobody, "service"} /\ ours' \in BOOLEAN
    BY <1>22, <1>f DEF RunVerb, Failing, Stopping, TypeOK
  <2>7. left' \in [Kinds -> Nat]
    BY <1>22, <1>s, <1>f DEF RunVerb
  <2> QED
    BY <1>22, <2>3, <2>5, <2>6, <2>7 DEF RunVerb, TypeOK
<1>23. ASSUME NEW c \in children, EndVerb(c) PROVE TypeOK'
  <2>1. left' \in [Kinds -> Nat]
    BY <1>23, <1>s, <1>f DEF EndVerb
  <2>2. report' \in [click : Nat, verb : Verbs \cup {"none"}]
    BY <1>23 DEF EndVerb, TypeOK
  <2> QED
    BY <1>23, <2>1, <2>2 DEF EndVerb, TypeOK
<1>24. CASE OtherVerb
  <2>1. left' \in [Kinds -> Nat]
    BY <1>24, <1>s, <1>f DEF OtherVerb
  <2> QED
    BY <1>24, <2>1 DEF OtherVerb, TypeOK
<1>25. CASE ServiceStarts
  <2> DEFINE bound == wish /\ port = Nobody
  <2>1. bound \in BOOLEAN
    BY <1>f
  <2>2. /\ svc' = [svc EXCEPT !.state = "running", !.on = bound]
        /\ port' = (IF bound THEN "service" ELSE port)
        /\ ours' = (wish /\ (bound \/ ours))
    BY <1>25 DEF ServiceStarts
  <2> HIDE DEF bound
  <2> QED
    BY <1>25, <1>f, <2>1, <2>2 DEF ServiceStarts, TypeOK
<1>26. CASE ServiceGuard
  BY <1>26 DEF ServiceGuard, TypeOK
<1>27. CASE ServiceDies
  <2>1. left' \in [Kinds -> Nat]
    BY <1>27, <1>s, <1>f DEF ServiceDies
  <2> QED
    BY <1>27, <2>1 DEF ServiceDies, TypeOK
<1>28. CASE UNCHANGED vars
  BY <1>28 DEF TypeOK
<1> QED
  BY <1>1, <1>2, <1>3, <1>4, <1>5, <1>6, <1>7, <1>8, <1>9, <1>10, <1>11, <1>12, <1>14,
     <1>15, <1>17, <1>18, <1>19, <1>20, <1>21, <1>22, <1>23, <1>24, <1>25, <1>26, <1>27, <1>28
     DEF Next, Worker, Face, User, Prompt, Elevated

-----------------------------------------------------------------------------
(* The report on screen is that of the click *)

LEMMA ReportInit == Init => ReportInv
<1> SUFFICES ASSUME Init PROVE ReportInv
  OBVIOUS
<1>1. \A w \in Windows : win[w].work = Idle
  BY DEF Init, Gone
<1>2. /\ Idle.pc = "idle" /\ Idle.batch = <<>>
  BY DEF Idle
<1>3. \A w \in Windows : ~Asking(w) /\ win[w].work.batch = <<>>
  BY <1>1, <1>2 DEF Asking
<1>4. Pending /\ Numbered /\ Answering
  BY <1>3 DEF Pending, Numbered, Answering, Init, NoReport
<1>5. ReportIsMine /\ Blank
  BY <1>3 DEF ReportIsMine, Shows, Blank
<1> QED
  BY <1>4, <1>5, TypeInit DEF ReportInv

\* Where a worker's task can go in one step.
LEMMA TaskSteps ==
  ASSUME TypeOK, [Next]_vars, NEW v \in Windows
  PROVE  \/ win'[v].work = win[v].work
         \/ /\ win'[v].work = Idle
            /\ \/ win[v].work.pc \in {"idle", "becoming"}
               \/ win'[v].life \in {"gone", "choosing"}
         \/ LetGo(v) \/ Prepare(v) \/ Prompted(v) \/ Waited(v) \/ ChooseAgain(v) \/ Retry(v)
<1> DEFINE Kept == \/ win'[v].work = win[v].work
                   \/ /\ win'[v].work = Idle
                      /\ \/ win[v].work.pc \in {"idle", "becoming"}
                         \/ win'[v].life \in {"gone", "choosing"}
<1>f. win \in [Windows -> Window]
  BY DEF TypeOK
<1>0. ASSUME NEW w \in Windows, NEW r, Becomes(w, r)
      PROVE  win'[v] = (IF v = w THEN r ELSE win[v])
  BY <1>0, <1>f DEF Becomes
<1>d. \A q \in Window : \A batch : Done(q, batch).work = Idle
  BY DEF Done, Window
<1>e. \A q \in Window, reply \in Replies : Seen(q, reply).work = q.work
  BY DEF Seen, Window, Replies
<1>1. ASSUME NEW w \in Windows,
             Poll(w) \/ AskStatus(w) \/ Unheard(w) \/ AskEnable(w) \/ AskDisable(w) \/ Declined(w)
      PROVE  Kept
  <2>1. Take(w) \in Window \/ Poll(w) \/ Declined(w)
    BY <1>1, TakeType DEF AskStatus, Unheard, AskEnable, AskDisable, Next1
  <2>2. \E q \in Window : \E batch : Becomes(w, Done(q, batch))
    <3>1. ASSUME NEW q \in Window PROVE [q EXCEPT !.on = TRUE] \in Window /\ [q EXCEPT !.on = FALSE] \in Window
      BY DEF Window
    <3> QED
      BY <1>1, <1>f, <2>1, <3>1 DEF Poll, AskStatus, Unheard, AskEnable, AskDisable, Declined, TurnsOn
  <2>3. win[w].work.pc \in {"idle", "becoming"}
    BY <1>1 DEF Poll, AskStatus, Unheard, AskEnable, AskDisable, Declined, Next1, At
  <2> QED
    BY <1>0, <1>d, <2>2, <2>3
<1>2. ASSUME NEW w \in Windows, NEW r \in Window, Chosen(r, w)
      PROVE  win'[v].work = (IF v = w THEN r.work ELSE win[v].work)
  <2>1. \A b, c : [r EXCEPT !.backend = b, !.on = c].work = r.work
    BY DEF Window
  <2>3. PICK b, c : Becomes(w, [r EXCEPT !.backend = b, !.on = c])
    BY <1>2, ChosenBecomes
  <2>4. win'[v] = (IF v = w THEN [r EXCEPT !.backend = b, !.on = c] ELSE win[v])
    BY <1>0, <2>3
  <2> QED
    BY <2>1, <2>4
<1>3. ASSUME NEW w \in Windows, Open(w) PROVE Kept
  <2>1. OpenQueue(w) \in Seq(Jobs)
    BY <1>f, OpenType
  <2>2. [win[w] EXCEPT !.life = "open", !.local = ~svc.reg, !.busy = TRUE, !.queue = OpenQueue(w)]
          \in Window
    BY <1>f, <2>1, OpenType
  <2>3. [win[w] EXCEPT !.life = "open", !.local = ~svc.reg, !.busy = TRUE,
                       !.queue = OpenQueue(w)].work = win[w].work
    BY <1>f DEF Window
  <2> QED
    BY <1>3, <1>2, <2>2, <2>3 DEF Open, OpenQueue
<1>4. ASSUME NEW w \in Windows, Drain(w) PROVE Kept
  <2>1. Tail(win[w].mail) \in Seq(Replies)
    BY <1>4, <1>f, HeadTailProperties DEF Drain, Window
  <2>2. Head(win[w].mail) \in Replies
    BY <1>4, <1>f, HeadTailProperties DEF Drain, Window
  <2>3. ASSUME NEW m \in Seq(Replies)
        PROVE  [win[w] EXCEPT !.mail = m] \in Window /\ [win[w] EXCEPT !.mail = m].work = win[w].work
    BY ZenonT(60), <1>f DEF Window
  <2>4. Becomes(w, Seen([win[w] EXCEPT !.mail = Tail(win[w].mail)], Head(win[w].mail)))
    BY <1>4 DEF Drain
  <2>5. Seen([win[w] EXCEPT !.mail = Tail(win[w].mail)], Head(win[w].mail)).work = win[w].work
    BY <1>e, <2>1, <2>2, <2>3
  <2> QED
    BY <1>0, <2>4, <2>5
<1>5. ASSUME NEW w \in Windows, Exit(w) \/ Crash(w) \/ Launch(w) PROVE Kept
  <2>1. /\ Gone.work = Idle /\ Gone.life = "gone"
        /\ \A b : /\ [Gone EXCEPT !.life = "choosing", !.exempt = b].work = Idle
                  /\ [Gone EXCEPT !.life = "choosing", !.exempt = b].life = "choosing"
    BY DEF Gone
  <2>2. \/ Becomes(w, Gone)
        \/ \E b \in BOOLEAN : Becomes(w, [Gone EXCEPT !.life = "choosing", !.exempt = b])
    BY <1>5 DEF Exit, Crash, Ends, Launch
  <2>3. CASE Becomes(w, Gone)
    BY <1>0, <2>1, <2>3
  <2>4. CASE \E b \in BOOLEAN : Becomes(w, [Gone EXCEPT !.life = "choosing", !.exempt = b])
    <3>1. PICK b \in BOOLEAN :
            win'[v] = (IF v = w THEN [Gone EXCEPT !.life = "choosing", !.exempt = b] ELSE win[v])
      BY <1>0, <2>4
    <3> QED
      BY <2>1, <3>1
  <2> QED
    BY <2>2, <2>3, <2>4
<1>6. ASSUME NEW w \in Windows, Click(w) \/ TrayClick(w) \/ Quit(w) PROVE Kept
  <2>1. \A q, b : [win[w] EXCEPT !.queue = q, !.busy = b].work = win[w].work
    BY <1>f DEF Window
  <2>2. [win[w] EXCEPT !.life = "leaving"].work = win[w].work
    BY <1>f DEF Window
  <2>3. \/ \E job : Becomes(w, [win[w] EXCEPT !.queue = Append(win[w].queue, job), !.busy = TRUE])
        \/ Becomes(w, [win[w] EXCEPT !.life = "leaving"])
    BY <1>6 DEF Click, TrayClick, Quit
  <2>4. CASE \E job : Becomes(w, [win[w] EXCEPT !.queue = Append(win[w].queue, job), !.busy = TRUE])
    <3>1. PICK q : Becomes(w, [win[w] EXCEPT !.queue = q, !.busy = TRUE])
      BY <2>4
    <3>2. win'[v] = (IF v = w THEN [win[w] EXCEPT !.queue = q, !.busy = TRUE] ELSE win[v])
      BY <1>0, <3>1
    <3> QED
      BY <2>1, <3>2
  <2>5. CASE Becomes(w, [win[w] EXCEPT !.life = "leaving"])
    <3>1. win'[v] = (IF v = w THEN [win[w] EXCEPT !.life = "leaving"] ELSE win[v])
      BY <1>0, <2>5
    <3> QED
      BY <2>2, <3>1
  <2> QED
    BY <2>3, <2>4, <2>5
<1>7. ASSUME NEW w \in Windows, HandOver(w) PROVE Kept
  <2>1. \A act :
          LET q == [Gone EXCEPT !.life = "choosing", !.admin = TRUE, !.exempt = TRUE, !.act = act]
          IN  q.work = Idle /\ q.life = "choosing"
    BY DEF Gone
  <2>2. win[w].work.pc = "becoming"
    BY <1>7 DEF HandOver, At
  <2> QED
    BY <1>7, <1>f, <1>d, <2>1, <2>2 DEF HandOver
<1>8. ASSUME NEW w \in Windows, w # v,
             LetGo(w) \/ Prepare(w) \/ Prompted(w) \/ Waited(w) \/ ChooseAgain(w) \/ Retry(w)
      PROVE  Kept
  <2>1. \E r : Becomes(w, r)
    BY <1>8 DEF LetGo, Prepare, Prompted, Waited, ChooseAgain, Chosen, Retry
  <2> QED
    BY <1>0, <1>8, <2>1
<1>9. CASE UNCHANGED win
  BY <1>9
<1>10. Elevated \/ OtherVerb \/ ServiceStarts \/ ServiceGuard \/ ServiceDies \/ UNCHANGED vars
         => UNCHANGED win
  BY DEF Elevated, RunVerb, EndVerb, OtherVerb, ServiceStarts, ServiceGuard, ServiceDies, vars
<1> QED
  BY <1>1, <1>3, <1>4, <1>5, <1>6, <1>7, <1>8, <1>9, <1>10
     DEF Next, Worker, Face, User, Prompt

\* Who waits after a step waited before, for the same, or has just begun to.
LEMMA AskingSteps ==
  ASSUME TypeOK, [Next]_vars, NEW v \in Windows, Asking(v)'
  PROVE  \/ /\ Asking(v)
            /\ win'[v].work.job = win[v].work.job /\ win'[v].work.click = win[v].work.click
         \/ /\ Prepare(v) /\ win'[v].work.click = clicks + 1
            /\ win'[v].work.job \in Verbs
<1>f. win \in [Windows -> Window] /\ win[v] \in Window /\ win[v].work \in Task
  BY DEF TypeOK, Window
<1>0. ASSUME NEW r, Becomes(v, r) PROVE win'[v] = r
  BY <1>0, <1>f DEF Becomes
<1>1. win'[v].work.pc \in {"prompt", "waiting"}
  BY DEF Asking
<1>2. CASE win'[v].work = win[v].work
  BY <1>1, <1>2 DEF Asking
<1>3. win'[v].work # Idle
  BY <1>1 DEF Idle
<1>4. ~LetGo(v)
  <2>1. SUFFICES ASSUME LetGo(v) PROVE FALSE
    OBVIOUS
  <2>2. Take(v) \in Window
    BY <2>1, TakeType DEF LetGo, Next1
  <2>3. \A job : [Take(v) EXCEPT !.work.pc = "becoming", !.work.job = job].work.pc = "becoming"
    BY <2>2 DEF Window, Task
  <2> QED
    BY <1>0, <1>1, <2>1, <2>3 DEF LetGo
<1>5. CASE Prepare(v)
  <2>1. Take(v) \in Window
    BY <1>5, TakeType DEF Prepare, Next1
  <2>2. \A t : [Take(v) EXCEPT !.backend = "none", !.on = FALSE, !.work = t].work = t
    BY <2>1 DEF Window
  <2>3. win'[v].work = [Idle EXCEPT !.pc = "prompt", !.job = Head(win[v].queue), !.click = clicks + 1]
    BY <1>0, <1>5, <2>2 DEF Prepare
  <2>4. Head(win[v].queue) \in Verbs
    BY <1>5 DEF Prepare, Next1
  <2> QED
    BY <1>5, <2>3, <2>4 DEF Idle
<1>6. CASE Prompted(v)
  <2>1. [win[v] EXCEPT !.work.pc = "waiting"].work = [win[v].work EXCEPT !.pc = "waiting"]
    BY <1>f DEF Window
  <2>2. \A b : [win[v] EXCEPT !.work.pc = "choose", !.work.batch = b].work.pc = "choose"
    BY <1>f DEF Window, Task
  <2>3. win'[v].work = [win[v].work EXCEPT !.pc = "waiting"]
    BY <1>0, <1>1, <1>6, <2>1, <2>2 DEF Prompted
  <2>4. Asking(v)
    BY <1>6 DEF Prompted, At, Asking
  <2> QED
    BY <1>f, <2>3, <2>4 DEF Task
<1>7. ~Waited(v)
  <2>1. \A b : [win[v] EXCEPT !.work.pc = "choose", !.work.batch = b].work.pc = "choose"
    BY <1>f DEF Window, Task
  <2> QED
    BY <1>0, <1>1, <2>1 DEF Waited
<1>8. ~ChooseAgain(v)
  <2> SUFFICES ASSUME ChooseAgain(v) PROVE FALSE
    OBVIOUS
  <2>2. PICK q \in Window : Chosen(q, v) /\ q.work.pc = "retry"
    BY AgainChosen
  <2>3. PICK h, o : Becomes(v, [q EXCEPT !.backend = h, !.on = o])
    BY <2>2, ChosenBecomes
  <2>4. [q EXCEPT !.backend = h, !.on = o].work.pc = "retry"
    BY <2>2 DEF Window
  <2> QED
    BY <1>0, <1>1, <2>3, <2>4
<1>9. ~Retry(v)
  <2>1. SUFFICES ASSUME Retry(v) PROVE FALSE
    OBVIOUS
  <2>2. \A n : [win[v] EXCEPT !.work.tries = n].work.pc = win[v].work.pc
    BY <1>f DEF Window, Task
  <2>3. \A b : Done(win[v], b).work = Idle
    BY <1>f DEF Done, Window
  <2>4. win[v].work.pc = "retry"
    BY <2>1 DEF Retry, At
  <2>5. \/ \E n : Becomes(v, [win[v] EXCEPT !.work.tries = n])
        \/ \E b : Becomes(v, Done(win[v], b))
    BY <2>1 DEF Retry
  <2> QED
    BY <1>0, <1>1, <1>3, <2>2, <2>3, <2>4, <2>5
<1> QED
  BY <1>2, <1>3, <1>4, <1>5, <1>6, <1>7, <1>8, <1>9, TaskSteps

\* A step that touches the verbs, their reports or their numbers is one of these.
LEMMA VerbSteps ==
  ASSUME [Next]_vars
  PROVE  \/ UNCHANGED verbs
         \/ \E w \in Windows : Prepare(w) \/ Prompted(w)
         \/ \E c \in children : RunVerb(c) \/ EndVerb(c)
         \/ OtherVerb
<1> USE DEF vars, verbs
<1>1. \A w \in Windows : Worker(w) => UNCHANGED verbs \/ Prepare(w)
  BY DEF Worker, Poll, AskStatus, Unheard, AskEnable, AskDisable, LetGo, Waited, ChooseAgain, Retry
<1>2. \A w \in Windows : Face(w) \/ User(w) \/ Crash(w) => UNCHANGED verbs
  BY DEF Face, User, Crash, Open, Drain, Exit, Launch, Click, TrayClick, Quit, Ends
<1>3. \A w \in Windows : Prompt(w) => UNCHANGED verbs \/ Prompted(w)
  BY DEF Prompt, Declined, HandOver
<1>4. ServiceStarts \/ ServiceGuard \/ ServiceDies \/ UNCHANGED vars => UNCHANGED verbs
  BY DEF ServiceStarts, ServiceGuard, ServiceDies
<1> QED
  BY <1>1, <1>2, <1>3, <1>4 DEF Next, Elevated

LEMMA NumberNext ==
  TypeOK /\ Pending /\ Numbered /\ Answering /\ [Next]_vars
    => Pending' /\ Numbered' /\ Answering'
<1> SUFFICES ASSUME TypeOK, Pending, Numbered, Answering, [Next]_vars
             PROVE  Pending' /\ Numbered' /\ Answering'
  OBVIOUS
<1> USE DEF verbs
<1>a. ASSUME NEW v \in Windows, Asking(v)'
      PROVE  \/ /\ Asking(v)
                /\ win'[v].work.job = win[v].work.job /\ win'[v].work.click = win[v].work.click
             \/ /\ Prepare(v) /\ win'[v].work.click = clicks + 1
                /\ win'[v].work.job \in Verbs
  BY <1>a, AskingSteps
<1>t. /\ clicks \in Nat /\ report.click \in Nat /\ \A c \in children : c.click \in Nat
      /\ \A w \in Windows : win[w].work.click \in Nat
  BY DEF TypeOK, Window, Task
<1>o. \A v, w \in Windows : Prepare(v) /\ Prepare(w) => v = w
  <2> SUFFICES ASSUME NEW v \in Windows, NEW w \in Windows, Prepare(v), Prepare(w), v # w
               PROVE  FALSE
    OBVIOUS
  <2>1. win'[w] = win[w]
    BY DEF Prepare, Becomes, TypeOK
  <2>2. win[w].work.pc = "idle"
    BY DEF Prepare, Next1, At
  <2>3. Take(w) \in Window
    BY TakeType DEF Prepare, Next1
  <2>4. \A t : [Take(w) EXCEPT !.backend = "none", !.on = FALSE, !.work = t].work = t
    BY <2>3 DEF Window
  <2>5. win'[w].work
          = [Idle EXCEPT !.pc = "prompt", !.job = Head(win[w].queue), !.click = clicks + 1]
    BY <2>4 DEF Prepare, Becomes, TypeOK
  <2> QED
    BY <2>1, <2>2, <2>5 DEF Idle
<1>p. Pending'
  BY <1>a DEF Pending, Asking
<1>c. /\ clicks' \in Nat /\ clicks' >= clicks
      /\ \A w \in Windows : Prepare(w) => clicks' = clicks + 1 /\ UNCHANGED <<children, report>>
  <2>1. \A w \in Windows : Prepare(w) => clicks' = clicks + 1 /\ UNCHANGED <<children, report>>
    BY DEF Prepare
  <2>2. clicks' = clicks \/ clicks' = clicks + 1
    BY VerbSteps DEF Prepare, Prompted, RunVerb, EndVerb, OtherVerb
  <2> QED
    BY <1>t, <2>1, <2>2
\* What there is now was there, or is the verb of a window that asked, or nobody's.
<1>d. ASSUME NEW c \in children'
      PROVE  \/ \E b \in children : c.click = b.click /\ c.verb = b.verb
             \/ \E w \in Windows : /\ Asking(w) /\ ~Prepare(w)
                                   /\ c.click = win[w].work.click /\ c.verb = win[w].work.job
             \/ c.click = 0
  <2>1. CASE UNCHANGED verbs
    BY <2>1
  <2>2. ASSUME NEW w \in Windows, Prepare(w) PROVE c \in children
    BY <2>2 DEF Prepare
  <2>3. ASSUME NEW w \in Windows, Prompted(w)
        PROVE  \/ c \in children
               \/ /\ Asking(w) /\ ~Prepare(w)
                  /\ c.click = win[w].work.click /\ c.verb = win[w].work.job
    BY <2>3 DEF Prompted, At, Asking, Prepare, Next1
  <2>4. ASSUME NEW b \in children, RunVerb(b) PROVE \E d \in children : c.click = d.click /\ c.verb = d.verb
    <3>1. b \in [click : Nat, verb : Verbs, pc : {"run", "report"}]
      BY DEF TypeOK
    <3> QED
      BY <2>4, <3>1 DEF RunVerb
  <2>5. ASSUME NEW b \in children, EndVerb(b) PROVE c \in children
    BY <2>5 DEF EndVerb
  <2>6. CASE OtherVerb
    BY <2>6 DEF OtherVerb
  <2> QED
    BY <2>1, <2>2, <2>3, <2>4, <2>5, <2>6, VerbSteps
<1>e. \/ report' = report
      \/ \E c \in children : report'.click = c.click /\ report'.verb = c.verb
  <2>1. \A w \in Windows : Prepare(w) \/ Prompted(w) => UNCHANGED report
    BY DEF Prepare, Prompted
  <2>2. \A c \in children : EndVerb(c) => UNCHANGED report \/ (report'.click = c.click /\ report'.verb = c.verb)
    BY DEF EndVerb
  <2>3. (OtherVerb \/ \E c \in children : RunVerb(c)) => UNCHANGED report
    BY DEF OtherVerb, RunVerb
  <2> QED
    BY <2>1, <2>2, <2>3, VerbSteps
<1>n. Numbered'
  <2>1. \A w \in Windows : Asking(w)' => win'[w].work.click \in 1 .. clicks'
    BY <1>a, <1>c, <1>t DEF Numbered
  <2>2. \A v, w \in Windows : v # w /\ Asking(v)' /\ Asking(w)'
                              => win'[v].work.click # win'[w].work.click
    <3> SUFFICES ASSUME NEW v \in Windows, NEW w \in Windows, v # w, Asking(v)', Asking(w)'
                 PROVE  win'[v].work.click # win'[w].work.click
      OBVIOUS
    <3> QED
      BY <1>a, <1>t, <1>o DEF Numbered
  <2>3. \A c \in children' : c.click <= clicks'
    BY <1>c, <1>d, <1>t DEF Numbered
  <2>4. report'.click <= clicks'
    BY <1>c, <1>e, <1>t DEF Numbered
  <2> QED
    BY <2>1, <2>2, <2>3, <2>4 DEF Numbered, Asking
<1>m. ASSUME NEW w \in Windows, Asking(w)'
      PROVE  /\ \A c \in children' : c.click = win'[w].work.click => c.verb = win'[w].work.job
             /\ report'.click = win'[w].work.click => report'.verb = win'[w].work.job
  <2>1. CASE /\ Asking(w)
             /\ win'[w].work.job = win[w].work.job /\ win'[w].work.click = win[w].work.click
    <3>1. win[w].work.click >= 1
      BY <1>t, <2>1 DEF Numbered
    <3>2. \A c \in children' : c.click = win'[w].work.click => c.verb = win'[w].work.job
      BY <1>d, <2>1, <3>1 DEF Numbered, Answering
    <3>3. report'.click = win'[w].work.click => report'.verb = win'[w].work.job
      BY <1>e, <2>1 DEF Answering
    <3> QED
      BY <3>2, <3>3
  <2>2. CASE Prepare(w) /\ win'[w].work.click = clicks + 1
    BY <1>c, <1>t, <2>2 DEF Numbered
  <2> QED
    BY <1>a, <1>m, <2>1, <2>2
<1> QED
  BY <1>p, <1>n, <1>m DEF Answering, Asking

\* A worker's batch of replies keeps to the job it is for.
LEMMA BatchNext ==
  TypeOK /\ Answering /\ Blank /\ ReportIsMine /\ [Next]_vars => Blank' /\ ReportIsMine'
<1> SUFFICES ASSUME TypeOK, Answering, Blank, ReportIsMine, [Next]_vars, NEW v \in Windows
             PROVE  /\ win'[v].work.pc = "idle" => win'[v].work.batch = <<>>
                    /\ \A verb \in Verbs : Shows(v, verb)' => verb = win'[v].work.job
  BY DEF Blank, ReportIsMine
<1>f. win \in [Windows -> Window] /\ win[v] \in Window /\ win[v].work \in Task
  BY DEF TypeOK, Window
<1>0. ASSUME NEW r, Becomes(v, r) PROVE win'[v] = r
  BY <1>0, <1>f DEF Becomes
<1>n. "none" \notin Verbs
  BY DEF Verbs
<1>a. ASSUME win'[v].work.batch = <<>>
      PROVE  /\ win'[v].work.pc = "idle" => win'[v].work.batch = <<>>
             /\ \A verb \in Verbs : Shows(v, verb)' => verb = win'[v].work.job
  BY <1>a DEF Shows
<1>b. ASSUME win'[v].work.batch = win[v].work.batch, win'[v].work.job = win[v].work.job,
             win'[v].work.pc # "idle" \/ win'[v].work.pc = win[v].work.pc
      PROVE  /\ win'[v].work.pc = "idle" => win'[v].work.batch = <<>>
             /\ \A verb \in Verbs : Shows(v, verb)' => verb = win'[v].work.job
  BY <1>b DEF Blank, ReportIsMine, Shows
<1>c. ASSUME NEW x, x \in Verbs => x = win[v].work.job,
             Becomes(v, [win[v] EXCEPT !.work.pc = "choose", !.work.batch = <<Reply("output", x)>>])
      PROVE  /\ win'[v].work.pc = "idle" => win'[v].work.batch = <<>>
             /\ \A verb \in Verbs : Shows(v, verb)' => verb = win'[v].work.job
  <2> DEFINE b == <<Reply("output", x)>>
  <2>1. \A verb : (\E n \in DOMAIN b : b[n] = Reply("output", verb)) => verb = x
    BY DEF Reply
  <2> HIDE DEF b
  <2>2. win'[v] = [win[v] EXCEPT !.work.pc = "choose", !.work.batch = b]
    BY <1>0, <1>c DEF b
  <2>3. win'[v].work.pc = "choose" /\ win'[v].work.batch = b /\ win'[v].work.job = win[v].work.job
    <3>1. [win[v] EXCEPT !.work.pc = "choose", !.work.batch = b].work
            = [win[v].work EXCEPT !.pc = "choose", !.batch = b]
      BY <1>f DEF Window
    <3>2. win'[v].work = [win[v].work EXCEPT !.pc = "choose", !.batch = b]
      BY <2>2, <3>1
    <3> QED
      BY <1>f, <3>2 DEF Task
  <2> QED
    BY <1>c, <2>1, <2>3 DEF Shows
<1>1. CASE win'[v].work = win[v].work
  BY <1>1, <1>b
<1>2. CASE win'[v].work = Idle
  BY <1>2, <1>a DEF Idle
<1>3. CASE LetGo(v)
  <2>1. Take(v) \in Window /\ Take(v).work = win[v].work
    BY <1>3, <1>f, TakeType DEF LetGo, Next1, Take, Window
  <2>2. \A job : [Take(v) EXCEPT !.work.pc = "becoming", !.work.job = job].work.batch
                   = Take(v).work.batch
    BY <2>1 DEF Window, Task
  <2>3. win'[v].work.batch = win[v].work.batch
    BY <1>0, <1>3, <2>1, <2>2 DEF LetGo
  <2>4. win[v].work.batch = <<>>
    BY <1>3 DEF LetGo, Next1, At, Blank
  <2> QED
    BY <1>a, <2>3, <2>4
<1>4. CASE Prepare(v)
  <2>1. Take(v) \in Window
    BY <1>4, TakeType DEF Prepare, Next1
  <2>2. \A t : [Take(v) EXCEPT !.backend = "none", !.on = FALSE, !.work = t].work = t
    BY <2>1 DEF Window
  <2>3. win'[v].work = [Idle EXCEPT !.pc = "prompt", !.job = Head(win[v].queue), !.click = clicks + 1]
    BY <1>0, <1>4, <2>2 DEF Prepare
  <2>4. win'[v].work.batch = <<>>
    BY <2>3 DEF Idle
  <2> QED
    BY <1>a, <2>4
<1>5. CASE Prompted(v)
  <2>1. CASE Becomes(v, [win[v] EXCEPT !.work.pc = "waiting"])
    <3>1. win'[v] = [win[v] EXCEPT !.work.pc = "waiting"]
      BY <1>0, <2>1
    <3>2. /\ win'[v].work.pc = "waiting" /\ win'[v].work.batch = win[v].work.batch
          /\ win'[v].work.job = win[v].work.job
      BY <1>f, <3>1 DEF Window, Task
    <3> QED
      BY <1>b, <3>2
  <2>2. CASE Becomes(v, [win[v] EXCEPT !.work.pc = "choose",
                                       !.work.batch = <<Reply("output", "none")>>])
    BY <1>c, <1>n, <2>2
  <2> QED
    BY <1>5, <2>1, <2>2 DEF Prompted
<1>6. CASE Waited(v)
  <2>1. Loaded(win[v].work.click) \in Verbs => Loaded(win[v].work.click) = win[v].work.job
    BY <1>6, <1>n DEF Waited, At, Loaded, Answering, Asking
  <2>2. \/ Becomes(v, [win[v] EXCEPT !.work.pc = "choose",
                          !.work.batch = <<Reply("output", Loaded(win[v].work.click))>>])
        \/ Becomes(v, [win[v] EXCEPT !.work.pc = "choose",
                          !.work.batch = <<Reply("output", "none")>>])
    BY <1>6 DEF Waited
  <2> QED
    BY <1>c, <1>n, <2>1, <2>2
<1>7. CASE ChooseAgain(v)
  <2>1. PICK q \in Window, half \in {"local", "service"} :
           /\ Chosen(q, v) /\ q.work.pc = "retry" /\ q.work.job = win[v].work.job
           /\ q.work.batch = Append(win[v].work.batch, Reply("backend", half))
    BY <1>7, AgainChosen
  <2>2. PICK h, o : Becomes(v, [q EXCEPT !.backend = h, !.on = o])
    BY <2>1, ChosenBecomes
  <2>3. win'[v].work = q.work
    BY <1>0, <2>2 DEF Window
  <2>4. ASSUME NEW verb \in Verbs, Shows(v, verb)' PROVE Shows(v, verb)
    <3>1. win[v].work.batch \in Seq(Replies)
      BY <1>f DEF Task
    <3>2. PICK n \in DOMAIN q.work.batch : q.work.batch[n] = Reply("output", verb)
      BY <2>3, <2>4 DEF Shows
    <3>3. Reply("backend", half) # Reply("output", verb) /\ Reply("backend", half) \in Replies
      BY ReplyType DEF Reply
    <3>4. n \in 1 .. Len(win[v].work.batch)
      BY <2>1, <3>1, <3>2, <3>3
    <3>5. win[v].work.batch[n] = Reply("output", verb)
      BY <2>1, <3>1, <3>2, <3>3, <3>4
    <3> QED
      BY <3>1, <3>4, <3>5 DEF Shows
  <2> QED
    BY <2>1, <2>3, <2>4 DEF ReportIsMine
<1>8. CASE Retry(v)
  <2>1. CASE \E b : Becomes(v, Done(win[v], b))
    <3>1. \A b : Done(win[v], b).work = Idle
      BY <1>f DEF Done, Window
    <3> QED
      BY <1>0, <1>2, <2>1, <3>1
  <2>2. CASE \E n : Becomes(v, [win[v] EXCEPT !.work.tries = n])
    <3>1. PICK n : win'[v] = [win[v] EXCEPT !.work.tries = n]
      BY <1>0, <2>2
    <3>2. /\ win'[v].work.batch = win[v].work.batch /\ win'[v].work.job = win[v].work.job
          /\ win'[v].work.pc = win[v].work.pc
      BY <1>f, <3>1 DEF Window, Task
    <3> QED
      BY <1>b, <3>2
  <2> QED
    BY <1>8, <2>1, <2>2 DEF Retry
<1> QED
  BY <1>1, <1>2, <1>3, <1>4, <1>5, <1>6, <1>7, <1>8, TaskSteps

LEMMA ReportInduct == Spec => []ReportInv
<1>1. ReportInv /\ [Next]_vars => ReportInv'
  BY TypeNext, NumberNext, BatchNext DEF ReportInv
<1> QED
  BY <1>1, ReportInit, PTL DEF Spec

\* Every variable of the windows, the verbs and the service keeps its type
\* (client/src/ui.rs, backend.rs, report.rs).
THEOREM InstancesTypeOK == Spec => []TypeOK
<1>1. ReportInv => TypeOK
  BY DEF ReportInv
<1> QED
  BY <1>1, ReportInduct, PTL

\* What a window shows of a verb is the report of its own click, although verbs
\* that were given up on write theirs late (ActionReport::load).
THEOREM ReportAnswersClick == Spec => []ReportIsMine
<1>1. ReportInv => ReportIsMine
  BY DEF ReportInv
<1> QED
  BY <1>1, ReportInduct, PTL

-----------------------------------------------------------------------------
(* One holder of the port *)

LEMMA PortInit == Init => PortInv
<1> SUFFICES ASSUME Init PROVE PortInv
  OBVIOUS
<1>1. \A w \in Windows : \/ win[w] = Gone /\ w # First
                         \/ win[w] = [Gone EXCEPT !.life = "choosing"] /\ w = First
  BY DEF Init
<1>2. /\ Gone.life = "gone" /\ Gone.backend = "none" /\ Gone.work = Idle /\ Idle.pc = "idle"
      /\ [Gone EXCEPT !.life = "choosing"].life = "choosing"
      /\ [Gone EXCEPT !.life = "choosing"].backend = "none"
      /\ [Gone EXCEPT !.life = "choosing"].work = Idle
  BY DEF Gone, Idle
<1>3. Vacant
  BY <1>1, <1>2 DEF Vacant
<1>4. Between
  BY <1>1, <1>2 DEF Between
<1>5. Held
  BY WindowAssumption DEF Init, Held, Nobody
<1>6. Registered
  <2>1. /\ NoService.state = "stopped"
        /\ [NoService EXCEPT !.reg = TRUE, !.state = "starting"].reg = TRUE
    BY DEF NoService
  <2> QED
    BY <2>1 DEF Init, Registered
<1>7. Within
  BY BudgetAssumption DEF Init, Within
<1>8. Single
  BY <1>1, <1>2, WindowAssumption DEF Init, Single
<1> QED
  BY <1>3, <1>4, <1>5, <1>6, <1>7, <1>8 DEF PortInv

\* A worker at work keeps its window and its half of the program, and comes to
\* where it has none only from where it had none.
Keeps(v) ==
  /\ Living(v)
  /\ win'[v].life \in {win[v].life, "leaving"} /\ win'[v].backend = win[v].backend
  /\ \/ win'[v].work.pc \notin {"prompt", "waiting", "choose"}
     \/ win[v].work.pc \in {"prompt", "waiting", "choose"}

Chooses(v) == \/ win'[v].backend = "local" /\ ~svc.reg
              \/ win'[v].backend = "service" /\ svc.reg /\ UNCHANGED port

Opens(v) == \/ Launch(v)
            \/ \E w \in Windows : HandOver(w)

Opened(v) ==
  /\ win[v].life = "choosing" /\ win'[v].life = "open" /\ win'[v].work = win[v].work
  /\ Chooses(v)

ChosenAgain(v) ==
  /\ Living(v) /\ win'[v].life = win[v].life
  /\ win[v].work.pc = "choose" /\ win'[v].work.pc = "retry"
  /\ Chooses(v)

\* What becomes of a window in one step.
LEMMA WindowSteps ==
  ASSUME TypeOK, [Next]_vars, NEW v \in Windows
  PROVE  /\ Open(v) => Opened(v)
         /\ ChooseAgain(v) => ChosenAgain(v)
         /\ AskEnable(v) => win'[v] = win[v] \/ Keeps(v)
         /\ \/ win'[v] = win[v]
            \/ Keeps(v)
            \/ /\ Prepare(v) /\ Living(v)
               /\ win'[v].life = win[v].life /\ win'[v].backend = "none"
            \/ Open(v) /\ Opened(v)
            \/ ChooseAgain(v) /\ ChosenAgain(v)
            \/ (Exit(v) \/ Crash(v)) /\ win'[v] = Gone
            \/ /\ Opens(v) /\ win[v].life = "gone"
               /\ win'[v].life = "choosing" /\ win'[v].work = Idle /\ win'[v].backend = "none"
<1> DEFINE Stays == win'[v] = win[v] \/ Keeps(v)
<1>f. /\ win \in [Windows -> Window] /\ win[v] \in Window /\ win[v].work \in Task
      /\ Idle.pc = "idle"
  BY DEF TypeOK, Window, Idle
<1>0. ASSUME NEW w \in Windows, NEW r, Becomes(w, r)
      PROVE  win'[v] = (IF v = w THEN r ELSE win[v])
  BY <1>0, <1>f DEF Becomes
<1>d. \A q \in Window : \A b : /\ Done(q, b).work = Idle /\ Done(q, b).life = q.life
                               /\ Done(q, b).backend = q.backend
  BY DEF Done, Window
<1>t. \A w \in Windows : win[w].queue # <<>> =>
        /\ Take(w) \in Window /\ Take(w).life = win[w].life
        /\ Take(w).backend = win[w].backend /\ Take(w).work = win[w].work
  <2>1. ASSUME NEW w \in Windows, NEW q
        PROVE  /\ [win[w] EXCEPT !.queue = q].life = win[w].life
               /\ [win[w] EXCEPT !.queue = q].backend = win[w].backend
               /\ [win[w] EXCEPT !.queue = q].work = win[w].work
    BY <1>f DEF Window
  <2>3. \A w \in Windows : win[w].queue # <<>> => Take(w) \in Window
    BY TakeType
  <2>4. ASSUME NEW w \in Windows
        PROVE  /\ Take(w).life = win[w].life
               /\ Take(w).backend = win[w].backend /\ Take(w).work = win[w].work
    <3> DEFINE q == Tail(win[w].queue)
    <3>1. Take(w) = [win[w] EXCEPT !.queue = q]
      BY DEF Take
    <3> HIDE DEF q
    <3> QED
      BY <2>1, <3>1
  <2> QED
    BY <2>3, <2>4
<1>1. ASSUME NEW w \in Windows,
             Poll(w) \/ AskStatus(w) \/ Unheard(w) \/ AskEnable(w) \/ AskDisable(w) \/ Declined(w)
      PROVE  Stays
  <2>1. Living(w) /\ (win[w].queue # <<>> \/ Poll(w) \/ Declined(w))
    BY <1>1 DEF Poll, AskStatus, Unheard, AskEnable, AskDisable, Declined, Next1, At
  <2>2. \E q \in Window : \E b : /\ Becomes(w, Done(q, b))
                                 /\ q.life = win[w].life /\ q.backend = win[w].backend
    <3>1. ASSUME NEW q \in Window
          PROVE  /\ [q EXCEPT !.on = TRUE] \in Window /\ [q EXCEPT !.on = FALSE] \in Window
                 /\ [q EXCEPT !.on = TRUE].life = q.life /\ [q EXCEPT !.on = FALSE].life = q.life
                 /\ [q EXCEPT !.on = TRUE].backend = q.backend
                 /\ [q EXCEPT !.on = FALSE].backend = q.backend
      BY DEF Window
    <3>2. CASE Poll(w) \/ Declined(w)
      BY <1>f, <3>2 DEF Poll, Declined
    <3>3. CASE AskStatus(w) \/ Unheard(w)
      BY <1>t, <2>1, <3>3 DEF AskStatus, Unheard, Next1
    <3>4. CASE AskEnable(w) \/ AskDisable(w)
      <4>1. PICK r, b :
              /\ r \in {Take(w), [Take(w) EXCEPT !.on = TRUE], [Take(w) EXCEPT !.on = FALSE]}
              /\ Becomes(w, Done(r, b))
        BY <3>4 DEF AskEnable, AskDisable, TurnsOn
      <4>2. win[w].queue # <<>>
        BY <3>4 DEF AskEnable, AskDisable, Next1
      <4>3. r \in Window /\ r.life = win[w].life /\ r.backend = win[w].backend
        <5>1. /\ Take(w) \in Window /\ Take(w).life = win[w].life
              /\ Take(w).backend = win[w].backend
          BY <1>t, <4>2
        <5>2. CASE r = Take(w)
          BY <5>1, <5>2
        <5>3. CASE r = [Take(w) EXCEPT !.on = TRUE] \/ r = [Take(w) EXCEPT !.on = FALSE]
          <6> DEFINE q == Take(w)
          <6>1. q \in Window /\ q.life = win[w].life /\ q.backend = win[w].backend
            BY <5>1
          <6>2. r = [q EXCEPT !.on = TRUE] \/ r = [q EXCEPT !.on = FALSE]
            BY <5>3
          <6> HIDE DEF q
          <6> QED
            BY <3>1, <6>1, <6>2
        <5> QED
          BY <4>1, <5>2, <5>3
      <4> QED
        BY <4>1, <4>3
    <3> QED
      BY <1>1, <3>2, <3>3, <3>4
  <2> QED
    BY <1>0, <1>d, <1>f, <2>1, <2>2 DEF Keeps
<1>2. ASSUME NEW w \in Windows, LetGo(w) PROVE Stays
  <2>1. \A job : /\ [Take(w) EXCEPT !.work.pc = "becoming", !.work.job = job].work.pc = "becoming"
                 /\ [Take(w) EXCEPT !.work.pc = "becoming", !.work.job = job].life = win[w].life
                 /\ [Take(w) EXCEPT !.work.pc = "becoming", !.work.job = job].backend = win[w].backend
    <3>1. Take(w) \in Window /\ Take(w).life = win[w].life /\ Take(w).backend = win[w].backend
      BY <1>2, <1>t DEF LetGo, Next1
    <3>2. ASSUME NEW q \in Window, NEW job
          PROVE  /\ [q EXCEPT !.work.pc = "becoming", !.work.job = job].work.pc = "becoming"
                 /\ [q EXCEPT !.work.pc = "becoming", !.work.job = job].life = q.life
                 /\ [q EXCEPT !.work.pc = "becoming", !.work.job = job].backend = q.backend
      BY DEF Window, Task
    <3> QED
      BY <3>1, <3>2
  <2> QED
    BY <1>0, <1>2, <2>1 DEF LetGo, Next1, At, Keeps
<1>3. ASSUME NEW w \in Windows, Prompted(w) PROVE Stays
  <2>1. ASSUME NEW b
        PROVE  /\ [win[w] EXCEPT !.work.pc = "waiting"].life = win[w].life
               /\ [win[w] EXCEPT !.work.pc = "waiting"].backend = win[w].backend
               /\ [win[w] EXCEPT !.work.pc = "choose", !.work.batch = b].life = win[w].life
               /\ [win[w] EXCEPT !.work.pc = "choose", !.work.batch = b].backend = win[w].backend
    BY <1>f DEF Window
  <2> QED
    BY <1>0, <1>3, <2>1 DEF Prompted, At, Keeps
<1>4. ASSUME NEW w \in Windows, Waited(w) PROVE Stays
  <2>1. ASSUME NEW b
        PROVE  /\ [win[w] EXCEPT !.work.pc = "choose", !.work.batch = b].life = win[w].life
               /\ [win[w] EXCEPT !.work.pc = "choose", !.work.batch = b].backend = win[w].backend
    BY <1>f DEF Window
  <2> QED
    BY <1>0, <1>4, <2>1 DEF Waited, At, Keeps
<1>5. ASSUME NEW w \in Windows, Retry(w) PROVE Stays
  <2>1. ASSUME NEW n
        PROVE  /\ [win[w] EXCEPT !.work.tries = n].life = win[w].life
               /\ [win[w] EXCEPT !.work.tries = n].backend = win[w].backend
               /\ [win[w] EXCEPT !.work.tries = n].work.pc = win[w].work.pc
    BY ZenonT(60), <1>f DEF Window, Task
  <2>2. \/ \E n : Becomes(w, [win[w] EXCEPT !.work.tries = n])
        \/ \E b : Becomes(w, Done(win[w], b))
    BY <1>5 DEF Retry
  <2>3. Living(w) /\ win[w].work.pc = "retry"
    BY <1>5 DEF Retry, At
  <2>4. CASE \E n : Becomes(w, [win[w] EXCEPT !.work.tries = n])
    <3>1. PICK n : win'[v] = (IF v = w THEN [win[w] EXCEPT !.work.tries = n] ELSE win[v])
      BY <1>0, <2>4
    <3> QED
      BY <2>1, <2>3, <3>1 DEF Keeps
  <2>5. CASE \E b : Becomes(w, Done(win[w], b))
    <3>1. PICK b : win'[v] = (IF v = w THEN Done(win[w], b) ELSE win[v])
      BY <1>0, <2>5
    <3> QED
      BY <1>d, <1>f, <2>3, <3>1 DEF Keeps
  <2> QED
    BY <2>2, <2>4, <2>5
<1>6. ASSUME NEW w \in Windows, Drain(w) PROVE Stays
  <2>1. Tail(win[w].mail) \in Seq(Replies) /\ Head(win[w].mail) \in Replies
    BY <1>6, <1>f, HeadTailProperties DEF Drain, Window
  <2>2. ASSUME NEW m \in Seq(Replies)
        PROVE  /\ [win[w] EXCEPT !.mail = m] \in Window
               /\ [win[w] EXCEPT !.mail = m].work = win[w].work
               /\ [win[w] EXCEPT !.mail = m].life = win[w].life
               /\ [win[w] EXCEPT !.mail = m].backend = win[w].backend
    BY <1>f DEF Window
  <2>3. \A q \in Window, reply \in Replies :
          /\ Seen(q, reply).work = q.work /\ Seen(q, reply).backend = q.backend
          /\ Seen(q, reply).life \in {q.life, "leaving"}
    BY DEF Seen, Window, Replies
  <2>4. Becomes(w, Seen([win[w] EXCEPT !.mail = Tail(win[w].mail)], Head(win[w].mail))) /\ Living(w)
    BY <1>6 DEF Drain, Awake, Living
  <2> DEFINE q == [win[w] EXCEPT !.mail = Tail(win[w].mail)]
  <2>5. /\ q \in Window /\ q.work = win[w].work /\ q.life = win[w].life
        /\ q.backend = win[w].backend
    BY <2>1, <2>2
  <2>6. Becomes(w, Seen(q, Head(win[w].mail)))
    BY <2>4
  <2> HIDE DEF q
  <2> QED
    BY <1>0, <2>1, <2>3, <2>4, <2>5, <2>6 DEF Keeps
<1>7. ASSUME NEW w \in Windows, Click(w) \/ TrayClick(w) \/ Quit(w) PROVE Stays
  <2>1. \A q, b : /\ [win[w] EXCEPT !.queue = q, !.busy = b].work = win[w].work
                  /\ [win[w] EXCEPT !.queue = q, !.busy = b].life = win[w].life
                  /\ [win[w] EXCEPT !.queue = q, !.busy = b].backend = win[w].backend
    BY <1>f DEF Window
  <2>2. /\ [win[w] EXCEPT !.life = "leaving"].work = win[w].work
        /\ [win[w] EXCEPT !.life = "leaving"].life = "leaving"
        /\ [win[w] EXCEPT !.life = "leaving"].backend = win[w].backend
    BY <1>f DEF Window
  <2>3. Living(w)
    BY <1>7 DEF Click, TrayClick, Quit, Awake, Living
  <2>4. \/ \E job : Becomes(w, [win[w] EXCEPT !.queue = Append(win[w].queue, job), !.busy = TRUE])
        \/ Becomes(w, [win[w] EXCEPT !.life = "leaving"])
    BY <1>7 DEF Click, TrayClick, Quit
  <2>5. ASSUME NEW q, Becomes(w, [win[w] EXCEPT !.queue = q, !.busy = TRUE]) PROVE Stays
    <3>1. win'[v] = (IF v = w THEN [win[w] EXCEPT !.queue = q, !.busy = TRUE] ELSE win[v])
      BY <1>0, <2>5
    <3> QED
      BY <2>1, <2>3, <3>1 DEF Keeps
  <2>6. ASSUME Becomes(w, [win[w] EXCEPT !.life = "leaving"]) PROVE Stays
    <3>1. win'[v] = (IF v = w THEN [win[w] EXCEPT !.life = "leaving"] ELSE win[v])
      BY <1>0, <2>6
    <3> QED
      BY <2>2, <2>3, <3>1 DEF Keeps
  <2> QED
    BY <2>4, <2>5, <2>6
<1>8. ASSUME Prepare(v)
      PROVE  Living(v) /\ win'[v].life = win[v].life /\ win'[v].backend = "none"
  <2>1. ASSUME NEW t
        PROVE  /\ [Take(v) EXCEPT !.backend = "none", !.on = FALSE, !.work = t].life = win[v].life
               /\ [Take(v) EXCEPT !.backend = "none", !.on = FALSE, !.work = t].backend = "none"
    BY <1>8, <1>t DEF Prepare, Next1, Window
  <2>2. \E t : Becomes(v, [Take(v) EXCEPT !.backend = "none", !.on = FALSE, !.work = t])
    BY <1>8 DEF Prepare
  <2>3. Living(v)
    BY <1>8 DEF Prepare, Next1, At
  <2>4. \E t : win'[v] = [Take(v) EXCEPT !.backend = "none", !.on = FALSE, !.work = t]
    BY <1>0, <2>2
  <2> QED
    BY <2>1, <2>3, <2>4
<1>9. ASSUME NEW r \in Window, Chosen(r, v)
      PROVE  Chooses(v) /\ win'[v].life = r.life /\ win'[v].work = r.work
  <2>1. PICK b, c : /\ Becomes(v, [r EXCEPT !.backend = b, !.on = c])
                    /\ \/ b = "local" /\ ~svc.reg
                       \/ b = "service" /\ svc.reg /\ UNCHANGED port
    BY <1>9, ChosenBecomes
  <2>2. win'[v] = [r EXCEPT !.backend = b, !.on = c]
    BY <1>0, <2>1
  <2>3. win'[v].life = r.life /\ win'[v].work = r.work /\ win'[v].backend = b
    BY <2>2 DEF Window
  <2> QED
    BY <2>1, <2>3 DEF Chooses
<1>10. ASSUME Open(v) PROVE Opened(v)
  <2> DEFINE q == [win[v] EXCEPT !.life = "open", !.local = ~svc.reg, !.busy = TRUE,
                                 !.queue = OpenQueue(v)]
  <2>1. q \in Window
    BY OpenType
  <2>2. q.life = "open" /\ q.work = win[v].work
    BY <1>f DEF Window
  <2>3. Chosen(q, v)
    BY <1>10 DEF Open, OpenQueue
  <2> HIDE DEF q
  <2> QED
    BY <1>9, <1>10, <2>1, <2>2, <2>3 DEF Open, Opened
<1>11. ASSUME ChooseAgain(v) PROVE ChosenAgain(v)
  <2>1. PICK q \in Window : Chosen(q, v) /\ q.work.pc = "retry" /\ q.life = win[v].life
    BY <1>11, AgainChosen
  <2> QED
    BY <1>9, <1>11, <2>1 DEF ChooseAgain, At, ChosenAgain
<1>12. ASSUME Exit(v) \/ Crash(v) PROVE win'[v] = Gone
  BY <1>0, <1>12 DEF Exit, Crash, Ends
<1>g. /\ \A b : /\ [Gone EXCEPT !.life = "choosing", !.exempt = b].life = "choosing"
                 /\ [Gone EXCEPT !.life = "choosing", !.exempt = b].work = Idle
                 /\ [Gone EXCEPT !.life = "choosing", !.exempt = b].backend = "none"
      /\ \A act :
           LET q == [Gone EXCEPT !.life = "choosing", !.admin = TRUE, !.exempt = TRUE, !.act = act]
           IN  q.life = "choosing" /\ q.work = Idle /\ q.backend = "none"
  BY DEF Gone
<1>13. ASSUME Launch(v)
       PROVE  /\ win[v].life = "gone" /\ win'[v].life = "choosing"
              /\ win'[v].work = Idle /\ win'[v].backend = "none"
  <2>1. PICK b : Becomes(v, [Gone EXCEPT !.life = "choosing", !.exempt = b])
    BY <1>13 DEF Launch
  <2>2. win'[v] = [Gone EXCEPT !.life = "choosing", !.exempt = b]
    BY <1>0, <2>1
  <2>3. win[v].life = "gone"
    BY <1>13 DEF Launch
  <2> QED
    BY <1>g, <2>2, <2>3
<1>14. ASSUME NEW w \in Windows, HandOver(w)
       PROVE  \/ Stays
              \/ /\ win[v].life = "gone" /\ win'[v].life = "choosing"
                 /\ win'[v].work = Idle /\ win'[v].backend = "none"
  <2>1. PICK u, act :
          /\ u \in Windows /\ win[u].life = "gone"
          /\ win' = [win EXCEPT
               ![w] = Done(win[w], <<Reply("over", "none")>>),
               ![u] = [Gone EXCEPT !.life = "choosing", !.admin = TRUE, !.exempt = TRUE, !.act = act]]
    BY <1>14 DEF HandOver
  <2>2. CASE v = u
    BY <1>f, <1>g, <2>1, <2>2
  <2>3. CASE v # u /\ v = w
    <3> DEFINE q == Done(win[v], <<Reply("over", "none")>>)
    <3>1. win'[v] = q
      BY <1>f, <2>1, <2>3
    <3>2. q.work = Idle /\ q.life = win[v].life /\ q.backend = win[v].backend
      BY <1>d, <1>f
    <3>3. Living(v)
      BY <1>14, <2>3 DEF HandOver, At
    <3> HIDE DEF q
    <3> QED
      BY <1>f, <3>1, <3>2, <3>3 DEF Keeps
  <2>4. CASE v # u /\ v # w
    BY <1>f, <2>1, <2>4
  <2> QED
    BY <2>2, <2>3, <2>4
<1>15. ASSUME NEW w \in Windows, w # v,
              Prepare(w) \/ Open(w) \/ ChooseAgain(w) \/ Exit(w) \/ Crash(w) \/ Launch(w)
       PROVE  Stays
  <2>1. \E r : Becomes(w, r)
    BY <1>15 DEF Prepare, Open, ChooseAgain, Chosen, Exit, Crash, Ends, Launch
  <2> QED
    BY <1>0, <1>15, <2>1
<1>16. Elevated \/ OtherVerb \/ ServiceStarts \/ ServiceGuard \/ ServiceDies \/ UNCHANGED vars
         => Stays
  BY DEF Elevated, RunVerb, EndVerb, OtherVerb, ServiceStarts, ServiceGuard, ServiceDies, vars
<1> QED
  BY <1>1, <1>2, <1>3, <1>4, <1>5, <1>6, <1>7, <1>8, <1>10, <1>11, <1>12, <1>13, <1>14, <1>15, <1>16
     DEF Next, Worker, Face, User, Prompt, Opens

\* Who holds the port after a step held it, or has just taken it.
LEMMA PortSteps ==
  ASSUME [Next]_vars, NEW v \in Windows, port' = v
  PROVE  \/ port = v /\ ~Prepare(v) /\ ~Exit(v) /\ ~Crash(v)
         \/ port # v /\ (Open(v) \/ ChooseAgain(v))
         \/ AskEnable(v) /\ win[v].backend = "local"
<1>w. v # Nobody /\ v # "service"
  BY WindowAssumption DEF Nobody
<1>1. CASE UNCHANGED port
  <2>1. ASSUME Prepare(v) \/ Exit(v) \/ Crash(v) PROVE FALSE
    BY <1>1, <1>w, <2>1 DEF Prepare, Exit, Crash, Ends, Free
  <2> QED
    BY <1>1, <2>1
<1>2. ASSUME NEW w \in Windows, Open(w) \/ ChooseAgain(w), port' # port
      PROVE  port # v /\ (Open(v) \/ ChooseAgain(v))
  BY <1>2 DEF Open, ChooseAgain, Chosen
<1>3. ASSUME NEW w \in Windows, AskEnable(w), port' # port
      PROVE  AskEnable(v) /\ win[v].backend = "local"
  <2>1. port' = Who(w)
    BY <1>3 DEF AskEnable
  <2> QED
    BY <1>3, <1>w, <2>1 DEF Who
<1>4. ASSUME NEW w \in Windows,
             AskDisable(w) \/ Prepare(w) \/ Exit(w) \/ Crash(w)
      PROVE  UNCHANGED port
  BY <1>4, <1>w DEF AskDisable, Prepare, Exit, Crash, Ends, Free, Nobody
<1>5. ASSUME NEW w \in Windows,
             \/ Poll(w) \/ AskStatus(w) \/ Unheard(w) \/ LetGo(w) \/ Waited(w) \/ Retry(w)
             \/ Drain(w) \/ User(w) \/ Prompt(w)
      PROVE  UNCHANGED port
  BY <1>5 DEF Poll, AskStatus, Unheard, LetGo, Waited, Retry, Drain, User, Launch, Click,
              TrayClick, Quit, Prompt, Declined, HandOver, Prompted
<1>6. Elevated \/ OtherVerb \/ ServiceStarts \/ ServiceGuard \/ ServiceDies \/ UNCHANGED vars
        => UNCHANGED port
  BY <1>w DEF Elevated, RunVerb, Failing, EndVerb, Stopping, OtherVerb, ServiceStarts, ServiceGuard,
              ServiceDies, vars, Nobody
<1> QED
  BY <1>1, <1>2, <1>3, <1>4, <1>5, <1>6 DEF Next, Worker, Face

\* The port is held by no process that has gone or lost its App.
LEMMA HeldNext ==
  TypeOK /\ Vacant /\ Between /\ Held /\ [Next]_vars => Vacant' /\ Between' /\ Held'
<1> SUFFICES ASSUME TypeOK, Vacant, Between, Held, [Next]_vars, NEW v \in Windows
             PROVE  /\ win'[v].life = "gone" => win'[v] = Gone
                    /\ win'[v].life = "choosing" => win'[v].work = Idle
                    /\ win'[v].work.pc \in {"prompt", "waiting", "choose"} => win'[v].backend = "none"
                    /\ port' = v => /\ win'[v].life \in {"open", "leaving"}
                                   /\ win'[v].backend = "local"
  BY DEF Vacant, Between, Held, Living
<1>g. /\ Gone.work = Idle /\ Idle.pc = "idle" /\ Gone.life = "gone"
  BY DEF Gone, Idle
<1>p. port' = v => \/ port = v /\ ~Prepare(v) /\ ~Exit(v) /\ ~Crash(v)
                   \/ port # v /\ (Open(v) \/ ChooseAgain(v))
                   \/ AskEnable(v) /\ win[v].backend = "local"
  BY PortSteps
<1>h. port = v => win[v].life \in {"open", "leaving"} /\ win[v].backend = "local"
  BY DEF Held, Living
<1>a. AskEnable(v) => Living(v) /\ win[v].work.pc = "idle"
  BY DEF AskEnable, Next1, At
<1>o. (Open(v) => win[v].life = "choosing") /\ (ChooseAgain(v) => At(v, "choose"))
  BY DEF Open, ChooseAgain
<1>c. Chooses(v) /\ port # v /\ port' = v => win'[v].backend = "local"
  BY DEF Chooses
<1>1. CASE win'[v] = win[v]
  <2>1. ~Open(v) /\ ~ChooseAgain(v)
    BY <1>1, WindowSteps DEF Opened, ChosenAgain
  <2> QED
    BY <1>1, <1>p, <1>h, <1>a, <2>1 DEF Living, Vacant, Between
<1>2. CASE Keeps(v)
  <2>1. ~Open(v) /\ ~ChooseAgain(v)
    BY <1>2, <1>o, WindowSteps DEF Keeps, Between, At, Living, ChosenAgain, Chooses
  <2> QED
    BY <1>2, <1>p, <1>h, <1>a, <2>1 DEF Keeps, Living, Between
<1>3. CASE Prepare(v) /\ Living(v) /\ win'[v].life = win[v].life /\ win'[v].backend = "none"
  <2>1. ~Open(v)
    BY <1>3, <1>o DEF Living
  <2>2. ~ChooseAgain(v)
    BY <1>3, WindowSteps DEF ChosenAgain, Chooses
  <2>3. ~(AskEnable(v) /\ win[v].backend = "local")
    BY <1>3, WindowSteps DEF Keeps
  <2> QED
    BY <1>3, <1>p, <2>1, <2>2, <2>3 DEF Living
<1>4. CASE Open(v) /\ Opened(v)
  <2>1. win'[v].work = Idle
    BY <1>4 DEF Opened, Vacant
  <2>2. port' = v => win'[v].backend = "local"
    BY <1>4, <1>p, <1>h, <1>a, <1>c DEF Opened, Living
  <2> QED
    BY <1>4, <1>g, <2>1, <2>2 DEF Opened
<1>5. CASE ChooseAgain(v) /\ ChosenAgain(v)
  <2>1. port' = v => win'[v].backend = "local"
    BY <1>5, <1>p, <1>h, <1>a, <1>c DEF ChosenAgain, Between
  <2> QED
    BY <1>5, <2>1 DEF ChosenAgain, Living
<1>6. CASE (Exit(v) \/ Crash(v)) /\ win'[v] = Gone
  <2>1. ~Open(v) /\ ~ChooseAgain(v)
    BY <1>6, <1>g, WindowSteps DEF Opened, ChosenAgain, Living
  <2>2. ~AskEnable(v)
    BY <1>6, <1>g, <1>a, WindowSteps DEF Keeps, Living
  <2> QED
    BY <1>6, <1>g, <1>p, <2>1, <2>2
<1>7. CASE /\ win[v].life = "gone"
           /\ win'[v].life = "choosing" /\ win'[v].work = Idle /\ win'[v].backend = "none"
  <2>1. port' # v
    BY <1>7, <1>p, <1>h, <1>a, <1>o DEF At, Living
  <2> QED
    BY <1>7, <1>g, <2>1
<1> QED
  BY <1>1, <1>2, <1>3, <1>4, <1>5, <1>6, <1>7, WindowSteps

\* Only a verb registers or removes the service.
LEMMA RegisteredNext ==
  ASSUME TypeOK, Registered, [Next]_vars
  PROVE  Registered' /\ (svc'.reg = svc.reg \/ \E c \in children : RunVerb(c))
<1>f. svc \in [reg : BOOLEAN, state : {"stopped", "starting", "running"}, on : BOOLEAN]
  BY DEF TypeOK
<1>1. CASE UNCHANGED svc
  BY <1>1 DEF Registered
<1>2. CASE \E o : svc' = [svc EXCEPT !.on = o]
  BY <1>f, <1>2 DEF Registered
<1>3. ASSUME NEW c \in children, RunVerb(c) PROVE Registered'
  <2>1. /\ Launched.reg = TRUE /\ Halted.state = "stopped"
        /\ [svc EXCEPT !.reg = TRUE].reg = TRUE
        /\ [Halted EXCEPT !.reg = FALSE].state = "stopped"
        /\ [Halted EXCEPT !.state = "starting"].reg = svc.reg
    BY <1>f DEF Launched, Halted
  <2> QED
    BY <1>3, <2>1 DEF RunVerb, Failing, Registered
<1>4. CASE ServiceStarts \/ ServiceDies
  <2>1. svc.reg = TRUE
    BY <1>4, <1>f DEF ServiceStarts, ServiceDies, Registered
  <2>2. \A o : /\ [svc EXCEPT !.state = "running", !.on = o].reg = svc.reg
               /\ [svc EXCEPT !.state = "starting", !.on = o].reg = svc.reg
    BY <1>f
  <2>3. PICK o : svc' \in {[svc EXCEPT !.state = "running", !.on = o],
                           [svc EXCEPT !.state = "starting", !.on = o]}
    BY <1>4 DEF ServiceStarts, ServiceDies
  <2> QED
    BY <2>1, <2>2, <2>3 DEF Registered
<1>5. ASSUME NEW w \in Windows, AskEnable(w) \/ AskDisable(w)
      PROVE  UNCHANGED svc \/ \E o : svc' = [svc EXCEPT !.on = o]
  BY <1>5 DEF AskEnable, AskDisable, TurnsOn
<1>6. ServiceGuard => \E o : svc' = [svc EXCEPT !.on = o]
  BY DEF ServiceGuard
<1>7. ASSUME NEW w \in Windows,
             \/ Poll(w) \/ AskStatus(w) \/ Unheard(w) \/ LetGo(w) \/ Prepare(w) \/ Waited(w)
             \/ ChooseAgain(w) \/ Retry(w) \/ Face(w) \/ User(w) \/ Prompt(w) \/ Crash(w)
      PROVE  UNCHANGED svc
  BY <1>7 DEF Poll, AskStatus, Unheard, LetGo, Prepare, Waited, ChooseAgain, Retry, Face, Open,
              Drain, Exit, Ends, User, Launch, Click, TrayClick, Quit, Prompt, Declined,
              HandOver, Prompted, Crash, machine
<1>8. OtherVerb \/ UNCHANGED vars \/ (\E c \in children : EndVerb(c)) => UNCHANGED svc
  BY DEF OtherVerb, EndVerb, vars, machine
<1>9. svc'.reg = svc.reg \/ \E c \in children : RunVerb(c)
  <2>1. (\E o : svc' = [svc EXCEPT !.on = o]) => svc'.reg = svc.reg
    BY <1>f
  <2>2. ServiceStarts \/ ServiceDies => svc'.reg = svc.reg
    <3>1. \A q, o : [svc EXCEPT !.state = q, !.on = o].reg = svc.reg
      BY <1>f
    <3>2. ServiceStarts \/ ServiceDies => \E q, o : svc' = [svc EXCEPT !.state = q, !.on = o]
      BY DEF ServiceStarts, ServiceDies
    <3> QED
      BY <3>1, <3>2
  <2> QED
    BY <1>5, <1>6, <1>7, <1>8, <2>1, <2>2 DEF Next, Worker, Elevated
<1> QED
  BY <1>1, <1>2, <1>3, <1>4, <1>5, <1>6, <1>7, <1>8, <1>9 DEF Next, Worker, Elevated

\* Events are only spent, each kind by its own.
LEMMA WithinNext ==
  ASSUME TypeOK, Within, [Next]_vars
  PROVE  /\ Within'
         /\ Undisturbed' => /\ Undisturbed
                            /\ \A k \in {"launch", "handover", "other", "slow"} : ~Spend(k)
<1>f. /\ left \in [Kinds -> Nat] /\ Budget \in [Kinds -> Nat]
      /\ {"any", "launch", "click", "handover", "other", "fault", "slow", "crash"} \subseteq Kinds
  BY BudgetAssumption DEF TypeOK, Kinds
<1>1. ASSUME NEW k \in Kinds, Spend(k)
      PROVE  \A j \in Kinds : left'[j] <= left[j] /\ (j = k => left'[j] < left[j])
  BY <1>1, <1>f DEF Spend
<1>2. left' = left \/ \E k \in Kinds : Spend(k)
  <2>1. ASSUME NEW w \in Windows, Worker(w)
        PROVE  left' = left \/ Spend("fault") \/ Spend("slow")
    BY <2>1 DEF Worker, Poll, AskStatus, Unheard, AskEnable, AskDisable, LetGo, Prepare, Waited,
                ChooseAgain, Retry
  <2>2. ASSUME NEW w \in Windows, Face(w) \/ User(w) \/ Prompt(w) \/ Crash(w)
        PROVE  left' = left \/ Spend("launch") \/ Spend("click") \/ Spend("handover") \/ Spend("crash")
    BY <2>2 DEF Face, User, Prompt, Open, Drain, Exit, Launch, Click, TrayClick, Quit, Declined,
                HandOver, Prompted, Crash
  <2>3. Elevated \/ OtherVerb \/ ServiceStarts \/ ServiceGuard \/ ServiceDies \/ UNCHANGED vars
          => left' = left \/ Spend("fault") \/ Spend("other") \/ Spend("crash")
    BY DEF Elevated, RunVerb, EndVerb, OtherVerb, ServiceStarts, ServiceGuard, ServiceDies, vars
  <2> QED
    BY <1>f, <2>1, <2>2, <2>3 DEF Next
<1>3. left' \in [Kinds -> Nat] /\ \A j \in Kinds : left'[j] <= left[j]
  BY <1>1, <1>2, <1>f, SpendType
<1>4. Within'
  BY <1>3, <1>f DEF Within
<1>5. ASSUME Undisturbed' PROVE Undisturbed
  BY <1>5, <1>3, <1>f DEF Undisturbed, Within
<1>6. ASSUME Undisturbed', NEW k \in {"launch", "handover", "other", "slow"}, Spend(k) PROVE FALSE
  BY <1>6, <1>1, <1>3, <1>f DEF Undisturbed, Within
<1> QED
  BY <1>4, <1>5, <1>6

\* Undisturbed, what a worker waits for it waits for until it is done or gone.
LEMMA SingleNext ==
  ASSUME TypeOK, PortInv, [Next]_vars PROVE Single'
<1> SUFFICES ASSUME Undisturbed'
             PROVE  /\ \A w \in Windows \ {First} : win'[w].life = "gone"
                    /\ win'[First].backend = "local" => ~svc'.reg
                    /\ children' # {} =>
                         \/ win'[First].life = "gone"
                         \/ /\ win'[First].work.pc = "waiting"
                            /\ \A c \in children' : c.click = win'[First].work.click
  BY DEF Single
<1>u. Undisturbed /\ \A k \in {"launch", "handover", "other", "slow"} : ~Spend(k)
  BY WithinNext DEF PortInv
<1>s. /\ \A w \in Windows \ {First} : win[w].life = "gone"
      /\ win[First].backend = "local" => ~svc.reg
      /\ children # {} => \/ win[First].life = "gone"
                          \/ /\ win[First].work.pc = "waiting"
                             /\ \A c \in children : c.click = win[First].work.click
  BY <1>u DEF PortInv, Single
<1>f. First \in Windows
  BY WindowAssumption
<1>g. Gone.life = "gone" /\ Gone.backend = "none" /\ Gone.work = Idle /\ Idle.pc = "idle"
  BY DEF Gone, Idle
<1>o. \A v \in Windows : ~Opens(v)
  BY <1>u DEF Opens, Launch, HandOver
\* What the first window and the others can do.
<1>w. \A v \in Windows :
        \/ win'[v] = win[v]
        \/ Keeps(v)
        \/ Living(v) /\ win'[v].life = win[v].life /\ win'[v].backend = "none"
        \/ Opened(v)
        \/ ChosenAgain(v)
        \/ win'[v] = Gone
  BY <1>o, WindowSteps
<1>v. /\ \A v \in Windows : win[v].life = "gone" => win[v] = Gone
      /\ \A v \in Windows : win[v].life = "choosing" => win[v].work = Idle
      /\ \A v \in Windows : win[v].work.pc = "waiting" => win[v].backend = "none"
  BY DEF PortInv, Vacant, Between
<1>l. \A v \in Windows : win[v].life = "gone" => win'[v].life = "gone"
  BY <1>g, <1>w DEF Keeps, Living, Opened, ChosenAgain
<1>1. \A w \in Windows \ {First} : win'[w].life = "gone"
  BY <1>s, <1>l
<1>2. ASSUME win'[First].backend = "local" PROVE ~svc'.reg
  <2>1. win[First].backend = "local" \/ ~svc.reg
    BY <1>2, <1>f, <1>g, <1>w DEF Keeps, Opened, ChosenAgain, Chooses
  <2>2. ~svc.reg
    BY <1>s, <2>1
  <2>3. ASSUME NEW c \in children, RunVerb(c) PROVE FALSE
    <3>1. win'[First].backend = win[First].backend
      BY <2>3 DEF RunVerb
    <3> QED
      BY <1>2, <1>f, <1>g, <1>s, <1>v, <3>1
  <2> QED
    BY <2>2, <2>3, RegisteredNext DEF PortInv
<1>3. ASSUME children # {}, win[First].life # "gone"
      PROVE  \/ win'[First].life = "gone"
             \/ /\ win'[First].work = win[First].work /\ win[First].work.pc = "waiting"
                /\ \A c \in children : c.click = win[First].work.click
  <2>1. win[First].work.pc = "waiting" /\ \A c \in children : c.click = win[First].work.click
    BY <1>3, <1>s
  <2>2. ~Waited(First)
    BY <1>3, <1>u, <2>1 DEF Waited
  <2>3. win'[First].life # "choosing"
    BY <1>f, <1>g, <1>v, <1>w, <2>1 DEF Keeps, Living, Opened, ChosenAgain
  <2>4. /\ ~LetGo(First) /\ ~Prepare(First) /\ ~Prompted(First)
        /\ ~ChooseAgain(First) /\ ~Retry(First)
    BY <2>1 DEF LetGo, Prepare, Prompted, ChooseAgain, Retry, Next1, At
  <2> QED
    BY <1>f, <2>1, <2>2, <2>3, <2>4, TaskSteps
<1>4. ASSUME children' # {}, win'[First].life # "gone"
      PROVE  /\ win'[First].work.pc = "waiting"
             /\ \A c \in children' : c.click = win'[First].work.click
  <2>1. win[First].life # "gone"
    BY <1>4, <1>f, <1>l
  <2>2. ASSUME children # {}, \A c \in children' : \E b \in children : c.click = b.click
        PROVE  /\ win'[First].work.pc = "waiting"
               /\ \A c \in children' : c.click = win'[First].work.click
    BY <1>3, <1>4, <2>1, <2>2
  <2>3. CASE UNCHANGED children
    BY <1>4, <2>2, <2>3
  <2>4. ASSUME NEW w \in Windows, Prompted(w)
        PROVE  /\ win'[First].work.pc = "waiting"
               /\ \A c \in children' : c.click = win'[First].work.click
    <3>1. w = First
      BY <1>s, <2>4 DEF Prompted, At, Living
    <3>2. children = {}
      BY <1>s, <2>1, <2>4, <3>1 DEF Prompted, At
    <3>3. /\ Becomes(First, [win[First] EXCEPT !.work.pc = "waiting"])
          /\ \A c \in children' : c.click = win[First].work.click
      BY <1>4, <2>4, <3>1, <3>2 DEF Prompted
    <3>4. win'[First] = [win[First] EXCEPT !.work.pc = "waiting"]
      BY <1>f, <3>3 DEF Becomes, TypeOK
    <3>5. win'[First].work.pc = "waiting" /\ win'[First].work.click = win[First].work.click
      <4>1. win[First] \in Window
        BY <1>f DEF TypeOK
      <4> QED
        BY <3>4, <4>1 DEF Window, Task
    <3> QED
      BY <3>3, <3>5
  <2>5. ASSUME NEW c \in children, RunVerb(c) \/ EndVerb(c)
        PROVE  /\ win'[First].work.pc = "waiting"
               /\ \A d \in children' : d.click = win'[First].work.click
    <3>1. c \in [click : Nat, verb : Verbs, pc : {"run", "report"}]
      BY DEF TypeOK
    <3>2. \A d \in children' : \E b \in children : d.click = b.click
      BY <2>5, <3>1 DEF RunVerb, EndVerb
    <3> QED
      BY <2>2, <3>2
  <2>6. ~OtherVerb
    BY <1>u DEF OtherVerb
  <2>7. ASSUME NEW w \in Windows, Prepare(w) PROVE UNCHANGED children
    BY <2>7 DEF Prepare
  <2> QED
    BY <2>3, <2>4, <2>5, <2>6, <2>7, VerbSteps DEF verbs
<1> QED
  BY <1>1, <1>2, <1>4

LEMMA PortInduct == Spec => [](TypeOK /\ PortInv)
<1>1. TypeOK /\ PortInv /\ [Next]_vars => PortInv'
  BY HeldNext, RegisteredNext, WithinNext, SingleNext DEF PortInv
<1>2. ReportInv => TypeOK
  BY DEF ReportInv
<1> QED
  BY <1>1, <1>2, PortInit, ReportInduct, PTL DEF Spec

\* A window alone on the machine holds the port for its own App only while no
\* service is up, over every click, verb, crash and failure (Backend::shutdown).
THEOREM OneResolverAlways == Spec => []OneResolver
<1>1. TypeOK /\ PortInv => OneResolver
  <2> SUFFICES ASSUME TypeOK, PortInv, Undisturbed, svc.state # "stopped", port \in Windows
               PROVE  FALSE
    BY DEF OneResolver
  <2>1. Living(port) /\ win[port].backend = "local"
    BY DEF PortInv, Held
  <2>2. port = First
    BY <2>1 DEF PortInv, Single, Living
  <2>3. ~svc.reg
    BY <2>1, <2>2 DEF PortInv, Single
  <2> QED
    BY <2>3 DEF PortInv, Registered
<1> QED
  BY <1>1, PortInduct, PTL
=============================================================================
