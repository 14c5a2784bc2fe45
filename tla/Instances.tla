----------------------------- MODULE Instances -----------------------------
(***************************************************************************)
(* The windows of one session (client/src/main.rs, ui.rs, backend.rs,      *)
(* elevate.rs, report.rs and the claim of setup.rs): who may open, which   *)
(* half of the program each asks - the service, or an App of its own - the *)
(* jobs of its worker thread, and the processes with administrator rights  *)
(* it starts.                                                              *)
(*                                                                         *)
(* A window has two threads, the one that draws and a worker, joined by    *)
(* two channels: `queue` of jobs and `mail` of replies. The local App and  *)
(* the service's are reduced to what they say (on) and hold (the port of   *)
(* the stub); Protection has the rest. A verb is one step here and many in *)
(* Installation. All copies keep their settings in one folder.             *)
(***************************************************************************)
EXTENDS Integers, Sequences

CONSTANTS
  Windows,   \* processes that may be a window
  First,     \* the one that opens at logon
  Retries,   \* status requests after a verb, while the service is silent
  Budget     \* bound on each kind of event of Kinds

Kinds == {"any", "launch", "click", "handover", "other", "fault", "slow", "crash"}

ASSUME WindowAssumption == First \in Windows /\ {"nobody", "service"} \cap Windows = {}
ASSUME BudgetAssumption == Retries \in Nat /\ Budget \in [Kinds -> Nat]

VARIABLES
  win,       \* win[w]: a window
  claim,     \* who holds the claim on being the window, or "nobody"
  port,      \* who listens on the loopback port, or "nobody"
  svc,       \* the service
  wish,      \* "enabled" in the settings file
  ours,      \* an adapter is pointed at the loopback port
  children,  \* the verbs that run with administrator rights
  report,    \* the last of them that left its report
  clicks,    \* how many there were: a click's number is its nonce
  left       \* what is left of Budget

vars == <<win, claim, port, svc, wish, ours, children, report, clicks, left>>
machine == <<svc, wish, ours>>
verbs == <<children, report, clicks>>

Requests == {"status", "enable", "disable"}
Verbs == {"install", "uninstall", "start", "restart"}
Become(act) == "become " \o act
Jobs == Requests \cup Verbs \cup {Become("enable"), Become("disable")}
Nobody == "nobody"
NoReport == [click |-> 0, verb |-> "none"]

Idle == [pc |-> "idle", job |-> "none", click |-> 0, tries |-> 0, batch |-> <<>>]
Gone == [life |-> "gone", admin |-> FALSE, exempt |-> FALSE,
         act |-> "none", backend |-> "none", on |-> FALSE, queue |-> <<>>,
         work |-> Idle, mail |-> <<>>, shown |-> "nothing", inst |-> "unasked",
         local |-> FALSE, busy |-> FALSE]
NoService == [reg |-> FALSE, state |-> "stopped", on |-> FALSE]

Replies == [kind : {"ok", "failed"}, val : {"on", "off"}]
             \cup [kind : {"silent", "over"}, val : {"none"}]
             \cup [kind : {"installed"}, val : {"no", "stopped", "running"}]
             \cup [kind : {"backend"}, val : {"local", "service"}]
             \cup [kind : {"output"}, val : Verbs \cup {"none"}]
Reply(kind, val) == [kind |-> kind, val |-> val]
State(on) == IF on THEN "on" ELSE "off"
Spend(k) == /\ left[k] > 0 /\ left["any"] > 0
            /\ left' = [left EXCEPT ![k] = @ - 1, !["any"] = @ - 1]
Free(w) == IF port = w THEN Nobody ELSE port
Unclaimed(w) == IF claim = w THEN Nobody ELSE claim

Init ==
  /\ win = [w \in Windows |-> IF w = First THEN [Gone EXCEPT !.life = "choosing"]
                                           ELSE Gone]
  /\ claim = First /\ port = Nobody
  /\ wish \in BOOLEAN /\ ours = wish
  /\ svc \in {NoService, [NoService EXCEPT !.reg = TRUE, !.state = "starting"]}
  /\ children = {} /\ report = NoReport /\ clicks = 0 /\ left = Budget

-----------------------------------------------------------------------------
(* Opening. *)

Becomes(w, r) == win' = [win EXCEPT ![w] = r]

\* main: the claim, from which a copy from elsewhere is exempt. A launch that
\* finds it taken shows the window there and exits, which is no step.
Launch(w) ==
  /\ win[w].life = "gone" /\ Spend("launch")
  /\ \E elsewhere \in BOOLEAN :
       /\ Becomes(w, [Gone EXCEPT !.life = "choosing", !.exempt = elsewhere])
       /\ IF elsewhere THEN UNCHANGED claim ELSE claim = Nobody /\ claim' = w
  /\ UNCHANGED <<port, machine, verbs>>

\* Backend::choose, for a window that holds no port. With no service registered
\* it starts an App, and App::resume does what its rights allow: with them
\* restore_on_start, without them only the stub.
Chosen(r, w) ==
  IF svc.reg
  THEN /\ Becomes(w, [r EXCEPT !.backend = "service", !.on = FALSE])
       /\ UNCHANGED <<port, ours>>
  ELSE LET bound == wish /\ port = Nobody
       IN  /\ Becomes(w, [r EXCEPT !.backend = "local", !.on = bound])
           /\ port' = IF bound THEN w ELSE port
           /\ ours' = IF r.admin THEN wish /\ (bound \/ ours) ELSE ours

\* Seeded fault: the click this copy was started for is not queued.
OpenForgets(w) ==
  /\ win[w].life = "choosing"
  /\ Chosen([win[w] EXCEPT !.life = "open", !.local = ~svc.reg, !.busy = TRUE,
                           !.queue = <<"status">>], w)
  /\ UNCHANGED <<claim, svc, wish, verbs, left>>

\* ui::run and TrayApp::new: the backend, the first question, and then the click
\* this copy was started for.
Open(w) ==
  /\ win[w].life = "choosing"
  /\ Chosen([win[w] EXCEPT !.life = "open", !.local = ~svc.reg, !.busy = TRUE,
                           !.queue = <<"status">> \o
                              (IF win[w].act = "none" THEN <<>> ELSE <<win[w].act>>)], w)
  /\ UNCHANGED <<claim, svc, wish, verbs, left>>

-----------------------------------------------------------------------------
(* The thread that draws. *)

Awake(w) == win[w].life = "open"

\* drain_events. Any reply ends the wait for the answer to a click.
Seen(r, reply) ==
  LET s == [r EXCEPT !.busy = FALSE]
  IN  CASE reply.kind = "ok" -> [s EXCEPT !.shown = reply.val, !.inst = "unasked"]
        [] reply.kind = "failed" -> [s EXCEPT !.shown = reply.val]
        [] reply.kind = "silent" -> [s EXCEPT !.shown = "silent"]
        [] reply.kind = "installed" -> [s EXCEPT !.inst = reply.val]
        [] reply.kind = "backend" -> [s EXCEPT !.local = (reply.val = "local")]
        [] reply.kind = "over" -> [s EXCEPT !.life = "leaving"]
        [] reply.kind = "output" -> s

\* One reply of its loop: the worker sends them one by one, so that a frame,
\* and a click after it, may come between any two.
Drain(w) ==
  /\ Awake(w) /\ win[w].mail # <<>>
  /\ Becomes(w, Seen([win[w] EXCEPT !.mail = Tail(@)], Head(win[w].mail)))
  /\ UNCHANGED <<claim, port, machine, verbs, left>>

\* The toggle, of the window or of the tray. Without a service and without
\* rights the job is to become an administrator. The tray does not ask `busy`.
CanChange(w) == ~win[w].local \/ win[w].admin
Toggle(w) ==
  LET act == IF win[w].shown = "on" THEN "disable" ELSE "enable"
  IN  IF CanChange(w) THEN act ELSE Become(act)

\* The buttons that ask for a verb, and when they are drawn.
VerbButtons(w) ==
  CASE win[w].shown = "silent" ->
         {"uninstall"} \cup (CASE win[w].inst = "stopped" -> {"start"}
                               [] win[w].inst = "running" -> {"restart"}
                               [] OTHER -> {})
    [] win[w].shown = "nothing" -> {}
    [] OTHER -> {IF win[w].local THEN "install" ELSE "uninstall"}

Click(w) ==
  /\ Awake(w) /\ ~win[w].busy /\ Spend("click")
  /\ \E job \in (IF win[w].shown \in {"on", "off"} THEN {Toggle(w)} ELSE {})
                  \cup VerbButtons(w) :
       Becomes(w, [win[w] EXCEPT !.queue = Append(@, job), !.busy = TRUE])
  /\ UNCHANGED <<claim, port, machine, verbs>>

TrayClick(w) ==
  /\ Awake(w) /\ Spend("click")
  /\ \/ /\ win[w].shown # "silent"
        /\ Becomes(w, [win[w] EXCEPT !.queue = Append(@, Toggle(w)), !.busy = TRUE])
     \/ /\ win[w].shown = "silent" /\ win[w].inst = "stopped"
        /\ Becomes(w, [win[w] EXCEPT !.queue = Append(@, "start"), !.busy = TRUE])
  /\ UNCHANGED <<claim, port, machine, verbs>>

\* The tray's menu ends the program; the X only hides the window.
Quit(w) ==
  /\ Awake(w) /\ Spend("click") /\ Becomes(w, [win[w] EXCEPT !.life = "leaving"])
  /\ UNCHANGED <<claim, port, machine, verbs>>

\* run, after the last frame: Backend::shutdown, which leaves the adapters as
\* they are, and the end of the process with all it holds.
Ends(w) ==
  /\ Becomes(w, Gone) /\ claim' = Unclaimed(w) /\ port' = Free(w)
  /\ UNCHANGED <<machine, verbs>>

Exit(w) == win[w].life = "leaving" /\ Ends(w) /\ UNCHANGED left
Crash(w) == win[w].life # "gone" /\ Spend("crash") /\ Ends(w)

-----------------------------------------------------------------------------
(* The worker. *)

Living(w) == win[w].life \in {"open", "leaving"}
At(w, pc) == Living(w) /\ win[w].work.pc = pc

\* What a request finds: the service's pipe, or the App of this process.
Answers(w) == win[w].backend = "local" \/ svc.state = "running"
Silence == <<Reply("silent", "none"),
             Reply("installed", IF ~svc.reg THEN "no"
                                ELSE IF svc.state = "stopped" THEN "stopped" ELSE "running")>>
Status(w) ==
  IF Answers(w)
  THEN <<Reply("ok", State(IF win[w].backend = "local" THEN win[w].on ELSE svc.on))>>
  ELSE Silence

\* The replies of a job go out together.
Done(r, batch) == [r EXCEPT !.mail = @ \o batch, !.work = Idle]

\* Seeded fault: a worker that has been answered once no longer polls.
PollOnce(w) ==
  /\ At(w, "idle") /\ win[w].queue = <<>> /\ win[w].shown = "nothing"
  /\ Becomes(w, Done(win[w], Status(w)))
  /\ UNCHANGED <<claim, port, machine, verbs, left>>

\* The next job; an idle worker polls (here, once the last answers were read).
Poll(w) ==
  /\ At(w, "idle") /\ win[w].queue = <<>> /\ win[w].mail = <<>>
  /\ Becomes(w, Done(win[w], Status(w)))
  /\ UNCHANGED <<claim, port, machine, verbs, left>>

Take(w) == [win[w] EXCEPT !.queue = Tail(@)]
Next1(w, jobs) == /\ At(w, "idle") /\ win[w].queue # <<>>
                  /\ Head(win[w].queue) \in jobs

AskStatus(w) ==
  /\ Next1(w, {"status"})
  /\ Becomes(w, Done(Take(w), Status(w)))
  /\ UNCHANGED <<claim, port, machine, verbs, left>>

\* dispatch: enable and disable, by the service or by the App of this process.
TurnsOn(w, r, on, batch) ==
  IF win[w].backend = "local"
  THEN Becomes(w, Done([r EXCEPT !.on = on], batch)) /\ UNCHANGED svc
  ELSE Becomes(w, Done(r, batch)) /\ svc' = [svc EXCEPT !.on = on]
Who(w) == IF win[w].backend = "local" THEN w ELSE "service"
Able(w) == win[w].backend = "service" \/ win[w].admin
IsOn(w) == IF win[w].backend = "local" THEN win[w].on ELSE svc.on

Unheard(w) ==
  /\ Next1(w, {"enable", "disable"}) /\ ~Answers(w)
  /\ Becomes(w, Done(Take(w), Silence))
  /\ UNCHANGED <<claim, port, machine, verbs, left>>

\* App::enable: the stub first, then the adapters, which take rights and may fail.
AskEnable(w) ==
  /\ Next1(w, {"enable"}) /\ Answers(w)
  /\ \/ /\ port \in {Nobody, Who(w)} /\ Able(w)
        /\ port' = Who(w) /\ ours' = TRUE /\ wish' = TRUE
        /\ TurnsOn(w, Take(w), TRUE, <<Reply("ok", "on")>>) /\ UNCHANGED left
     \/ /\ Becomes(w, Done(Take(w), <<Reply("failed", State(IsOn(w)))>>))
        /\ \/ port \notin {Nobody, Who(w)} /\ UNCHANGED <<port, ours, left>>
           \/ /\ port \in {Nobody, Who(w)} /\ port' = Who(w)
              /\ IF Able(w) THEN Spend("fault") /\ ours' = FALSE
                 ELSE UNCHANGED <<ours, left>>
        /\ UNCHANGED <<svc, wish>>
  /\ UNCHANGED <<claim, verbs>>

\* App::disable, which without rights restores nothing. Whatever came of the
\* restore, and also when it found no backup to read and says so, protection is
\* off and the stub stopped.
AskDisable(w) ==
  /\ Next1(w, {"disable"}) /\ Answers(w)
  /\ wish' = FALSE
  /\ port' = IF port = Who(w) THEN Nobody ELSE port
  /\ \/ ours' = (ours /\ ~Able(w)) /\ UNCHANGED left
     \/ ours /\ Able(w) /\ Spend("fault") /\ UNCHANGED ours
  /\ \/ TurnsOn(w, Take(w), FALSE, <<Reply("ok", "off")>>)
     \/ ours' = ours /\ TurnsOn(w, Take(w), FALSE, <<Reply("failed", "off")>>)
  /\ UNCHANGED <<claim, verbs>>

\* Job::Elevate: the claim goes first, then the prompt.
LetGo(w) ==
  /\ Next1(w, {Become("enable"), Become("disable")})
  /\ Becomes(w, [Take(w) EXCEPT !.work.pc = "becoming", !.work.job = Head(win[w].queue)])
  /\ claim' = Unclaimed(w)
  /\ UNCHANGED <<port, machine, verbs, left>>

\* Declined, or the launch failed: claim_instance, whose answer nobody reads.
Declined(w) ==
  /\ At(w, "becoming")
  /\ claim' = IF claim = Nobody THEN w ELSE claim
  /\ Becomes(w, Done(win[w], <<Reply("output", "none")>>))
  /\ UNCHANGED <<port, machine, verbs, left>>

\* The copy that was started carries the click and never claims.
HandOver(w) ==
  /\ At(w, "becoming") /\ Spend("handover")
  /\ \E v \in Windows :
       /\ win[v].life = "gone"
       /\ win' = [win EXCEPT
            ![w] = Done(win[w], <<Reply("over", "none")>>),
            ![v] = [Gone EXCEPT !.life = "choosing", !.admin = TRUE, !.exempt = TRUE,
                      !.act = IF win[w].work.job = Become("enable") THEN "enable"
                              ELSE "disable"]]
  /\ UNCHANGED <<claim, port, machine, verbs>>

\* Seeded fault: the local App keeps its stub while the verb runs.
PrepareHolding(w) ==
  /\ Next1(w, Verbs)
  /\ clicks' = clicks + 1
  /\ Becomes(w, [Take(w) EXCEPT
       !.work = [Idle EXCEPT !.pc = "prompt", !.job = Head(win[w].queue), !.click = clicks + 1]])
  /\ UNCHANGED <<claim, port, machine, children, report, left>>

\* Job::Elevated: the local App lets go of the port before a service wants it.
Prepare(w) ==
  /\ Next1(w, Verbs)
  /\ clicks' = clicks + 1
  /\ Becomes(w, [Take(w) EXCEPT !.backend = "none", !.on = FALSE,
       !.work = [Idle EXCEPT !.pc = "prompt", !.job = Head(win[w].queue), !.click = clicks + 1]])
  /\ port' = Free(w)
  /\ UNCHANGED <<claim, machine, children, report, left>>

Prompted(w) ==
  /\ At(w, "prompt")
  /\ \/ /\ Becomes(w, [win[w] EXCEPT !.work.pc = "waiting"])
        /\ children' = children \cup {[click |-> win[w].work.click, verb |-> win[w].work.job,
                                       pc |-> "run"]}
     \/ /\ Becomes(w, [win[w] EXCEPT !.work.pc = "choose",
                                     !.work.batch = <<Reply("output", "none")>>])
        /\ UNCHANGED children
  /\ UNCHANGED <<claim, port, machine, report, clicks, left>>

\* Seeded fault: whatever report is there.
LoadedAny(click) == report.verb

\* ActionReport::load: the file, if it answers this click.
Loaded(click) == IF report.click = click THEN report.verb ELSE "none"

Waited(w) ==
  /\ At(w, "waiting")
  /\ \/ /\ \A c \in children : c.click # win[w].work.click
        /\ Becomes(w, [win[w] EXCEPT !.work.pc = "choose", !.work.batch =
                         <<Reply("output", Loaded(win[w].work.click))>>])
        /\ UNCHANGED left
     \/ /\ \E c \in children : c.click = win[w].work.click
        /\ Spend("slow")
        /\ Becomes(w, [win[w] EXCEPT !.work.pc = "choose",
                                     !.work.batch = <<Reply("output", "none")>>])
  /\ UNCHANGED <<claim, port, machine, verbs>>

ChooseAgain(w) ==
  /\ At(w, "choose")
  /\ LET r == [win[w] EXCEPT !.work.pc = "retry", !.work.tries = Retries,
                 !.work.batch = Append(@, Reply("backend",
                                           IF svc.reg THEN "service" ELSE "local"))]
     IN  Chosen(r, w)
  /\ UNCHANGED <<claim, svc, wish, verbs, left>>

\* Seeded fault: one question too many.
RetryMore(w) ==
  /\ At(w, "retry")
  /\ IF Answers(w) \/ win[w].work.tries < 0
     THEN Becomes(w, Done(win[w], win[w].work.batch \o Status(w)))
     ELSE Becomes(w, [win[w] EXCEPT !.work.tries = @ - 1])
  /\ UNCHANGED <<claim, port, machine, verbs, left>>

\* Ten more questions to a service that may still be starting.
Retry(w) ==
  /\ At(w, "retry")
  /\ IF Answers(w) \/ win[w].work.tries = 0
     THEN Becomes(w, Done(win[w], win[w].work.batch \o Status(w)))
     ELSE Becomes(w, [win[w] EXCEPT !.work.tries = @ - 1])
  /\ UNCHANGED <<claim, port, machine, verbs, left>>

-----------------------------------------------------------------------------
(* The verbs and the service. *)

Launched == [svc EXCEPT !.reg = TRUE, !.state = IF svc.state = "stopped" THEN "starting" ELSE @]
Halted == [svc EXCEPT !.state = "stopped", !.on = FALSE]

\* A stop restores what the service applied; uninstall whatever the backup names.
Stopping(given) ==
  /\ port' = IF port = "service" THEN Nobody ELSE port
  /\ ours' = (ours /\ ~given)

\* A verb that fails has changed nothing, or it has registered the service and
\* could not start it, stopped it and could not go on, or found no way to open it
\* and only restored. A service marked for deletion that lives on is left out.
Failing(verb) ==
  \/ UNCHANGED <<svc, port, ours>>
  \/ verb = "install" /\ svc' = [svc EXCEPT !.reg = TRUE] /\ UNCHANGED <<port, ours>>
  \/ verb # "start" /\ svc.reg /\ svc' = Halted /\ Stopping(svc.on \/ verb = "uninstall")
  \/ verb = "uninstall" /\ ours' = FALSE /\ UNCHANGED <<svc, port>>

\* An install from another file stops the service to replace its own.
RunVerb(c) ==
  /\ c \in children /\ c.pc = "run"
  /\ children' = (children \ {c}) \cup {[c EXCEPT !.pc = "report"]}
  /\ \/ /\ c.verb = "install" /\ svc' = Launched
        /\ UNCHANGED <<port, ours, left>>
     \/ /\ c.verb = "uninstall" /\ svc' = [Halted EXCEPT !.reg = FALSE]
        /\ Stopping(TRUE) /\ UNCHANGED left
     \/ /\ c.verb = "start" /\ svc' = IF svc.reg THEN Launched ELSE svc
        /\ UNCHANGED <<port, ours, left>>
     \/ /\ c.verb \in {"install", "restart"} /\ svc.reg
        /\ svc' = [Halted EXCEPT !.state = "starting"]
        /\ Stopping(svc.on) /\ UNCHANGED left
     \/ Spend("fault") /\ Failing(c.verb)
     \/ c.verb = "restart" /\ ~svc.reg /\ UNCHANGED <<svc, port, ours, left>>
  /\ UNCHANGED <<win, claim, wish, report, clicks>>

\* The last thing a verb does is leave its report, if a window asked for one
\* and the file can be written.
EndVerb(c) ==
  /\ c \in children /\ c.pc = "report"
  /\ children' = children \ {c}
  /\ \/ c.click # 0 /\ report' = [click |-> c.click, verb |-> c.verb] /\ UNCHANGED left
     \/ c.click = 0 /\ UNCHANGED <<report, left>>
     \/ c.click # 0 /\ Spend("fault") /\ UNCHANGED report
  /\ UNCHANGED <<win, claim, port, machine, clicks>>

\* Somebody runs a verb by hand, or through Windows' list of programs.
OtherVerb ==
  /\ Spend("other")
  /\ \E verb \in Verbs : children' = children \cup {[click |-> 0, verb |-> verb, pc |-> "run"]}
  /\ UNCHANGED <<win, claim, port, machine, report, clicks>>

\* async_main up to its pipe: restore_on_start.
ServiceStarts ==
  /\ svc.state = "starting"
  /\ LET bound == wish /\ port = Nobody
     IN  /\ svc' = [svc EXCEPT !.state = "running", !.on = bound]
         /\ port' = IF bound THEN "service" ELSE port
         /\ ours' = (wish /\ (bound \/ ours))
  /\ UNCHANGED <<win, claim, wish, verbs, left>>

\* The guard applies what start-up could not.
ServiceGuard ==
  /\ svc.state = "running" /\ wish /\ ~svc.on /\ port = Nobody
  /\ svc' = [svc EXCEPT !.on = TRUE] /\ port' = "service" /\ ours' = TRUE
  /\ UNCHANGED <<win, claim, wish, verbs, left>>

\* The process dies and the SCM starts it again.
ServiceDies ==
  /\ svc.state = "running" /\ Spend("crash")
  /\ svc' = [svc EXCEPT !.state = "starting", !.on = FALSE]
  /\ port' = IF port = "service" THEN Nobody ELSE port
  /\ UNCHANGED <<win, claim, wish, ours, verbs>>

-----------------------------------------------------------------------------

Worker(w) ==
  \/ Poll(w) \/ AskStatus(w) \/ Unheard(w) \/ AskEnable(w) \/ AskDisable(w)
  \/ LetGo(w) \/ Prepare(w)
  \/ Waited(w) \/ ChooseAgain(w) \/ Retry(w)
Face(w) == Open(w) \/ Drain(w) \/ Exit(w)
User(w) == Launch(w) \/ Click(w) \/ TrayClick(w) \/ Quit(w)
Prompt(w) == Declined(w) \/ HandOver(w) \/ Prompted(w)
Elevated == \E c \in children : RunVerb(c) \/ EndVerb(c)

Next ==
  \/ \E w \in Windows : Worker(w) \/ Face(w) \/ User(w) \/ Prompt(w) \/ Crash(w)
  \/ Elevated \/ OtherVerb \/ ServiceStarts \/ ServiceGuard \/ ServiceDies

\* The threads of a window run, a verb ends, the SCM starts what it was told to
\* and the guard comes round. Nobody has to click, or to answer a prompt.
Fairness ==
  /\ \A w \in Windows : WF_vars(Worker(w)) /\ WF_vars(Face(w))
  /\ WF_vars(Elevated) /\ WF_vars(ServiceStarts) /\ WF_vars(ServiceGuard)

Spec == Init /\ [][Next]_vars /\ Fairness

-----------------------------------------------------------------------------
(* Properties. *)

Task == [pc : {"idle", "becoming", "prompt", "waiting", "choose", "retry"},
         job : Jobs \cup {"none"}, click : Nat, tries : 0 .. Retries, batch : Seq(Replies)]
Window == [life : {"gone", "choosing", "open", "leaving"}, admin : BOOLEAN, exempt : BOOLEAN,
           act : {"none", "enable", "disable"}, backend : {"none", "local", "service"},
           on : BOOLEAN, queue : Seq(Jobs), work : Task, mail : Seq(Replies),
           shown : {"nothing", "on", "off", "silent"},
           inst : {"unasked", "no", "stopped", "running"}, local : BOOLEAN, busy : BOOLEAN]

TypeOK ==
  /\ win \in [Windows -> Window]
  /\ claim \in Windows \cup {Nobody} /\ port \in Windows \cup {Nobody, "service"}
  /\ svc \in [reg : BOOLEAN, state : {"stopped", "starting", "running"}, on : BOOLEAN]
  /\ wish \in BOOLEAN /\ ours \in BOOLEAN
  /\ \A c \in children : c \in [click : Nat, verb : Verbs, pc : {"run", "report"}]
  /\ report \in [click : Nat, verb : Verbs \cup {"none"}]
  /\ clicks \in Nat /\ left \in [Kinds -> Nat]

\* The report a window shows is of the verb its own click asked for, although
\* an earlier verb, given up on after three minutes, may write its own at any
\* moment (report.rs).
Shows(w, verb) == \E n \in DOMAIN win[w].work.batch :
                    win[w].work.batch[n] = Reply("output", verb)
ReportIsMine ==
  \A w \in Windows, verb \in Verbs : Shows(w, verb) => verb = win[w].work.job

\* A window alone on the machine and the service never want the port at once:
\* whatever is clicked, installed and removed, the window does not hold it while
\* a service is up (backend.rs), unless a verb was run by hand or given up on, or a copy took over.
Undisturbed == \A k \in {"launch", "handover", "other", "slow"} : left[k] = Budget[k]
OneResolver == (Undisturbed /\ svc.state # "stopped") => port \notin Windows

\* What every window shows catches up with what its half of the program would
\* answer, as long as it is not waiting for a prompt (spawn_worker).
Truth(w) == IF Answers(w) THEN State(IsOn(w)) ELSE "silent"
CatchesUp ==
  \A w \in Windows : []<>(\/ ~Awake(w) \/ win[w].work.pc \in {"becoming", "prompt"}
                         \/ win[w].shown = Truth(w))

\* The click that took a hand-over is carried out by the copy that was started
\* for it, unless that one ends, the service is silent, a call fails, or another
\* window holds the port it needs (TrayApp::new).
Carried(w) == \/ wish = (win[w].act = "enable") \/ win[w].life \in {"gone", "leaving"}
              \/ win[w].shown = "silent" \/ left["fault"] < Budget["fault"]
              \/ win[w].act = "enable" /\ port \in Windows \ {w}
ClickSurvives ==
  \A w \in Windows : (win[w].life = "choosing" /\ win[w].act # "none") ~> Carried(w)
=============================================================================
