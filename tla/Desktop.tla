------------------------------ MODULE Desktop -------------------------------
(***************************************************************************)
(* The window and who owns the machine under it (gui/main_window.py, with    *)
(* the tuner, memory and Curve Optimizer tabs and history/logger.py).        *)
(*                                                                         *)
(* Three workloads want the same hardware: a manual test, the tuner and a    *)
(* memory stress.  Each runs on a thread of its own that posts signals to    *)
(* the window; the window answers signals, timers and the user one at a time,*)
(* also while one of its modal dialogs is open.  Signals that are posted are *)
(* delivered before the next click, as the event loop does it, but a timer   *)
(* may come before them and a dialog may be open when they arrive.           *)
(*                                                                         *)
(* What the tuner does inside a test or on resume is in Recovery and          *)
(* Validation, what a test does in Stress: here a test is a thread.           *)
(***************************************************************************)
EXTENDS Naturals, FiniteSets, Sequences

CONSTANTS
  Tests,      \* bound: the manual tests of a history
  NoTest,
  Sessions,   \* bound: its tuner sessions, the later the greater
  AutoResume, \* the dialogs the auto-resume timer may fire under; empty without one
  MaxDeaths   \* bound: times the process dies

ASSUME DesktopAssumption ==
  /\ NoTest \notin Tests /\ Tests \cap {"tuner", "memory"} = {}
  /\ Sessions \subseteq Nat \ {0} /\ IsFiniteSet(Sessions)
  /\ AutoResume \subseteq {"none", "start", "co", "close"} /\ MaxDeaths \in Nat

VARIABLES
  up,       \* the process runs
  win,      \* the window, the engine it holds and its controls
  thread,   \* the threads of the manual tests, the tuner and the memory stress
  queue,    \* signals posted to the window
  run,      \* status of the run row of each manual test
  session,  \* status of each session row
  resident, \* who wrote the offsets that are in the hardware
  deaths,
  closed    \* for the properties: the process ended with its window closed

vars == <<up, win, thread, queue, run, session, resident, deaths, closed>>

Workers == Tests \union {"tuner", "memory"}
Idle == [x \in Workers |-> "none"]
Alive(t, x) == t[x] \in {"driving", "ending", "over"}  \* QThread.isRunning
Active == {"running", "paused"}
Post(m) == queue' = Append(queue, m)

-----------------------------------------------------------------------------
\* Ownership: w is the window, t the threads, s the session rows.

ActiveOwner(w, t, s) ==
  CASE w.owner # "none" -> w.owner
    [] w.owner = "none" /\ w.worker # NoTest /\ Alive(t, w.worker) -> "manual"
    [] OTHER ->
         IF w.engine \in Active \/ w.held \/ \E x \in Sessions : s[x] \in Active THEN "tuner"
         ELSE IF Alive(t, "memory") THEN "memory" ELSE "none"

\* _apply_workload_owner: the controls follow the owner.
Applied(w, t, s) ==
  LET o == ActiveOwner(w, t, s)
  IN [w EXCEPT !.start = o = "none",
               !.stop = o = "manual",
               !.external = o \in {"manual", "memory"},
               !.tune = o \notin {"manual", "memory"} /\ w.engine \notin Active,
               !.memory = o \notin {"manual", "tuner"} /\ ~Alive(t, "memory"),
               !.locked = o = "tuner"]

OwnedBesideTuner(w, o, t, s) ==
  [Applied([w EXCEPT !.owner = o], t, s) EXCEPT !.memory = o # "manual" /\ ~Alive(t, "memory")]

OwnedWhileRunning(w, o, t, s) ==
  [Applied([w EXCEPT !.owner = o], t, s) EXCEPT !.locked = w.engine = "running"]

Owned(w, o, t, s) == Applied([w EXCEPT !.owner = o], t, s)

Refreshed(w, t, s) == Owned(w, ActiveOwner(w, t, s), t, s)

\* _set_running_state of the tuner tab and _on_tuner_running_changed.
Tuning(w, running, t, s) ==
  LET v == [w EXCEPT !.tune = ~running, !.pause = running, !.resume = FALSE, !.abort = running,
                     !.validate = @ /\ ~running]
  IN IF running THEN Owned(v, "tuner", t, s) ELSE Refreshed(Owned(v, "none", t, s), t, s)

\* _on_status_changed with the status of the engine.
Shown(w, t, s) ==
  CASE w.engine = "running" -> Tuning(w, TRUE, t, s)
    [] w.engine = "paused" -> [Tuning(w, TRUE, t, s) EXCEPT !.pause = FALSE, !.resume = TRUE]
    [] OTHER -> Tuning(w, FALSE, t, s)

Ready == up /\ queue = <<>>         \* the user may act
Free == Ready /\ win.dialog = "none"

-----------------------------------------------------------------------------
\* A manual test.

FinishAnyway(row, status) == [run EXCEPT ![row] = status]

Finish(row, status) ==
  [run EXCEPT ![row] = IF @ = "running" THEN status ELSE @]

FinishRun(row, status) == run' = Finish(row, status)

StartTest ==
  /\ Free /\ win.start /\ ActiveOwner(win, thread, session) = "none"
  /\ \E x \in Tests :
       /\ run[x] = "none"
       /\ run' = [run EXCEPT ![x] = "running"]
       /\ thread' = [thread EXCEPT ![x] = "driving"]
       /\ win' = Owned([win EXCEPT !.worker = x, !.logger = x, !.wired = @ \union {x}],
                       "manual", [thread EXCEPT ![x] = "none"], session)
  /\ UNCHANGED <<up, queue, session, resident, deaths, closed>>

StopTest ==
  /\ Free /\ win.stop /\ win.worker # NoTest
  /\ win' = [win EXCEPT !.stop = FALSE, !.logger = NoTest, !.wired = @ \ {win.worker}]
  /\ IF win.logger # NoTest THEN FinishRun(win.logger, "stopped") ELSE UNCHANGED run
  /\ UNCHANGED <<up, thread, queue, session, resident, deaths, closed>>

\* The scheduler ends: it reports its results first, in which every core has a
\* verdict (whole) or some core has none, and then the exception that ended it.
TestEnds(x) ==
  /\ up /\ thread[x] = "driving"
  /\ thread' = [thread EXCEPT ![x] = "ending"]
  /\ \E whole \in BOOLEAN : Post([kind |-> "completed", test |-> x, whole |-> whole])
  /\ UNCHANGED <<up, win, run, session, resident, deaths, closed>>

TestReports(x) ==
  LET finished == [kind |-> "finished", test |-> x]
  IN /\ up /\ thread[x] = "ending"
     /\ thread' = [thread EXCEPT ![x] = "over"]
     /\ \/ Post(finished)
        \/ queue' = queue \o <<[kind |-> "crashed", test |-> x], finished>>
     /\ UNCHANGED <<up, win, run, session, resident, deaths, closed>>

Gone(x) ==
  /\ up /\ thread[x] = "over"
  /\ thread' = [thread EXCEPT ![x] = "gone"]
  /\ UNCHANGED <<up, win, queue, run, session, resident, deaths, closed>>

Cleaned == Owned([win EXCEPT !.worker = NoTest], "none", thread, session)

OnCompleted(m) ==
  /\ IF m.test \in win.wired
     THEN FinishRun(m.test, IF m.whole THEN "completed" ELSE "crashed") ELSE UNCHANGED run
  /\ UNCHANGED <<win, thread, session, resident>>

OnCrashed ==
  /\ IF ~win.closing /\ win.logger # NoTest
     THEN FinishRun(win.logger, "crashed") /\ win' = [win EXCEPT !.logger = NoTest]
     ELSE UNCHANGED <<run, win>>
  /\ UNCHANGED <<thread, session, resident>>

OnFinished ==
  /\ win' = IF win.closing THEN win ELSE [Cleaned EXCEPT !.logger = NoTest]
  /\ UNCHANGED <<thread, run, session, resident>>

WatchdogUnlessClosing ==
  /\ up /\ ~win.closing /\ win.worker # NoTest /\ ~Alive(thread, win.worker)
  /\ win' = Cleaned
  /\ UNCHANGED <<up, thread, queue, run, session, resident, deaths, closed>>

\* _update_elapsed, once a second while there is a worker.
Watchdog ==
  /\ up /\ win.worker # NoTest /\ ~Alive(thread, win.worker)
  /\ win' = Cleaned
  /\ UNCHANGED <<up, thread, queue, run, session, resident, deaths, closed>>

-----------------------------------------------------------------------------
\* The memory stress.

StartMemory ==
  /\ Free /\ win.memory /\ ~Alive(thread, "memory")
  /\ win' = Owned(win, "memory", thread, session)
  /\ thread' = [thread EXCEPT !["memory"] = "driving"]
  /\ UNCHANGED <<up, queue, run, session, resident, deaths, closed>>

MemoryEnds ==
  /\ up /\ thread["memory"] = "driving"
  /\ thread' = [thread EXCEPT !["memory"] = "over"]
  /\ Post([kind |-> "memory"])
  /\ UNCHANGED <<up, win, run, session, resident, deaths, closed>>

OnMemoryDone ==
  /\ win' = Owned([win EXCEPT !.memory = ~win.external], "none", thread, session)
  /\ UNCHANGED <<thread, run, session, resident>>

-----------------------------------------------------------------------------
\* The tuner.  Reached(w, t, s) follows a step of the engine that left window w,
\* threads t and session rows s: the tab shows its status.

Reached(w, t, s) == thread' = t /\ session' = s /\ win' = Shown(w, t, s)

\* _run_next: the next test is launched on offsets it writes, or the engine
\* pauses because they cannot be written or the test cannot start.
Run(w, s, x) ==
  \/ /\ Reached([w EXCEPT !.engine = "running", !.held = TRUE, !.next = FALSE, !.deaf = FALSE],
                [thread EXCEPT !["tuner"] = "driving"], [s EXCEPT ![x] = "running"])
     /\ resident' = "tuner"
  \/ /\ Reached([w EXCEPT !.engine = "paused", !.held = FALSE, !.next = FALSE],
                [thread EXCEPT !["tuner"] = "none"], [s EXCEPT ![x] = "paused"])
     /\ resident' \in {resident, "tuner"}

\* The session ends: completed, or quarantined at stock offsets.
Retire(w, t) ==
  \E profile \in BOOLEAN :
    /\ thread' = t /\ session' = [session EXCEPT ![w.session] = "ended"]
    /\ win' = [Shown([w EXCEPT !.engine = "idle"], t, session') EXCEPT !.validate = profile]
    /\ resident' \in {"tuner", "none"}

\* _on_start up to its question; the timer may resume a session under it.
AskStart ==
  /\ Free /\ win.tune /\ ~win.external /\ win.engine \notin Active
  /\ win' = [win EXCEPT !.dialog = "start"]
  /\ UNCHANGED <<up, thread, queue, run, session, resident, deaths, closed>>

\* A new engine replaces the one the tab held; one whose worker still runs is
\* destroyed with it, and Qt aborts the process.
Fresh(x) == [win EXCEPT !.dialog = "none", !.engine = "idle", !.session = x,
                        !.held = FALSE, !.next = FALSE, !.deaf = FALSE]

StartTuner ==
  /\ Ready /\ win.dialog = "start"
  /\ ~(win.held /\ Alive(thread, "tuner"))
  /\ \/ /\ win' = Fresh(0)      \* the engine refused to start
        /\ UNCHANGED <<thread, session, resident>>
     \/ \E x \in Sessions :
          /\ \A y \in Sessions : y < x <=> session[y] # "none"
          /\ Run(Fresh(x), session, x)
  /\ UNCHANGED <<up, queue, run, deaths, closed>>

PauseTuner ==
  /\ Free /\ win.pause /\ win.engine # "none"
  /\ session' = [session EXCEPT ![win.session] = "paused"]
  /\ win' = Shown([win EXCEPT !.engine = "paused", !.next = FALSE], thread, session')
  /\ UNCHANGED <<up, thread, queue, run, resident, deaths, closed>>

\* _resume_session and TunerEngine.resume; resume is ignored under a live worker.
Resume(x) ==
  /\ ~win.external /\ ~(win.held /\ Alive(thread, "tuner"))
  /\ LET w == [win EXCEPT !.session = x, !.held = FALSE, !.next = FALSE]
     IN Run(w, session, x) \/ Retire(w, thread)

ResumeTuner ==
  /\ Free /\ win.resume
  /\ IF win.engine = "paused" THEN Resume(win.session)
     ELSE \E x \in Sessions : session[x] \in Active \union {"ended"} /\ Resume(x)
  /\ UNCHANGED <<up, queue, run, deaths, closed>>

\* attempt_auto_resume: the latest active session, unless a human paused it.
AutoResumeFires ==
  /\ up /\ win.timer /\ win.dialog \in AutoResume
  /\ LET active == {x \in Sessions : session[x] \in Active}
         latest == {x \in active : session[x] = "running" /\ \A y \in active : y <= x}
     IN IF win.engine \in Active \/ latest = {} \/ win.external
        THEN win' = [win EXCEPT !.timer = FALSE] /\ UNCHANGED <<thread, session, resident>>
        ELSE \/ /\ win' = [win EXCEPT !.timer = FALSE]   \* its configuration is no longer valid
               /\ UNCHANGED <<thread, session, resident>>
            \/ \E x \in latest :
               LET w == [win EXCEPT !.session = x, !.held = FALSE, !.next = FALSE, !.timer = FALSE]
               IN Run(w, session, x) \/ Retire(w, thread)
  /\ UNCHANGED <<up, queue, run, deaths, closed>>

Validate ==
  /\ Free /\ win.validate /\ ~win.external /\ win.engine # "none" /\ win.session # 0
  /\ session[win.session] # "none"
  /\ Run(win, session, win.session)
  /\ UNCHANGED <<up, queue, run, deaths, closed>>

TunerTestEnds ==
  /\ up /\ thread["tuner"] = "driving"
  /\ thread' = [thread EXCEPT !["tuner"] = "over"]
  /\ IF win.deaf THEN UNCHANGED queue ELSE Post([kind |-> "answer"])
  /\ UNCHANGED <<up, win, run, session, resident, deaths, closed>>

\* _on_test_finished waits for the thread; then the engine goes on, pauses itself
\* or ends its session.
OnAnswer ==
  LET t == [thread EXCEPT !["tuner"] = "gone"]
      w == [win EXCEPT !.held = FALSE]
  IN /\ UNCHANGED run
     /\ CASE win.engine = "running" ->
               \/ /\ win' = [w EXCEPT !.next = TRUE] /\ thread' = t
                  /\ UNCHANGED <<session, resident>>
               \/ /\ Reached([w EXCEPT !.engine = "paused"], t, [session EXCEPT ![w.session] = "paused"])
                  /\ resident' = "tuner"
               \/ Retire(w, t)
          [] OTHER ->
               \/ win' = w /\ thread' = t /\ UNCHANGED <<session, resident>>
               \/ win.engine = "paused" /\ Retire(w, t)

RunNext ==
  /\ up /\ win.next /\ win.engine = "running"
  /\ Run(win, session, win.session)
  /\ UNCHANGED <<up, queue, run, deaths, closed>>

\* _stop_and_restore.  The worker is stopped and the baselines are restored, and
\* the session is left at status;
Stopped(status) ==
  [w |-> [win EXCEPT !.held = FALSE, !.next = FALSE, !.engine = "idle"],
   t |-> [thread EXCEPT !["tuner"] = "gone"],
   s |-> [session EXCEPT ![win.session] = IF status = "paused" /\ @ \notin Active THEN @ ELSE status]]

\* or the worker will not die, and nobody listens to its answer, or a baseline is
\* refused, which quarantines the session.
StopFails(Show(_, _, _)) ==
  \/ /\ thread["tuner"] = "driving"
     /\ win' = Show([win EXCEPT !.deaf = TRUE, !.next = FALSE], thread, session)
     /\ UNCHANGED <<thread, session, resident>>
  \/ LET q == Stopped("ended") IN
     /\ thread' = q.t /\ session' = q.s /\ win' = Show(q.w, q.t, q.s)
     /\ resident' \in {"none", "tuner"}

\* The tab turns its buttons off whether the abort was carried out or not.
Off(w, t, s) == Tuning(w, FALSE, t, s)

AbortTuner ==
  /\ Free /\ win.abort /\ win.engine # "none"
  /\ \/ LET a == Stopped("ended") IN
       /\ thread' = a.t /\ session' = a.s /\ win' = Off(a.w, a.t, a.s)
       /\ resident' = "none"
     \/ StopFails(Off)
  /\ UNCHANGED <<up, queue, run, deaths, closed>>

-----------------------------------------------------------------------------
\* The Curve Optimizer tab: every write asks first, and looks at the lock again
\* when the question has been answered.

AskWrite ==
  /\ Free /\ ~win.locked
  /\ win' = [win EXCEPT !.dialog = "co"]
  /\ UNCHANGED <<up, thread, queue, run, session, resident, deaths, closed>>

MayWrite == ~win.locked

WriteOffsets ==
  /\ Ready /\ win.dialog = "co"
  /\ win' = [win EXCEPT !.dialog = "none"]
  /\ resident' = IF MayWrite THEN "manual" ELSE resident
  /\ UNCHANGED <<up, thread, queue, run, session, deaths, closed>>

-----------------------------------------------------------------------------
\* The window closes: closeEvent.

BusyUnpaused ==
  {x \in {"manual", "tuner", "memory"} :
     CASE x = "manual" -> win.worker # NoTest /\ Alive(thread, win.worker)
       [] x = "tuner" -> win.engine = "running"
       [] OTHER -> Alive(thread, "memory")}

\* What runs when the close is asked for; it is not looked at again.
Busy ==
  {x \in {"manual", "tuner", "memory"} :
     CASE x = "manual" -> win.worker # NoTest /\ Alive(thread, win.worker)
       [] x = "tuner" -> win.engine \in Active \/ win.held
       [] OTHER -> Alive(thread, "memory")}

\* The workloads in busy are stopped in turn, and the window closes, or stays open
\* as the settings cannot be saved.  What a test posts as it is stopped finds nobody
\* connected; nothing else waits in the queue when the close is answered.
Teardown(busy) ==
  LET manual == "manual" \in busy /\ win.worker # NoTest
      a == IF "tuner" \in busy /\ win.engine # "none" THEN Stopped("paused")
           ELSE [w |-> win, t |-> thread, s |-> session]
      threads == [x \in Workers |->
                   IF (manual /\ x = win.worker) \/ (x = "memory" /\ x \in busy) THEN "gone" ELSE a.t[x]]
      w == [a.w EXCEPT !.dialog = "none", !.logger = IF manual THEN NoTest ELSE @,
                       !.wired = IF manual THEN @ \ {win.worker} ELSE @]
  IN /\ thread' = threads /\ session' = a.s
     /\ IF manual /\ win.logger # NoTest THEN FinishRun(win.logger, "stopped") ELSE UNCHANGED run
     /\ resident' = IF "tuner" \in busy THEN "none" ELSE resident
     /\ \/ win' = w /\ up' = FALSE /\ closed' = TRUE
        \/ /\ win' = [(IF "tuner" \in busy THEN Shown(w, threads, a.s) ELSE w) EXCEPT !.closing = FALSE]
           /\ UNCHANGED <<up, closed>>
     /\ UNCHANGED <<queue, deaths>>

StaysOpen(w, t, s) ==
  [(IF w.deaf THEN w ELSE Shown(w, t, s)) EXCEPT !.dialog = "none", !.closing = FALSE]

AskClose ==
  /\ Free
  /\ IF ActiveOwner(win, thread, session) = "none" THEN Teardown(Busy)
     ELSE /\ win' = [win EXCEPT !.dialog = "close", !.closing = TRUE, !.busy = Busy]
          /\ UNCHANGED <<up, thread, queue, run, session, resident, deaths, closed>>

\* The answer is No, or the test or the stress could not be confirmed stopped;
KeepOpen ==
  /\ Ready /\ win.dialog = "close"
  /\ win' = [win EXCEPT !.dialog = "none", !.closing = FALSE]
  /\ UNCHANGED <<up, thread, queue, run, session, resident, deaths, closed>>

\* or the tuner could not.
CloseFails ==
  /\ Ready /\ win.dialog = "close" /\ "tuner" \in win.busy /\ win.engine # "none"
  /\ StopFails(StaysOpen)
  /\ UNCHANGED <<up, queue, run, deaths, closed>>

Close == Ready /\ win.dialog = "close" /\ Teardown(win.busy)

-----------------------------------------------------------------------------
\* The process.

Window(s) ==
  Refreshed([owner |-> "none", worker |-> NoTest, logger |-> NoTest, wired |-> {},
             closing |-> FALSE, busy |-> {}, dialog |-> "none", timer |-> AutoResume # {},
             engine |-> "none", session |-> 0, held |-> FALSE, next |-> FALSE, deaf |-> FALSE,
             start |-> FALSE, stop |-> FALSE, external |-> FALSE, tune |-> TRUE, memory |-> TRUE,
             locked |-> FALSE, pause |-> FALSE, abort |-> FALSE, validate |-> FALSE,
             resume |-> \E x \in Sessions : s[x] # "none"], Idle, s)

Die ==
  /\ up /\ deaths < MaxDeaths
  /\ up' = FALSE /\ deaths' = deaths + 1
  /\ win' = Window(session) /\ thread' = Idle /\ queue' = <<>>
  /\ UNCHANGED <<run, session, resident, closed>>

\* _start_history marks the runs of the last process as crashed.
Start ==
  /\ ~up /\ up' = TRUE /\ closed' = FALSE
  /\ win' = Window(session) /\ thread' = Idle /\ queue' = <<>>
  /\ run' = [x \in Tests |-> IF run[x] = "running" THEN "crashed" ELSE run[x]]
  /\ UNCHANGED <<session, resident, deaths>>

Deliver ==
  /\ up /\ queue # <<>> /\ queue' = Tail(queue)
  /\ LET m == Head(queue)
     IN CASE m.kind = "completed" -> OnCompleted(m)
          [] m.kind = "crashed" -> OnCrashed
          [] m.kind = "finished" -> OnFinished
          [] m.kind = "memory" -> OnMemoryDone
          [] OTHER -> OnAnswer
  /\ UNCHANGED <<up, deaths, closed>>

Init ==
  /\ up = TRUE /\ thread = Idle /\ queue = <<>> /\ closed = FALSE
  /\ run = [x \in Tests |-> "none"] /\ resident = "none" /\ deaths = 0
  /\ \E first \in {"none", "running", "paused", "ended"} :
       session = [x \in Sessions |-> IF x = 1 THEN first ELSE "none"]
  /\ win = Window(session)

Ends == \E x \in Tests : TestEnds(x) \/ TestReports(x)
Next ==
  \/ StartTest \/ StopTest \/ Ends \/ Watchdog \/ \E x \in Workers : Gone(x)
  \/ StartMemory \/ MemoryEnds
  \/ AskStart \/ StartTuner \/ PauseTuner \/ ResumeTuner \/ AutoResumeFires \/ Validate
  \/ TunerTestEnds \/ RunNext \/ AbortTuner
  \/ AskWrite \/ WriteOffsets
  \/ AskClose \/ KeepOpen \/ CloseFails \/ Close \/ Die \/ Start \/ Deliver

\* The event loop delivers what is posted, and the window's clock ticks.
Spec == Init /\ [][Next]_vars /\ WF_vars(Watchdog) /\ WF_vars(Deliver)

-----------------------------------------------------------------------------
Drives(x) == up /\ thread[x] = "driving"

\* Manual tests, memory stress and the tuner never stress the machine together,
\* whatever order their signals arrive in (main_window.py:332-365,
\* docs/architecture.md:24).
KindsExclusive == \A x, y \in Workers : Drives(x) /\ Drives(y) => x = y

\* While a test of the tuner drives the machine, also one that outlives a pause or
\* a failed abort, the offsets in the hardware are those the tuner wrote
\* (smu_tab.py:268-364, README.md:42).
OffsetsStandUnderTest == Drives("tuner") => resident = "tuner"

\* A closed window leaves no workload on the machine, no worker unowned and no
\* engine that believes it is running (main_window.py:885-969).
CloseIsClean ==
  closed => (\A x \in Workers : thread[x] # "driving") /\ ~win.held /\ win.engine # "running"

\* The first verdict of a run is the one it keeps, however its stop, its results,
\* its crash and a restart overtake one another (db.py:1220-1246,
\* main_window.py:489-534).
VerdictKept ==
  [][\A x \in Tests : run[x] \notin {"none", "running"} => run'[x] = run[x]]_vars

\* A window that stays up lets go of a test whose thread is gone, also when its
\* last signal arrived under the close question (main_window.py:669-752).
ManualReleased ==
  win.worker # NoTest /\ thread[win.worker] = "gone" ~> ~up \/ win.worker = NoTest
=============================================================================
