------------------------------ MODULE Headless ------------------------------
(***************************************************************************)
(* A tuner session without a window: corecycler tune and resume (cli.py),    *)
(* the engine under it, and the signals the process gets.                    *)
(*                                                                         *)
(* A Python signal handler runs on the main thread between two bytecodes: in *)
(* the event loop, and as well in the middle of a slot of the engine that    *)
(* picks a core, writes its offset and launches its worker.  The slot then   *)
(* goes on from where it was, on what it had read.                           *)
(*                                                                         *)
(* What a slot tests and what its result does to the session are in          *)
(* CoreSearch, Validation and AttributionHunt; here it is a slot.            *)
(***************************************************************************)
EXTENDS Naturals

CONSTANTS
  NoCode,       \* no exit code is set
  EarlySignals, \* signals may come before the event loop runs
  MaxSignals    \* bound: signals the process gets

\* What the command exits with: a refusal, a pause, the end of the session, a
\* quarantine, a signal.
Codes == {"refused", "paused", "completed", "quarantined", "signal"}

ASSUME HeadlessAssumption ==
  /\ NoCode \notin Codes
  /\ EarlySignals \in BOOLEAN /\ MaxSignals \in Nat

VARIABLES
  pc,        \* where the main thread is
  exec,      \* app.exec was entered
  quit,      \* app.quit was called in it
  code,      \* outcome["exit"], and the exit code at the end
  next,      \* a slot of the engine is queued
  settling,  \* settle_paused is to look again
  paused,    \* _paused
  aborting,  \* _abort_requested
  status,    \* _status of the engine
  row,       \* status of the session's row
  in_test,   \* a core's row says it is under test
  worker,    \* _worker is set and its answer is connected
  thread,    \* the worker's thread
  resident,  \* an offset beyond the baselines is in the hardware
  signals,   \* signals so far
  spoiled,   \* for the properties: a worker did not stop, or a revert failed
  amid       \* for the properties: an interrupt came in the middle of a slot

engine == <<paused, aborting, status, row, in_test, worker, thread, resident>>
front == <<exec, quit, code, next, settling>>
ghosts == <<signals, spoiled, amid>>
vars == <<pc, engine, front, ghosts>>

Resumable == {"running", "paused"}
Recoverable == Resumable \union {"quarantined", "aborted"}
InFlight == worker            \* test_in_flight

Init ==
  /\ pc = "asked" /\ exec = FALSE /\ quit = FALSE /\ code = NoCode
  /\ next = FALSE /\ settling = FALSE /\ paused = FALSE /\ aborting = FALSE
  /\ status = "idle" /\ row \in Recoverable \union {"completed"} /\ in_test = FALSE
  /\ worker = FALSE /\ thread = "none" /\ resident = FALSE
  /\ signals = 0 /\ spoiled = FALSE /\ amid = FALSE

-----------------------------------------------------------------------------
\* What the command does of a status of the engine.

Coded(c) == IF code = NoCode THEN c ELSE code  \* outcome.setdefault
Finish(c) == code' = Coded(c) /\ quit' = exec  \* quit does nothing outside exec

\* Mutated forms: the command quits when it is told that the engine pauses;
\* settle_paused looks once.
SettleAtOnce(flying) == Finish("paused") /\ settling' = FALSE
SettleOnce(flying) ==
  /\ settling' = FALSE
  /\ IF flying THEN UNCHANGED <<code, quit>> ELSE Finish("paused")

SettlePaused(flying) ==
  /\ settling' = flying
  /\ IF flying THEN UNCHANGED <<code, quit>> ELSE Finish("paused")

SettleFires ==
  /\ pc = "loop" /\ settling /\ ~quit
  /\ SettlePaused(InFlight)
  /\ UNCHANGED <<pc, engine, exec, next, ghosts>>

\* pause, and what on_status makes of it.
Pause(flying) ==
  IF row = "quarantined" THEN UNCHANGED <<paused, status, row, code, quit, settling>>
  ELSE /\ paused' = TRUE /\ status' = "paused" /\ row' = "paused"
       /\ SettlePaused(flying)

-----------------------------------------------------------------------------
\* The main thread.

\* _cmd_run up to the engine: the session, its seeds, the configuration, the
\* lock, the processor and the workloads are looked at in turn, and the first
\* that will not do ends the command.  A new session has a row of its own.
Preflight ==
  /\ pc = "asked"
  /\ \/ pc' = "gone" /\ code' = "refused"
     \/ row \in Recoverable /\ pc' = "starting" /\ UNCHANGED code
  /\ UNCHANGED <<engine, exec, quit, next, settling, ghosts>>

\* start or resume: the flags are cleared, and the first slot follows at once.
Start ==
  /\ pc = "starting"
  /\ paused' = FALSE /\ aborting' = FALSE
  /\ status' = "running" /\ row' = "running"
  /\ pc' = "picking"
  /\ UNCHANGED <<in_test, worker, thread, resident, front, ghosts>>

\* The engine refuses to start; a session that cannot be resumed is paused.
Refuse ==
  /\ pc = "starting"
  /\ aborting' = FALSE /\ pc' = "started"
  /\ \/ paused' = FALSE /\ UNCHANGED <<status, row, code, quit, settling>>
     \/ Pause(InFlight)
  /\ UNCHANGED <<in_test, worker, thread, resident, exec, next, ghosts>>

Back == pc' = IF exec THEN "loop" ELSE "started"

\* _run_next looks at the flags once ...
Pick ==
  /\ pc = "picking"
  /\ IF paused \/ aborting THEN Back ELSE pc' = "choosing"
  /\ UNCHANGED <<engine, front, ghosts>>

\* ... completes the session when every core is done ...
Complete ==
  /\ pc = "choosing" /\ Back
  /\ row' = "completed" /\ status' = "completed"
  /\ code' = "completed" /\ quit' = exec
  /\ UNCHANGED <<paused, aborting, in_test, worker, thread, resident, exec, next, settling, ghosts>>

\* ... or marks a core ...
Choose ==
  /\ pc = "choosing"
  /\ in_test' = TRUE /\ pc' = "writing"
  /\ UNCHANGED <<paused, aborting, status, row, worker, thread, resident, front, ghosts>>

\* ... and writes its offset.
Write ==
  /\ pc = "writing"
  /\ resident' = TRUE /\ pc' = "launching"
  /\ UNCHANGED <<paused, aborting, status, row, in_test, worker, thread, front, ghosts>>

\* A write that fails parks every core at stock and pauses; when that fails too
\* the session is quarantined.
WriteFails ==
  /\ pc = "writing" /\ Back
  /\ \/ /\ resident' = FALSE /\ Pause(InFlight)
        /\ UNCHANGED <<in_test, spoiled>>
     \/ /\ resident' = TRUE /\ in_test' = FALSE /\ spoiled' = TRUE
        /\ row' = "quarantined" /\ status' = "quarantined" /\ Finish("quarantined")
        /\ UNCHANGED <<paused, settling>>
  /\ UNCHANGED <<aborting, worker, thread, exec, next, signals, amid>>

\* _launch_worker: the worker is announced and checkpointed ...
Announce ==
  /\ pc = "launching"
  /\ worker' = TRUE /\ pc' = "checking"
  /\ UNCHANGED <<paused, aborting, status, row, in_test, thread, resident, front, ghosts>>

\* ... dropped if a pause or an abort came by then ...
Check ==
  /\ pc = "checking"
  /\ IF paused \/ aborting
       THEN in_test' = FALSE /\ worker' = FALSE /\ Back
       ELSE pc' = "launched" /\ UNCHANGED <<in_test, worker>>
  /\ UNCHANGED <<paused, aborting, status, row, thread, resident, front, ghosts>>

\* ... and started.
Launch ==
  /\ pc = "launched"
  /\ thread' = "running" /\ Back
  /\ UNCHANGED <<paused, aborting, status, row, in_test, worker, resident, front, ghosts>>

ThreadEnds ==
  /\ thread = "running" /\ pc # "gone"
  /\ thread' = "ended"
  /\ UNCHANGED <<pc, paused, aborting, status, row, in_test, worker, resident, front, ghosts>>

\* _on_test_finished lets go of the worker ...
Judge ==
  /\ pc = "loop" /\ ~quit /\ thread = "ended" /\ worker
  /\ worker' = FALSE /\ thread' = "none"
  /\ pc' = IF aborting THEN "loop" ELSE "judging"
  /\ UNCHANGED <<paused, aborting, status, row, in_test, resident, front, ghosts>>

\* ... records the result and queues the next slot; or pauses, when the test
\* could not run.
Record ==
  /\ pc = "judging"
  /\ in_test' = FALSE /\ Back
  /\ \/ next' = TRUE /\ UNCHANGED <<paused, status, row, code, quit, settling>>
     \/ Pause(InFlight) /\ UNCHANGED next
  /\ UNCHANGED <<aborting, worker, thread, resident, exec, ghosts>>

NextSlot ==
  /\ pc = "loop" /\ next /\ ~quit
  /\ next' = FALSE /\ pc' = "picking"
  /\ UNCHANGED <<engine, exec, quit, code, settling, ghosts>>

\* _cmd_run after start: an exit code, a session that does not run, or the loop.
Started ==
  /\ pc = "started"
  /\ IF code = NoCode /\ status = "running"
       THEN exec' = TRUE /\ pc' = "loop" /\ UNCHANGED code
       ELSE pc' = "gone" /\ code' = Coded("refused") /\ UNCHANGED exec
  /\ UNCHANGED <<engine, quit, next, settling, ghosts>>

Exit ==
  /\ pc = "loop" /\ quit
  /\ pc' = "gone"
  /\ UNCHANGED <<engine, front, ghosts>>

-----------------------------------------------------------------------------
\* Signals.

MayCome == pc # "gone" /\ (exec \/ EarlySignals) /\ signals < MaxSignals

\* SIGTERM
OnTerminate ==
  /\ MayCome /\ signals' = signals + 1
  /\ Pause(InFlight)
  /\ UNCHANGED <<pc, aborting, in_test, worker, thread, resident, exec, next, spoiled, amid>>

\* Mutated form: the offsets are left to the next start.
RestoredLater == UNCHANGED <<resident, spoiled>> /\ row' = "aborted" /\ status' = "idle"

\* The baselines are written back; a write that fails quarantines the session.
Restored ==
  \/ resident' = FALSE /\ row' = "aborted" /\ status' = "idle" /\ UNCHANGED spoiled
  \/ row' = "quarantined" /\ status' = "quarantined" /\ spoiled' = TRUE /\ UNCHANGED resident

\* SIGINT: abort, and quit whatever it achieved.
OnInterrupt ==
  /\ MayCome /\ signals' = signals + 1
  /\ code' = "signal" /\ quit' = exec
  /\ aborting' = TRUE
  /\ \/ /\ worker /\ thread = "running"      \* it does not stop
        /\ spoiled' = TRUE
        /\ UNCHANGED <<row, status, in_test, worker, thread, resident>>
     \/ /\ worker' = FALSE /\ in_test' = FALSE
        /\ thread' = IF worker THEN "none" ELSE thread
        /\ Restored
  /\ amid' = (amid \/ pc # "loop")
  /\ UNCHANGED <<pc, paused, exec, next, settling>>

-----------------------------------------------------------------------------
Main ==
  \/ Preflight \/ Start \/ Refuse \/ Pick \/ Complete \/ Choose \/ Write \/ WriteFails \/ Announce \/ Check \/ Launch
  \/ Judge \/ Record \/ NextSlot \/ SettleFires \/ Started \/ Exit

Next == Main \/ ThreadEnds \/ OnTerminate \/ OnInterrupt

\* The main thread runs, and every test ends.
Spec == Init /\ [][Next]_vars /\ WF_vars(Main) /\ WF_vars(ThreadEnds) /\ WF_vars(SettleFires)

-----------------------------------------------------------------------------
(***************************************************************************)
(* Properties                                                              *)
(***************************************************************************)

\* A process that says it paused left nothing running: the test was waited for
\* and its result recorded, wherever in a slot the signal came, no core is
\* marked as under test with its offset in the hardware, and the session can be
\* resumed, unless the processor refused its offsets.
PausedIsSettled ==
  pc = "gone" /\ code = "paused" => thread = "none" /\ (spoiled \/ (~(in_test /\ resident) /\ row \in Resumable))

\* A process that was interrupted between slots, and could stop its worker and
\* write, leaves the baselines in the hardware, no test running and a session
\* that says so, or that a signal paused after that.
AbortReverts ==
  pc = "gone" /\ code = "signal" /\ ~spoiled /\ ~amid =>
    ~resident /\ thread = "none" /\ row \in {"aborted", "paused"}

\* A signal ends the process, whatever it was doing.
SignalHeeded == signals > 0 ~> pc = "gone"

\* What docs/usage.md:381 says of an interrupt, wherever it comes.
InterruptReverts ==
  pc = "gone" /\ code = "signal" /\ ~spoiled => ~resident /\ thread = "none"
=============================================================================
