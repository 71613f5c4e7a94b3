----------------------------- MODULE Supervisor -----------------------------
(***************************************************************************)
(* One batch of contained stress lanes (engine/execution.py, Supervisor,    *)
(* with engine/duty.py, engine/containment.py, the detector's window on the *)
(* kernel log and the error file of a backend).                            *)
(*                                                                         *)
(* The worker thread runs the batch; any other thread may set the stop      *)
(* event or tear the batch down; payloads die, kernels log errors and duty  *)
(* drivers freeze payloads in between.  A payload runs until it is killed,  *)
(* as every stress backend does, so a pass is earned only by our own kill.  *)
(***************************************************************************)
EXTENDS Naturals, FiniteSets

CONSTANTS
  Cores,       \* the cores under test
  Rounds,      \* polls until the deadline of a batch
  Duties,      \* whether payloads run under a duty cycle
  MaxFailures  \* bound: what goes wrong in the machine

NoCpu == 0     \* a kernel error without core attribution, cpu -1 in the code

ASSUME CoresAssumption == Cores \subseteq Nat \ {NoCpu} /\ IsFiniteSet(Cores) /\ Cores # {}
ASSUME BatchAssumption == Rounds \in Nat \ {0} /\ Duties \subseteq BOOLEAN /\ MaxFailures \in Nat

VARIABLES
  mode,     \* what drives the batch: cores, parallel or rapid
  duty,     \* whether its payloads are duty-cycled
  lanes,    \* _active_runs: the lanes of the batch, {} between batches
  at,       \* where the worker is in Supervisor.run
  todo,     \* lanes it has still to launch or to terminate
  run,      \* one record for each lane: _LaneRun
  stop,     \* the stop event
  lock,     \* who holds _teardown_lock
  age,      \* rounds since the batch began
  cut,      \* _finish: the batch was stopped before its deadline
  heat,     \* ThermalWatch: cool, over or tripped
  logged,   \* CPUs the kernel has logged an error of
  read,     \* the part of it the detector has read
  spoilt,   \* lanes whose results.txt names an error
  failures, \* payloads that died or erred, kernel errors, kills that failed
  base      \* for the properties: what was read before the batch

supervised == <<mode, duty, lanes, at, todo, run, stop, lock, age, cut, heat,
                logged, read, spoilt, failures, base>>

Lowest(S) == CHOOSE x \in S : \A y \in S : x <= y
Cpus == Cores \union {NoCpu}

\* The cores whose errors a lane answers for (Lane.mce_cpus).
Covers(l) == IF mode = "rapid" THEN Cores ELSE {l}
StopOnFirst == mode = "parallel"

Soft == {"startup", "stall", "killed"}
Failures == Soft \union {"error", "mce", "anon", "thermal"}
Verdicts == Failures \union {"none", "pass"}

\* proc: the payload's process group.  code: how its leader ended, where killed and
\* termed are a SIGKILL and a SIGTERM of somebody else, and claimed is either of
\* them once a signal of ours matches it.  gone: its
\* termination left nothing alive.  For the properties, ended is the age at
\* which the payload ended, and erred whether it reported an error.
Unlaunched == [proc |-> "none", code |-> "none", verdict |-> "none", gone |-> FALSE,
               frozen |-> FALSE, driven |-> FALSE, ended |-> 0, erred |-> FALSE]

Failed(l) == run[l].verdict \in Failures
Running(l) == run[l].proc = "live" /\ run[l].verdict = "none"
Judge(l, v) == run' = [run EXCEPT ![l].verdict = v]
Fail(l, v) == Judge(l, v) /\ stop' = (stop \/ StopOnFirst)

GoesWrong == failures < MaxFailures /\ failures' = failures + 1

Go(pc) == at' = pc
Stay == UNCHANGED <<mode, duty, lanes, base>>
Quiet == UNCHANGED <<logged, read, spoilt>>

\* Supervisor.run with a fresh _LaneRun for each lane; the detector knows errors.
Begin(S, known) ==
  /\ lanes' = S /\ todo' = S /\ age' = 0 /\ cut' = FALSE
  /\ run' = [l \in Cores |-> IF l \in S THEN Unlaunched ELSE run[l]]
  /\ at' = "heat" /\ base' = known

-----------------------------------------------------------------------------
\* ThermalWatch.safe

Readings == {"none", "low", "warm", "over", "hard"}

HeatAfter(t) ==
  CASE t = "hard" -> {"tripped"}
    [] t = "over" -> IF heat = "cool" THEN {"over"} ELSE {heat, "tripped"}
    [] t = "warm" -> IF heat = "tripped" THEN {heat} ELSE {"cool"}
    [] t = "low" -> {"cool"}
    [] OTHER -> {heat}

\* A reading after which the batch may go on, and one after which it may not:
\* without a sensor, it depends on whether one is required.
Bearable == \E t \in Readings : heat' \in HeatAfter(t) /\ heat' # "tripped"
Unbearable(t) ==
  /\ heat' \in HeatAfter(t)
  /\ t = "none" \/ heat' = "tripped"

\* _thermal_failed: the lowest lane without a verdict carries the failure.
Overheats(next) ==
  /\ \E t \in Readings :
       /\ Unbearable(t)
       /\ LET open == {l \in lanes : run[l].verdict = "none"}
              v == IF t = "none" /\ at = "heat" THEN "startup" ELSE "thermal"
          IN IF open = {} THEN UNCHANGED run ELSE Judge(Lowest(open), v)
  /\ stop' = TRUE
  /\ Go(next)

\* The check before anything is launched: a trip returns without _finish.
HeatCheck ==
  /\ at = "heat"
  /\ \/ Bearable /\ Go("launch") /\ UNCHANGED <<run, stop>>
     \/ Overheats("returned")
  /\ Stay /\ Quiet /\ UNCHANGED <<todo, lock, age, cut, failures>>

-----------------------------------------------------------------------------
\* _launch

AfterLaunches(r) == IF \E l \in lanes : r[l].proc = "live" /\ r[l].verdict = "none"
                    THEN "poll" ELSE "finish"

\* Output capture, the backend's files, containment or Popen refuse the launch;
\* a duty driver that cannot start leaves the payload for _finish to kill.
\* The mutated form leaves the lock with the worker.
Refusal(holder) ==
  /\ at \in {"launch", "spawn"} /\ todo # {}
  /\ \E p \in {"none"} \union (IF at = "spawn" /\ duty THEN {"live"} ELSE {}) :
       run' = [run EXCEPT ![Lowest(todo)].proc = p, ![Lowest(todo)].verdict = "startup"]
  /\ stop' = (stop \/ StopOnFirst)
  /\ Go(AfterLaunches(run'))
  /\ lock' = holder
  /\ Stay /\ Quiet /\ UNCHANGED <<todo, age, cut, heat, failures>>

LaunchRefusedHolding == Refusal(lock)
LaunchRefused == Refusal(IF at = "spawn" THEN "free" ELSE lock)

\* The backend removes what an earlier run left.
Prepare(l) == spoilt' = spoilt \ {l}

\* The backend's prepare; then the stop event
\* is read under the teardown lock, which the mutated form does not.
LaunchUnless(stopped) ==
  /\ at = "launch" /\ todo # {} /\ lock = "free"
  /\ Prepare(Lowest(todo))
  /\ IF stopped THEN Go(AfterLaunches(run)) /\ UNCHANGED lock
                ELSE Go("spawn") /\ lock' = "worker"
  /\ Stay /\ UNCHANGED <<todo, run, stop, age, cut, heat, logged, read, failures>>

LaunchUnchecked == LaunchUnless(FALSE)
LaunchCheck == LaunchUnless(stop)

\* Popen and the duty driver, still under the lock.
Spawn ==
  /\ at = "spawn"
  /\ LET l == Lowest(todo)
     IN /\ run' = [run EXCEPT ![l].proc = "live", ![l].driven = duty]
        /\ todo' = todo \ {l}
        /\ Go(IF todo' = {} THEN AfterLaunches(run') ELSE "launch")
  /\ lock' = "free"
  /\ Stay /\ Quiet /\ UNCHANGED <<stop, age, cut, heat, failures>>

-----------------------------------------------------------------------------
\* _terminate_run, under the teardown lock

\* The records a termination may leave.  The duty driver stops first and leaves
\* the group runnable.  What is left of the group of a leader that was dead before
\* (a child, or the leader itself while nobody has reaped it) is sent SIGTERM, and
\* SIGKILL if that does not end it, and _termination_matches_returncode then takes
\* the same signal of somebody else, which the leader died of, for ours.
Terminated(r) ==
  LET still == [r EXCEPT !.driven = FALSE, !.frozen = FALSE]
      codes == CASE r.proc = "live" -> {"ours"}
                 [] r.code \in {"killed", "termed"} -> {r.code, "claimed"}
                 [] OTHER -> {r.code}
  IN IF r.proc = "none" \/ r.gone THEN {still}
     ELSE {[still EXCEPT !.proc = "dead", !.gone = TRUE, !.code = c,
                         !.ended = IF r.proc = "live" THEN age ELSE @] : c \in codes}

\* The lane cannot be torn down, or its duty driver failed: no core verdict.
Botched(r) ==
  IF r.proc = "none" \/ r.gone THEN {}
  ELSE LET lost == [r EXCEPT !.verdict = "startup", !.driven = FALSE, !.frozen = FALSE]
       IN {lost} \union (IF r.driven THEN {[x EXCEPT !.verdict = "startup"] : x \in Terminated(r)}
                                     ELSE {})

\* Lane l is torn down, well or badly, and ok tells which.
TearDown(l, ok) ==
  IF ok THEN /\ \E r \in Terminated(run[l]) : run' = [run EXCEPT ![l] = r]
             /\ UNCHANGED <<failures, stop>>
  ELSE /\ GoesWrong
       /\ \E r \in Botched(run[l]) : run' = [run EXCEPT ![l] = r]
       /\ stop' = (stop \/ StopOnFirst)

-----------------------------------------------------------------------------
\* _classify_completed: the verdict of a lane whose process is over.

\* The mutated form asks how the leader ended and not what the payload wrote.
ClassifiedByExit(l, r, interrupted) ==
  CASE r.code \in {"killed", "termed"} -> "killed"   \* a kill we did not send
    [] r.code = "crash" -> "error"                   \* parse_output
    [] r.code \in {"zero", "none"} -> "startup"      \* verdict unavailable
    [] OTHER -> IF interrupted THEN "none" ELSE "pass"

Classified(l, r, interrupted) ==
  IF l \in spoilt THEN "error" ELSE ClassifiedByExit(l, r, interrupted)   \* poll_errors

-----------------------------------------------------------------------------
\* _poll_until_done

\* The top of the loop: the stop event, then the temperature.
PollTop ==
  /\ at = "poll"
  /\ \/ stop /\ Go("finish") /\ UNCHANGED <<run, stop, heat>>
     \/ ~stop /\ Bearable /\ Go("mce") /\ UNCHANGED <<run, stop>>
     \/ ~stop /\ Overheats("finish")
  /\ Stay /\ Quiet /\ UNCHANGED <<todo, lock, age, cut, failures>>

\* _apply_mce_events: a core's error falls on its lane, one without attribution
\* on the lowest lane that still stands, before or after the others.
Blame(force, anonFirst) ==
  LET new == logged \ read
      standing == {l \in lanes : run[l].verdict \in {"none", "pass"}}
      own == {l \in lanes : Covers(l) \intersect new # {}
                /\ (l \in standing \/ (force /\ run[l].verdict \in Soft))}
      open == IF anonFirst THEN standing ELSE standing \ own
      anon == IF NoCpu \in new /\ open # {} THEN {Lowest(open)} ELSE {}
  IN /\ read' = logged
     /\ run' = [l \in Cores |-> IF l \in anon THEN [run[l] EXCEPT !.verdict = "anon"]
                                ELSE IF l \in own THEN [run[l] EXCEPT !.verdict = "mce"]
                                ELSE run[l]]
     /\ stop' = (stop \/ anon # {} \/ (StopOnFirst /\ own # {}))

\* The kernel log cannot be read: no lane that stands keeps its verdict.
MonitorLost ==
  /\ run' = [l \in Cores |-> IF l \in lanes /\ run[l].verdict \in {"none", "pass"}
                             THEN [run[l] EXCEPT !.verdict = "startup"] ELSE run[l]]
  /\ stop' = TRUE /\ UNCHANGED read

PollMce ==
  /\ at = "mce"
  /\ \/ Go("errors") /\ UNCHANGED <<run, stop, read>>    \* DMESG_MIN_INTERVAL
     \/ \E first \in BOOLEAN : Blame(FALSE, first)
          /\ Go(IF run' = run THEN "errors" ELSE "finish")
     \/ MonitorLost /\ Go("finish")
  /\ Stay /\ UNCHANGED <<todo, lock, age, cut, heat, logged, spoilt, failures>>

\* _poll_backend_errors, every ERROR_POLL_INTERVAL.
PollErrors ==
  /\ at = "errors"
  /\ LET bad == {l \in lanes \intersect spoilt : run[l].verdict = "none"}
     IN \/ Go("exits") /\ UNCHANGED <<run, stop>>
        \/ bad # {} /\ Fail(Lowest(bad), "error")
           /\ Go(IF StopOnFirst THEN "finish" ELSE "exits")
  /\ Stay /\ Quiet /\ UNCHANGED <<todo, lock, age, cut, heat, failures>>

\* _poll_exits for the lowest lane that has exited: it is torn down, drained
\* and classified as not interrupted.
PollExit ==
  /\ at = "exits"
  /\ LET over == {l \in lanes : run[l].verdict = "none" /\ run[l].proc = "dead"}
     IN IF over = {}
        THEN /\ Go(IF \E l \in lanes : Running(l) THEN "faults" ELSE "finish")
             /\ UNCHANGED <<run, stop, failures>>
        ELSE LET l == Lowest(over)
             IN /\ lock = "free"
                /\ \/ \E r \in Terminated(run[l]) :
                        LET v == Classified(l, r, FALSE)
                        IN /\ run' = [run EXCEPT ![l] = [r EXCEPT !.verdict = v]]
                           /\ Go(IF v # "pass" /\ StopOnFirst THEN "finish" ELSE "exits")
                      /\ UNCHANGED <<stop, failures>>
                   \/ TearDown(l, FALSE) /\ Go(IF StopOnFirst THEN "finish" ELSE "exits")
  /\ Stay /\ Quiet /\ UNCHANGED <<todo, lock, age, cut, heat>>

\* _containment_fault, of a running lane: the scope never adopted the payload,
\* vanished, or lets it run on other CPUs.
ContainmentFault(l) == Running(l) /\ Fail(l, "startup") /\ Go("finish")

\* _is_stalled: after the grace, a running lane used no CPU for stall_timeout of
\* the time its duty cycle left it runnable.
Stall(l) == /\ Running(l) /\ age > 0 /\ Fail(l, "stall")
            /\ Go(IF StopOnFirst THEN "finish" ELSE "wait")

\* _poll_containment and _poll_stalls.
PollFault ==
  /\ at = "faults"
  /\ \/ Go("wait") /\ UNCHANGED <<run, stop>>
     \/ \E l \in lanes : ContainmentFault(l) \/ Stall(l)
  /\ Stay /\ Quiet /\ UNCHANGED <<todo, lock, age, cut, heat, failures>>

\* The deadline, or the wait of a round.
PollWait ==
  /\ at = "wait"
  /\ IF age = Rounds THEN Go("finish") /\ UNCHANGED age
                     ELSE Go("poll") /\ age' = age + 1
  /\ Stay /\ Quiet /\ UNCHANGED <<todo, run, stop, lock, cut, heat, failures>>

-----------------------------------------------------------------------------
\* _finish

Finish ==
  /\ at = "finish"
  /\ cut' = (stop /\ age < Rounds)
  /\ todo' = lanes
  /\ Go("terminate")
  /\ Stay /\ Quiet /\ UNCHANGED <<run, stop, lock, age, heat, failures>>

Terminate ==
  /\ at = "terminate" /\ todo # {} /\ lock = "free"
  /\ \E ok \in BOOLEAN : TearDown(Lowest(todo), ok)
  /\ todo' = todo \ {Lowest(todo)}
  /\ Stay /\ Quiet /\ UNCHANGED <<at, lock, age, cut, heat>>

\* The forced read of the kernel log comes after the last payload is down.
LateMce ==
  /\ at = "terminate" /\ todo = {}
  /\ \/ \E first \in BOOLEAN : Blame(TRUE, first)
     \/ MonitorLost
  /\ Go("classify")
  /\ Stay /\ UNCHANGED <<todo, lock, age, cut, heat, logged, spoilt, failures>>

Classify ==
  /\ at = "classify"
  /\ run' = [l \in Cores |->
       IF l \in lanes /\ run[l].proc # "none" /\ run[l].verdict \in {"none", "pass"}
       THEN [run[l] EXCEPT !.verdict =
               Classified(l, run[l], cut /\ run[l].verdict = "none")]
       ELSE run[l]]
  /\ Go("returned")
  /\ Stay /\ Quiet /\ UNCHANGED <<todo, stop, lock, age, cut, heat, failures>>

Batch ==
  \/ HeatCheck \/ LaunchRefused \/ LaunchCheck \/ Spawn
  \/ PollTop \/ PollMce \/ PollErrors \/ PollExit \/ PollFault \/ PollWait
  \/ Finish \/ Terminate \/ LateMce \/ Classify

-----------------------------------------------------------------------------
\* The machine under the batch

Live == {l \in lanes : run[l].proc = "live"}

\* A payload crashes, exits or is killed by someone else, unless it is frozen.
PayloadDies ==
  /\ GoesWrong
  /\ \E l \in Live, c \in {"zero", "crash", "killed", "termed"} :
       /\ run[l].frozen => c = "killed"
       /\ run' = [run EXCEPT ![l].proc = "dead", ![l].code = c, ![l].ended = age]
  /\ UNCHANGED <<mode, duty, lanes, base, at, todo, stop, lock, age, cut, heat,
                 logged, read, spoilt>>

\* A payload that is not frozen writes an error into its results file and goes on.
PayloadErrs ==
  /\ GoesWrong
  /\ \E l \in Live : /\ ~run[l].frozen /\ l \notin spoilt
                     /\ spoilt' = spoilt \union {l}
                     /\ run' = [run EXCEPT ![l].erred = TRUE]
  /\ UNCHANGED <<mode, duty, lanes, base, at, todo, stop, lock, age, cut, heat,
                 logged, read>>

KernelLogs ==
  /\ GoesWrong
  /\ \E c \in Cpus \ logged : logged' = logged \union {c}
  /\ UNCHANGED <<mode, duty, lanes, base, at, todo, run, stop, lock, age, cut, heat,
                 read, spoilt>>

\* The duty driver's thread stops the group, and continues it.
DutyCycle ==
  /\ \E l \in Live : run[l].driven /\ run' = [run EXCEPT ![l].frozen = ~@]
  /\ UNCHANGED <<mode, duty, lanes, base, at, todo, stop, lock, age, cut, heat,
                 logged, read, spoilt, failures>>

Machine == PayloadDies \/ PayloadErrs \/ KernelLogs \/ DutyCycle
=============================================================================
