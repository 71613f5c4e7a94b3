------------------------------- MODULE Stress -------------------------------
(***************************************************************************)
(* What drives the batches, and what stops them: CoreScheduler.run, one     *)
(* lane for each core in turn with its settle, variable-load and idle       *)
(* phases; ParallelStress.run, all lanes at once; run_rapid_transitions;    *)
(* the workers of the tuner that report the outcome; and a thread that      *)
(* calls stop, or stop and force_teardown, at any moment.                   *)
(***************************************************************************)
EXTENDS Supervisor, Sequences

CONSTANTS
  Modes,     \* cores, parallel, rapid or soak: which drivers a run explores
  Segments,  \* segments of variable load, and of rapid transitions
  Calls      \* what the other thread does: stop, or teardown after stop

ASSUME DriverAssumption ==
  /\ Modes \subseteq {"cores", "parallel", "rapid", "soak"} /\ Segments \in Nat
  /\ Calls \in {{}, {"stop"}, {"stop", "teardown"}}

VARIABLES
  state,    \* CoreScheduler.state
  pc,       \* where the driver is
  left,     \* cores of the cycle still to test
  core,     \* _current_core
  segment,  \* segments of load or idle done
  passed,   \* what _test_core has found so far: pass or a failure
  results,  \* the recorded result of each core
  whole,    \* for the properties: cores whose every phase went to its end
  report,   \* what the worker has told the tuner
  closer,   \* where the other thread is
  snap      \* the lanes force_teardown has still to tear down

driver == <<state, pc, left, core, segment, passed, results, whole, report>>
vars == <<supervised, driver, closer, snap>>

NoResults == [c \in Cores |-> "none"]

Init ==
  /\ mode \in Modes /\ duty \in Duties
  /\ lanes = {} /\ at = "returned" /\ todo = {} /\ run = [c \in Cores |-> Unlaunched]
  /\ stop = FALSE /\ lock = "free" /\ age = 0 /\ cut = FALSE /\ heat = "cool"
  /\ logged = {} /\ read = {} /\ spoilt \in {{}, {Lowest(Cores)}} /\ failures = 0 /\ base = {}
  /\ state = "idle" /\ pc = "new" /\ left = {} /\ core = Lowest(Cores) /\ segment = 0
  /\ passed = "pass" /\ results = NoResults /\ whole = {} /\ report = <<>>
  /\ closer = "away" /\ snap = {}

Move(p) == pc' = p
SameBatch == UNCHANGED <<lanes, base, at, todo, run, age, cut>>
Bystanders == UNCHANGED <<mode, duty, lock, failures, logged, closer, snap, core>>

\* ErrorDetector.reset and a fresh ThermalWatch; without a kernel log the run
\* ends in an exception, which the worker reports as a fault of the apparatus.
Baseline == read' = logged /\ heat' = "cool"
NoBaseline == UNCHANGED <<read, heat>>

-----------------------------------------------------------------------------
\* CoreScheduler.run

\* Under the lifecycle lock; then the detector takes its baseline.
RunScheduler ==
  /\ pc = "new" /\ mode = "cores"
  /\ IF state = "stopping" THEN Move("over") /\ UNCHANGED <<state, stop, left, read, heat>>
     ELSE /\ state' = "running" /\ stop' = FALSE /\ left' = Cores
          /\ \/ Baseline /\ Move("next")
             \/ NoBaseline /\ Move("over")
  /\ SameBatch /\ Bystanders /\ UNCHANGED <<spoilt, segment, passed, results, whole, report>>

\* The next core of the cycle, unless the stop event is set.
NextCore ==
  /\ pc = "next"
  /\ IF stop \/ left = {} THEN Move("ended") /\ UNCHANGED <<core, left>>
     ELSE /\ core' = Lowest(left) /\ left' = left \ {core'}
          /\ \E p \in {"settle", "stress", "gap"} : Move(p)    \* gap: not in the topology
  /\ SameBatch /\ passed' = "pass" /\ segment' = 0
  /\ UNCHANGED <<mode, duty, stop, lock, heat, logged, read, spoilt, failures,
                 state, results, whole, report, closer, snap>>

\* watch_idle, as its last poll leaves it.  A stop or the end of the phase
\* forces a read of the kernel log; v is none when it found nothing, and any
\* other answer stops the run too if stop_on_error is set.
WatchIdle(cores, v) ==
  \/ v = "none" /\ read' = logged /\ (cores \union {NoCpu}) \intersect (logged \ read) = {}
     /\ Bearable /\ UNCHANGED stop
  \/ v = "mce" /\ read' = logged /\ cores \intersect (logged \ read) # {}
     /\ stop' \in {stop, TRUE} /\ UNCHANGED heat
  \/ v = "anon" /\ read' = logged /\ NoCpu \in logged \ read
     /\ stop' \in {stop, TRUE} /\ UNCHANGED heat
  \/ v = "thermal" /\ read' = logged /\ stop' = TRUE
     /\ (cores \union {NoCpu}) \intersect (logged \ read) = {} /\ \E t \in Readings : Unbearable(t)
  \/ v = "startup" /\ stop' \in {stop, TRUE} /\ UNCHANGED <<read, heat>>    \* no kernel log
IdleErrors == {"mce", "anon", "thermal", "startup"}

Record(v) == results' = [results EXCEPT ![core] = v]

\* The CO settle: an error is the core's result, a stop leaves it pending.
Settle ==
  /\ pc = "settle"
  /\ \E v \in IdleErrors \union {"none"} :
       /\ WatchIdle({core}, v)
       /\ IF v # "none" THEN Record(v) /\ Move("gap")
          ELSE UNCHANGED results /\ Move(IF stop THEN "gap" ELSE "stress")
  /\ SameBatch /\ Bystanders /\ UNCHANGED <<spoilt, state, left, segment, passed, whole, report>>

StartBatch(S, p) ==
  /\ Begin(S, read) /\ Move(p)
  /\ UNCHANGED <<stop, heat, read>> /\ Bystanders

\* The supervisor becomes _active_supervisor and runs the core's lane.
Stress ==
  /\ pc = "stress"
  /\ StartBatch({core}, "stressing")
  /\ UNCHANGED <<spoilt, state, left, segment, passed, results, whole, report>>

Returned == at = "returned" /\ lanes # {}
\* Supervisor.run gives the verdicts back and forgets its runs.
Forget ==
  /\ lanes' = {} /\ age' = 0 /\ cut' = FALSE /\ base' = {} /\ todo' = {}
  /\ run' = [l \in Cores |-> IF run[l].proc = "live" THEN run[l] ELSE Unlaunched]
  /\ UNCHANGED at

\* The backend's cleanup: an error file is renamed or removed.
Clean(S) == spoilt' = spoilt \ S

\* The verdict of the sustained stress.  stop_on_error stops the cycle; a pass
\* goes on to the phases that are configured.
Stressed ==
  /\ pc = "stressing" /\ Returned
  /\ Forget
  /\ LET v == run[core].verdict
     IN /\ passed' = v
        /\ IF v = "none" THEN Clean({core}) ELSE UNCHANGED spoilt
        /\ stop' \in (IF v \in Failures THEN {stop, TRUE} ELSE {stop})
        /\ CASE v = "none" -> Move("gap") /\ UNCHANGED whole
             [] v = "pass" -> \/ Move("variable") /\ UNCHANGED whole
                              \/ ~stop /\ Move("idle") /\ UNCHANGED whole
                              \/ Move("record") /\ whole' = whole \union {core}
             [] OTHER -> Move("record") /\ UNCHANGED whole
  /\ Bystanders /\ UNCHANGED <<heat, read, state, left, segment, results, report>>

\* _run_variable_load: segments of load and of idle in turn, until the time is
\* over or a stop; then the idle stability test.
Variable ==
  /\ pc = "variable"
  /\ IF stop \/ segment = Segments
     THEN Move("idle") /\ SameBatch /\ UNCHANGED <<stop, heat, read, passed, segment>>
     ELSE \/ /\ segment % 2 = 0 /\ Begin({core}, read) /\ Move("segment")
             /\ UNCHANGED <<stop, heat, read, passed, segment>>
          \/ /\ segment % 2 = 1 /\ SameBatch
             /\ \E v \in IdleErrors \union {"none"} :
                  /\ WatchIdle({core}, v)
                  /\ IF v = "none" THEN Move("variable") /\ UNCHANGED passed
                     ELSE Move("record") /\ passed' = v
             /\ segment' = segment + 1
  /\ Bystanders /\ UNCHANGED <<spoilt, state, left, results, whole, report>>

\* A load segment without a verdict stops the run.
Segment ==
  /\ pc = "segment" /\ Returned
  /\ Forget /\ segment' = segment + 1
  /\ LET v == run[core].verdict
     IN CASE v = "pass" -> Move("variable") /\ UNCHANGED <<stop, passed>>
          [] v = "none" -> Move("idle") /\ stop' = TRUE /\ UNCHANGED passed
          [] OTHER -> Move("record") /\ passed' = v /\ stop' \in {stop, TRUE}
  /\ Bystanders /\ UNCHANGED <<spoilt, heat, read, state, left, results, whole, report>>

\* The idle stability test, if it is configured; a stop by now leaves the core
\* without a result, but for the mutated form.
IdleUnless(stopped) ==
  /\ pc = "idle"
  /\ \E v \in IdleErrors \union {"none"} :
       /\ \/ WatchIdle({core}, v)
          \/ v = "none" /\ (stop \/ segment > 0) /\ UNCHANGED <<stop, heat, read>>
       /\ IF v = "none" /\ stopped
          THEN Move("gap") /\ Clean({core}) /\ UNCHANGED <<passed, whole>>
          ELSE /\ Move("record") /\ UNCHANGED spoilt
               /\ passed' = IF v = "none" THEN passed ELSE v
               /\ whole' = IF v = "none" /\ ~stop THEN whole \union {core} ELSE whole
  /\ SameBatch /\ Bystanders /\ UNCHANGED <<state, left, segment, results, report>>

IdleRecording == IdleUnless(FALSE)
Idle == IdleUnless(stop)

\* The result of the core, then the idle time between cores.
RecordCore ==
  /\ pc = "record"
  /\ Record(passed) /\ Clean({core}) /\ Move("gap")
  /\ SameBatch /\ Bystanders
  /\ UNCHANGED <<stop, heat, read, state, left, segment, passed, whole, report>>

Gap ==
  /\ pc = "gap"
  /\ \/ UNCHANGED <<read, stop, heat>>
     \/ ~stop /\ \E v \in IdleErrors \union {"none"} : WatchIdle({core}, v)
  /\ Move("next")
  /\ SameBatch /\ Bystanders
  /\ UNCHANGED <<spoilt, state, left, segment, passed, results, whole, report>>

EndScheduler ==
  /\ pc = "ended" /\ mode = "cores"
  /\ state' = "finished" /\ Move("over")
  /\ SameBatch /\ Bystanders
  /\ UNCHANGED <<stop, heat, read, spoilt, left, segment, passed, results, whole, report>>

-----------------------------------------------------------------------------
\* ParallelStress.run: no lock guards the stop event it clears.

RunParallel ==
  /\ pc = "new" /\ mode = "parallel"
  /\ stop' = FALSE
  /\ \/ Baseline /\ Begin(Cores, logged) /\ Move("batch") /\ UNCHANGED results
     \/ NoBaseline /\ SameBatch /\ Move("over") /\ UNCHANGED results
     \/ Baseline /\ SameBatch /\ Move("over")                     \* no such core, or no memory
        /\ \E S \in {{Lowest(Cores)}, Cores} :
             results' = [c \in Cores |-> IF c \in S THEN "startup" ELSE "none"]
  /\ Bystanders /\ UNCHANGED <<spoilt, state, left, segment, passed, whole, report>>

\* Lanes without a verdict stay absent from the results.
EndParallel ==
  /\ pc = "batch" /\ Returned
  /\ Forget /\ Clean(Cores)
  /\ results' = [c \in Cores |-> run[c].verdict] /\ Move("over")
  /\ Bystanders /\ UNCHANGED <<stop, heat, read, state, left, segment, passed, whole, report>>

-----------------------------------------------------------------------------
\* run_rapid_transitions: one lane over every core; the stop event is obeyed.

RapidResult(v) == results' = [results EXCEPT ![core] = v]

RunRapid ==
  /\ pc = "new" /\ mode = "rapid"
  /\ state' = "running"
  /\ IF stop THEN RapidResult("killed") /\ Move("over") /\ UNCHANGED <<read, heat>>
             ELSE /\ UNCHANGED results
                  /\ \/ Baseline /\ Move("load")
                     \/ NoBaseline /\ Move("over")
  /\ SameBatch /\ Bystanders
  /\ UNCHANGED <<stop, spoilt, left, segment, passed, whole, report>>

RapidLoad ==
  /\ pc = "load"
  /\ IF stop \/ segment = Segments
     THEN SameBatch /\ Move("over") /\ RapidResult(IF stop THEN "killed" ELSE "pass")
     ELSE Begin({core}, read) /\ Move("loaded") /\ UNCHANGED results
  /\ Bystanders /\ UNCHANGED <<stop, heat, read, spoilt, state, left, segment, passed, whole, report>>

RapidLoaded ==
  /\ pc = "loaded" /\ Returned
  /\ Forget /\ segment' = segment + 1
  /\ LET v == run[core].verdict
     IN CASE v \in Failures -> RapidResult(v) /\ Move("over") /\ Clean({core})
          [] v \notin Failures /\ stop -> RapidResult("killed") /\ Move("over") /\ Clean({core})
          [] v = "none" /\ ~stop -> RapidResult("startup") /\ Move("over") /\ Clean({core})
          [] OTHER -> UNCHANGED <<results, spoilt>> /\ Move("rest")
  /\ Bystanders /\ UNCHANGED <<stop, heat, read, state, left, passed, whole, report>>

RapidRest ==
  /\ pc = "rest"
  /\ \E v \in IdleErrors \union {"none"} :
       /\ WatchIdle(Cores, v)
       /\ IF v = "none" THEN UNCHANGED results /\ Move("load")
                        ELSE RapidResult(v) /\ Move("over")
  /\ SameBatch /\ Bystanders
  /\ UNCHANGED <<spoilt, state, left, segment, passed, whole, report>>

-----------------------------------------------------------------------------
\* _SoakWorker.run: no load, any kernel error ends the soak.

RunSoak ==
  /\ pc = "new" /\ mode = "soak"
  /\ \/ Baseline /\ base' = logged /\ Move("soak")
     \/ NoBaseline /\ UNCHANGED base /\ Move("over")
  /\ Bystanders
  /\ UNCHANGED <<lanes, at, todo, run, age, cut, stop, spoilt, state, left, segment, passed,
                 results, whole, report>>

Soak ==
  /\ pc = "soak"
  /\ \/ /\ age < Rounds /\ ~stop /\ Bearable
        /\ \/ read' = logged /\ Move(IF logged = base THEN "soak" ELSE "soaked")
           \/ UNCHANGED read /\ Move("soak")                     \* DMESG_MIN_INTERVAL
        /\ age' = age + 1 /\ UNCHANGED results
     \/ /\ age < Rounds /\ ~stop /\ \E t \in Readings :
             Unbearable(t) /\ Record(IF t = "none" THEN "startup" ELSE "thermal")
        /\ Move("over") /\ UNCHANGED <<age, read>>
     \/ (age = Rounds \/ stop) /\ Move("soaked") /\ UNCHANGED <<age, read, heat, results>>
  /\ Bystanders
  /\ UNCHANGED <<lanes, base, at, todo, run, cut, stop, spoilt, state, left, segment, passed,
                 whole, report>>

\* The last read of the kernel log is forced, so nothing of the soak is missed.
EndSoak ==
  /\ pc = "soaked"
  /\ read' = logged
  /\ Record(IF logged # base THEN "mce" ELSE IF age < Rounds THEN "killed" ELSE "pass")
  /\ Move("over") /\ age' = 0 /\ base' = {}
  /\ Bystanders
  /\ UNCHANGED <<lanes, at, todo, run, cut, stop, heat, spoilt, state, left, segment, passed,
                 whole, report>>

-----------------------------------------------------------------------------
\* The worker's one signal; no result, or an exception, is a fault of the apparatus.

\* _pick_report: a failure of any core outranks the pass of the primary.
Picked(primary) ==
  LET bad == {c \in Cores : results[c] \in Failures}
  IN IF bad # {} /\ results[primary] \in {"none", "pass"} THEN results[Lowest(bad)]
     ELSE results[primary]

Emit(v) ==
  /\ report' = Append(report, IF v = "none" THEN "startup" ELSE v)
  /\ Move("told")
  /\ SameBatch /\ Bystanders
  /\ UNCHANGED <<stop, heat, read, spoilt, state, left, segment, passed, results, whole>>

ReportCores == pc = "over" /\ mode = "cores" /\ Emit(Picked(Lowest(Cores)))
ReportBatch == pc = "over" /\ mode = "parallel" /\ Emit(Picked(Lowest(Cores)))
ReportRapid == pc = "over" /\ mode = "rapid" /\ Emit(results[core])
ReportSoak == pc = "over" /\ mode = "soak" /\ Emit(results[core])

Driver ==
  \/ RunScheduler \/ NextCore \/ Settle \/ Stress \/ Stressed \/ Variable \/ Segment
  \/ Idle \/ RecordCore \/ Gap \/ EndScheduler
  \/ RunParallel \/ EndParallel \/ RunRapid \/ RapidLoad \/ RapidLoaded \/ RapidRest
  \/ RunSoak \/ Soak \/ EndSoak
  \/ ReportCores \/ ReportBatch \/ ReportRapid \/ ReportSoak

-----------------------------------------------------------------------------
\* Another thread: CoreScheduler.stop and force_teardown, ParallelStress.stop

\* The event is set outside the lifecycle lock,
CallStop ==
  /\ \/ closer = "away" /\ Calls # {}
     \/ closer = "stopped" /\ "teardown" \in Calls /\ mode = "cores"
  /\ stop' = TRUE
  /\ closer' = IF closer = "away" THEN "set" ELSE "again"
  /\ UNCHANGED <<mode, duty, lanes, base, at, todo, run, lock, age, cut, heat, logged, read,
                 spoilt, failures, driver, snap>>

\* and the state is changed inside it, with the active supervisor read after.
\* force_teardown of the supervisor sets the event once more.
MarkStopping ==
  /\ closer \in {"set", "again"}
  /\ state' = IF state = "finished" \/ mode \in {"parallel", "soak"} THEN state ELSE "stopping"
  /\ IF closer = "set" THEN closer' = "stopped" /\ UNCHANGED <<snap, stop>>
     ELSE closer' = "tearing" /\ snap' = lanes /\ stop' = TRUE
  /\ UNCHANGED <<mode, duty, lanes, base, at, todo, run, lock, age, cut, heat, logged, read,
                 spoilt, failures, pc, left, core, segment, passed, results, whole, report>>

\* Supervisor.force_teardown, lane by lane; the first that stays alive ends it.
\* The termination of a lane holds the lock from its start to its end.
TearOne ==
  /\ closer = "tearing" /\ snap # {} /\ lock \in {"free", "closer"}
  /\ IF lock = "free" THEN lock' = "closer" /\ UNCHANGED <<run, stop, failures, snap, closer>>
     ELSE /\ lock' = "free"
          /\ \E ok \in BOOLEAN :
               /\ TearDown(Lowest(snap), ok)
               /\ closer' = IF ok \/ run'[Lowest(snap)].gone THEN closer ELSE "refused"
          /\ snap' = snap \ {Lowest(snap)}
  /\ UNCHANGED <<mode, duty, lanes, base, at, todo, age, cut, heat, logged, read, spoilt, driver>>

TornDown ==
  /\ closer = "tearing" /\ snap = {}
  /\ closer' = "confirmed"
  /\ UNCHANGED <<supervised, driver, snap>>

Closer == CallStop \/ MarkStopping \/ TearOne \/ TornDown

-----------------------------------------------------------------------------

Worker == (Batch /\ UNCHANGED <<driver, closer, snap>>) \/ Driver
Hardware == Machine /\ UNCHANGED <<driver, closer, snap>>
Next == Worker \/ Closer \/ Hardware
Fairness == WF_vars(Worker) /\ WF_vars(Closer)
Spec == Init /\ [][Next]_vars /\ Fairness

\* Types of the variables.
TypeOK ==
  /\ mode \in Modes /\ duty \in BOOLEAN /\ lanes \subseteq Cores /\ todo \subseteq Cores
  /\ run \in [Cores -> [proc : {"none", "live", "dead"},
                        code : {"none", "zero", "crash", "killed", "termed", "claimed", "ours"},
                        verdict : Verdicts, gone : BOOLEAN, frozen : BOOLEAN,
                        driven : BOOLEAN, ended : 0..Rounds, erred : BOOLEAN]]
  /\ stop \in BOOLEAN /\ lock \in {"free", "worker", "closer"} /\ age \in 0..Rounds
  /\ heat \in {"cool", "over", "tripped"} /\ read \subseteq logged /\ logged \subseteq Cpus
  /\ results \in [Cores -> Verdicts] /\ Len(report) <= 1

-----------------------------------------------------------------------------
\* A lane passes only if its payload was alive until the deadline, or died of a
\* signal that matches one of ours (OutsideKillIsNoPass), wrote no error, and no
\* error of a core it covers is in the kernel log read after the last payload was
\* down ("per-lane honest verdicts"), where no other lane of the batch failed and
\* no other thread tears the batch down: for those see NoInventedPass.
Earned(l) ==
  /\ (run[l].ended = Rounds \/ run[l].code = "claimed") /\ ~run[l].erred
  /\ Covers(l) \intersect read \intersect Cores \subseteq base
PassIsEarned ==
  (at = "returned" /\ closer \in {"away", "set", "stopped"}) =>
    \A l \in lanes : run[l].verdict = "pass" =>
      Earned(l) \/ \E k \in lanes \ {l} : run[k].verdict \in Failures

\* A lane that somebody else killed does not pass: "A stall, external kill, or
\* unattributable machine check is an APPARATUS fault: the step retries without a
\* verdict" (docs/usage.md).
OutsideKillIsNoPass ==
  at = "returned" => \A l \in lanes : run[l].verdict = "pass" => run[l].code = "ours"

\* A lane that passes after our own kill was alive until the deadline, whatever the
\* others did: "lanes without a verdict when the batch stops stay absent from the
\* results rather than being invented" (engine/parallel.py).
NoInventedPass ==
  at = "returned" =>
    \A l \in lanes : run[l].verdict = "pass" /\ run[l].code = "ours" => run[l].ended = Rounds

\* Once force_teardown has reported that every lane is gone, no payload of this
\* run is alive, then or ever after (CoreScheduler.force_teardown).
TeardownConfirmed == closer = "confirmed" => Live = {}

\* A core's recorded pass covers every phase that was configured: a stop in
\* the variable load or the idle test leaves the core pending (_test_core).
RecordedPassIsWhole ==
  mode = "cores" => \A c \in Cores : results[c] = "pass" => c \in whole

\* After stop has returned, no launch passes its check of the stop event: "stop
\* before run is honored" (tests/test_scheduler.py).
PassesCheck == at = "launch" /\ at' = "spawn"
StopIsHeeded == [][PassesCheck => closer \in {"away", "set"}]_vars

\* Every run reports, whatever payloads, sensors and other threads do.
RunReports == <>(pc = "told")
=============================================================================
