----------------------------- MODULE Validation -----------------------------
(***************************************************************************)
(* The multi-core validation of a confirmed profile (tuner/engine.py,       *)
(* _enter_auto_validation to _finalize_exhausted): stages that stress the   *)
(* cores with every offset live, a cursor saved after every transition, a   *)
(* solo re-test for each core whose offset changed, a dirty flag that owes  *)
(* one more clean pass, worker threads that answer and timers that call the *)
(* dispatcher back.                                                        *)
(*                                                                         *)
(* A depth counts fine steps from stock, which is also the baseline.  The   *)
(* search (CoreSearch) and the attribution hunt (AttributionHunt) appear as *)
(* the one step in which they end.                                         *)
(***************************************************************************)
EXTENDS Naturals, Sequences, FiniteSets, SequencesExt

CONSTANTS
  N,                 \* cores 1..N, in the order _validation_core_order has them
  Depth,             \* the deepest offset of a profile
  Halves,            \* _validation_halves
  Options,           \* the configurations of a run
  Workloads,         \* endurance_workloads: TRUE for a spectrum workload
  MaxThermals,       \* max_thermal_retries
  MaxFaults,         \* max_apparatus_retries
  MaxIncidents,      \* max_unattributed_crash_hunts
  ResumeInCooldown,  \* the operator may resume before a thermal cooldown is over
  MaxDisruptions     \* bound: resumes, kills, crashes, refused writes, hunts in vain

Cores == 1..N
Depths == 0..Depth
Option == [transitions : BOOLEAN, spectrum : BOOLEAN, memory : BOOLEAN,
           soak : BOOLEAN, endurance : BOOLEAN]

ASSUME SizeAssumption == N \in Nat /\ N > 1 /\ Depth \in Nat /\ MaxDisruptions \in Nat
ASSUME HalvesAssumption == Halves \in Seq((SUBSET Cores) \ {{}})
ASSUME OptionAssumption == Options \subseteq Option /\ Options # {}
ASSUME WorkloadAssumption == Workloads \in Seq(BOOLEAN)
ASSUME BreakerAssumption ==
  MaxThermals \in Nat /\ MaxFaults \in Nat /\ MaxIncidents \in Nat \ {0}
ASSUME OperatorAssumption == ResumeInCooldown \in BOOLEAN

VARIABLES
  \* the database
  config,      \* the validate_* switches and endurance, from config_json
  depth,       \* best_offset of every core
  search,      \* confirmed, demoted or annealing
  row,         \* the saved cursor
  incidents,   \* unattributed_crashes
  soloLog,     \* depths with a passed validate_s1 or endurance row
  status,      \* the session's status
  \* the process
  pos,         \* the cursor
  run,         \* [solo, soaking, owned, thermals, faults]
  workers,     \* the stress workers that have not answered
  calls,       \* the pending QTimer calls of each kind
  machine,     \* up, or how it went down
  disruptions, \* how many there were
  \* history, for the properties
  passed,      \* slots that passed since the pass began
  taint,       \* what moved an offset since the pass began
  proven,      \* depths at which a core passed alone, every offset live
  early        \* cores demoted while the saved stage was 1, not alone since

database == <<depth, search, row, incidents, soloLog>>
process == <<pos, run, workers, calls>>
history == <<passed, taint, proven, early>>
vars == <<config, database, status, process, machine, disruptions, history>>

-----------------------------------------------------------------------------
\* Slots

Solo(stage, c) == [key |-> <<stage, c>>, cores |-> {c}]
Together(stage) == [key |-> <<stage, 0>>, cores |-> Cores]
Nothing == [key |-> <<0, 0>>, cores |-> {}]

\* The slot the dispatcher starts at cursor p: Nothing when it moves on.
SlotAt(p) ==
  CASE p.stage = 1 /\ p.index < N -> Solo(1, p.index + 1)
    [] p.stage = 2 -> Together(2)
    [] p.stage = 3 /\ p.half < Len(Halves) ->
         [key |-> <<3, p.half + 1>>, cores |-> Halves[p.half + 1]]
    [] p.stage = 4 /\ config.transitions -> Together(4)
    [] p.stage = 5 /\ config.spectrum /\ p.index < N -> Solo(5, p.index + 1)
    [] p.stage = 6 /\ config.memory -> Together(6)
    [] p.stage = 7 /\ config.soak /\ ~p.dirty -> Together(7)
    [] p.stage = 9 /\ p.work < Len(Workloads) /\ p.lane < N -> Solo(9, p.lane + 1)
    [] p.stage = 9 /\ p.work < Len(Workloads) /\ p.lane = N /\ ~Workloads[p.work + 1] ->
         Together(9)
    [] OTHER -> Nothing

\* The solo re-test of the head of the requeue.
Retest(p) == Solo(0, Head(p.requeue))

Blank == [stage |-> 0, index |-> 0, half |-> 0, dirty |-> FALSE, requeue |-> <<>>,
          work |-> 0, lane |-> 0]
Idle == [solo |-> FALSE, soaking |-> FALSE, owned |-> FALSE, thermals |-> 0, faults |-> 0]

\* Calls: at once, or when a thermal cooldown is over.
Later == {"next_later", "requeue_later"}
Kinds == {"next", "requeue", "search"} \union Later
NoCalls == [k \in Kinds |-> 0]

Dormant == {"paused", "aborted", "completed", "fault"}
Up == machine = "up"
AllConfirmed == \A c \in Cores : search[c] = "confirmed"
Undervolted == {c \in Cores : depth[c] > 0}

Init ==
  /\ config \in Options
  /\ depth = [c \in Cores |-> Depth]
  /\ search = [c \in Cores |-> "confirmed"]
  /\ row = Blank /\ pos = Blank /\ run = Idle
  /\ incidents = 0
  /\ soloLog = [c \in Cores |-> {}]
  /\ status = "running"
  /\ workers = <<>>
  /\ calls = [NoCalls EXCEPT !["search"] = 1]
  /\ machine = "up" /\ disruptions = 0
  /\ passed = {} /\ taint = {} /\ proven = [c \in Cores |-> {}] /\ early = {}

-----------------------------------------------------------------------------
\* Parts of the actions

Schedule(k) == calls' = [calls EXCEPT ![k] = @ + 1]

\* A pending call of kind k runs and schedules one of each kind in made.
Fire(k, made) ==
  /\ Up /\ calls[k] > 0
  /\ calls' = [j \in Kinds |-> (calls[j] - (IF j = k THEN 1 ELSE 0))
                               + (IF j \in made THEN 1 ELSE 0)]

\* _save_validation_pos and _save_endurance_pos, after the cursor moved to p.
MoveTo(p) == pos' = p /\ row' = p

Disrupt == disruptions < MaxDisruptions /\ disruptions' = disruptions + 1

NewPass == passed' = {} /\ taint' = {}

\* _apply_crash_penalty on confirmed cores: each loses its confirmation and a
\* step, and a saved validation is marked dirty before the cores are.
\* The cursor in memory goes on at the given stage; mark says it is dirty anyway.
Demote(cores, stage, mark) ==
  LET hit == cores \intersect Undervolted
      owed(p) == [p EXCEPT !.dirty = @ \/ mark \/ (hit # {} /\ row.stage > 0)]
  IN /\ depth' = [c \in Cores |-> depth[c] - (IF c \in hit THEN 1 ELSE 0)]
     /\ search' = [c \in Cores |-> IF c \in hit THEN "demoted" ELSE search[c]]
     /\ row' = owed(row)
     /\ pos' = [owed(pos) EXCEPT !.stage = stage]
     /\ taint' = taint \union (IF hit # {} THEN {"demotion"} ELSE {})
     /\ early' = early \union (IF row.stage = 1 THEN hit ELSE {})

\* _backoff_core: one fine step, still confirmed.
BackOff(c) ==
  /\ depth' = [depth EXCEPT ![c] = @ - 1]
  /\ taint' = taint \union {"backoff"}

\* Variant of EntryCursor: only the saved requeue is owed a re-test.
EntryCursorTrusting ==
  IF row.stage = 0
  THEN [Blank EXCEPT !.stage = 1]
  ELSE [row EXCEPT !.stage = IF @ > 6 /\ @ < 9 THEN 6 ELSE @, !.dirty = @ \/ pos.dirty]

\* _enter_auto_validation: a new sequence, or the saved one continued.
EntryCursor ==
  LET entered == IF row.stage = 9 THEN 9 ELSE IF row.stage > 6 THEN 6 ELSE row.stage
      queued == Range(row.requeue)
      owing == {c \in Cores \ queued : entered >= 2 /\ depth[c] \notin soloLog[c]}
      inOrder == CHOOSE s \in [1..Cardinality(owing) -> owing] :
                   \A i, j \in DOMAIN s : i < j => s[i] < s[j]
  IN IF row.stage = 0
     THEN [Blank EXCEPT !.stage = 1]
     ELSE [row EXCEPT !.stage = entered, !.dirty = pos.dirty \/ row.dirty,
                      !.requeue = row.requeue \o inOrder]

EntryCall(p) == IF p.requeue = <<>> THEN "next" ELSE "requeue"

EnterAt(p) ==
  /\ MoveTo(p)
  /\ status' = "validating"
  /\ incidents' = IF row.stage = 0 THEN 0 ELSE incidents
  /\ IF row.stage = 0 THEN NewPass ELSE UNCHANGED <<passed, taint>>

\* _finalize_session; its refusal of a dirty pass is never reached, the
\* dispatcher starts another pass first.
Finalize ==
  /\ status' = "completed" /\ incidents' = 0
  /\ MoveTo([pos EXCEPT !.stage = 0, !.requeue = <<>>, !.index = 0, !.half = 0])

-----------------------------------------------------------------------------
\* The dispatcher: _run_validation_next, _run_validation_requeue

\* The offsets are written, the cores marked, the worker started; or a write
\* is refused, stock restored and the session paused.
Launch(k, slot, solo) ==
  /\ status = "validating"
  /\ Fire(k, {})
  /\ \/ /\ workers' = Append(workers, slot)
        /\ run' = [run EXCEPT !.solo = solo, !.owned = TRUE,
                              !.soaking = @ \/ slot.key[1] = 7]
        /\ UNCHANGED <<status, disruptions>>
     \/ /\ Disrupt
        /\ status' = "paused"
        /\ run' = [run EXCEPT !.solo = solo]
        /\ UNCHANGED workers
  /\ UNCHANGED <<config, database, pos, machine, history>>

StartSlot == SlotAt(pos) # Nothing /\ Launch("next", SlotAt(pos), run.solo)

StartRetest == pos.requeue # <<>> /\ Launch("requeue", Retest(pos), TRUE)

\* Variant of RequeueDrained: _in_requeue stays set.
RequeueDrainedStillSolo ==
  /\ status = "validating" /\ pos.requeue = <<>>
  /\ Fire("requeue", {"next"})
  /\ row' = pos
  /\ UNCHANGED <<config, depth, search, incidents, soloLog, status, pos, run, workers,
                 machine, disruptions, history>>

RequeueDrained ==
  /\ status = "validating" /\ pos.requeue = <<>>
  /\ Fire("requeue", {"next"})
  /\ run' = [run EXCEPT !.solo = FALSE]
  /\ row' = pos
  /\ UNCHANGED <<config, depth, search, incidents, soloLog, status, pos, workers,
                 machine, disruptions, history>>

\* A stage with no slot left, or switched off, hands over to the next one.
NextStage ==
  /\ status = "validating" /\ SlotAt(pos) = Nothing
  /\ Fire("next", {"next"})
  /\ \/ pos.stage \in {1, 3, 6, 7} /\ MoveTo([pos EXCEPT !.stage = @ + 1])
     \/ pos.stage = 4 /\ MoveTo([pos EXCEPT !.stage = 5, !.index = 0])
     \/ /\ pos.stage = 5
        /\ MoveTo([pos EXCEPT !.stage = 6, !.index = IF config.spectrum THEN 0 ELSE @])
     \/ /\ pos.stage = 9 /\ pos.work < Len(Workloads)
        /\ MoveTo([pos EXCEPT !.work = @ + 1, !.lane = 0])
  /\ UNCHANGED <<config, depth, search, incidents, soloLog, status, run, workers,
                 machine, disruptions, history>>

\* All stages are through, but an offset moved on the way.
FreshPass ==
  /\ status \in {"validating", "running"} /\ pos.stage \in {0, 8} /\ pos.dirty
  /\ Fire("next", {"next"})
  /\ MoveTo([pos EXCEPT !.stage = 1, !.index = 0, !.half = 0, !.dirty = FALSE,
                        !.requeue = <<>>])
  /\ NewPass
  /\ UNCHANGED <<config, depth, search, incidents, soloLog, status, run, workers,
                 machine, disruptions, proven, early>>

\* All stages are through in one clean pass.
Conclude ==
  /\ status \in {"validating", "running"} /\ pos.stage \in {0, 8} /\ ~pos.dirty
  /\ UNCHANGED config
  /\ \/ /\ config.endurance
        /\ Fire("next", {"next"})
        /\ MoveTo([pos EXCEPT !.stage = 9, !.index = 0, !.half = 0, !.work = 0, !.lane = 0])
        /\ incidents' = 0 /\ UNCHANGED status
     \/ ~config.endurance /\ Fire("next", {}) /\ Finalize
  /\ UNCHANGED <<depth, search, soloLog, run, workers, machine, disruptions, history>>

\* _finish_endurance_round: the next round, or an annealing probe first.
FinishRound ==
  /\ status = "validating" /\ pos.stage = 9 /\ pos.work >= Len(Workloads)
  /\ LET p == [pos EXCEPT !.dirty = FALSE, !.work = 0, !.lane = 0]
     IN /\ row' = p
        /\ incidents' = IF pos.dirty THEN incidents ELSE 0
        /\ \/ pos' = p /\ Fire("next", {"next"}) /\ UNCHANGED <<search, status>>
           \/ \E c \in Cores :
                /\ depth[c] < Depth /\ search[c] = "confirmed"
                /\ search' = [search EXCEPT ![c] = "annealing"]
                /\ pos' = [p EXCEPT !.stage = 0]
                /\ status' = "running"
                /\ Fire("next", {"search"})
  /\ UNCHANGED <<config, depth, soloLog, run, workers, machine, disruptions, history>>

\* The search earns every confirmation back (CoreSearch).
Reearn ==
  /\ status = "running" /\ ~AllConfirmed
  /\ Fire("search", {"search"})
  /\ depth' \in [Cores -> Depths]
  /\ \A c \in Cores :
       CASE search[c] = "confirmed" -> depth'[c] = depth[c]
         [] search[c] = "demoted"   -> depth'[c] <= depth[c]
         [] search[c] = "annealing" -> depth'[c] \in {depth[c], depth[c] + 1}
  /\ search' = [c \in Cores |-> "confirmed"]
  /\ UNCHANGED <<config, row, incidents, soloLog, status, pos, run, workers, machine,
                 disruptions, history>>

\* _complete_session: validation is entered, or continued.
Complete ==
  /\ status = "running" /\ AllConfirmed
  /\ Fire("search", {EntryCall(EntryCursor)})
  /\ EnterAt(EntryCursor)
  /\ run' = [run EXCEPT !.thermals = 0]
  /\ UNCHANGED <<config, depth, search, soloLog, workers, machine, disruptions, proven, early>>

CooldownOver ==
  /\ status \notin Dormant
  /\ \/ Fire("next_later", {"next"})
     \/ Fire("requeue_later", {"requeue"})
  /\ UNCHANGED <<config, database, status, pos, run, workers, machine, disruptions, history>>

\* A call that finds the engine paused or aborted does nothing.
Dropped ==
  /\ status \in Dormant
  /\ \E k \in Kinds : Fire(k, {})
  /\ UNCHANGED <<config, database, status, pos, run, workers, machine, disruptions, history>>

-----------------------------------------------------------------------------
\* An answer: _on_test_finished

\* Worker i answers.
Answer(i) ==
  /\ Up
  /\ workers' = RemoveAt(workers, i)
  /\ UNCHANGED <<config, machine>>

Answered == [run EXCEPT !.owned = FALSE]
Retry == IF run.solo THEN "requeue" ELSE "next"

\* abort and the breakers that call it: no worker, no stage, timers still pending.
Aborted ==
  /\ status' = "aborted"
  /\ workers' = <<>>
  /\ pos' = [pos EXCEPT !.stage = 0]
  /\ run' = [run EXCEPT !.owned = FALSE, !.solo = FALSE, !.soaking = FALSE]

\* The kernel named other cores: they are demoted and validation is left,
\* unless the session is paused or one of them stands at stock.
LeaveFor(cores) ==
  LET stuck == status \in Dormant \/ cores \ Undervolted # {}
  IN /\ Demote(cores, IF stuck THEN pos.stage ELSE 0, FALSE)
     /\ status' = IF stuck THEN "paused" ELSE "running"
     /\ IF stuck THEN UNCHANGED calls ELSE Schedule("search")
     /\ UNCHANGED <<incidents, passed, disruptions>>

\* The slot could not start: whatever the kernel named, the session pauses.
StartupFault(i, foreign) ==
  /\ Answer(i)
  /\ workers[i].key[1] = 7 => foreign = {}
  /\ Demote(foreign, pos.stage, FALSE)
  /\ status' = "paused" /\ run' = Answered
  /\ UNCHANGED <<incidents, soloLog, calls, disruptions, passed, proven>>

\* Too hot, or the apparatus failed: no verdict; the same step again after a
\* while, a bounded number of times; evidence about cores outranks the retry.
NoVerdict(i, tried, limit, again, call, foreign) ==
  /\ Answer(i)
  /\ workers[i].key[1] = 7 => foreign = {}
  /\ UNCHANGED <<soloLog, proven>>
  /\ run' = again
  /\ \/ foreign # {} /\ LeaveFor(foreign)
     \/ /\ foreign = {} /\ tried < limit
        /\ Schedule(call)
        /\ UNCHANGED <<depth, search, row, incidents, status, pos, disruptions, passed,
                       taint, early>>

TooOften(i, tried, limit) ==
  /\ i \in DOMAIN workers /\ Up /\ tried >= limit
  /\ Aborted
  /\ UNCHANGED <<config, database, calls, machine, disruptions, history>>

ThermalStop(i, foreign) ==
  NoVerdict(i, run.thermals, MaxThermals,
            [Answered EXCEPT !.thermals = IF foreign = {} THEN @ + 1 ELSE @],
            IF run.solo THEN "requeue_later" ELSE "next_later", foreign)

\* Variant of ApparatusFault: the retries are not counted.
ApparatusFaultUncounted(i, foreign) ==
  NoVerdict(i, run.faults, MaxFaults, [Answered EXCEPT !.soaking = FALSE], Retry, foreign)

ApparatusFault(i, foreign) ==
  NoVerdict(i, run.faults, MaxFaults,
            [Answered EXCEPT !.soaking = FALSE,
                             !.faults = IF foreign = {} THEN @ + 1 ELSE @],
            Retry, foreign)

-----------------------------------------------------------------------------
\* Verdicts

Lead(w) == CHOOSE c \in w.cores : \A d \in w.cores : c <= d
Alone(w) == w.key[2] # 0 /\ w.key[1] \in {0, 1, 5, 9}

\* The row of a passed slot names the stage of the cursor, not of the slot.
LogPass(w) ==
  LET logged == IF status # "validating" \/ run.soaking THEN {}
                ELSE IF pos.stage = 9 THEN w.cores
                ELSE IF pos.stage = 1 THEN {Lead(w)} ELSE {}
      solo == IF Alone(w) THEN w.cores ELSE {}
  IN /\ soloLog' = [c \in Cores |-> soloLog[c] \union
                                    (IF c \in logged THEN {depth[c]} ELSE {})]
     /\ proven' = [c \in Cores |-> proven[c] \union (IF c \in solo THEN {depth[c]} ELSE {})]

Judged == [Answered EXCEPT !.faults = 0, !.soaking = FALSE]

\* The cursor after a pass.
AfterPass(w) ==
  CASE run.soaking -> [pos EXCEPT !.stage = 8]
    [] ~run.soaking /\ run.solo ->
         [pos EXCEPT !.requeue = RemoveFirst(@, Lead(w))]
    [] OTHER ->
         CASE pos.stage \in {1, 5} -> [pos EXCEPT !.index = @ + 1]
           [] pos.stage = 2 -> [pos EXCEPT !.stage = 3, !.half = 0]
           [] pos.stage = 3 -> [pos EXCEPT !.half = @ + 1]
           [] pos.stage = 4 -> [pos EXCEPT !.stage = 5, !.index = 0]
           [] pos.stage = 6 -> [pos EXCEPT !.stage = 7]
           [] pos.stage = 9 -> [pos EXCEPT !.lane = @ + 1]
           [] OTHER -> pos

Pass(i) ==
  LET w == workers[i]
  IN /\ pos.stage > 0
     /\ Answer(i)
     /\ LogPass(w)
     /\ passed' = passed \union {k \in {w.key} : k[1] \in 1..7}
     /\ early' = IF Alone(w) THEN early \ w.cores ELSE early
     /\ MoveTo(AfterPass(w))
     /\ run' = [Judged EXCEPT !.thermals = IF run.soaking THEN @ ELSE 0]
     /\ Schedule(IF run.soaking THEN "next" ELSE Retry)
     /\ UNCHANGED <<depth, search, incidents, status, disruptions, taint>>

\* Variant of CoreFails: the back-off does not mark the pass dirty.
CoreFailsClean(i, c) ==
  /\ pos.stage \in {1, 2, 3, 5, 6, 9} /\ ~run.soaking
  /\ Answer(i) /\ c \in workers[i].cores
  /\ run' = Judged
  /\ depth[c] > 0
  /\ BackOff(c)
  /\ MoveTo(pos)
  /\ Schedule(Retry)
  /\ UNCHANGED <<status, search, incidents, soloLog, disruptions, passed, proven, early>>

\* Core c fails its slot: a step back and the same slot, or a solo re-test and
\* the same stage; at the baseline the session pauses.
CoreFails(i, c) ==
  LET again == run.solo \/ pos.stage \in {1, 5} \/ (pos.stage = 9 /\ pos.lane < N)
  IN /\ pos.stage \in {1, 2, 3, 5, 6, 9} \/ (run.solo /\ pos.stage > 0)
     /\ ~run.soaking
     /\ Answer(i) /\ c \in workers[i].cores
     /\ run' = Judged
     /\ \/ /\ depth[c] > 0
           /\ BackOff(c)
           /\ MoveTo([pos EXCEPT !.dirty = TRUE, !.requeue = IF again THEN @ ELSE <<c>>])
           /\ Schedule(IF again THEN Retry ELSE "requeue")
           /\ UNCHANGED status
        \/ /\ depth[c] = 0
           /\ MoveTo([pos EXCEPT !.dirty = @ \/ run.solo])
           /\ status' = "paused"
           /\ UNCHANGED <<depth, calls, taint>>
     /\ UNCHANGED <<search, incidents, soloLog, disruptions, passed, proven, early>>

\* A hunt convicts some cores, or ends without a name, and the search goes on.
HuntEnds(convicted, mark) ==
  /\ Demote(convicted, 0, mark)
  /\ status' = "running"
  /\ incidents' = IF convicted # {} THEN 0
                  ELSE IF incidents < MaxIncidents THEN incidents + 1 ELSE incidents

\* Rapid transitions name no core: a hunt does.
TransitionsFail(i, convicted) ==
  /\ pos.stage = 4 /\ ~run.solo /\ ~run.soaking
  /\ Answer(i)
  /\ run' = Judged
  /\ UNCHANGED <<soloLog, passed, proven>>
  /\ \/ /\ Undervolted # {}
        /\ IF convicted = {} THEN Disrupt ELSE UNCHANGED disruptions
        /\ HuntEnds(convicted, TRUE)
        /\ Schedule("search")
     \/ /\ Undervolted = {}
        /\ status' = "fault"
        /\ MoveTo([pos EXCEPT !.dirty = TRUE])
        /\ UNCHANGED <<depth, search, incidents, calls, disruptions, taint, early>>

\* The soak saw a kernel event that names no core.
SoakFails(i) ==
  LET n == IF incidents < MaxIncidents THEN incidents + 1 ELSE incidents
  IN /\ run.soaking
     /\ Answer(i)
     /\ run' = Judged
     /\ incidents' = n
     /\ MoveTo([pos EXCEPT !.dirty = TRUE])
     /\ taint' = taint \union {"event"}
     /\ IF n >= MaxIncidents
        THEN status' = "paused" /\ UNCHANGED calls
        ELSE Schedule("next") /\ UNCHANGED status
     /\ UNCHANGED <<depth, search, soloLog, disruptions, passed, proven, early>>

\* A verdict that comes with kernel evidence about other cores: the evidence
\* decides, and a failure of the tested core itself is dropped.
Evidence(i, c, foreign, ok) ==
  /\ pos.stage > 0
  /\ Answer(i)
  /\ c \in workers[i].cores /\ foreign # {}
  /\ c \in foreign => run.soaking
  /\ run.soaking => ~ok
  /\ IF ok THEN LogPass(workers[i]) ELSE UNCHANGED <<soloLog, proven>>
  /\ run' = Judged
  /\ LeaveFor(foreign)

-----------------------------------------------------------------------------
\* The operator, the process and the machine

Pause ==
  /\ Up /\ status \in {"validating", "running"}
  /\ status' = "paused"
  /\ UNCHANGED <<config, database, process, machine, disruptions, history>>

Abort ==
  /\ Up /\ status \in {"validating", "running", "paused"}
  /\ Aborted
  /\ UNCHANGED <<config, database, calls, machine, disruptions, history>>

\* The process ends; the machine with it, or not.
Lost ==
  /\ Up /\ status \notin {"completed", "fault"} /\ Disrupt
  /\ workers' = <<>> /\ calls' = NoCalls /\ pos' = Blank /\ run' = Idle
  /\ UNCHANGED <<config, search, row, incidents, status>>

Down ==
  /\ Lost
  /\ \/ machine' = "killed"
     \/ machine' = IF workers # <<>> \/ status = "running" THEN "loaded" ELSE "idle"
  /\ UNCHANGED <<depth, soloLog, history>>

\* The process is killed inside _on_test_finished, after the first write of
\* the handler and before the cursor is saved.
Torn(i) ==
  /\ i \in DOMAIN workers /\ pos.stage > 0 /\ status = "validating" /\ ~run.soaking
  /\ Lost /\ machine' = "killed"
  /\ \/ /\ LogPass(workers[i])
        /\ UNCHANGED <<depth, passed, taint, early>>
     \/ \E c \in workers[i].cores :
          /\ pos.stage # 4 \/ run.solo
          /\ depth[c] > 0
          /\ depth' = [depth EXCEPT ![c] = @ - 1]
          /\ taint' = taint \union {"torn"}
          /\ UNCHANGED <<soloLog, passed, proven, early>>

\* resume, up to the branch that re-enters validation or the search.
Resuming ==
  /\ status \in {"validating", "running", "paused", "aborted"}
  /\ Up => /\ status \in {"paused", "aborted"}
           /\ workers = <<>>
           /\ \A k \in Kinds : calls[k] > 0 => k \in Later /\ ResumeInCooldown
  /\ machine' = "up"
  /\ UNCHANGED <<config, workers>>

Reset == [run EXCEPT !.solo = FALSE, !.soaking = FALSE]

\* Nothing to attribute: the same boot, a reboot that ended cleanly, or one that
\* found nothing under load and no validation begun.
ResumeQuietly ==
  /\ Resuming
  /\ \/ machine = "up" /\ Disrupt
     \/ /\ machine = "killed" \/ (machine = "idle" /\ row.stage = 0)
        /\ UNCHANGED disruptions
  /\ UNCHANGED <<depth, search, soloLog, proven, early>>
  /\ \/ /\ AllConfirmed
        /\ LET p == [EntryCursor EXCEPT !.dirty = row.stage > 0 /\ row.dirty]
           IN EnterAt(p) /\ Schedule(EntryCall(p))
        /\ run' = [Reset EXCEPT !.thermals = 0]
     \/ /\ ~AllConfirmed
        /\ pos' = Blank /\ run' = Reset
        /\ status' = "running" /\ Schedule("search")
        /\ UNCHANGED <<row, incidents, passed, taint>>

\* The machine died: kernel evidence or a hunt names cores, or a hunt ends
\* without a name.
ResumeCharged(charged) ==
  /\ Resuming
  /\ machine \in {"loaded", "idle"} /\ Undervolted # {}
  /\ UNCHANGED disruptions
  /\ HuntEnds(charged, FALSE)
  /\ run' = Reset
  /\ Schedule("search")
  /\ UNCHANGED <<soloLog, passed, proven>>

\* The machine died under load with every core at stock: no offset did it.
ResumeAtStock ==
  /\ Resuming
  /\ machine = "loaded" /\ Undervolted = {}
  /\ status' = "fault" /\ run' = Reset
  /\ UNCHANGED <<database, pos, calls, disruptions, history>>

\* The machine died with stock on every core and nothing loaded.
ResumeIncident ==
  LET n == IF incidents < MaxIncidents THEN incidents + 1 ELSE incidents
  IN /\ Resuming /\ machine = "idle" /\ row.stage > 0
     /\ UNCHANGED <<depth, search, soloLog, disruptions, passed, proven, early>>
     /\ taint' = taint \union {"event"}
     /\ incidents' = n
     /\ run' = Reset
     /\ \/ /\ n >= MaxIncidents
           /\ row' = [row EXCEPT !.dirty = TRUE]
           /\ status' = "paused"
           /\ UNCHANGED <<pos, calls>>
        \/ /\ n < MaxIncidents /\ AllConfirmed
           /\ MoveTo([EntryCursor EXCEPT !.dirty = TRUE])
           /\ status' = "validating" /\ Schedule(EntryCall(EntryCursor))
        \/ /\ n < MaxIncidents /\ ~AllConfirmed
           /\ status' = "running" /\ Schedule("search")
           /\ UNCHANGED <<row, pos>>

-----------------------------------------------------------------------------
Dispatch ==
  \/ StartSlot \/ StartRetest \/ RequeueDrained \/ NextStage \/ FreshPass
  \/ Conclude \/ FinishRound \/ Reearn \/ Complete \/ CooldownOver \/ Dropped

Verdict ==
  \E i \in DOMAIN workers :
    \/ Pass(i) \/ SoakFails(i)
    \/ TooOften(i, run.thermals, MaxThermals) \/ TooOften(i, run.faults, MaxFaults)
    \/ \E c \in workers[i].cores : CoreFails(i, c)
    \/ \E s \in SUBSET Undervolted : TransitionsFail(i, s)
    \/ \E s \in SUBSET Cores :
         \/ StartupFault(i, s) \/ ThermalStop(i, s) \/ ApparatusFault(i, s)
         \/ \E c \in workers[i].cores, ok \in BOOLEAN : Evidence(i, c, s, ok)

Disruption ==
  \/ Pause \/ Abort \/ Down \/ ResumeQuietly \/ ResumeAtStock \/ ResumeIncident
  \/ \E i \in DOMAIN workers : Torn(i)
  \/ \E s \in SUBSET Undervolted : ResumeCharged(s)

Next == Dispatch \/ Verdict \/ Disruption

Spec == Init /\ [][Next]_vars

\* A pending call runs, a worker answers.
FairSpec == Spec /\ WF_vars(Dispatch) /\ WF_vars(Verdict)

-----------------------------------------------------------------------------
\* Properties

Cursor == [stage : 0..9, index : 0..N, half : 0..Len(Halves), dirty : BOOLEAN,
           requeue : Seq(Cores), work : 0..Len(Workloads), lane : 0..N + 1]

\* Every variable keeps its type; no timer chain ever forks into a third.
TypeOK ==
  /\ config \in Options
  /\ depth \in [Cores -> Depths] /\ search \in [Cores -> {"confirmed", "demoted", "annealing"}]
  /\ pos \in Cursor /\ row \in Cursor
  /\ run \in [solo : BOOLEAN, soaking : BOOLEAN, owned : BOOLEAN,
              thermals : 0..MaxThermals, faults : 0..MaxFaults]
  /\ incidents \in 0..MaxIncidents
  /\ soloLog \in [Cores -> SUBSET Depths] /\ proven \in [Cores -> SUBSET Depths]
  /\ status \in {"validating", "running"} \union Dormant
  /\ calls \in [Kinds -> 0..2]
  /\ machine \in {"up", "killed", "loaded", "idle"}
  /\ disruptions \in 0..MaxDisruptions
  /\ taint \subseteq {"backoff", "demotion", "event", "torn"} /\ early \subseteq Cores

\* The slots a cursor says are behind it.
Behind(p) ==
  LET done(stage, upto) == {<<stage, c>> : c \in 1..upto}
      solos(stage, on) == IF ~on THEN {} ELSE IF p.stage > stage THEN done(stage, N)
                          ELSE IF p.stage = stage THEN done(stage, p.index) ELSE {}
      whole(stage, on) == IF on /\ p.stage > stage THEN {<<stage, 0>>} ELSE {}
      halves == IF p.stage > 3 THEN done(3, Len(Halves))
                ELSE IF p.stage = 3 THEN done(3, p.half) ELSE {}
  IN solos(1, TRUE) \union whole(2, TRUE) \union halves
     \union whole(4, config.transitions) \union solos(5, config.spectrum)
     \union whole(6, config.memory) \union whole(7, config.soak /\ ~p.dirty)

\* Neither the cursor nor what a crash leaves of it is ever ahead of the slots
\* that passed: no resume, re-entry, requeue or retry skips one.
CursorBacked ==
  /\ Behind(row) \subseteq passed
  /\ pos.stage > 0 => Behind(pos) \subseteq passed

\* The profile is declared proven (completion, or the start of endurance) only
\* after one pass through every enabled slot in which no offset moved.
CompletionIsClean ==
  [][ (status' = "completed" /\ status # "completed") \/ (pos'.stage = 9 /\ pos.stage = 8)
      => /\ Behind([pos EXCEPT !.stage = 8, !.dirty = FALSE]) \subseteq passed
         /\ taint \subseteq {"torn"} ]_vars

\* An answer is charged to the slot that ran: while a worker runs, the cursor
\* and the re-test flag still name its slot.
AnswerMeetsItsSlot ==
  workers # <<>> /\ pos.stage > 0 =>
    IF run.solo THEN pos.requeue # <<>> /\ workers[1] = Retest(pos)
                ELSE workers[1] = SlotAt(pos)

\* A core whose offset changed passes alone before any stage loads it together
\* with others, unless it was demoted while stage 1 was under way.
AloneBeforeTogether ==
  \A i \in DOMAIN workers : ~Alone(workers[i]) =>
    \A c \in Cores \ early : depth[c] \in proven[c]

\* One worker at a time, and the engine knows of it until its answer is processed.
InFlightUntilProcessed ==
  workers # <<>> => run.owned

\* Validation always comes to an end: a proven profile, endurance, or a stop.
ValidationSettles == <>[](~Up \/ status \in Dormant \/ row.stage = 9)
=============================================================================
