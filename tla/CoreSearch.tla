----------------------------- MODULE CoreSearch -----------------------------
(***************************************************************************)
(* The offset search of one core (tuner/engine.py, _advance_core and        *)
(* _apply_crash_penalty; tuner/state.py).  The machine, the other cores and *)
(* the validation of the whole profile appear as the events that reach the  *)
(* core: the verdict of a slot, a hard crash or a kernel error charged to   *)
(* it, a failed validation.                                                *)
(*                                                                         *)
(* Offsets are depths: the offset times the direction, so that deeper is    *)
(* more aggressive, 0 is stock, and a depth below 0 lies beyond stock on    *)
(* the safe side.                                                          *)
(***************************************************************************)
EXTENDS Integers, FiniteSets

CONSTANTS
  None,            \* an offset that is not set
  Max,             \* max_offset
  Start,           \* start_offset
  Coarse,          \* coarse_step
  Fine,            \* fine_step
  Inherited,       \* offsets inherit_current may read from the SMU, {} without it
  Seeds,           \* offsets another session may seed the core with
  MaxTries,        \* max_confirm_retries
  JumpAfter,       \* midpoint_jump_threshold
  PenaltySteps,    \* crash_penalty_steps
  MaxStrikes,      \* anneal_max_strikes
  CoarseRegimes,   \* coarse_regimes
  Regimes,         \* the regimes the battery covers
  ApparatusStreak, \* apparatus_failure_streak, 0 when it is off
  StockSticks      \* no baseline, profile or stock write ever fails for good

ASSUME NoneAssumption == None \notin Int
ASSUME StepAssumption == Fine \in Nat \ {0} /\ Coarse \in Nat /\ Fine <= Coarse
ASSUME LimitAssumption == Max \in Int /\ Start \in Int /\ Start < Max
ASSUME OriginAssumption ==
  Inherited \subseteq Int /\ Seeds \subseteq (Start + 1)..Max
ASSUME CounterAssumption ==
  /\ MaxTries \in Nat /\ JumpAfter \in Nat \ {0}
  /\ PenaltySteps \in Nat \ {0} /\ MaxStrikes \in Nat \ {0}
ASSUME RegimeAssumption ==
  CoarseRegimes \subseteq Regimes /\ CoarseRegimes # {} /\ IsFiniteSet(Regimes)
ASSUME StreakAssumption ==
  ApparatusStreak \in Nat /\ (ApparatusStreak = 0 \/ ApparatusStreak > MaxTries)
ASSUME StockAssumption == StockSticks \in BOOLEAN

VARIABLES
  core,     \* CoreState
  testing,  \* in_test: a slot of the core is running
  paused,   \* _paused
  deepest,  \* the deepest pass in the test log
  proven,   \* the deepest pass of each regime in it
  covered,  \* regimes the log has a pass of at the core's offset, since the
            \* battery index last stood at zero
  streak,   \* the failures that end the test log and contradict an earlier pass
  order,    \* _battery_orders: the regimes put ahead of the battery index, None
            \* when no order is frozen for the core's phase and offset
  \* history, for the properties
  carried,  \* the index was carried to another offset since it stood at zero
  verdict   \* what the last step decided: [kind, complete, carried]

vars == <<core, testing, paused, deepest, proven, covered, streak, order, carried, verdict>>

Phase == {"not_started", "coarse_search", "fine_search", "settled", "confirming",
          "confirmed", "annealing", "failed_confirm", "backoff_preconfirm",
          "backoff_confirming"}

Backoff == {"backoff_preconfirm", "backoff_confirming"}

-----------------------------------------------------------------------------
(* Comparisons *)

Least(a, b) == IF a < b THEN a ELSE b

Greatest(a, b) == IF a > b THEN a ELSE b

Set(depth) == depth # None

\* At or beyond a recorded bound.
Reaches(depth, bound) == Set(depth) /\ Set(bound) /\ depth >= bound

AtBaseline(depth) == depth <= core.baseline

\* The depth itself, or the baseline when the depth is no deeper than it.
FloorAtBaseline(depth) == Greatest(depth, core.baseline)

\* Mutated form of Tightened: the bound follows the last failure.
Replaced(bound, depth) == depth
\* A fail bound once "depth" has failed, and a pass bound.
Tightened(bound, depth) == IF Set(bound) THEN Least(bound, depth) ELSE depth
Unrefuted(bound, depth) == IF Reaches(bound, depth) THEN None ELSE bound

Wanted(phase) == IF phase = "coarse_search" THEN CoarseRegimes ELSE Regimes

\* What the other cores see of this one: its best offset, never its trial.
Live == IF Set(core.best) THEN core.best ELSE core.baseline

-----------------------------------------------------------------------------
(* Entering a phase *)

EnterCoarse ==
  LET origin == IF Inherited # {} /\ core.current # 0 THEN core.current ELSE Start
  IN  [core EXCEPT !.phase = "coarse_search", !.current = Least(origin + Coarse, Max)]

EnterConfirm ==
  LET best == IF Set(core.best) THEN core.best ELSE core.baseline
  IN  [core EXCEPT !.phase = "confirming", !.best = best, !.current = best]

EnterBackoff ==
  IF Set(core.best) /\ ~AtBaseline(core.best - Fine)
    THEN [core EXCEPT !.phase = "backoff_preconfirm", !.best = @ - Fine,
                      !.current = core.best - Fine, !.tries = 0, !.fails = 0]
    ELSE [core EXCEPT !.phase = "backoff_preconfirm", !.best = core.baseline,
                      !.current = core.baseline]

-----------------------------------------------------------------------------
(* _advance_core, PASS *)

\* Near the limit the coarse search takes fine steps.
CoarseStep ==
  LET distance == IF core.current < Max THEN Max - core.current ELSE core.current - Max
  IN  IF distance <= 2 * Coarse THEN Fine ELSE Coarse

CoarsePass ==
  LET next == core.current + CoarseStep
  IN  IF next > Max
        THEN [core EXCEPT !.best = core.current, !.phase = "settled"]
        ELSE [core EXCEPT !.best = core.current, !.current = next]

FinePass ==
  LET next == core.current + Fine
  IN  IF Reaches(next, core.coarseFail) \/ next > Max
        THEN [core EXCEPT !.best = core.current, !.phase = "settled"]
        ELSE [core EXCEPT !.best = core.current, !.current = next]

ConfirmPass == [core EXCEPT !.phase = "confirmed", !.tries = 0]

Gap(pass, fail) == IF fail > pass THEN fail - pass ELSE pass - fail

\* The depth the binary search asks next, halfway to the fail bound.
Midpoint(pass, fail) == pass + Gap(pass, fail) \div 2

Converged(pass, fail) == Gap(pass, fail) <= Fine

\* The first pass is confirmed; later ones close in on the fail bound.
PreconfirmPass ==
  LET s == [core EXCEPT !.best = core.current, !.passBound = core.current]
  IN  IF ~(Set(core.passBound) /\ Set(core.failBound))
        THEN [s EXCEPT !.phase = "backoff_confirming", !.tries = 0]
        ELSE IF Converged(core.current, core.failBound)
               THEN [s EXCEPT !.phase = "backoff_confirming"]
               ELSE [s EXCEPT !.current = Midpoint(core.current, core.failBound)]

BackoffConfirmPass ==
  LET s == [core EXCEPT !.best = core.current, !.passBound = core.current]
  IN  IF Set(core.failBound) /\ ~Converged(core.current, core.failBound)
        THEN [s EXCEPT !.current = Midpoint(core.current, core.failBound),
                       !.phase = "backoff_preconfirm"]
        ELSE [s EXCEPT !.phase = "confirmed"]

\* _handle_contradictory_pass: the fail bound stands, the search steps back inside.
Contradicted == core.phase \in Backoff /\ Reaches(core.current, core.failBound)

ContradictoryPass ==
  LET back == core.failBound - Fine
  IN  IF AtBaseline(back)
        THEN [core EXCEPT !.phase = "backoff_preconfirm", !.best = core.baseline,
                          !.current = core.baseline]
        ELSE [core EXCEPT !.phase = "backoff_preconfirm", !.current = back,
                          !.best = Least(@, back)]

\* Mutated form of AnnealBack: the failed probe becomes the answer.
AnnealBackKept == [core EXCEPT !.phase = "confirmed", !.best = core.current,
                               !.strikes = @ + 1, !.battery = 0]

\* _resolve_anneal
AnnealBack == [core EXCEPT !.phase = "confirmed", !.current = core.best,
                           !.strikes = @ + 1, !.battery = 0]

AnnealPass ==
  IF Reaches(core.current, core.failBound)
    THEN AnnealBack
    ELSE [core EXCEPT !.phase = "confirmed", !.best = core.current, !.strikes = 0,
                       !.battery = 0]

PassOf(phase) ==
  CASE phase = "coarse_search" -> CoarsePass
    [] phase = "fine_search" -> FinePass
    [] phase = "confirming" -> ConfirmPass
    [] phase = "annealing" -> AnnealPass
    [] phase = "backoff_preconfirm" /\ ~Contradicted -> PreconfirmPass
    [] phase = "backoff_confirming" /\ ~Contradicted -> BackoffConfirmPass
    [] Contradicted -> ContradictoryPass

\* The pass contradicts a bound that is the baseline's own.
PassPauses == Contradicted /\ AtBaseline(core.failBound)

-----------------------------------------------------------------------------
(* _advance_core, FAIL *)

CoarseFail ==
  IF Set(core.best)
    THEN LET next == Least(core.best + Fine, Max)
         IN  [core EXCEPT !.coarseFail = core.current, !.current = next,
                          !.phase = IF next >= core.current THEN "settled" ELSE "fine_search"]
    ELSE LET next == FloorAtBaseline(core.current - Fine)
         IN  [core EXCEPT !.coarseFail = core.current, !.failBound = core.current,
                          !.best = next, !.current = next, !.phase = "backoff_preconfirm"]

FineFail == [core EXCEPT !.phase = "settled"]

ConfirmFail ==
  [core EXCEPT !.tries = @ + 1,
               !.phase = IF core.tries + 1 >= MaxTries THEN "failed_confirm" ELSE "confirming"]

\* A failed backoff step tightens the fail bound and may refute the pass bound.
Failed == [core EXCEPT !.failBound = Tightened(@, core.current),
                       !.passBound = Unrefuted(@, core.current)]

PreconfirmFail ==
  LET s == [Failed EXCEPT !.fails = @ + 1]
      jump == s.fails >= JumpAfter
      step == IF jump THEN Greatest(Fine, (core.current - core.baseline) \div 2) ELSE Fine
      next == FloorAtBaseline(core.current - step)
  IN  IF Set(s.passBound)
        THEN IF Converged(s.passBound, s.failBound)
               THEN [s EXCEPT !.best = s.passBound, !.current = s.passBound,
                              !.phase = "backoff_confirming"]
               ELSE [s EXCEPT !.best = s.passBound,
                              !.current = Midpoint(s.passBound, s.failBound)]
        ELSE [s EXCEPT !.best = next, !.current = next, !.fails = IF jump THEN 0 ELSE @]

\* A confirmed pass bound is a floor the search does not leave.
BackoffConfirmFail ==
  LET s == Failed
      next == core.best - Fine
  IN  IF Set(s.passBound) /\ s.passBound > next
        THEN [s EXCEPT !.best = s.passBound, !.current = s.passBound]
        ELSE [s EXCEPT !.phase = "backoff_preconfirm", !.best = FloorAtBaseline(next),
                       !.current = FloorAtBaseline(next)]

\* Failing at the baseline pauses the session; nothing is confirmed.
FailPauses == core.phase \in Backoff \cup {"confirming"} /\ AtBaseline(core.current)

FailOf(phase) ==
  CASE FailPauses -> IF phase \in Backoff THEN Failed ELSE core
    [] phase = "coarse_search" -> CoarseFail
    [] phase = "fine_search" -> FineFail
    [] phase = "annealing" -> AnnealBack
    [] phase = "confirming" /\ ~FailPauses -> ConfirmFail
    [] phase = "backoff_preconfirm" /\ ~FailPauses -> PreconfirmFail
    [] phase = "backoff_confirming" /\ ~FailPauses -> BackoffConfirmFail

-----------------------------------------------------------------------------
(* _apply_crash_penalty: the value "crashed" was resident when it died. *)

\* A retreat never passes stock.
Retreat(crashed, steps) == Greatest(crashed - steps * Fine, 0)

Demoted == {"coarse_search", "fine_search", "confirming", "confirmed", "backoff_preconfirm"}

Penalty(crashed, steps) ==
  LET retreat == Retreat(crashed, steps)
      base == IF AtBaseline(crashed) THEN retreat ELSE core.baseline
      current == IF AtBaseline(crashed) THEN retreat ELSE FloorAtBaseline(retreat)
  IN  [core EXCEPT
         !.failBound = Tightened(@, crashed),
         !.passBound = Unrefuted(@, crashed),
         !.baseline = base,
         !.current = current,
         !.best = IF Set(@) THEN Least(@, current) ELSE base,
         !.strikes = IF core.phase \in {"confirmed", "annealing"} THEN MaxStrikes ELSE @,
         !.phase = IF @ \in Demoted THEN "backoff_preconfirm" ELSE @,
         !.battery = 0,
         !.tries = 0]

-----------------------------------------------------------------------------
(* The battery: regimes that have to pass one by one at the same offset.  Of    *)
(* its progress the core keeps an index only.                                   *)

\* The regimes the log may have a pass of at the offset of c, as far as an index
\* above zero asks for them: at another offset, any that passed so deep.
Known(c) ==
  CASE c.battery = 0 -> {{}}
    [] c.battery > 0 /\ c.current = core.current -> {covered}
    [] c.battery > 0 /\ c.current # core.current ->
         SUBSET {r \in Regimes : Reaches(proven[r], c.current)}

\* The order in memory is good for the phase and offset it was made for.
Frozen(c) == IF c.phase = core.phase /\ c.current = core.current THEN order ELSE None

\* Mutated form of Orders: the order is made by yield alone.
OrdersByYield(c, known) ==
  {ahead \in SUBSET Wanted(c.phase) : Cardinality(ahead) = c.battery}

\* _slot_regimes: as many regimes as the index counts come first, those that the
\* log has a pass of before any other.
Orders(c, known) ==
  {ahead \in SUBSET Wanted(c.phase) :
     /\ Cardinality(ahead) = c.battery
     /\ ahead \subseteq known \/ known \cap Wanted(c.phase) \subseteq ahead}

\* The core becomes c, and its battery index stays as c has it.
Carry(c) ==
  /\ core' = c
  /\ covered' \in Known(c)
  /\ carried' = (c.battery > 0 /\ (carried \/ c.current # core.current))

-----------------------------------------------------------------------------

Verdict(kind, complete) == [kind |-> kind, complete |-> complete, carried |-> carried]

NoVerdict == [kind |-> "none", complete |-> FALSE, carried |-> FALSE]

\* start: a seeded core searches from its seed, any other from its baseline.
Init ==
  /\ \/ \E origin \in Inherited \cup {Start} :
          core = [phase |-> "not_started", current |-> origin, baseline |-> origin,
                  best |-> None, coarseFail |-> None, failBound |-> None, passBound |-> None,
                  tries |-> 0, fails |-> 0, battery |-> 0, strikes |-> 0]
     \/ \E seed \in Seeds :
          core = [phase |-> "coarse_search", current |-> seed, baseline |-> Start,
                  best |-> None, coarseFail |-> None, failBound |-> None, passBound |-> None,
                  tries |-> 0, fails |-> 0, battery |-> 0, strikes |-> 0]
  /\ testing = FALSE /\ paused = FALSE
  /\ deepest = None /\ proven = [r \in Regimes |-> None] /\ covered = {} /\ streak = 0 /\ order = None
  /\ carried = FALSE /\ verdict = NoVerdict

\* What the phases that only lead on lead to.
LedOn ==
  CASE core.phase = "not_started" -> EnterCoarse
    [] core.phase = "settled" -> EnterConfirm
    [] core.phase = "failed_confirm" -> EnterBackoff
    [] core.phase \notin {"not_started", "settled", "failed_confirm"} -> core

\* _run_next picks the core, and the slot takes its place in the battery.
Dispatch ==
  /\ ~testing /\ ~paused /\ core.phase # "confirmed"
  /\ Carry(LedOn)
  /\ IF Frozen(LedOn) # None THEN order' = Frozen(LedOn) ELSE order' \in Orders(LedOn, covered')
  /\ testing' = TRUE
  /\ verdict' = NoVerdict
  /\ UNCHANGED <<paused, deepest, proven, streak>>

\* _anneal_candidate: a confirmed core has banked enough clean hours.
Anneal ==
  /\ ~testing /\ ~paused /\ core.phase = "confirmed"
  /\ core.strikes < MaxStrikes
  /\ core.best + Fine <= Max /\ ~Reaches(core.best + Fine, core.failBound)
  /\ core' = [core EXCEPT !.phase = "annealing", !.current = core.best + Fine, !.battery = 0]
  /\ testing' = TRUE
  /\ covered' = {} /\ order' = {} /\ carried' = FALSE
  /\ verdict' = NoVerdict
  /\ UNCHANGED <<paused, deepest, proven, streak>>

\* What the test log says once a slot has passed.
Deeper(bound, depth) == IF Set(bound) THEN Greatest(bound, depth) ELSE depth

LogPass(r) ==
  /\ deepest' = Deeper(deepest, core.current)
  /\ proven' = [proven EXCEPT ![r] = Deeper(@, core.current)]
  /\ streak' = 0

\* And once it has failed: the failure may contradict a pass of the same workload,
\* which is a pass no deeper than "past".
LogFail(depth, past) ==
  /\ UNCHANGED <<deepest, proven>>
  /\ \/ streak' = 0
     \/ Reaches(past, depth) /\ streak' = Least(streak + 1, ApparatusStreak)

\* One more failure that contradicts a pass is enough to suspect the apparatus.
LastOfStreak == ApparatusStreak > 0 /\ streak + 1 >= ApparatusStreak

\* The battery is over: the index is at zero and no order is frozen.
BatteryOver == covered' = {} /\ order' = None /\ carried' = FALSE

\* The verdict of a slot is handed to _advance_core.
Advance(s, kind, complete) ==
  /\ core' = [s EXCEPT !.battery = 0]
  /\ testing' = FALSE
  /\ BatteryOver
  /\ verdict' = Verdict(kind, complete)

\* After a verdict the time budget may pause a search that is not confirmed.
Budget(pauses) ==
  \/ paused' = (paused \/ pauses)
  \/ core'.phase # "confirmed" /\ paused' = TRUE

\* The regimes that the order leaves behind the battery index: one of them is
\* the slot's.
Offered == IF testing THEN Wanted(core.phase) \ order ELSE {}

\* One regime passed and others are still to run at the same offset.
FinishRegime(r) ==
  /\ testing /\ core.battery + 1 < Cardinality(Wanted(core.phase))
  /\ core' = [core EXCEPT !.battery = @ + 1]
  /\ covered' = covered \cup {r} /\ order' = order \cup {r}
  /\ testing' = FALSE
  /\ LogPass(r)
  /\ verdict' = NoVerdict
  /\ UNCHANGED <<paused, carried>>

FinishPass(r) ==
  /\ testing /\ core.battery + 1 >= Cardinality(Wanted(core.phase))
  /\ LogPass(r)
  /\ Advance(PassOf(core.phase), "pass", Wanted(core.phase) \subseteq covered \cup {r})
  /\ Budget(PassPauses)

FinishFail(r) ==
  /\ testing
  /\ LogFail(core.current, proven[r])
  /\ LastOfStreak => streak' = 0
  /\ Advance(FailOf(core.phase), "fail", FALSE)
  /\ Budget(FailPauses)

\* _apparatus_suspect: too many failures in a row contradict a pass.  The core
\* advances with its battery index as it is, and the session pauses.
ApparatusFail(r) ==
  /\ testing /\ LastOfStreak /\ Reaches(proven[r], core.current)
  /\ Carry(FailOf(core.phase))
  /\ order' = Frozen(FailOf(core.phase))
  /\ testing' = FALSE /\ paused' = TRUE
  /\ streak' = Least(streak + 1, ApparatusStreak)
  /\ verdict' = Verdict("fail", FALSE)
  /\ UNCHANGED <<deepest, proven>>

\* No verdict: a thermal stop, an apparatus fault, or a load that did not start.
Inconclusive ==
  /\ testing
  /\ testing' = FALSE
  /\ paused' \in {paused, TRUE}
  /\ verdict' = NoVerdict
  /\ UNCHANGED <<core, deepest, proven, covered, streak, order, carried>>

\* A verdict that is logged and then dropped, with a pause: the baseline could not
\* be written back, or kernel evidence about another core pauses the session.
Dropped ==
  /\ testing
  /\ \E r \in Offered :
       \/ LogPass(r) /\ covered' = covered \cup {r}
       \/ LogFail(core.current, proven[r]) /\ UNCHANGED covered
  /\ testing' = FALSE /\ paused' = TRUE
  /\ verdict' = NoVerdict
  /\ UNCHANGED <<core, order, carried>>

-----------------------------------------------------------------------------
(* What the rest of the engine does to the core *)

Stepped == {"coarse_search", "fine_search", "confirming", "annealing"} \cup Backoff

\* A value of the core that can have been resident at a failure: its trial, or
\* what it holds while others are tested.
Resident == {Live, core.baseline} \cup (IF core.phase \in Stepped THEN {core.current} ELSE {})

Charge(crashed, steps) ==
  /\ core' = Penalty(crashed, steps)
  /\ verdict' = Verdict("charge", FALSE)
  /\ BatteryOver
  /\ testing' = FALSE
  /\ UNCHANGED <<paused, deepest, proven, streak>>

\* A hard crash, a hunt or a kernel error is charged to the core.  Stock is
\* never charged: every caller pauses on a failure at stock.
Charged ==
  \E crashed \in Resident \ {0}, steps \in {1, PenaltySteps} : Charge(crashed, steps)

\* _fail_unanswered_step: the machine died on the step and a hunt named nobody.
Unanswered ==
  /\ ~testing /\ ~paused /\ core.phase \in Stepped
  /\ Advance(FailOf(core.phase), "fail", FALSE)
  /\ paused' = FailPauses
  /\ UNCHANGED <<deepest, proven, streak>>

\* _backoff_core: the validation of the profile failed on this core.
ValidationFails ==
  /\ ~testing /\ ~paused /\ core.phase = "confirmed"
  /\ IF core.best = core.baseline
       THEN paused' = TRUE /\ UNCHANGED core
       ELSE /\ core' = [core EXCEPT !.best = FloorAtBaseline(@ - Fine),
                                    !.current = FloorAtBaseline(core.best - Fine)]
            /\ UNCHANGED paused
  /\ verdict' = NoVerdict
  /\ UNCHANGED <<testing, deepest, proven, covered, streak, order, carried>>

\* A slot of a hunt or of a validation stage is logged for the core.  Only the
\* endurance of a confirmed core runs under a regime.
OtherSlot ==
  /\ ~testing
  /\ \/ \E depth \in Resident :
          \/ deepest' = Deeper(deepest, depth) /\ streak' = 0 /\ UNCHANGED proven
          \/ LogFail(depth, deepest)
     \/ core.phase = "confirmed" /\ \E r \in Regimes : LogPass(r)
  /\ verdict' = NoVerdict
  /\ UNCHANGED <<core, testing, paused, covered, order, carried>>

\* _reconcile_confirmed_evidence: a confirmation that no logged pass backs is
\* earned again, from the deepest pass.
Reconciled(s) ==
  IF /\ s.phase = "confirmed" /\ s.best # s.baseline
     /\ ~Set(deepest) \/ s.best > deepest
    THEN LET rollback == IF Set(deepest) THEN deepest ELSE s.baseline
         IN  [s EXCEPT !.phase = "confirming", !.current = rollback, !.best = rollback,
                       !.tries = 0, !.fails = 0, !.failBound = None, !.passBound = None]
    ELSE s

Pause ==
  /\ ~paused /\ paused' = TRUE
  /\ verdict' = NoVerdict
  /\ UNCHANGED <<core, testing, deepest, proven, covered, streak, order, carried>>

\* The session goes on with s.  A process that restarted has no frozen order.
TakenUp(s) ==
  /\ Carry(s)
  /\ order' \in {Frozen(s), None}
  /\ testing' = FALSE /\ paused' = FALSE
  /\ UNCHANGED <<deepest, proven, streak>>

\* The operator resumes, or the process or the machine comes back.
Resume ==
  /\ testing \/ paused
  /\ TakenUp(Reconciled(core))
  /\ verdict' = NoVerdict

\* _reengage_quarantined: no offset stays beyond the last survived write.  The
\* quarantine wrote stock to every core, and the journal keeps one write per
\* core, so that is stock.
Pulled ==
  [core EXCEPT !.current = Least(@, 0), !.baseline = Least(@, 0),
               !.best = IF Set(@) THEN Least(@, 0) ELSE @]

\* A write failed for good, here or on another core; the session is quarantined
\* and an operator resumes it.
Reopen ==
  /\ ~StockSticks
  /\ TakenUp(Reconciled(Pulled))
  /\ verdict' = Verdict("reopened", FALSE)

Finish ==
  \E r \in Offered : FinishRegime(r) \/ FinishPass(r) \/ FinishFail(r) \/ ApparatusFail(r)

Slot == Dispatch \/ Anneal \/ Finish \/ Inconclusive \/ Dropped

Next == Slot \/ OtherSlot \/ Charged \/ Unanswered \/ ValidationFails \/ Pause \/ Resume
        \/ Reopen

Spec == Init /\ [][Next]_vars

-----------------------------------------------------------------------------
(* Properties *)

Deepest(S) == CHOOSE d \in S : \A e \in S : e <= d

Shallowest(S) == CHOOSE d \in S : \A e \in S : d <= e

Depths == Shallowest(Inherited \cup {Start, 0, Max})..Deepest(Inherited \cup {0, Max})

TypeOK ==
  /\ core \in [phase : Phase, current : Depths, baseline : Depths,
               best : Depths \cup {None}, coarseFail : Depths \cup {None},
               failBound : Depths \cup {None}, passBound : Depths \cup {None},
               tries : 0..(MaxTries + 1), fails : Nat,
               battery : 0..(Cardinality(Regimes) - 1), strikes : 0..(MaxStrikes + 1)]
  /\ testing \in BOOLEAN /\ paused \in BOOLEAN
  /\ deepest \in Depths \cup {None} /\ proven \in [Regimes -> Depths \cup {None}]
  /\ covered \subseteq Regimes
  /\ streak \in 0..ApparatusStreak /\ order \in SUBSET Regimes \cup {None}
  /\ carried \in BOOLEAN

\* A pass bound is always shallower than the fail bound, so the binary search
\* closes in on the edge (engine.py:1616-1622, 1960-1963).
BoundsOrdered ==
  Set(core.passBound) /\ Set(core.failBound) => core.passBound < core.failBound

\* A verdict PASS means that every regime of the battery passed at that offset,
\* whatever interrupted the battery, and although a restart makes its order
\* again from the log and from yields that have moved.  The one exception is an
\* index that another offset left behind (engine.py:1282-1308, 3823-3833).
PassIsComplete == verdict.kind = "pass" => verdict.complete \/ verdict.carried

\* What docs/tuner-state-spec.md:37-38 says: a PASS means that the current offset
\* passed every regime required for that slot.
PassCoversBattery == verdict.kind = "pass" => verdict.complete

\* What docs/tuner-state-spec.md:52-54 says: a fail resets the battery.
FailEmptiesBattery == verdict.kind = "fail" => core.battery = 0

\* No verdict, penalty or restart forgets how shallow the core has failed
\* (engine.py:1616-1622, 1960-1963).
FailBoundStands ==
  [][Set(core.failBound) => Reaches(core.failBound, core'.failBound)]_vars

\* A confirmation is always backed by a logged pass, so a resume never takes
\* one back unless the database was changed (engine.py:2110-2133).
ConfirmationIsBacked ==
  core.phase = "confirmed" => core.best = core.baseline \/ Reaches(deepest, core.best)

\* What engine.py:2241-2247 says: a quarantined session re-opens on the deepest
\* offset it survived, so what a logged pass proves is not taken away.
ReopensOnProvenGround ==
  [][verdict'.kind = "reopened" /\ Set(deepest) =>
       core'.current >= Least(core.current, deepest)]_vars
=============================================================================
