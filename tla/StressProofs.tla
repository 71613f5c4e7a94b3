---------------------------- MODULE StressProofs ----------------------------
(***************************************************************************)
(* What holds of a run of batches whatever payloads, sensors, the kernel    *)
(* and another thread do: a teardown that is confirmed leaves nothing        *)
(* alive, a recorded pass went through every phase, and a pass is earned.   *)
(***************************************************************************)
EXTENDS Stress, TLAPS, WellFoundedInduction

LaneRuns == [proc : {"none", "live", "dead"},
             code : {"none", "zero", "crash", "killed", "termed", "claimed", "ours"},
             verdict : Verdicts, gone : BOOLEAN, frozen : BOOLEAN,
             driven : BOOLEAN, ended : 0..Rounds, erred : BOOLEAN]

\* Where a batch is ...
Launching == {"heat", "launch", "spawn"}
Polling == {"poll", "mce", "errors", "exits", "faults", "wait", "finish"}
Ending == {"terminate", "classify", "returned"}

\* ... and the driver that runs batches in each mode.
InBatch == {"stressing", "segment", "batch", "loaded"}
Places(m) ==
  {"new", "over", "told"} \union
  CASE m = "cores" -> {"next", "settle", "stress", "stressing", "variable", "segment", "idle",
                       "record", "gap", "ended"}
    [] m = "parallel" -> {"batch"}
    [] m = "rapid" -> {"load", "loaded", "rest"}
    [] OTHER -> {"soak", "soaked"}

-----------------------------------------------------------------------------
(* The batch and the thread that tears it down. *)

\* Types of a batch, of its lanes and of a teardown.
BatchTypes ==
  /\ lanes \subseteq Cores /\ todo \subseteq lanes /\ at \in Launching \union Polling \union Ending
  /\ stop \in BOOLEAN /\ cut \in BOOLEAN /\ lock \in {"free", "worker", "closer"}
MachineTypes ==
  /\ mode \in Modes /\ duty \in BOOLEAN /\ age \in 0..Rounds
  /\ heat \in {"cool", "over", "tripped"} /\ read \subseteq logged /\ logged \subseteq Cpus
LaneTypes == run \in [Cores -> LaneRuns]
CloserTypes ==
  /\ snap \subseteq Cores
  /\ closer \in {"away", "set", "stopped", "again", "tearing", "refused", "confirmed"}

\* The worker holds the lock from its check of the stop event to the launch.
Locked ==
  /\ lock = "worker" <=> at = "spawn"
  /\ at = "spawn" => todo # {}

\* What is still to be launched has not run.
Unrun(r) == r.proc = "none" /\ r.code = "none" /\ r.verdict = "none" /\ ~r.gone /\ ~r.erred
Unstarted == at \in Launching => \A l \in todo : Unrun(run[l])

\* What is gone is dead.
GoneIsDead == \A l \in Cores : run[l].gone => run[l].proc = "dead"

\* The scheduler stays stopped under a teardown.
Torn == {"tearing", "refused", "confirmed"}
StaysStopped == closer \in Torn => stop

\* What the teardown has still to visit holds every payload that is alive, and
\* the one that is being launched.
Visits ==
  /\ closer = "tearing" => Live \subseteq snap /\ (at = "spawn" => todo \subseteq snap)
  /\ closer = "confirmed" => Live = {} /\ at # "spawn"

Batches ==
  /\ BatchTypes /\ MachineTypes /\ LaneTypes /\ CloserTypes
  /\ Locked /\ Unstarted /\ GoneIsDead /\ StaysStopped /\ Visits

\* An error the payload wrote stays in its file, and an error of the kernel that
\* was read fell on the lanes that answer for it.
Standing == {"none", "pass"}
ErredIsSpoilt == \A l \in lanes : run[l].erred => l \in spoilt
ReadIsJudged ==
  \A l \in lanes : run[l].verdict \in Standing => Covers(l) \intersect read \subseteq base

\* Why a batch may end.
SomeFailed == \E l \in lanes : Failed(l)
NoneRuns == \A l \in lanes : ~Running(l)
EndsFor ==
  /\ at = "finish" => stop \/ age = Rounds \/ SomeFailed \/ NoneRuns
  /\ at = "terminate" => cut \/ age = Rounds \/ SomeFailed \/ NoneRuns

\* How a leader ends that we killed or seem to have, and one that others did.
OurKills == {"ours", "claimed"}
Outside == {"killed", "termed"}

\* Without a teardown only the end of a batch kills, ...
OursIsLate ==
  closer \notin Torn =>
    \A l \in lanes :
      /\ run[l].code \in OurKills => run[l].proc = "dead"
      /\ run[l].code = "ours" =>
           /\ at \in Ending
           /\ run[l].verdict = "none" => cut \/ run[l].ended = Rounds \/ SomeFailed

\* ... and only its last step passes a lane that it killed; one whose end matches
\* a signal of ours may have passed before.
PassIsLast ==
  closer \notin Torn =>
    \A l \in lanes : run[l].verdict = "pass" =>
      /\ run[l].code \in OurKills /\ ~run[l].erred
      /\ run[l].code = "ours" => at = "returned" /\ (run[l].ended = Rounds \/ SomeFailed)

Earning == ErredIsSpoilt /\ ReadIsJudged /\ EndsFor /\ OursIsLate /\ PassIsLast

-----------------------------------------------------------------------------
(* The driver. *)

DriverTypes ==
  /\ pc \in Places(mode) /\ core \in Cores /\ passed \in Verdicts /\ left \subseteq Cores
  /\ results \in [Cores -> Verdicts]
  /\ Len(report) <= 1 /\ (pc # "told" => report = <<>>)

\* Between two batches there are no lanes.
Between == pc \notin InBatch => lanes = {} /\ at = "returned"

\* A teardown is of the core scheduler, and the state of a scheduler that has
\* yet to run tells whether stop returned.
Entering ==
  /\ closer \in {"again"} \union Torn => mode = "cores"
  /\ mode = "cores" /\ pc = "new" =>
       state = IF closer \in {"away", "set"} THEN "idle" ELSE "stopping"

\* A pass on its way to being recorded.
PassIsWhole == mode = "cores" /\ pc = "record" /\ passed = "pass" => core \in whole

Drives == DriverTypes /\ Between /\ Entering /\ RecordedPassIsWhole /\ PassIsWhole

\* The inductive invariant.
Inv == Batches /\ Drives /\ Earning

\* A set of naturals that is not empty has a least one.
LEMMA LeastNatural ==
  ASSUME NEW S \in SUBSET Nat, S # {}
  PROVE  \E x \in S : \A y \in S : x <= y
<1>1. PICK x \in S : \A y \in S : <<y, x>> \notin OpToRel(<, Nat)
  BY NatLessThanWellFounded, WFMin, Zenon
<1>2. \A y \in S : <<y, x>> \in Nat \X Nat /\ <<y, x>>[1] = y /\ <<y, x>>[2] = x
  OBVIOUS
<1>3. \A y \in S : ~(y < x)
  BY <1>1, <1>2, Zenon DEF OpToRel
<1> QED
  BY <1>3

USE CoresAssumption, BatchAssumption, DriverAssumption DEF OurKills, Outside

-----------------------------------------------------------------------------
(* The lowest of a set of cores, and what a termination makes of a lane. *)

\* A set of cores that is not empty has a lowest one.
LEMMA LowestIsOne ==
  ASSUME NEW S, S \subseteq Cores, S # {}
  PROVE  Lowest(S) \in S
<1>1. PICK x \in S : \A y \in S : x <= y
  BY LeastNatural
<1> QED
  BY <1>1 DEF Lowest

\* A termination that succeeds leaves nothing alive, keeps the verdict, and is the
\* end only of a leader that was alive: of a dead one it can match the signal.
LEMMA TerminatedLane ==
  ASSUME age \in 0..Rounds, NEW r \in LaneRuns, r.gone => r.proc = "dead",
         NEW s \in Terminated(r)
  PROVE  /\ s \in LaneRuns /\ s.verdict = r.verdict /\ s.erred = r.erred
         /\ s.proc = (IF r.proc = "none" THEN "none" ELSE "dead") /\ (s.gone => s.proc = "dead")
         /\ r.proc = "none" => s.gone = r.gone /\ s.code = r.code
         /\ r.proc # "live" => s.code = r.code \/ (r.code \in Outside /\ s.code = "claimed")
         /\ s.ended = IF r.proc = "live" THEN age ELSE r.ended
<1>1. CASE r.proc = "none" \/ r.gone
  <2>1. s = [r EXCEPT !.driven = FALSE, !.frozen = FALSE]
    BY <1>1, Zenon DEF Terminated
  <2>2. /\ s \in LaneRuns /\ s.verdict = r.verdict /\ s.erred = r.erred /\ s.proc = r.proc
        /\ s.gone = r.gone /\ s.code = r.code /\ s.ended = r.ended
    BY <2>1 DEF LaneRuns
  <2>3. r.proc \in {"none", "live", "dead"} /\ r.proc # "live"
    BY <1>1 DEF LaneRuns
  <2> QED
    BY <2>2, <2>3
<1>2. CASE ~(r.proc = "none" \/ r.gone)
  <2> DEFINE still == [r EXCEPT !.driven = FALSE, !.frozen = FALSE]
             codes == CASE r.proc = "live" -> {"ours"}
                        [] r.code \in {"killed", "termed"} -> {r.code, "claimed"}
                        [] OTHER -> {r.code}
  <2>1. PICK c \in codes : s = [still EXCEPT !.proc = "dead", !.gone = TRUE, !.code = c,
                                            !.ended = IF r.proc = "live" THEN age ELSE @]
    BY <1>2, Zenon DEF Terminated
  <2>2. /\ c \in {"none", "zero", "crash", "killed", "termed", "claimed", "ours"}
        /\ r.proc # "live" => c = r.code \/ (r.code \in Outside /\ c = "claimed")
    BY <2>1 DEF LaneRuns, Outside
  <2> HIDE DEF codes
  <2> QED
    BY <1>2, <2>1, <2>2, ZenonT(60) DEF LaneRuns
<1> QED
  BY <1>1, <1>2

\* One that fails costs the lane its verdict.
LEMMA BotchedLane ==
  ASSUME age \in 0..Rounds, NEW r \in LaneRuns, r.gone => r.proc = "dead",
         NEW s \in Botched(r)
  PROVE  /\ s \in LaneRuns /\ s.verdict = "startup" /\ s.erred = r.erred
         /\ r.proc # "none" /\ (s.gone => s.proc = "dead") /\ s.proc \in {r.proc, "dead"}
         /\ r.proc # "live" => s.code = r.code \/ (r.code \in Outside /\ s.code = "claimed")
         /\ s.proc = "live" => s.code = r.code
<1>1. CASE s = [r EXCEPT !.verdict = "startup", !.driven = FALSE, !.frozen = FALSE]
  BY <1>1 DEF Botched, LaneRuns, Verdicts, Failures, Soft
<1>2. CASE s \in {[x EXCEPT !.verdict = "startup"] : x \in Terminated(r)}
  <2>1. PICK x \in Terminated(r) : s = [x EXCEPT !.verdict = "startup"]
    BY <1>2
  <2>2. r.proc # "none"
    BY DEF Botched
  <2> QED
    BY <2>1, <2>2, TerminatedLane DEF LaneRuns, Verdicts, Failures, Soft
<1> QED
  BY <1>1, <1>2 DEF Botched

\* What is left of a lane that was torn down, well or badly.
LeftAs(r, s, ok) ==
  /\ s \in LaneRuns /\ s.erred = r.erred
  /\ s.verdict = IF ok THEN r.verdict ELSE "startup"
  /\ s.gone => s.proc = "dead"
  /\ IF r.proc = "none" THEN ok /\ s.proc = "none" /\ s.gone = r.gone /\ s.code = r.code
     ELSE s.proc \in IF ok THEN {"dead"} ELSE {r.proc, "dead"}
  /\ r.proc # "live" => s.code = r.code \/ (r.code \in Outside /\ s.code = "claimed")
  /\ s.proc = "live" => s.code = r.code
  /\ ok => s.ended = IF r.proc = "live" THEN age ELSE r.ended

\* TearDown changes one lane, and the stop event only for a batch that stops at
\* its first failure.
LEMMA TearDownLane ==
  ASSUME MachineTypes, LaneTypes, BatchTypes, GoneIsDead, NEW l \in Cores, NEW ok \in BOOLEAN, TearDown(l, ok)
  PROVE  /\ \E s \in LaneRuns : LeftAs(run[l], s, ok) /\ run' = [run EXCEPT ![l] = s]
         /\ stop' \in BOOLEAN /\ (stop => stop')
<1>1. run[l] \in LaneRuns /\ age \in 0..Rounds /\ stop \in BOOLEAN /\ (run[l].gone => run[l].proc = "dead")
  BY DEF MachineTypes, LaneTypes, BatchTypes, GoneIsDead
<1>2. CASE ok
  BY <1>1, <1>2, TerminatedLane DEF TearDown, LeftAs
<1>3. CASE ~ok
  BY <1>1, <1>3, BotchedLane DEF TearDown, LeftAs, StopOnFirst
<1> QED
  BY <1>2, <1>3

-----------------------------------------------------------------------------
(* Steps that change no more of a lane than its verdict, and that to a failure. *)

OnlyFails ==
  /\ LaneTypes'
  /\ \A l \in Cores :
       /\ run'[l].proc = run[l].proc /\ run'[l].code = run[l].code /\ run'[l].gone = run[l].gone
       /\ run'[l].ended = run[l].ended /\ run'[l].erred = run[l].erred
       /\ run'[l].verdict = run[l].verdict \/ (l \in lanes /\ run'[l].verdict \in Failures)

\* A verdict replaces nothing else of a lane's record.
LEMMA VerdictOnly ==
  ASSUME NEW r \in LaneRuns, NEW v \in Verdicts, NEW s, s = [r EXCEPT !.verdict = v]
  PROVE  /\ s \in LaneRuns /\ s.verdict = v
         /\ s.proc = r.proc /\ s.code = r.code /\ s.gone = r.gone
         /\ s.ended = r.ended /\ s.erred = r.erred
BY DEF LaneRuns

\* One lane of the batch gets a failure as its verdict (LaneRun.verdict).
LEMMA JudgeFails ==
  ASSUME BatchTypes, LaneTypes, NEW l \in lanes, NEW v \in Failures, Judge(l, v)
  PROVE  OnlyFails /\ run'[l].verdict = v
<1>1. /\ \A k \in Cores : run[k] \in LaneRuns /\ run'[k] = IF k = l THEN [run[l] EXCEPT !.verdict = v] ELSE run[k]
      /\ l \in Cores /\ v \in Verdicts
  BY DEF LaneTypes, BatchTypes, Judge, Verdicts
<1>2. LaneTypes'
  BY <1>1, VerdictOnly DEF LaneTypes, Judge
<1> QED
  BY <1>1, <1>2, VerdictOnly DEF OnlyFails

\* The kernel's errors fall on lanes that stand, and on none of those that stay
\* standing (_apply_mce_events).
LEMMA BlameFails ==
  ASSUME BatchTypes, MachineTypes, LaneTypes, NEW force \in BOOLEAN, NEW first \in BOOLEAN,
         Blame(force, first), lanes' = lanes, base' = base, mode' = mode
  PROVE  /\ OnlyFails /\ read' = logged /\ stop' \in BOOLEAN /\ (stop => stop')
         /\ run' # run => (SomeFailed)'
         /\ ReadIsJudged => ReadIsJudged'
<1> DEFINE new == logged \ read
           standing == {l \in lanes : run[l].verdict \in {"none", "pass"}}
           own == {l \in lanes : Covers(l) \intersect new # {}
                     /\ (l \in standing \/ (force /\ run[l].verdict \in Soft))}
           open == IF first THEN standing ELSE standing \ own
           anon == IF NoCpu \in new /\ open # {} THEN {Lowest(open)} ELSE {}
<1>1. anon \subseteq lanes /\ own \subseteq lanes
  <2>1. open \subseteq lanes /\ open \subseteq Cores
    BY DEF BatchTypes
  <2> HIDE DEF open
  <2>2. open # {} => Lowest(open) \in lanes
    BY <2>1, LowestIsOne
  <2> QED
    BY <2>2
<1>2. /\ read' = logged
      /\ run' = [l \in Cores |-> IF l \in anon THEN [run[l] EXCEPT !.verdict = "anon"]
                                 ELSE IF l \in own THEN [run[l] EXCEPT !.verdict = "mce"]
                                 ELSE run[l]]
      /\ stop' = (stop \/ anon # {} \/ (StopOnFirst /\ own # {}))
  BY DEF Blame
<1>3. \A l \in lanes : l \in standing /\ Covers(l) \intersect new # {} => l \in own
  OBVIOUS
<1>4. \A l \in lanes : run[l].verdict \in Standing <=> l \in standing
  BY DEF Standing
<1> HIDE DEF own, open, anon
<1>5. \A l \in Cores : run'[l] = IF l \in anon THEN [run[l] EXCEPT !.verdict = "anon"]
                                 ELSE IF l \in own THEN [run[l] EXCEPT !.verdict = "mce"]
                                 ELSE run[l]
  BY <1>2
<1>6. ASSUME NEW l \in Cores
      PROVE  /\ run'[l] \in LaneRuns
             /\ run'[l].proc = run[l].proc /\ run'[l].code = run[l].code
             /\ run'[l].gone = run[l].gone /\ run'[l].ended = run[l].ended
             /\ run'[l].erred = run[l].erred
             /\ IF l \in anon \union own THEN run'[l].verdict \in Failures ELSE run'[l] = run[l]
  <2>1. run[l] \in LaneRuns /\ "anon" \in Failures /\ "mce" \in Failures /\ Failures \subseteq Verdicts
    BY DEF LaneTypes, Failures, Verdicts
  <2>2. CASE l \in anon
    <3>1. run'[l] = [run[l] EXCEPT !.verdict = "anon"] /\ "anon" \in Verdicts
      BY <1>5, <2>1, <2>2
    <3> QED
      BY <2>1, <2>2, <3>1, VerdictOnly
  <2>3. CASE l \notin anon /\ l \in own
    <3>1. run'[l] = [run[l] EXCEPT !.verdict = "mce"] /\ "mce" \in Verdicts
      BY <1>5, <2>1, <2>3
    <3> QED
      BY <2>1, <2>3, <3>1, VerdictOnly
  <2>4. CASE l \notin anon /\ l \notin own
    BY <1>5, <2>1, <2>4
  <2> QED
    BY <2>2, <2>3, <2>4
<1>7. OnlyFails
  <2>1. LaneTypes'
    BY <1>2, <1>6 DEF LaneTypes
  <2> QED
    BY <1>1, <1>6, <2>1 DEF OnlyFails
<1>8. ASSUME run' # run
      PROVE  (SomeFailed)'
  <2>1. PICK l \in Cores : run'[l] # run[l]
    BY <1>2, <1>8 DEF LaneTypes
  <2>2. l \in lanes /\ run'[l].verdict \in Failures
    BY <1>1, <1>6, <2>1
  <2> QED
    BY <2>2 DEF SomeFailed, Failed
<1>9. ASSUME ReadIsJudged
      PROVE  ReadIsJudged'
  <2> SUFFICES ASSUME NEW l \in lanes, run'[l].verdict \in Standing
               PROVE  Covers(l) \intersect logged \subseteq base
    BY <1>2 DEF ReadIsJudged, Covers
  <2>1. l \notin anon /\ l \notin own /\ run'[l] = run[l]
    BY <1>6 DEF BatchTypes, Standing, Failures, Soft
  <2>2. Covers(l) \intersect new = {}
    BY <1>3, <1>4, <2>1
  <2>3. Covers(l) \intersect read \subseteq base
    BY <1>9, <2>1 DEF ReadIsJudged
  <2> QED
    BY <2>2, <2>3
<1> QED
  BY <1>2, <1>7, <1>8, <1>9 DEF BatchTypes

\* No lane that stands keeps its verdict when the kernel log cannot be read.
LEMMA MonitorLostFails ==
  ASSUME BatchTypes, LaneTypes, MonitorLost
  PROVE  OnlyFails /\ stop' = TRUE /\ read' = read
<1>1. \A l \in Cores : run'[l] = IF l \in lanes /\ run[l].verdict \in {"none", "pass"}
                                 THEN [run[l] EXCEPT !.verdict = "startup"] ELSE run[l]
  BY DEF MonitorLost
<1>2. LaneTypes'
  BY <1>1 DEF MonitorLost, LaneTypes, LaneRuns, Verdicts, Failures, Soft
<1> QED
  BY <1>1, <1>2 DEF MonitorLost, OnlyFails, LaneTypes, LaneRuns, Failures, Soft

\* A batch that is too hot fails its lowest open lane (_thermal_failed).
LEMMA OverheatsFails ==
  ASSUME BatchTypes, MachineTypes, LaneTypes, NEW next, Overheats(next)
  PROVE  OnlyFails /\ stop' = TRUE /\ at' = next /\ heat' \in {"cool", "over", "tripped"}
<1> DEFINE open == {l \in lanes : run[l].verdict = "none"}
<1>1. PICK t \in Readings :
        /\ Unbearable(t)
        /\ LET v == IF t = "none" /\ at = "heat" THEN "startup" ELSE "thermal"
           IN IF open = {} THEN UNCHANGED run ELSE Judge(Lowest(open), v)
  BY DEF Overheats
<1>2. stop' = TRUE /\ at' = next
  BY DEF Overheats, Go
<1>3. heat' \in {"cool", "over", "tripped"}
  BY <1>1 DEF Unbearable, HeatAfter, MachineTypes, Readings
<1>4. open \subseteq lanes /\ open \subseteq Cores
  BY DEF BatchTypes
<1> HIDE DEF open
<1>5. open # {} => Lowest(open) \in lanes
  BY <1>4, LowestIsOne
<1>6. OnlyFails
  <2>1. CASE open = {}
    BY <1>1, <2>1 DEF OnlyFails, LaneTypes
  <2>2. CASE open # {}
    BY <1>1, <1>5, <2>2, JudgeFails DEF Failures, Soft
  <2> QED
    BY <2>1, <2>2
<1> QED
  BY <1>2, <1>3, <1>6

\* A batch and what it has earned, after the step.
Kept == Batches' /\ Earning'

\* A step of the batch that only fails lanes keeps all but what it says of
\* the batch as a whole.
LEMMA FailingStep ==
  ASSUME Batches, Earning, OnlyFails, at # "returned",
         UNCHANGED <<mode, lanes, base, closer, snap>>,
         BatchTypes', MachineTypes', stop => stop', Locked', Unstarted',
         at' = "spawn" => ~stop,
         ErredIsSpoilt', ReadIsJudged', EndsFor',
         at \in Ending => at' \in Ending /\ cut' = cut
  PROVE  Kept
<1>1. LaneTypes' /\ CloserTypes' /\ GoneIsDead' /\ StaysStopped'
  BY DEF OnlyFails, Batches, CloserTypes, GoneIsDead, StaysStopped
<1>2. \A l \in lanes : l \in Cores
  BY DEF Batches, BatchTypes
<1>3. Live' = Live
  BY <1>2 DEF OnlyFails, Live
<1>4. Visits'
  BY <1>3 DEF Batches, Visits, StaysStopped, Torn
<1>5. OursIsLate' /\ PassIsLast'
  <2>1. SomeFailed => (SomeFailed)'
    BY <1>2 DEF SomeFailed, Failed, OnlyFails, Failures, Soft
  <2>2. \A l \in lanes : run'[l].verdict \in {"none", "pass"} => run[l].verdict = run'[l].verdict
    BY <1>2 DEF OnlyFails, Failures, Soft
  <2>3. OursIsLate'
    <3> SUFFICES ASSUME closer \notin Torn, NEW l \in lanes
                 PROVE  /\ run'[l].code \in OurKills => run'[l].proc = "dead"
                        /\ run'[l].code = "ours" =>
                             /\ at' \in Ending
                             /\ run'[l].verdict = "none" => cut' \/ run'[l].ended = Rounds \/ (SomeFailed)'
      BY DEF OursIsLate
    <3>1. run'[l].proc = run[l].proc /\ run'[l].code = run[l].code /\ run'[l].ended = run[l].ended
      BY <1>2 DEF OnlyFails
    <3>2. /\ run[l].code \in OurKills => run[l].proc = "dead"
          /\ run[l].code = "ours" =>
               /\ at \in Ending
               /\ run[l].verdict = "none" => cut \/ run[l].ended = Rounds \/ SomeFailed
      BY DEF Earning, OursIsLate
    <3> QED
      BY <2>1, <2>2, <3>1, <3>2
  <2>4. PassIsLast'
    <3> SUFFICES ASSUME closer \notin Torn, NEW l \in lanes, run'[l].verdict = "pass"
                 PROVE  run'[l].code = "claimed" /\ ~run'[l].erred
      BY DEF PassIsLast
    <3>1. run[l].verdict = "pass" /\ run'[l].code = run[l].code /\ run'[l].erred = run[l].erred
      BY <1>2, <2>2 DEF OnlyFails
    <3> QED
      BY <3>1 DEF Earning, PassIsLast
  <2> QED
    BY <2>3, <2>4
<1> QED
  BY <1>1, <1>4, <1>5 DEF Kept, Batches, Earning

USE DEF Stay, Quiet, Go

\* Nothing is launched before the first look at the temperature.
LEMMA HeatCheckKeeps ==
  ASSUME Batches, Earning, HeatCheck, UNCHANGED <<closer, snap>>
  PROVE  Kept
<1> USE DEF HeatCheck, Batches, BatchTypes, MachineTypes, Launching, Polling, Ending
<1>1. /\ OnlyFails /\ stop' \in BOOLEAN /\ (stop => stop') /\ heat' \in {"cool", "over", "tripped"}
      /\ (at' = "launch" /\ run' = run) \/ at' = "returned"
  <2>1. CASE Bearable /\ Go("launch") /\ UNCHANGED <<run, stop>>
    BY <2>1 DEF OnlyFails, LaneTypes, Bearable, HeatAfter, Readings
  <2>2. CASE Overheats("returned")
    BY <2>2, OverheatsFails
  <2> QED
    BY <2>1, <2>2
<1>2. BatchTypes' /\ MachineTypes' /\ Locked' /\ Unstarted'
  BY <1>1 DEF Locked, Unstarted
<1>3. ErredIsSpoilt' /\ ReadIsJudged' /\ EndsFor'
  BY <1>1 DEF Earning, ErredIsSpoilt, ReadIsJudged, EndsFor, OnlyFails, Standing, Failures, Soft, Covers
<1> QED
  BY <1>1, <1>2, <1>3, FailingStep

\* The stop event is read with the lock in hand.
LEMMA LaunchCheckKeeps ==
  ASSUME Batches, Earning, LaunchCheck, UNCHANGED <<closer, snap>>
  PROVE  Kept
<1> USE DEF LaunchCheck, LaunchUnless, Batches, BatchTypes, MachineTypes, Launching, Polling, Ending
<1>1. OnlyFails
  BY DEF OnlyFails, LaneTypes
<1>2. at' \in {"poll", "finish"} \/ (at' = "spawn" /\ ~stop)
  BY DEF AfterLaunches
<1>3. BatchTypes' /\ MachineTypes' /\ Locked' /\ Unstarted'
  BY <1>2 DEF Locked, Unstarted
<1>4. Lowest(todo) \in todo
  BY LowestIsOne
<1>5. ErredIsSpoilt' /\ ReadIsJudged'
  BY <1>4 DEF Earning, ErredIsSpoilt, ReadIsJudged, Prepare, Unstarted, Unrun, Covers
<1>6. EndsFor'
  BY <1>2 DEF EndsFor, AfterLaunches, NoneRuns, Running
<1> QED
  BY <1>1, <1>2, <1>3, <1>5, <1>6, FailingStep

\* The top of a poll.
LEMMA PollTopKeeps ==
  ASSUME Batches, Earning, PollTop, UNCHANGED <<closer, snap>>
  PROVE  Kept
<1> USE DEF PollTop, Batches, BatchTypes, MachineTypes, Launching, Polling, Ending
<1>1. OnlyFails /\ stop' \in {stop, TRUE} /\ heat' \in {"cool", "over", "tripped"}
      /\ (at' = "mce" \/ (at' = "finish" /\ stop'))
  <2>1. CASE ~Overheats("finish")
    BY <2>1 DEF OnlyFails, LaneTypes, Bearable, HeatAfter, Readings
  <2>2. CASE Overheats("finish")
    BY <2>2, OverheatsFails
  <2> QED
    BY <2>1, <2>2
<1>2. BatchTypes' /\ MachineTypes' /\ Locked' /\ Unstarted'
  BY <1>1 DEF Locked, Unstarted
<1>3. ErredIsSpoilt' /\ ReadIsJudged' /\ EndsFor'
  BY <1>1 DEF Earning, ErredIsSpoilt, ReadIsJudged, EndsFor, OnlyFails, Standing, Failures, Soft, Covers
<1> QED
  BY <1>1, <1>2, <1>3, FailingStep

\* The kernel log is read, or too soon after the last time to be read, or lost.
LEMMA PollMceKeeps ==
  ASSUME Batches, Earning, PollMce, UNCHANGED <<closer, snap>>
  PROVE  Kept
<1> USE DEF PollMce, Batches, BatchTypes, MachineTypes, Launching, Polling, Ending
<1>1. /\ OnlyFails /\ stop' \in BOOLEAN /\ (stop => stop') /\ read' \in {read, logged}
      /\ at' = "errors" \/ (at' = "finish" /\ (stop' \/ (SomeFailed)'))
      /\ ReadIsJudged => ReadIsJudged'
  <2>1. CASE Go("errors") /\ UNCHANGED <<run, stop, read>>
    BY <2>1 DEF OnlyFails, LaneTypes, ReadIsJudged, Covers
  <2>2. CASE \E first \in BOOLEAN : Blame(FALSE, first)
                                    /\ Go(IF run' = run THEN "errors" ELSE "finish")
    BY <2>2, BlameFails
  <2>3. CASE MonitorLost /\ Go("finish")
    BY <2>3, MonitorLostFails, ZenonT(60) DEF ReadIsJudged, OnlyFails, Standing, Failures, Soft, Covers
  <2> QED
    BY <2>1, <2>2, <2>3
<1>2. BatchTypes' /\ MachineTypes' /\ Locked' /\ Unstarted'
  BY <1>1 DEF Locked, Unstarted
<1>3. ErredIsSpoilt' /\ ReadIsJudged' /\ EndsFor'
  BY <1>1 DEF Earning, ErredIsSpoilt, EndsFor, OnlyFails
<1> QED
  BY <1>1, <1>2, <1>3, FailingStep

\* A results file names an error.
LEMMA PollErrorsKeeps ==
  ASSUME Batches, Earning, PollErrors, UNCHANGED <<closer, snap>>
  PROVE  Kept
<1> USE DEF PollErrors, Batches, BatchTypes, MachineTypes, Launching, Polling, Ending
<1> DEFINE bad == {l \in lanes \intersect spoilt : run[l].verdict = "none"}
<1>1. /\ OnlyFails /\ stop' \in BOOLEAN /\ (stop => stop')
      /\ at' = "exits" \/ (at' = "finish" /\ (SomeFailed)')
  <2>1. CASE Go("exits") /\ UNCHANGED <<run, stop>>
    BY <2>1 DEF OnlyFails, LaneTypes
  <2>2. CASE bad # {} /\ Fail(Lowest(bad), "error") /\ Go(IF StopOnFirst THEN "finish" ELSE "exits")
    <3>1. bad \subseteq lanes /\ bad \subseteq Cores
      OBVIOUS
    <3> HIDE DEF bad
    <3>2. Lowest(bad) \in lanes /\ "error" \in Failures
      BY <2>2, <3>1, LowestIsOne DEF Failures
    <3>3. OnlyFails /\ run'[Lowest(bad)].verdict = "error"
      BY <2>2, <3>2, JudgeFails DEF Fail
    <3> QED
      BY <2>2, <3>2, <3>3, ZenonT(60) DEF Fail, StopOnFirst, SomeFailed, Failed
  <2> QED
    BY <2>1, <2>2
<1>2. BatchTypes' /\ MachineTypes' /\ Locked' /\ Unstarted'
  BY <1>1 DEF Locked, Unstarted
<1>3. ErredIsSpoilt' /\ ReadIsJudged' /\ EndsFor'
  BY <1>1 DEF Earning, ErredIsSpoilt, ReadIsJudged, EndsFor, OnlyFails, Standing, Failures, Soft, Covers
<1> QED
  BY <1>1, <1>2, <1>3, FailingStep

\* A running lane is outside its containment, or stalls.
LEMMA PollFaultKeeps ==
  ASSUME Batches, Earning, PollFault, UNCHANGED <<closer, snap>>
  PROVE  Kept
<1> USE DEF PollFault, Batches, BatchTypes, MachineTypes, Launching, Polling, Ending
<1>1. /\ OnlyFails /\ stop' \in BOOLEAN /\ (stop => stop')
      /\ at' = "wait" \/ (at' = "finish" /\ (SomeFailed)')
  <2>1. CASE Go("wait") /\ UNCHANGED <<run, stop>>
    BY <2>1 DEF OnlyFails, LaneTypes
  <2>2. CASE \E l \in lanes : ContainmentFault(l) \/ Stall(l)
    <3>1. PICK l \in lanes, v \in {"startup", "stall"} :
            Fail(l, v) /\ (at' = "finish" \/ at' = "wait")
      BY <2>2 DEF ContainmentFault, Stall
    <3>2. OnlyFails /\ run'[l].verdict = v
      BY <3>1, JudgeFails DEF Fail, Failures, Soft
    <3> QED
      BY <3>1, <3>2 DEF Fail, StopOnFirst, SomeFailed, Failed, Failures, Soft
  <2> QED
    BY <2>1, <2>2
<1>2. BatchTypes' /\ MachineTypes' /\ Locked' /\ Unstarted'
  BY <1>1 DEF Locked, Unstarted
<1>3. ErredIsSpoilt' /\ ReadIsJudged' /\ EndsFor'
  BY <1>1 DEF Earning, ErredIsSpoilt, ReadIsJudged, EndsFor, OnlyFails, Standing, Failures, Soft, Covers
<1> QED
  BY <1>1, <1>2, <1>3, FailingStep

\* The deadline, or another round.
LEMMA PollWaitKeeps ==
  ASSUME Batches, Earning, PollWait, UNCHANGED <<closer, snap>>
  PROVE  Kept
<1> USE DEF PollWait, Batches, BatchTypes, MachineTypes, Launching, Polling, Ending
<1>1. OnlyFails
  BY DEF OnlyFails, LaneTypes
<1>2. BatchTypes' /\ MachineTypes' /\ Locked' /\ Unstarted'
  BY DEF Locked, Unstarted
<1>3. ErredIsSpoilt' /\ ReadIsJudged' /\ EndsFor'
  BY DEF Earning, ErredIsSpoilt, ReadIsJudged, EndsFor, Covers
<1> QED
  BY <1>1, <1>2, <1>3, FailingStep

\* The batch is over, in time or cut short.
LEMMA FinishKeeps ==
  ASSUME Batches, Earning, Finish, UNCHANGED <<closer, snap>>
  PROVE  Kept
<1> USE DEF Finish, Batches, BatchTypes, MachineTypes, Launching, Polling, Ending
<1>1. OnlyFails
  BY DEF OnlyFails, LaneTypes
<1>2. BatchTypes' /\ MachineTypes' /\ Locked' /\ Unstarted'
  BY DEF Locked, Unstarted
<1>3. ErredIsSpoilt' /\ ReadIsJudged'
  BY DEF Earning, ErredIsSpoilt, ReadIsJudged, Covers
<1>4. EndsFor'
  BY DEF Earning, EndsFor, SomeFailed, NoneRuns, Running, Failed
<1> QED
  BY <1>1, <1>2, <1>3, <1>4, FailingStep

\* The last read of the kernel log.
LEMMA LateMceKeeps ==
  ASSUME Batches, Earning, LateMce, UNCHANGED <<closer, snap>>
  PROVE  Kept
<1> USE DEF LateMce, Batches, BatchTypes, MachineTypes, Launching, Polling, Ending
<1>1. /\ OnlyFails /\ stop' \in BOOLEAN /\ (stop => stop') /\ read' \in {read, logged}
      /\ ReadIsJudged => ReadIsJudged'
  <2>1. CASE \E first \in BOOLEAN : Blame(TRUE, first)
    BY <2>1, BlameFails
  <2>2. CASE MonitorLost
    BY <2>2, MonitorLostFails, ZenonT(60) DEF ReadIsJudged, OnlyFails, Standing, Failures, Soft, Covers
  <2> QED
    BY <2>1, <2>2
<1>2. BatchTypes' /\ MachineTypes' /\ Locked' /\ Unstarted'
  BY <1>1 DEF Locked, Unstarted
<1>3. ErredIsSpoilt' /\ ReadIsJudged' /\ EndsFor'
  BY <1>1 DEF Earning, ErredIsSpoilt, EndsFor, OnlyFails
<1> QED
  BY <1>1, <1>2, <1>3, FailingStep

\* A launch is refused: the lane fails, and lives only if its duty driver was
\* what could not start.
LEMMA LaunchRefusedKeeps ==
  ASSUME Batches, Earning, LaunchRefused, UNCHANGED <<closer, snap>>
  PROVE  Kept
<1> USE DEF LaunchRefused, Refusal, Batches, BatchTypes, MachineTypes, Launching, Polling, Ending
<1> DEFINE l == Lowest(todo)
<1>1. l \in todo /\ l \in lanes /\ l \in Cores /\ run[l] \in LaneRuns
  BY LowestIsOne DEF LaneTypes
<1> HIDE DEF l
<1>2. PICK p \in {"none", "live"} :
        /\ run' = [run EXCEPT ![l].proc = p, ![l].verdict = "startup"]
        /\ p = "live" => at = "spawn"
  BY DEF l
<1>3. at' \in {"poll", "finish"} /\ (at' = "finish" => (NoneRuns)')
  BY DEF AfterLaunches, NoneRuns, Running
<1>4. /\ run'[l] \in LaneRuns /\ run'[l].proc = p /\ run'[l].code = "none"
      /\ run'[l].verdict = "startup" /\ ~run'[l].gone /\ ~run'[l].erred
      /\ \A k \in Cores : k # l => run'[k] = run[k]
  BY <1>1, <1>2 DEF LaneTypes, LaneRuns, Unstarted, Unrun, Verdicts, Failures, Soft
<1>5. LaneTypes'
  BY <1>1, <1>2, <1>4 DEF LaneTypes
<1>6. BatchTypes' /\ MachineTypes' /\ Locked' /\ CloserTypes' /\ StaysStopped'
  BY <1>3 DEF Locked, CloserTypes, StaysStopped
<1>7. Unstarted' /\ GoneIsDead'
  <2>1. Unstarted'
    BY <1>3, <1>4 DEF Unstarted
  <2>2. GoneIsDead'
    BY <1>4, ZenonT(60) DEF GoneIsDead
  <2> QED
    BY <2>1, <2>2
<1>8. Visits'
  <2>1. Live' \subseteq Live \union (IF at = "spawn" THEN {l} ELSE {})
    BY <1>2, <1>4, ZenonT(60) DEF Live
  <2> QED
    BY <1>1, <1>3, <2>1 DEF Visits
<1>9. Earning'
  <2>1. ErredIsSpoilt' /\ ReadIsJudged' /\ EndsFor'
    BY <1>3, <1>4 DEF Earning, ErredIsSpoilt, ReadIsJudged, EndsFor, Standing, Covers
  <2>2. OursIsLate' /\ PassIsLast'
    BY <1>3, <1>4, ZenonT(60) DEF Earning, OursIsLate, PassIsLast
  <2> QED
    BY <2>1, <2>2 DEF Earning
<1> QED
  BY <1>5, <1>6, <1>7, <1>8, <1>9 DEF Kept

\* A payload is launched: under a teardown, one it has still to visit.
LEMMA SpawnKeeps ==
  ASSUME Batches, Earning, Spawn, UNCHANGED <<closer, snap>>
  PROVE  Kept
<1> USE DEF Spawn, Batches, BatchTypes, MachineTypes, Launching, Polling, Ending
<1> DEFINE l == Lowest(todo)
<1>1. l \in todo /\ l \in lanes /\ l \in Cores /\ run[l] \in LaneRuns
  BY LowestIsOne DEF LaneTypes, Locked
<1> HIDE DEF l
<1>2. /\ run' = [run EXCEPT ![l].proc = "live", ![l].driven = duty]
      /\ todo' = todo \ {l}
  BY DEF l
<1>3. /\ at' \in {"launch", "poll", "finish"}
      /\ at' = "finish" => (NoneRuns)'
  BY DEF AfterLaunches, NoneRuns, Running
<1>4. /\ run'[l] \in LaneRuns /\ run'[l].proc = "live" /\ run'[l].code = "none"
      /\ run'[l].verdict = "none" /\ ~run'[l].gone /\ ~run'[l].erred
      /\ \A k \in Cores : k # l => run'[k] = run[k]
  BY <1>1, <1>2 DEF LaneTypes, LaneRuns, Unstarted, Unrun
<1>5. LaneTypes'
  BY <1>1, <1>2, <1>4 DEF LaneTypes
<1>6. BatchTypes' /\ MachineTypes' /\ Locked' /\ CloserTypes' /\ StaysStopped'
  BY <1>2, <1>3 DEF Locked, CloserTypes, StaysStopped
<1>7. Unstarted' /\ GoneIsDead'
  <2>1. Unstarted'
    BY <1>2, <1>3, <1>4 DEF Unstarted
  <2>2. GoneIsDead'
    BY <1>4, ZenonT(60) DEF GoneIsDead
  <2> QED
    BY <2>1, <2>2
<1>8. Visits'
  <2>1. Live' \subseteq Live \union {l}
    BY <1>4 DEF Live
  <2> QED
    BY <1>1, <1>3, <2>1 DEF Visits
<1>9. Earning'
  <2>1. run[l].verdict = "none"
    BY <1>1 DEF Unstarted, Unrun
  <2>2. ErredIsSpoilt' /\ ReadIsJudged' /\ EndsFor'
    BY <1>1, <1>3, <1>4, <2>1, ZenonT(60)
    DEF Earning, ErredIsSpoilt, ReadIsJudged, EndsFor, Standing, Covers
  <2>3. OursIsLate' /\ PassIsLast'
    BY <1>3, <1>4, ZenonT(60) DEF Earning, OursIsLate, PassIsLast
  <2> QED
    BY <2>2, <2>3 DEF Earning
<1> QED
  BY <1>5, <1>6, <1>7, <1>8, <1>9 DEF Kept

\* A lane that was torn down, by whom it may be, disturbs nothing of the others.
LEMMA TearDownKeeps ==
  ASSUME Batches, NEW l \in Cores, NEW s \in LaneRuns, NEW ok \in BOOLEAN,
         LeftAs(run[l], s, ok), run' = [run EXCEPT ![l] = s], lanes' = lanes
  PROVE  /\ LaneTypes' /\ GoneIsDead' /\ Live' \subseteq Live
         /\ run'[l] = s /\ \A k \in Cores : k # l => run'[k] = run[k]
         /\ ok \/ s.gone => l \notin Live'
<1> USE DEF Batches, BatchTypes, MachineTypes
<1>1. run'[l] = s /\ \A k \in Cores : k # l => run'[k] = run[k]
  BY DEF LaneTypes
<1>2. LaneTypes' /\ GoneIsDead'
  BY <1>1 DEF LaneTypes, GoneIsDead, LeftAs
<1>3. s.proc = "live" => run[l].proc = "live"
  BY DEF LeftAs, LaneRuns, LaneTypes
<1>4. Live' \subseteq Live /\ (ok => l \notin Live') /\ (s.gone => l \notin Live')
  BY <1>1, <1>3 DEF Live, LeftAs
<1> QED
  BY <1>1, <1>2, <1>4

\* What a payload left decides the verdict: a pass is of a payload that wrote no
\* error and that we killed, or so it seems (_classify_completed).
LEMMA ClassifiedLane ==
  ASSUME NEW l \in Cores, NEW r \in LaneRuns, NEW cutShort \in BOOLEAN
  PROVE  /\ Classified(l, r, cutShort) \in Failures \union {"none", "pass"}
         /\ Classified(l, r, cutShort) = "pass" => r.code \in OurKills /\ l \notin spoilt /\ ~cutShort
         /\ Classified(l, r, cutShort) = "none" => cutShort /\ r.code \in OurKills
BY DEF Classified, ClassifiedByExit, Failures, Soft, LaneRuns, OurKills

\* A lane that exited by itself is torn down and judged.
LEMMA PollExitKeeps ==
  ASSUME Batches, Earning, PollExit, UNCHANGED <<closer, snap>>
  PROVE  Kept
<1> USE DEF PollExit, Batches, BatchTypes, MachineTypes, Launching, Polling, Ending
<1> DEFINE over == {l \in lanes : run[l].verdict = "none" /\ run[l].proc = "dead"}
           l == Lowest(over)
<1>1. CASE over = {}
  <2>1. OnlyFails
    BY <1>1 DEF OnlyFails, LaneTypes
  <2>2. BatchTypes' /\ MachineTypes' /\ Locked' /\ Unstarted' /\ at # "returned" /\ at' # "spawn"
    BY <1>1 DEF Locked, Unstarted
  <2>3. ErredIsSpoilt' /\ ReadIsJudged' /\ EndsFor'
    BY <1>1 DEF Earning, ErredIsSpoilt, ReadIsJudged, EndsFor, Covers, NoneRuns, Running
  <2> QED
    BY <1>1, <2>1, <2>2, <2>3, FailingStep
<1>2. CASE over # {}
  <2>1. over \subseteq lanes /\ over \subseteq Cores
    OBVIOUS
  <2>2. l \in over
    BY <1>2, <2>1, LowestIsOne
  <2>3. \/ \E r \in Terminated(run[l]) :
              LET v == Classified(l, r, FALSE)
              IN /\ run' = [run EXCEPT ![l] = [r EXCEPT !.verdict = v]]
                 /\ Go(IF v # "pass" /\ StopOnFirst THEN "finish" ELSE "exits")
                 /\ UNCHANGED stop
        \/ TearDown(l, FALSE) /\ Go(IF StopOnFirst THEN "finish" ELSE "exits")
    BY <1>2
  <2>4. l \in lanes /\ l \in Cores /\ run[l].verdict = "none" /\ run[l].proc = "dead"
    BY <2>1, <2>2
  <2> HIDE DEF l
  <2>5. run[l] \in LaneRuns /\ (run[l].gone => run[l].proc = "dead")
    BY <2>4 DEF LaneTypes, GoneIsDead
  \* Either way the lane is dead, and failed unless the kill seems to be ours.
  <2>6. PICK s \in LaneRuns :
          /\ run' = [run EXCEPT ![l] = s]
          /\ s.proc = "dead" /\ s.erred = run[l].erred /\ s.verdict \in Failures \union {"pass"}
          /\ s.code = "ours" => run[l].code = "ours"
          /\ s.verdict = "pass" => s.code \in OurKills /\ l \notin spoilt
          /\ stop' \in BOOLEAN /\ (stop => stop')
          /\ at' = "exits" \/ (at' = "finish" /\ s.verdict \in Failures)
    <3>1. CASE TearDown(l, FALSE) /\ Go(IF StopOnFirst THEN "finish" ELSE "exits")
      <4>1. /\ stop' \in BOOLEAN /\ (stop => stop')
            /\ \E s \in LaneRuns : LeftAs(run[l], s, FALSE) /\ run' = [run EXCEPT ![l] = s]
        BY <2>4, <3>1, TearDownLane
      <4>2. PICK s \in LaneRuns : LeftAs(run[l], s, FALSE) /\ run' = [run EXCEPT ![l] = s]
        BY <4>1
      <4>3. /\ s.proc = "dead" /\ s.erred = run[l].erred /\ s.verdict = "startup"
            /\ s.code = "ours" => run[l].code = "ours"
        BY <2>4, <4>2 DEF LeftAs
      <4>4. "startup" \in Failures /\ "startup" # "pass" /\ at' \in {"finish", "exits"}
        BY <3>1 DEF Failures, Soft
      <4> QED
        BY <4>1, <4>2, <4>3, <4>4, ZenonT(60)
    <3>2. ASSUME NEW r \in Terminated(run[l]),
                 run' = [run EXCEPT ![l] = [r EXCEPT !.verdict = Classified(l, r, FALSE)]],
                 Go(IF Classified(l, r, FALSE) # "pass" /\ StopOnFirst THEN "finish" ELSE "exits"),
                 UNCHANGED stop
          PROVE  \E s \in LaneRuns :
                   /\ run' = [run EXCEPT ![l] = s]
                   /\ s.proc = "dead" /\ s.erred = run[l].erred /\ s.verdict \in Failures \union {"pass"}
                   /\ s.code = "ours" => run[l].code = "ours"
                   /\ s.verdict = "pass" => s.code \in OurKills /\ l \notin spoilt
                   /\ stop' \in BOOLEAN /\ (stop => stop')
                   /\ at' = "exits" \/ (at' = "finish" /\ s.verdict \in Failures)
      <4> DEFINE v == Classified(l, r, FALSE)
                 s == [r EXCEPT !.verdict = v]
      <4>1. /\ r \in LaneRuns /\ r.proc = "dead" /\ r.erred = run[l].erred
            /\ r.code = "ours" => run[l].code = "ours"
        BY <2>4, <2>5, TerminatedLane
      <4>2. v \in Failures \union {"pass"} /\ (v = "pass" => r.code \in OurKills /\ l \notin spoilt) /\ v \in Verdicts
        BY <2>4, <4>1, ClassifiedLane, ZenonT(60) DEF Verdicts
      <4>3. run' = [run EXCEPT ![l] = s] /\ (at' = "exits" \/ (at' = "finish" /\ v # "pass"))
        BY <3>2
      <4> HIDE DEF v
      <4>4. /\ s \in LaneRuns /\ s.verdict = v
            /\ s.proc = r.proc /\ s.code = r.code /\ s.erred = r.erred
        BY <4>1, <4>2, VerdictOnly
      <4> HIDE DEF s
      <4> QED
        BY <3>2, <4>1, <4>2, <4>3, <4>4, ZenonT(60)
    <3>3. CASE \E r \in Terminated(run[l]) :
              LET v == Classified(l, r, FALSE)
              IN /\ run' = [run EXCEPT ![l] = [r EXCEPT !.verdict = v]]
                 /\ Go(IF v # "pass" /\ StopOnFirst THEN "finish" ELSE "exits")
                 /\ UNCHANGED stop
      BY <3>2, <3>3
    <3> QED
      BY <2>3, <3>1, <3>3
  <2>7. run'[l] = s /\ \A k \in Cores : k # l => run'[k] = run[k]
    BY <2>4, <2>6 DEF LaneTypes
  <2>8. LaneTypes' /\ GoneIsDead'
    BY <2>6, <2>7, ZenonT(60) DEF LaneTypes, GoneIsDead
  <2>9. BatchTypes' /\ MachineTypes' /\ Locked' /\ CloserTypes' /\ StaysStopped' /\ Unstarted'
    BY <2>6 DEF Locked, CloserTypes, StaysStopped, Unstarted
  <2>10. Visits'
    BY <2>6, <2>7 DEF Visits, Live
  <2>11. Earning'
    <3>1. run[l].code # "ours" \/ closer \in Torn
      BY <2>4 DEF Earning, OursIsLate
    <3>2. ErredIsSpoilt' /\ ReadIsJudged' /\ EndsFor'
      BY <2>4, <2>6, <2>7
      DEF Earning, ErredIsSpoilt, ReadIsJudged, EndsFor, Standing, Covers, SomeFailed, Failed
    <3>3. OursIsLate'
      <4> SUFFICES ASSUME closer \notin Torn, NEW k \in lanes
                   PROVE  run'[k].code # "ours" /\ (run'[k].code \in OurKills => run'[k].proc = "dead")
        BY DEF OursIsLate
      <4>1. CASE k = l
        BY <2>6, <2>7, <3>1, <4>1
      <4>2. CASE k # l
        BY <2>7, <4>2 DEF Earning, OursIsLate
      <4> QED
        BY <4>1, <4>2
    <3>4. PassIsLast'
      <4> SUFFICES ASSUME closer \notin Torn, NEW k \in lanes, run'[k].verdict = "pass"
                   PROVE  run'[k].code = "claimed" /\ ~run'[k].erred
        BY DEF PassIsLast
      <4>1. CASE k = l
        <5>1. s.code \in OurKills /\ s.code # "ours" /\ l \notin spoilt /\ s.erred = run[l].erred
          BY <2>6, <2>7, <3>1, <4>1
        <5> QED
          BY <2>4, <2>7, <4>1, <5>1 DEF Earning, ErredIsSpoilt
      <4>2. CASE k # l
        BY <2>7, <4>2 DEF Earning, PassIsLast
      <4> QED
        BY <4>1, <4>2
    <3> QED
      BY <3>2, <3>3, <3>4 DEF Earning
  <2> QED
    BY <2>8, <2>9, <2>10, <2>11 DEF Kept
<1> QED
  BY <1>1, <1>2

\* The lanes of an ending batch are killed.
LEMMA TerminateKeeps ==
  ASSUME Batches, Earning, Terminate, UNCHANGED <<closer, snap>>
  PROVE  Kept
<1> USE DEF Terminate
<1> DEFINE l == Lowest(todo)
<1>1. l \in todo /\ l \in lanes /\ l \in Cores /\ run[l] \in LaneRuns
  BY LowestIsOne DEF Batches, BatchTypes, LaneTypes
<1> HIDE DEF l
<1>2. PICK ok \in BOOLEAN : TearDown(l, ok)
  BY DEF l
<1>3. PICK s \in LaneRuns : LeftAs(run[l], s, ok) /\ run' = [run EXCEPT ![l] = s]
  BY <1>1, <1>2, TearDownLane DEF Batches
<1>4. stop' \in BOOLEAN /\ (stop => stop') /\ todo' = todo \ {l}
  BY <1>1, <1>2, TearDownLane, ZenonT(60) DEF l, Batches
<1>5. /\ LaneTypes' /\ GoneIsDead' /\ Live' \subseteq Live
      /\ run'[l] = s /\ \A k \in Cores : k # l => run'[k] = run[k]
  <2>1. lanes' = lanes
    OBVIOUS
  <2> HIDE DEF Terminate
  <2>2. /\ Batches /\ l \in Cores /\ s \in LaneRuns /\ ok \in BOOLEAN
        /\ LeftAs(run[l], s, ok) /\ run' = [run EXCEPT ![l] = s] /\ lanes' = lanes
    BY <1>1, <1>3, <2>1
  <2>3. /\ LaneTypes' /\ GoneIsDead' /\ Live' \subseteq Live
        /\ run'[l] = s /\ \A k \in Cores : k # l => run'[k] = run[k]
        /\ ok \/ s.gone => l \notin Live'
    BY <2>2, TearDownKeeps, ZenonT(60)
  <2> QED
    BY <2>3
<1> USE DEF Batches, BatchTypes, MachineTypes, Launching, Polling, Ending
<1>6. BatchTypes' /\ MachineTypes' /\ Locked' /\ Unstarted' /\ CloserTypes' /\ StaysStopped' /\ Visits'
  BY <1>4, <1>5, ZenonT(60) DEF Locked, Unstarted, CloserTypes, StaysStopped, Visits
<1>7. Earning'
  <2>1. SomeFailed => (SomeFailed)'
    BY <1>3, <1>5 DEF SomeFailed, Failed, LeftAs, Failures, Soft
  <2>2. NoneRuns => (NoneRuns)'
    BY <1>3, <1>5 DEF NoneRuns, Running, LeftAs
  <2>3. ErredIsSpoilt' /\ ReadIsJudged' /\ EndsFor'
    BY <1>3, <1>5, <2>1, <2>2
    DEF Earning, ErredIsSpoilt, ReadIsJudged, EndsFor, Standing, Covers, LeftAs
  <2>4. ASSUME closer \notin Torn, s.code \in OurKills
        PROVE  /\ s.proc = "dead"
               /\ s.code = "ours" /\ s.verdict = "none" => cut \/ s.ended = Rounds \/ (SomeFailed)'
    <3>1. CASE run[l].proc = "live"
      BY <1>1, <1>3, <2>1, <2>4, <3>1
      DEF Earning, EndsFor, OursIsLate, LeftAs, NoneRuns, Running
    <3>2. CASE run[l].proc # "live"
      <4>1. run[l].code \in OurKills => run[l].proc = "dead"
        BY <1>1, <2>4 DEF Earning, OursIsLate
      <4>2. run[l].proc \in {"none", "dead"} /\ s.proc \in {"none", "live", "dead"}
        BY <1>1, <3>2 DEF LaneRuns
      <4>3. s.proc = "dead"
        BY <1>3, <2>4, <3>2, <4>1, <4>2 DEF LeftAs
      <4>4. ASSUME s.code = "ours", s.verdict = "none"
            PROVE  cut \/ s.ended = Rounds \/ (SomeFailed)'
        <5>1. run[l].code = "ours" /\ run[l].verdict = "none" /\ s.ended = run[l].ended
          BY <1>3, <3>2, <4>4 DEF LeftAs
        <5> QED
          BY <1>1, <2>1, <2>4, <5>1 DEF Earning, OursIsLate
      <4> QED
        BY <4>3, <4>4
    <3> QED
      BY <3>1, <3>2
  <2>5. OursIsLate'
    BY <1>5, <2>1, <2>4 DEF Earning, OursIsLate
  <2>6. PassIsLast'
    <3> SUFFICES ASSUME closer \notin Torn, NEW k \in lanes, run'[k].verdict = "pass"
                 PROVE  run'[k].code = "claimed" /\ ~run'[k].erred
      BY DEF PassIsLast
    <3>1. CASE k = l
      <4>1. run[l].verdict = "pass" /\ s.erred = run[l].erred
        BY <1>3, <1>5, <3>1 DEF LeftAs
      <4>2. run[l].code = "claimed" /\ ~run[l].erred /\ run[l].proc = "dead"
        BY <1>1, <4>1 DEF Earning, OursIsLate, PassIsLast
      <4>3. s.code = "claimed"
        BY <1>3, <4>2 DEF LeftAs
      <4> QED
        BY <1>5, <3>1, <4>1, <4>2, <4>3
    <3>2. CASE k # l
      BY <1>5, <3>2 DEF Earning, PassIsLast
    <3> QED
      BY <3>1, <3>2
  <2> QED
    BY <2>3, <2>5, <2>6 DEF Earning
<1> QED
  BY <1>5, <1>6, <1>7 DEF Kept

\* What is left of the lanes without a verdict is judged.
LEMMA ClassifyKeeps ==
  ASSUME Batches, Earning, Classify, UNCHANGED <<closer, snap>>
  PROVE  Kept
<1> USE DEF Classify
<1>1. ASSUME NEW l \in Cores
      PROVE  /\ run'[l] \in LaneRuns /\ run'[l].proc = run[l].proc /\ run'[l].code = run[l].code
             /\ run'[l].gone = run[l].gone /\ run'[l].ended = run[l].ended /\ run'[l].erred = run[l].erred
             /\ run[l].verdict \in Failures => run'[l].verdict = run[l].verdict
             /\ run'[l].verdict \in Standing => run[l].verdict \in Standing
             /\ l \in lanes /\ run[l].verdict = "none" /\ run'[l].verdict = "pass"
                  => run[l].code \in OurKills /\ l \notin spoilt /\ ~cut
             /\ run'[l].verdict = "none" => run[l].verdict = "none" \/ cut
  <2> DEFINE v == Classified(l, run[l], cut /\ run[l].verdict = "none")
  <2>1. run[l] \in LaneRuns
    BY DEF Batches, LaneTypes
  <2>2. /\ v \in Failures \union {"none", "pass"} /\ v \in Verdicts
        /\ v = "pass" => run[l].code \in OurKills /\ l \notin spoilt /\ ~(cut /\ run[l].verdict = "none")
        /\ v = "none" => cut /\ run[l].verdict = "none"
    BY <2>1, ClassifiedLane DEF Verdicts
  <2>3. CASE l \in lanes /\ run[l].proc # "none" /\ run[l].verdict \in {"none", "pass"}
    <3>1. run'[l] = [run[l] EXCEPT !.verdict = v]
      BY <2>3
    <3> HIDE DEF v, Classify
    <3>2. /\ run'[l] \in LaneRuns /\ run'[l].verdict = v
          /\ run'[l].proc = run[l].proc /\ run'[l].code = run[l].code /\ run'[l].gone = run[l].gone
          /\ run'[l].ended = run[l].ended /\ run'[l].erred = run[l].erred
      BY <2>1, <2>2, <3>1, VerdictOnly
    <3> QED
      BY <2>2, <2>3, <3>2 DEF Standing, Failures, Soft
  <2>4. CASE ~(l \in lanes /\ run[l].proc # "none" /\ run[l].verdict \in {"none", "pass"})
    BY <2>1, <2>4
  <2> QED
    BY <2>3, <2>4
<1> USE DEF Batches, BatchTypes, MachineTypes, Launching, Polling, Ending
<1>2. LaneTypes'
  BY <1>1 DEF LaneTypes
<1>3. BatchTypes' /\ MachineTypes' /\ Locked' /\ CloserTypes' /\ StaysStopped'
  BY DEF Locked, CloserTypes, StaysStopped
<1>4. Unstarted' /\ GoneIsDead' /\ Live' = Live
  BY <1>1 DEF Unstarted, GoneIsDead, Live
<1>5. Visits'
  BY <1>4 DEF Visits
<1>6. Earning'
  <2>1. SomeFailed => (SomeFailed)'
    BY <1>1 DEF SomeFailed, Failed
  <2>2. ErredIsSpoilt' /\ ReadIsJudged' /\ EndsFor'
    BY <1>1 DEF Earning, ErredIsSpoilt, ReadIsJudged, EndsFor, Covers
  <2>3. OursIsLate'
    BY <1>1, <2>1 DEF Earning, OursIsLate
  <2>4. PassIsLast'
    <3> SUFFICES ASSUME closer \notin Torn, NEW l \in lanes, run'[l].verdict = "pass"
                 PROVE  /\ run'[l].code \in OurKills /\ ~run'[l].erred
                        /\ run'[l].code = "ours" => run'[l].ended = Rounds \/ (SomeFailed)'
      BY DEF PassIsLast
    <3>1. CASE run[l].verdict = "none"
      <4>1. run[l].code \in OurKills /\ l \notin spoilt /\ ~cut
        BY <1>1, <3>1
      <4> QED
        BY <1>1, <2>1, <3>1, <4>1 DEF Earning, ErredIsSpoilt, OursIsLate
    <3>2. CASE run[l].verdict = "pass"
      BY <1>1, <3>2 DEF Earning, PassIsLast
    <3> QED
      BY <1>1, <3>1, <3>2 DEF Standing
  <2> QED
    BY <2>2, <2>3, <2>4 DEF Earning
<1> QED
  BY <1>2, <1>3, <1>4, <1>5, <1>6 DEF Kept

-----------------------------------------------------------------------------
(* The machine under the batch. *)

\* A payload dies that we did not kill.
LEMMA PayloadDiesKeeps ==
  ASSUME Batches, Earning, PayloadDies, UNCHANGED <<closer, snap>>
  PROVE  Kept
<1>1. PICK l \in Live, c \in {"zero", "crash", "killed", "termed"} :
        run' = [run EXCEPT ![l].proc = "dead", ![l].code = c, ![l].ended = age]
  BY ZenonT(60) DEF PayloadDies
<1> USE DEF PayloadDies, Batches, BatchTypes, MachineTypes, Launching, Polling, Ending
<1>2. l \in lanes /\ l \in Cores /\ run[l] \in LaneRuns /\ run[l].proc = "live"
  BY DEF Live, LaneTypes
<1>3. /\ run'[l] \in LaneRuns /\ run'[l].proc = "dead" /\ run'[l].code = c
      /\ run'[l].verdict = run[l].verdict /\ run'[l].gone = run[l].gone /\ run'[l].erred = run[l].erred
      /\ \A k \in Cores : k # l => run'[k] = run[k]
  BY <1>1, <1>2, SMTT(60) DEF LaneTypes, LaneRuns
<1>4. LaneTypes'
  BY <1>1, <1>2, <1>3 DEF LaneTypes
<1>5. BatchTypes' /\ MachineTypes' /\ Locked' /\ CloserTypes' /\ StaysStopped'
  BY DEF Locked, CloserTypes, StaysStopped
<1>6. Unstarted' /\ GoneIsDead' /\ Live' \subseteq Live
  <2>1. Unstarted'
    <3> SUFFICES ASSUME at \in Launching, NEW k \in todo PROVE Unrun(run'[k])
      BY DEF Unstarted
    <3>1. Unrun(run[k]) /\ k \in Cores
      BY DEF Unstarted, LaneTypes
    <3>2. k # l
      BY <1>2, <3>1 DEF Unrun
    <3> QED
      BY <1>3, <3>1, <3>2 DEF Unrun
  <2>2. GoneIsDead'
    BY <1>3, ZenonT(60) DEF GoneIsDead
  <2>3. Live' \subseteq Live
    BY <1>2, <1>3, ZenonT(60) DEF Live
  <2> QED
    BY <2>1, <2>2, <2>3
<1>7. Visits'
  BY <1>6 DEF Visits
<1>8. Earning'
  <2>1. SomeFailed => (SomeFailed)'
    BY <1>3 DEF SomeFailed, Failed
  <2>2. NoneRuns => (NoneRuns)'
    BY <1>3, ZenonT(60) DEF NoneRuns, Running
  <2>3. ErredIsSpoilt' /\ ReadIsJudged' /\ EndsFor'
    BY <1>3, <2>1, <2>2, ZenonT(60) DEF Earning, ErredIsSpoilt, ReadIsJudged, EndsFor, Covers
  <2>4. OursIsLate'
    <3> SUFFICES ASSUME closer \notin Torn, NEW k \in lanes, run'[k].code \in OurKills
                 PROVE  /\ run'[k].proc = "dead"
                        /\ run'[k].code = "ours" =>
                             /\ at \in Ending
                             /\ run'[k].verdict = "none"
                                  => cut \/ run'[k].ended = Rounds \/ (SomeFailed)'
      BY DEF OursIsLate
    <3>1. k # l /\ k \in Cores
      BY <1>3 DEF LaneTypes
    <3>2. run'[k] = run[k]
      BY <1>3, <3>1
    <3> QED
      BY <2>1, <3>2 DEF Earning, OursIsLate
  <2>5. closer \notin Torn => run[l].verdict # "pass"
    BY <1>2 DEF Earning, OursIsLate, PassIsLast
  <2>6. PassIsLast'
    <3> SUFFICES ASSUME closer \notin Torn, NEW k \in lanes, run'[k].verdict = "pass"
                 PROVE  /\ run'[k].code \in OurKills /\ ~run'[k].erred
                        /\ run'[k].code = "ours" =>
                             at = "returned" /\ (run'[k].ended = Rounds \/ (SomeFailed)')
      BY DEF PassIsLast
    <3>1. k # l
      BY <1>3, <2>5
    <3>2. run'[k] = run[k]
      BY <1>3, <3>1
    <3> QED
      BY <2>1, <3>2, ZenonT(60) DEF Earning, PassIsLast
  <2> QED
    BY <2>3, <2>4, <2>6 DEF Earning
<1> QED
  BY <1>4, <1>5, <1>6, <1>7, <1>8 DEF Kept

\* A payload writes an error into its file.
LEMMA PayloadErrsKeeps ==
  ASSUME Batches, Earning, PayloadErrs, UNCHANGED <<closer, snap>>
  PROVE  Kept
<1> USE DEF PayloadErrs, Batches, BatchTypes, MachineTypes, Launching, Polling, Ending
<1>1. PICK l \in Live : spoilt' = spoilt \union {l} /\ run' = [run EXCEPT ![l].erred = TRUE]
  OBVIOUS
<1>2. l \in lanes /\ l \in Cores /\ run[l] \in LaneRuns /\ run[l].proc = "live"
  BY DEF Live, LaneTypes
<1>3. /\ run'[l] \in LaneRuns /\ run'[l].proc = "live" /\ run'[l].code = run[l].code
      /\ run'[l].verdict = run[l].verdict /\ run'[l].gone = run[l].gone /\ run'[l].ended = run[l].ended
      /\ \A k \in Cores : k # l => run'[k] = run[k]
  BY <1>1, <1>2, ZenonT(60) DEF LaneTypes, LaneRuns
<1>4. LaneTypes'
  BY <1>1, <1>2, <1>3 DEF LaneTypes
<1>5. BatchTypes' /\ MachineTypes' /\ Locked' /\ CloserTypes' /\ StaysStopped'
  BY DEF Locked, CloserTypes, StaysStopped
<1>6. Unstarted' /\ GoneIsDead' /\ Live' \subseteq Live
  BY <1>2, <1>3 DEF Unstarted, Unrun, GoneIsDead, Live
<1>7. Visits'
  BY <1>6 DEF Visits
<1>8. Earning'
  <2>1. SomeFailed => (SomeFailed)'
    BY <1>3 DEF SomeFailed, Failed
  <2>2. NoneRuns => (NoneRuns)'
    BY <1>2, <1>3 DEF NoneRuns, Running
  <2>3. ErredIsSpoilt' /\ ReadIsJudged' /\ EndsFor'
    BY <1>1, <1>3, <2>1, <2>2 DEF Earning, ErredIsSpoilt, ReadIsJudged, EndsFor, Covers
  <2>4. OursIsLate'
    BY <1>2, <1>3, <2>1 DEF Earning, OursIsLate
  <2>5. closer \notin Torn => run[l].verdict # "pass"
    BY <1>2 DEF Earning, OursIsLate, PassIsLast
  <2>6. PassIsLast'
    <3> SUFFICES ASSUME closer \notin Torn, NEW k \in lanes, run'[k].verdict = "pass"
                 PROVE  /\ run'[k].code \in OurKills /\ ~run'[k].erred
                        /\ run'[k].code = "ours" =>
                             at = "returned" /\ (run'[k].ended = Rounds \/ (SomeFailed)')
      BY DEF PassIsLast
    <3>1. k # l
      BY <1>3, <2>5
    <3>2. run'[k] = run[k]
      BY <1>3, <3>1
    <3> QED
      BY <2>1, <3>2 DEF Earning, PassIsLast
  <2> QED
    BY <2>3, <2>4, <2>6 DEF Earning
<1> QED
  BY <1>4, <1>5, <1>6, <1>7, <1>8 DEF Kept

\* The kernel logs an error, which nobody has read yet.
LEMMA KernelLogsKeeps ==
  ASSUME Batches, Earning, KernelLogs, UNCHANGED <<closer, snap>>
  PROVE  Kept
<1> USE DEF KernelLogs, Batches
<1>1. BatchTypes' /\ MachineTypes' /\ LaneTypes' /\ CloserTypes'
  BY DEF BatchTypes, MachineTypes, LaneTypes, CloserTypes
<1>2. Locked' /\ Unstarted' /\ GoneIsDead' /\ StaysStopped' /\ Visits'
  BY DEF Locked, Unstarted, GoneIsDead, StaysStopped, Visits, Live
<1>3. Earning'
  BY DEF Earning, ErredIsSpoilt, ReadIsJudged, EndsFor, OursIsLate, PassIsLast, SomeFailed,
         NoneRuns, Failed, Running, Covers
<1> QED
  BY <1>1, <1>2, <1>3 DEF Kept

\* The duty driver stops or continues a payload.
LEMMA DutyCycleKeeps ==
  ASSUME Batches, Earning, DutyCycle, UNCHANGED <<closer, snap>>
  PROVE  Kept
<1> USE DEF DutyCycle, Batches, BatchTypes, MachineTypes, Launching, Polling, Ending
<1>1. PICK l \in Live : run' = [run EXCEPT ![l].frozen = ~@]
  OBVIOUS
<1>2. l \in lanes /\ l \in Cores /\ run[l] \in LaneRuns
  BY DEF Live, LaneTypes
<1>3. ASSUME NEW k \in Cores
      PROVE  /\ run'[k] \in LaneRuns /\ run'[k].proc = run[k].proc /\ run'[k].code = run[k].code
             /\ run'[k].verdict = run[k].verdict /\ run'[k].gone = run[k].gone
             /\ run'[k].ended = run[k].ended /\ run'[k].erred = run[k].erred
  BY <1>1, <1>2, ZenonT(60) DEF LaneTypes, LaneRuns
<1>4. LaneTypes'
  BY <1>1, <1>3 DEF LaneTypes
<1>5. BatchTypes' /\ MachineTypes' /\ Locked' /\ CloserTypes' /\ StaysStopped'
  BY DEF Locked, CloserTypes, StaysStopped
<1>6. Unstarted' /\ GoneIsDead' /\ Live' = Live
  BY <1>3 DEF Unstarted, Unrun, GoneIsDead, Live
<1>7. Visits'
  BY <1>6 DEF Visits
<1>8. Earning'
  <2>1. ((SomeFailed)' <=> SomeFailed) /\ (NoneRuns => (NoneRuns)')
    BY <1>3 DEF SomeFailed, Failed, NoneRuns, Running
  <2>2. ErredIsSpoilt' /\ ReadIsJudged' /\ EndsFor'
    BY <1>3, <2>1 DEF Earning, ErredIsSpoilt, ReadIsJudged, EndsFor, Covers
  <2>3. OursIsLate'
    BY <1>3, <2>1 DEF Earning, OursIsLate
  <2>4. PassIsLast'
    BY <1>3, <2>1 DEF Earning, PassIsLast
  <2> QED
    BY <2>2, <2>3, <2>4 DEF Earning
<1> QED
  BY <1>4, <1>5, <1>6, <1>7, <1>8 DEF Kept

-----------------------------------------------------------------------------
(* The other thread. *)

\* The stop event is set, outside of every lock.
LEMMA CallStopKeeps ==
  ASSUME Inv, CallStop
  PROVE  Inv'
<1> USE DEF CallStop, driver, Inv, Batches, Drives, Torn
<1>1. BatchTypes' /\ MachineTypes' /\ LaneTypes' /\ CloserTypes'
  BY DEF BatchTypes, MachineTypes, LaneTypes, CloserTypes
<1>2. Locked' /\ Unstarted' /\ GoneIsDead' /\ StaysStopped' /\ Visits'
  BY DEF Locked, Unstarted, GoneIsDead, StaysStopped, Visits
<1>3. DriverTypes' /\ Between' /\ Entering' /\ RecordedPassIsWhole' /\ PassIsWhole'
  BY DEF DriverTypes, Between, Entering, RecordedPassIsWhole, PassIsWhole
<1>4. Earning'
  BY DEF Earning, ErredIsSpoilt, ReadIsJudged, EndsFor, OursIsLate, PassIsLast, SomeFailed,
         NoneRuns, Failed, Running, Covers
<1> QED
  BY <1>1, <1>2, <1>3, <1>4

\* The state is marked, and a teardown notes the lanes it has to visit.
LEMMA MarkStoppingKeeps ==
  ASSUME Inv, MarkStopping
  PROVE  Inv'
<1> USE DEF MarkStopping, Inv, Batches, Drives, Torn
<1>1. BatchTypes' /\ MachineTypes' /\ LaneTypes' /\ CloserTypes'
  BY ZenonT(60) DEF BatchTypes, MachineTypes, LaneTypes, CloserTypes
<1>2. Locked' /\ Unstarted' /\ GoneIsDead' /\ StaysStopped' /\ Visits'
  BY DEF BatchTypes, Locked, Unstarted, GoneIsDead, StaysStopped, Visits, Live
<1>3. DriverTypes' /\ Between' /\ Entering' /\ RecordedPassIsWhole' /\ PassIsWhole'
  BY DEF DriverTypes, Between, Entering, RecordedPassIsWhole, PassIsWhole
<1>4. Earning'
  BY DEF Earning, ErredIsSpoilt, ReadIsJudged, EndsFor, OursIsLate, PassIsLast, SomeFailed,
         NoneRuns, Failed, Running, Covers
<1> QED
  BY <1>1, <1>2, <1>3, <1>4

\* One lane is torn down with the lock in hand.
LEMMA TearOneKeeps ==
  ASSUME Inv, TearOne
  PROVE  Inv'
<1> USE DEF TearOne, driver
<1>1. lanes' = lanes /\ closer = "tearing" /\ closer' \in {"tearing", "refused"}
  OBVIOUS
<1>2. DriverTypes' /\ Between' /\ Entering' /\ RecordedPassIsWhole' /\ PassIsWhole'
  BY <1>1 DEF Inv, Drives, DriverTypes, Between, Entering, RecordedPassIsWhole, PassIsWhole, Torn
<1>3. CASE lock = "free"
  <2> USE DEF Inv, Batches
  <2>1. BatchTypes' /\ MachineTypes' /\ LaneTypes' /\ CloserTypes'
    BY <1>3 DEF BatchTypes, MachineTypes, LaneTypes, CloserTypes
  <2>2. Locked' /\ Unstarted' /\ GoneIsDead' /\ StaysStopped' /\ Visits'
    BY <1>3 DEF Locked, Unstarted, GoneIsDead, StaysStopped, Visits, Live
  <2>3. Earning'
    BY <1>1, <1>3 DEF Earning, ErredIsSpoilt, ReadIsJudged, EndsFor, OursIsLate, PassIsLast,
                      SomeFailed, NoneRuns, Failed, Running, Covers, Torn
  <2> QED
    BY <1>2, <2>1, <2>2, <2>3 DEF Drives
<1>4. CASE lock # "free"
  <2> DEFINE l == Lowest(snap)
  <2>1. l \in snap /\ l \in Cores
    BY LowestIsOne DEF Inv, Batches, CloserTypes
  <2>2. PICK ok \in BOOLEAN : /\ TearDown(l, ok)
                              /\ closer' = IF ok \/ run'[l].gone THEN closer ELSE "refused"
    BY <1>4
  <2>3. lock' = "free" /\ lock = "closer" /\ snap' = snap \ {l}
    BY <1>4
  <2> HIDE DEF l, TearOne
  <2>4. PICK s \in LaneRuns : LeftAs(run[l], s, ok) /\ run' = [run EXCEPT ![l] = s]
    BY <2>1, <2>2, TearDownLane DEF Inv, Batches
  <2>5. stop' \in BOOLEAN /\ (stop => stop')
    BY <2>1, <2>2, TearDownLane DEF Inv, Batches
  <2>6. /\ LaneTypes' /\ GoneIsDead' /\ Live' \subseteq Live
        /\ run'[l] = s /\ \A k \in Cores : k # l => run'[k] = run[k]
        /\ ok \/ s.gone => l \notin Live'
    BY <1>1, <2>1, <2>4, TearDownKeeps, ZenonT(60) DEF Inv
  <2> USE DEF TearOne, Inv, Batches
  <2>7. BatchTypes' /\ MachineTypes' /\ CloserTypes' /\ StaysStopped'
    BY <1>1, <2>3, <2>5 DEF BatchTypes, MachineTypes, CloserTypes, StaysStopped, Torn
  <2>8. Locked' /\ at # "spawn"
    BY <2>3 DEF Locked
  <2>9. Unstarted'
    BY <2>4, <2>6 DEF BatchTypes, Unstarted, Unrun, LeftAs
  <2>10. Visits'
    BY <1>1, <2>2, <2>3, <2>6, <2>8 DEF Visits
  <2>11. Earning'
    <3>1. SomeFailed => (SomeFailed)'
      BY <1>1, <2>4, <2>6 DEF BatchTypes, SomeFailed, Failed, LeftAs, Failures, Soft
    <3>2. NoneRuns => (NoneRuns)'
      BY <1>1, <2>4, <2>6 DEF BatchTypes, NoneRuns, Running, LeftAs, LaneTypes, LaneRuns
    <3>3. ErredIsSpoilt' /\ ReadIsJudged' /\ EndsFor'
      BY <1>1, <2>4, <2>5, <2>6, <3>1, <3>2
      DEF BatchTypes, Earning, ErredIsSpoilt, ReadIsJudged, EndsFor, Standing, Covers, LeftAs
    <3>4. OursIsLate' /\ PassIsLast'
      BY <1>1 DEF OursIsLate, PassIsLast, Torn
    <3> QED
      BY <3>3, <3>4 DEF Earning
  <2> QED
    BY <1>2, <2>6, <2>7, <2>8, <2>9, <2>10, <2>11 DEF Drives
<1> QED
  BY <1>3, <1>4

\* Every lane was visited and none is alive.
LEMMA TornDownKeeps ==
  ASSUME Inv, TornDown
  PROVE  Inv'
<1> USE DEF TornDown, supervised, driver, Inv, Batches, Drives, Torn
<1>1. BatchTypes' /\ MachineTypes' /\ LaneTypes' /\ CloserTypes'
  BY DEF BatchTypes, MachineTypes, LaneTypes, CloserTypes
<1>2. Locked' /\ Unstarted' /\ GoneIsDead' /\ StaysStopped' /\ Visits'
  BY DEF Locked, Unstarted, GoneIsDead, StaysStopped, Visits, Live
<1>3. DriverTypes' /\ Between' /\ Entering' /\ RecordedPassIsWhole' /\ PassIsWhole'
  BY DEF DriverTypes, Between, Entering, RecordedPassIsWhole, PassIsWhole
<1>4. Earning'
  BY DEF Earning, ErredIsSpoilt, ReadIsJudged, EndsFor, OursIsLate, PassIsLast, SomeFailed,
         NoneRuns, Failed, Running, Covers
<1> QED
  BY <1>1, <1>2, <1>3, <1>4

-----------------------------------------------------------------------------
(* What a driver does to the batch: nothing, or forget it, or begin another. *)

\* Between two batches there is nothing that a step could disturb.
LEMMA BetweenBatches ==
  ASSUME Inv, pc \notin InBatch, UNCHANGED <<mode, lanes, at, todo, run, lock, closer, snap>>,
         stop' \in BOOLEAN, cut' \in BOOLEAN, MachineTypes', StaysStopped'
  PROVE  Kept
<1> USE DEF Inv, Drives, Between, Batches, Ending
<1>1. lanes = {} /\ at = "returned"
  OBVIOUS
<1>2. BatchTypes' /\ LaneTypes' /\ CloserTypes'
  BY DEF BatchTypes, LaneTypes, CloserTypes
<1>3. Locked' /\ Unstarted' /\ GoneIsDead' /\ Visits'
  BY <1>1 DEF Locked, Unstarted, GoneIsDead, Visits, Live, Launching
<1>4. Earning'
  BY <1>1 DEF Earning, ErredIsSpoilt, ReadIsJudged, EndsFor, OursIsLate, PassIsLast
<1> QED
  BY <1>2, <1>3, <1>4 DEF Kept

\* A batch that returned is forgotten, and what it may have left alive is no
\* lane of the next.
LEMMA ForgetKeeps ==
  ASSUME Inv, at = "returned", Forget, UNCHANGED <<mode, duty, lock, logged, closer, snap>>,
         stop' \in BOOLEAN, stop => stop', MachineTypes'
  PROVE  Kept
<1> USE DEF Inv, Forget, Batches, Ending
<1>1. BatchTypes' /\ CloserTypes' /\ StaysStopped'
  BY DEF BatchTypes, CloserTypes, StaysStopped
<1>2. Unlaunched \in LaneRuns /\ ~Unlaunched.gone
  BY DEF Unlaunched, LaneRuns, Verdicts
<1>3. LaneTypes' /\ GoneIsDead'
  BY <1>2 DEF LaneTypes, GoneIsDead
<1>4. Locked' /\ Unstarted' /\ Visits'
  BY DEF Locked, Unstarted, Visits, Live, Launching
<1>5. Earning'
  BY DEF Earning, ErredIsSpoilt, ReadIsJudged, EndsFor, OursIsLate, PassIsLast
<1> QED
  BY <1>1, <1>3, <1>4, <1>5 DEF Kept

\* A batch begins with lanes that have not run, knowing what was read.
LEMMA BeginKeeps ==
  ASSUME Inv, pc \notin InBatch, NEW S \in SUBSET Cores, Begin(S, read'),
         UNCHANGED <<mode, duty, lock, logged, closer, snap>>,
         stop' \in BOOLEAN, MachineTypes', StaysStopped'
  PROVE  Kept
<1> USE DEF Inv, Drives, Between, Begin, Batches
<1>1. at = "returned" /\ at' = "heat" /\ lanes' = S /\ todo' = S
  OBVIOUS
<1>2. BatchTypes' /\ CloserTypes'
  BY <1>1 DEF BatchTypes, CloserTypes, Launching
<1>3. Unlaunched \in LaneRuns /\ Unrun(Unlaunched)
  BY DEF Unlaunched, LaneRuns, Verdicts, Unrun
<1>4. \A l \in Cores : run'[l] = IF l \in S THEN Unlaunched ELSE run[l]
  OBVIOUS
<1>5. LaneTypes' /\ GoneIsDead' /\ Unstarted'
  BY <1>1, <1>3, <1>4 DEF LaneTypes, GoneIsDead, Unstarted, Unrun
<1>6. Locked' /\ Visits'
  BY <1>1, <1>3, <1>4 DEF Locked, Visits, Live, Unrun
<1>7. Earning'
  BY <1>1, <1>3, <1>4 DEF Earning, ErredIsSpoilt, ReadIsJudged, EndsFor, OursIsLate, PassIsLast, Unrun
<1> QED
  BY <1>2, <1>5, <1>6, <1>7 DEF Kept

\* A poll of the idle core, whatever it finds, sets the stop event or leaves it.
LEMMA WatchIdleTypes ==
  ASSUME BatchTypes, MachineTypes, NEW cores, NEW v, WatchIdle(cores, v)
  PROVE  /\ stop' \in BOOLEAN /\ (stop => stop') /\ read' \in {read, logged}
         /\ heat' \in {"cool", "over", "tripped"}
BY DEF WatchIdle, BatchTypes, MachineTypes, Bearable, Unbearable, HeatAfter, Readings

-----------------------------------------------------------------------------
(* The steps of the drivers. *)

USE DEF Move, SameBatch, Bystanders, Baseline, NoBaseline

\* The scheduler starts, unless a stop came first.
LEMMA RunSchedulerKeeps ==
  ASSUME Inv, RunScheduler
  PROVE  Inv'
<1> USE DEF RunScheduler
<1>1. MachineTypes' /\ StaysStopped' /\ stop' \in BOOLEAN
  BY DEF Inv, Batches, BatchTypes, MachineTypes, StaysStopped, Torn, Drives, Entering
<1>2. Kept
  BY <1>1, BetweenBatches DEF InBatch, Inv, Batches, BatchTypes
<1>3. DriverTypes'
  BY DEF Inv, Drives, DriverTypes, Places, Verdicts, Failures, Soft
<1>4. Between' /\ Entering' /\ RecordedPassIsWhole' /\ PassIsWhole'
  BY DEF Inv, Drives, DriverTypes, Places, Between, Entering, RecordedPassIsWhole, PassIsWhole, InBatch, Torn
<1> QED
  BY <1>2, <1>3, <1>4 DEF Inv, Kept, Drives

\* The next core of the cycle.
LEMMA NextCoreKeeps ==
  ASSUME Inv, NextCore
  PROVE  Inv'
<1> USE DEF NextCore
<1>1. MachineTypes' /\ StaysStopped' /\ stop' \in BOOLEAN
  BY DEF Inv, Batches, BatchTypes, MachineTypes, StaysStopped, Torn, Drives, Entering
<1>2. Kept
  BY <1>1, BetweenBatches DEF InBatch, Inv, Batches, BatchTypes
<1>3. DriverTypes'
  BY LowestIsOne DEF Inv, Drives, DriverTypes, Places, Verdicts, Failures, Soft
<1>4. Between' /\ Entering' /\ RecordedPassIsWhole' /\ PassIsWhole'
  BY DEF Inv, Drives, DriverTypes, Places, Between, Entering, RecordedPassIsWhole, PassIsWhole, InBatch, Torn
<1> QED
  BY <1>2, <1>3, <1>4 DEF Inv, Kept, Drives

\* The settle of a core before it is stressed.
LEMMA SettleKeeps ==
  ASSUME Inv, Settle
  PROVE  Inv'
<1> USE DEF Settle, Record, IdleErrors
<1>1. MachineTypes' /\ StaysStopped' /\ stop' \in BOOLEAN
  BY WatchIdleTypes DEF Inv, Batches, BatchTypes, MachineTypes, StaysStopped
<1>2. Kept
  BY <1>1, BetweenBatches DEF InBatch, Inv, Batches, BatchTypes
<1>3. DriverTypes'
  BY DEF Inv, Drives, DriverTypes, Places, Verdicts, Failures, Soft
<1>4. Between' /\ Entering' /\ RecordedPassIsWhole' /\ PassIsWhole'
  BY DEF Inv, Drives, DriverTypes, Places, Between, Entering, RecordedPassIsWhole, PassIsWhole, InBatch, Torn
<1> QED
  BY <1>2, <1>3, <1>4 DEF Inv, Kept, Drives

\* The sustained stress of a core.
LEMMA StressKeeps ==
  ASSUME Inv, Stress
  PROVE  Inv'
<1> USE DEF Stress
<1> USE DEF StartBatch
<1>1. MachineTypes' /\ StaysStopped' /\ stop' \in BOOLEAN
  BY DEF Begin, Inv, Batches, BatchTypes, MachineTypes, StaysStopped
<1>2. Kept
  <2>1. Begin({core}, read') /\ {core} \in SUBSET Cores
    BY DEF Inv, Drives, DriverTypes
  <2> QED
    BY <1>1, <2>1, BeginKeeps DEF InBatch
<1>3. DriverTypes'
  BY DEF Inv, Drives, DriverTypes, Places, Verdicts, Failures, Soft, Begin, IdleErrors
<1>4. Between' /\ Entering' /\ RecordedPassIsWhole' /\ PassIsWhole'
  BY DEF Inv, Drives, DriverTypes, Places, Between, Entering, RecordedPassIsWhole, PassIsWhole, InBatch, Torn, Begin
<1> QED
  BY <1>2, <1>3, <1>4 DEF Inv, Kept, Drives

\* Its verdict.
LEMMA StressedKeeps ==
  ASSUME Inv, Stressed
  PROVE  Inv'
<1> USE DEF Stressed
<1> USE DEF Returned
<1>1. MachineTypes' /\ stop' \in BOOLEAN /\ (stop => stop')
  <2>1. MachineTypes'
    BY DEF Forget, Inv, Batches, MachineTypes
  <2>2. stop' \in BOOLEAN /\ (stop => stop')
    BY DEF Inv, Batches, BatchTypes
  <2> QED
    BY <2>1, <2>2
<1>2. Kept
  BY <1>1, ForgetKeeps
<1>3. DriverTypes'
  BY DEF Inv, Drives, DriverTypes, Places, Verdicts, Failures, Soft, LaneTypes, LaneRuns, Batches
<1>4. Between' /\ Entering' /\ RecordedPassIsWhole' /\ PassIsWhole'
  BY DEF Inv, Drives, DriverTypes, Places, Between, Entering, RecordedPassIsWhole, PassIsWhole, InBatch, Torn, Forget, Returned
<1> QED
  BY <1>2, <1>3, <1>4 DEF Inv, Kept, Drives

\* A segment of variable load, or of idle.
LEMMA VariableKeeps ==
  ASSUME Inv, Variable
  PROVE  Inv'
<1> USE DEF Variable
<1>1. MachineTypes' /\ StaysStopped' /\ stop' \in BOOLEAN
  <2>1. /\ stop' \in BOOLEAN /\ (stop => stop') /\ read' \in {read, logged}
        /\ heat' \in {"cool", "over", "tripped"}
    BY WatchIdleTypes DEF IdleErrors, Inv, Batches, BatchTypes, MachineTypes
  <2> QED
    BY <2>1 DEF Begin, Inv, Batches, BatchTypes, MachineTypes, StaysStopped
<1>2. Kept
  <2>1. {core} \in SUBSET Cores /\ pc \notin InBatch
    BY DEF Inv, Drives, DriverTypes, InBatch
  <2>2. CASE Begin({core}, read')
    BY <1>1, <2>1, <2>2, BeginKeeps
  <2>3. CASE SameBatch
    BY <1>1, <2>1, <2>3, BetweenBatches DEF Inv, Batches, BatchTypes
  <2> QED
    BY <2>2, <2>3
<1>3. DriverTypes'
  BY DEF Inv, Drives, DriverTypes, Places, Verdicts, Failures, Soft, Begin, IdleErrors
<1>4. Between' /\ Entering' /\ RecordedPassIsWhole' /\ PassIsWhole'
  BY DEF Inv, Drives, DriverTypes, Places, Between, Entering, RecordedPassIsWhole, PassIsWhole, InBatch, Torn, Begin, IdleErrors
<1> QED
  BY <1>2, <1>3, <1>4 DEF Inv, Kept, Drives

\* The verdict of a segment of load.
LEMMA SegmentKeeps ==
  ASSUME Inv, Segment
  PROVE  Inv'
<1> USE DEF Segment
<1> USE DEF Returned
<1>1. MachineTypes' /\ stop' \in BOOLEAN /\ (stop => stop')
  <2>1. MachineTypes'
    BY DEF Forget, Inv, Batches, MachineTypes
  <2>2. stop' \in BOOLEAN /\ (stop => stop')
    BY DEF Inv, Batches, BatchTypes
  <2> QED
    BY <2>1, <2>2
<1>2. Kept
  BY <1>1, ForgetKeeps
<1>3. DriverTypes'
  BY DEF Inv, Drives, DriverTypes, Places, Verdicts, Failures, Soft, LaneTypes, LaneRuns, Batches
<1>4. Between' /\ Entering' /\ RecordedPassIsWhole' /\ PassIsWhole'
  BY DEF Inv, Drives, DriverTypes, Places, Between, Entering, RecordedPassIsWhole, PassIsWhole, InBatch, Torn, Forget, Returned
<1> QED
  BY <1>2, <1>3, <1>4 DEF Inv, Kept, Drives

\* The idle stability test.
LEMMA IdleKeeps ==
  ASSUME Inv, Idle
  PROVE  Inv'
<1> USE DEF Idle, IdleUnless, Clean, IdleErrors
<1>1. MachineTypes' /\ StaysStopped' /\ stop' \in BOOLEAN
  BY WatchIdleTypes DEF Inv, Batches, BatchTypes, MachineTypes, StaysStopped
<1>2. Kept
  BY <1>1, BetweenBatches DEF InBatch, Inv, Batches, BatchTypes
<1>3. DriverTypes'
  BY DEF Inv, Drives, DriverTypes, Places, Verdicts, Failures, Soft
<1>4. Between' /\ Entering' /\ RecordedPassIsWhole' /\ PassIsWhole'
  BY DEF Inv, Drives, DriverTypes, Places, Between, Entering, RecordedPassIsWhole, PassIsWhole, InBatch, Torn
<1> QED
  BY <1>2, <1>3, <1>4 DEF Inv, Kept, Drives

\* The core's result.
LEMMA RecordCoreKeeps ==
  ASSUME Inv, RecordCore
  PROVE  Inv'
<1> USE DEF RecordCore, Record, Clean
<1>1. MachineTypes' /\ StaysStopped' /\ stop' \in BOOLEAN
  BY DEF Inv, Batches, BatchTypes, MachineTypes, StaysStopped, Torn, Drives, Entering
<1>2. Kept
  BY <1>1, BetweenBatches DEF InBatch, Inv, Batches, BatchTypes
<1>3. DriverTypes'
  BY DEF Inv, Drives, DriverTypes, Places, Verdicts, Failures, Soft
<1>4. Between' /\ Entering' /\ RecordedPassIsWhole' /\ PassIsWhole'
  BY DEF Inv, Drives, DriverTypes, Places, Between, Entering, RecordedPassIsWhole, PassIsWhole, InBatch, Torn
<1> QED
  BY <1>2, <1>3, <1>4 DEF Inv, Kept, Drives

\* The time between two cores.
LEMMA GapKeeps ==
  ASSUME Inv, Gap
  PROVE  Inv'
<1> USE DEF Gap, IdleErrors
<1>1. MachineTypes' /\ StaysStopped' /\ stop' \in BOOLEAN
  BY WatchIdleTypes DEF Inv, Batches, BatchTypes, MachineTypes, StaysStopped
<1>2. Kept
  BY <1>1, BetweenBatches DEF InBatch, Inv, Batches, BatchTypes
<1>3. DriverTypes'
  BY DEF Inv, Drives, DriverTypes, Places, Verdicts, Failures, Soft
<1>4. Between' /\ Entering' /\ RecordedPassIsWhole' /\ PassIsWhole'
  BY DEF Inv, Drives, DriverTypes, Places, Between, Entering, RecordedPassIsWhole, PassIsWhole, InBatch, Torn
<1> QED
  BY <1>2, <1>3, <1>4 DEF Inv, Kept, Drives

\* The end of the cycle.
LEMMA EndSchedulerKeeps ==
  ASSUME Inv, EndScheduler
  PROVE  Inv'
<1> USE DEF EndScheduler
<1>1. MachineTypes' /\ StaysStopped' /\ stop' \in BOOLEAN
  BY DEF Inv, Batches, BatchTypes, MachineTypes, StaysStopped, Torn, Drives, Entering
<1>2. Kept
  BY <1>1, BetweenBatches DEF InBatch, Inv, Batches, BatchTypes
<1>3. DriverTypes'
  BY DEF Inv, Drives, DriverTypes, Places, Verdicts, Failures, Soft
<1>4. Between' /\ Entering' /\ RecordedPassIsWhole' /\ PassIsWhole'
  BY DEF Inv, Drives, DriverTypes, Places, Between, Entering, RecordedPassIsWhole, PassIsWhole, InBatch, Torn
<1> QED
  BY <1>2, <1>3, <1>4 DEF Inv, Kept, Drives

\* All lanes at once, or a refusal.
LEMMA RunParallelKeeps ==
  ASSUME Inv, RunParallel
  PROVE  Inv'
<1> USE DEF RunParallel
<1>1. MachineTypes' /\ StaysStopped' /\ stop' \in BOOLEAN
  <2>1. mode = "parallel" /\ closer' \notin Torn /\ stop' = FALSE
    BY DEF Inv, Drives, Entering, Torn
  <2>2. MachineTypes'
    BY DEF Begin, Inv, Batches, MachineTypes
  <2> QED
    BY <2>1, <2>2 DEF StaysStopped
<1>2. Kept
  <2>1. Cores \in SUBSET Cores /\ pc \notin InBatch
    BY DEF Inv, Drives, DriverTypes, InBatch
  <2>2. CASE Begin(Cores, read')
    BY <1>1, <2>1, <2>2, BeginKeeps
  <2>3. CASE SameBatch
    BY <1>1, <2>1, <2>3, BetweenBatches DEF Inv, Batches, BatchTypes
  <2> QED
    BY <2>2, <2>3
<1>3. DriverTypes'
  <2>1. results' \in [Cores -> Verdicts]
    BY DEF Inv, Drives, DriverTypes, Verdicts, Failures, Soft
  <2>2. pc' \in Places(mode) /\ report' = <<>>
    BY DEF Inv, Drives, DriverTypes, Places
  <2> QED
    BY <2>1, <2>2 DEF Inv, Drives, DriverTypes
<1>4. Between' /\ Entering' /\ RecordedPassIsWhole' /\ PassIsWhole'
  BY DEF Inv, Drives, DriverTypes, Places, Between, Entering, RecordedPassIsWhole, PassIsWhole, InBatch, Torn, Begin
<1> QED
  BY <1>2, <1>3, <1>4 DEF Inv, Kept, Drives

\* Their verdicts.
LEMMA EndParallelKeeps ==
  ASSUME Inv, EndParallel
  PROVE  Inv'
<1> USE DEF EndParallel, Clean
<1> USE DEF Returned
<1>1. MachineTypes' /\ stop' \in BOOLEAN /\ (stop => stop')
  <2>1. MachineTypes'
    BY DEF Forget, Inv, Batches, MachineTypes
  <2>2. stop' \in BOOLEAN /\ (stop => stop')
    BY DEF Inv, Batches, BatchTypes
  <2> QED
    BY <2>1, <2>2
<1>2. Kept
  BY <1>1, ForgetKeeps
<1>3. DriverTypes'
  BY DEF Inv, Drives, DriverTypes, Places, Verdicts, Failures, Soft, LaneTypes, LaneRuns, Batches
<1>4. Between' /\ Entering' /\ RecordedPassIsWhole' /\ PassIsWhole'
  BY DEF Inv, Drives, DriverTypes, Places, Between, Entering, RecordedPassIsWhole, PassIsWhole, InBatch, Torn, Forget, Returned
<1> QED
  BY <1>2, <1>3, <1>4 DEF Inv, Kept, Drives

\* The rapid transitions start, unless they were stopped.
LEMMA RunRapidKeeps ==
  ASSUME Inv, RunRapid
  PROVE  Inv'
<1> USE DEF RunRapid, RapidResult
<1>1. MachineTypes' /\ StaysStopped' /\ stop' \in BOOLEAN
  BY DEF Inv, Batches, BatchTypes, MachineTypes, StaysStopped, Torn, Drives, Entering
<1>2. Kept
  BY <1>1, BetweenBatches DEF InBatch, Inv, Batches, BatchTypes
<1>3. DriverTypes'
  BY DEF Inv, Drives, DriverTypes, Places, Verdicts, Failures, Soft
<1>4. Between' /\ Entering' /\ RecordedPassIsWhole' /\ PassIsWhole'
  BY DEF Inv, Drives, DriverTypes, Places, Between, Entering, RecordedPassIsWhole, PassIsWhole, InBatch, Torn
<1> QED
  BY <1>2, <1>3, <1>4 DEF Inv, Kept, Drives

\* A segment of load of the rapid transitions.
LEMMA RapidLoadKeeps ==
  ASSUME Inv, RapidLoad
  PROVE  Inv'
<1> USE DEF RapidLoad
<1>1. MachineTypes' /\ StaysStopped' /\ stop' \in BOOLEAN
  BY DEF Begin, Inv, Batches, BatchTypes, MachineTypes, StaysStopped
<1>2. Kept
  <2>1. {core} \in SUBSET Cores /\ pc \notin InBatch
    BY DEF Inv, Drives, DriverTypes, InBatch
  <2>2. CASE Begin({core}, read')
    BY <1>1, <2>1, <2>2, BeginKeeps
  <2>3. CASE SameBatch
    BY <1>1, <2>1, <2>3, BetweenBatches DEF Inv, Batches, BatchTypes
  <2> QED
    BY <2>2, <2>3
<1>3. DriverTypes'
  BY DEF Begin, RapidResult, Inv, Drives, DriverTypes, Places, Verdicts, Failures, Soft
<1>4. Between' /\ Entering' /\ RecordedPassIsWhole' /\ PassIsWhole'
  BY DEF Inv, Drives, DriverTypes, Places, Between, Entering, RecordedPassIsWhole, PassIsWhole, InBatch, Torn, Begin
<1> QED
  BY <1>2, <1>3, <1>4 DEF Inv, Kept, Drives

\* Its verdict.
LEMMA RapidLoadedKeeps ==
  ASSUME Inv, RapidLoaded
  PROVE  Inv'
<1> USE DEF RapidLoaded, RapidResult, Clean
<1> USE DEF Returned
<1>1. MachineTypes' /\ stop' \in BOOLEAN /\ (stop => stop')
  <2>1. MachineTypes'
    BY DEF Forget, Inv, Batches, MachineTypes
  <2>2. stop' \in BOOLEAN /\ (stop => stop')
    BY DEF Inv, Batches, BatchTypes
  <2> QED
    BY <2>1, <2>2
<1>2. Kept
  BY <1>1, ForgetKeeps
<1>3. DriverTypes'
  BY ZenonT(60) DEF Inv, Drives, DriverTypes, Places, Verdicts, Failures, Soft, LaneTypes, LaneRuns, Batches
<1>4. Between' /\ Entering' /\ RecordedPassIsWhole' /\ PassIsWhole'
  BY DEF Inv, Drives, DriverTypes, Places, Between, Entering, RecordedPassIsWhole, PassIsWhole, InBatch, Torn, Forget, Returned
<1> QED
  BY <1>2, <1>3, <1>4 DEF Inv, Kept, Drives

\* The rest after it.
LEMMA RapidRestKeeps ==
  ASSUME Inv, RapidRest
  PROVE  Inv'
<1> USE DEF RapidRest, RapidResult, IdleErrors
<1>1. MachineTypes' /\ StaysStopped' /\ stop' \in BOOLEAN
  BY WatchIdleTypes DEF Inv, Batches, BatchTypes, MachineTypes, StaysStopped
<1>2. Kept
  BY <1>1, BetweenBatches DEF InBatch, Inv, Batches, BatchTypes
<1>3. DriverTypes'
  BY DEF Inv, Drives, DriverTypes, Places, Verdicts, Failures, Soft
<1>4. Between' /\ Entering' /\ RecordedPassIsWhole' /\ PassIsWhole'
  BY DEF Inv, Drives, DriverTypes, Places, Between, Entering, RecordedPassIsWhole, PassIsWhole, InBatch, Torn
<1> QED
  BY <1>2, <1>3, <1>4 DEF Inv, Kept, Drives

\* The soak starts.
LEMMA RunSoakKeeps ==
  ASSUME Inv, RunSoak
  PROVE  Inv'
<1> USE DEF RunSoak
<1>1. MachineTypes' /\ StaysStopped' /\ stop' \in BOOLEAN
  BY DEF Inv, Batches, BatchTypes, MachineTypes, StaysStopped, Torn, Drives, Entering
<1>2. Kept
  BY <1>1, BetweenBatches DEF InBatch, Inv, Batches, BatchTypes
<1>3. DriverTypes'
  BY DEF Inv, Drives, DriverTypes, Places, Verdicts, Failures, Soft
<1>4. Between' /\ Entering' /\ RecordedPassIsWhole' /\ PassIsWhole'
  BY DEF Inv, Drives, DriverTypes, Places, Between, Entering, RecordedPassIsWhole, PassIsWhole, InBatch, Torn
<1> QED
  BY <1>2, <1>3, <1>4 DEF Inv, Kept, Drives

\* A second of the soak.
LEMMA SoakKeeps ==
  ASSUME Inv, Soak
  PROVE  Inv'
<1> USE DEF Soak, Record, Bearable, Unbearable, HeatAfter, Readings
<1>1. MachineTypes' /\ StaysStopped' /\ stop' \in BOOLEAN
  BY DEF Inv, Batches, BatchTypes, MachineTypes, StaysStopped, Torn, Drives, Entering
<1>2. Kept
  BY <1>1, BetweenBatches DEF InBatch, Inv, Batches, BatchTypes
<1>3. DriverTypes'
  BY DEF Inv, Drives, DriverTypes, Places, Verdicts, Failures, Soft
<1>4. Between' /\ Entering' /\ RecordedPassIsWhole' /\ PassIsWhole'
  BY DEF Inv, Drives, DriverTypes, Places, Between, Entering, RecordedPassIsWhole, PassIsWhole, InBatch, Torn
<1> QED
  BY <1>2, <1>3, <1>4 DEF Inv, Kept, Drives

\* Its last look at the kernel log.
LEMMA EndSoakKeeps ==
  ASSUME Inv, EndSoak
  PROVE  Inv'
<1> USE DEF EndSoak, Record
<1>1. MachineTypes' /\ StaysStopped' /\ stop' \in BOOLEAN
  BY DEF Inv, Batches, BatchTypes, MachineTypes, StaysStopped, Torn, Drives, Entering
<1>2. Kept
  BY <1>1, BetweenBatches DEF InBatch, Inv, Batches, BatchTypes
<1>3. DriverTypes'
  BY DEF Inv, Drives, DriverTypes, Places, Verdicts, Failures, Soft
<1>4. Between' /\ Entering' /\ RecordedPassIsWhole' /\ PassIsWhole'
  BY DEF Inv, Drives, DriverTypes, Places, Between, Entering, RecordedPassIsWhole, PassIsWhole, InBatch, Torn
<1> QED
  BY <1>2, <1>3, <1>4 DEF Inv, Kept, Drives

\* The report of the core scheduler.
LEMMA ReportCoresKeeps ==
  ASSUME Inv, ReportCores
  PROVE  Inv'
<1> USE DEF ReportCores, Emit
<1>1. MachineTypes' /\ StaysStopped' /\ stop' \in BOOLEAN
  BY DEF Inv, Batches, BatchTypes, MachineTypes, StaysStopped
<1>2. Kept
  BY <1>1, BetweenBatches DEF InBatch, Inv, Batches, BatchTypes
<1>3. DriverTypes'
  BY DEF Inv, Drives, DriverTypes, Places
<1>4. Between' /\ Entering' /\ RecordedPassIsWhole' /\ PassIsWhole'
  BY DEF Inv, Drives, DriverTypes, Places, Between, Entering, RecordedPassIsWhole, PassIsWhole, InBatch, Torn
<1> QED
  BY <1>2, <1>3, <1>4 DEF Inv, Kept, Drives

\* The report of the parallel run.
LEMMA ReportBatchKeeps ==
  ASSUME Inv, ReportBatch
  PROVE  Inv'
<1> USE DEF ReportBatch, Emit
<1>1. MachineTypes' /\ StaysStopped' /\ stop' \in BOOLEAN
  BY DEF Inv, Batches, BatchTypes, MachineTypes, StaysStopped
<1>2. Kept
  BY <1>1, BetweenBatches DEF InBatch, Inv, Batches, BatchTypes
<1>3. DriverTypes'
  BY DEF Inv, Drives, DriverTypes, Places
<1>4. Between' /\ Entering' /\ RecordedPassIsWhole' /\ PassIsWhole'
  BY DEF Inv, Drives, DriverTypes, Places, Between, Entering, RecordedPassIsWhole, PassIsWhole, InBatch, Torn
<1> QED
  BY <1>2, <1>3, <1>4 DEF Inv, Kept, Drives

\* The report of the rapid transitions.
LEMMA ReportRapidKeeps ==
  ASSUME Inv, ReportRapid
  PROVE  Inv'
<1> USE DEF ReportRapid, Emit
<1>1. MachineTypes' /\ StaysStopped' /\ stop' \in BOOLEAN
  BY DEF Inv, Batches, BatchTypes, MachineTypes, StaysStopped
<1>2. Kept
  BY <1>1, BetweenBatches DEF InBatch, Inv, Batches, BatchTypes
<1>3. DriverTypes'
  BY DEF Inv, Drives, DriverTypes, Places
<1>4. Between' /\ Entering' /\ RecordedPassIsWhole' /\ PassIsWhole'
  BY DEF Inv, Drives, DriverTypes, Places, Between, Entering, RecordedPassIsWhole, PassIsWhole, InBatch, Torn
<1> QED
  BY <1>2, <1>3, <1>4 DEF Inv, Kept, Drives

\* The report of the soak.
LEMMA ReportSoakKeeps ==
  ASSUME Inv, ReportSoak
  PROVE  Inv'
<1> USE DEF ReportSoak, Emit
<1>1. MachineTypes' /\ StaysStopped' /\ stop' \in BOOLEAN
  BY DEF Inv, Batches, BatchTypes, MachineTypes, StaysStopped
<1>2. Kept
  BY <1>1, BetweenBatches DEF InBatch, Inv, Batches, BatchTypes
<1>3. DriverTypes'
  BY DEF Inv, Drives, DriverTypes, Places
<1>4. Between' /\ Entering' /\ RecordedPassIsWhole' /\ PassIsWhole'
  BY DEF Inv, Drives, DriverTypes, Places, Between, Entering, RecordedPassIsWhole, PassIsWhole, InBatch, Torn
<1> QED
  BY <1>2, <1>3, <1>4 DEF Inv, Kept, Drives

-----------------------------------------------------------------------------
(* The specification. *)

\* A run starts with nothing launched and nobody about to stop it.
LEMMA InitHolds == Init => Inv
<1> SUFFICES ASSUME Init PROVE Inv
  OBVIOUS
<1> USE DEF Init
<1>1. Unlaunched \in LaneRuns /\ ~Unlaunched.gone
  BY DEF Unlaunched, LaneRuns, Verdicts
<1>2. BatchTypes /\ MachineTypes /\ LaneTypes /\ CloserTypes
  <2>1. LaneTypes
    BY <1>1 DEF LaneTypes
  <2>2. MachineTypes
    BY DEF MachineTypes
  <2>3. BatchTypes /\ CloserTypes
    BY DEF BatchTypes, CloserTypes, Ending
  <2> QED
    BY <2>1, <2>2, <2>3
<1>3. Locked /\ Unstarted /\ GoneIsDead /\ StaysStopped /\ Visits
  BY <1>1 DEF Locked, Unstarted, GoneIsDead, StaysStopped, Visits, Torn, Launching
<1>4. Earning
  BY DEF Earning, ErredIsSpoilt, ReadIsJudged, EndsFor, OursIsLate, PassIsLast
<1>5. Lowest(Cores) \in Cores
  BY LowestIsOne
<1>6. DriverTypes
  BY <1>5 DEF DriverTypes, Places, NoResults, Verdicts
<1>7. Between /\ Entering /\ RecordedPassIsWhole /\ PassIsWhole
  BY DEF Between, Entering, RecordedPassIsWhole, PassIsWhole, NoResults, Torn
<1> QED
  BY <1>2, <1>3, <1>4, <1>6, <1>7 DEF Inv, Batches, Drives

\* The driver waits while its batch runs.
LEMMA DriverWaits ==
  ASSUME Inv, Kept, UNCHANGED <<mode, lanes, closer>>, UNCHANGED driver,
         at = "returned" => at' = at
  PROVE  Inv'
<1> USE DEF driver, Inv, Drives
<1>1. DriverTypes' /\ Between' /\ Entering' /\ RecordedPassIsWhole' /\ PassIsWhole'
  BY DEF DriverTypes, Between, Entering, RecordedPassIsWhole, PassIsWhole
<1> QED
  BY <1>1 DEF Kept

\* Every step of a batch.
LEMMA BatchKeeps ==
  ASSUME Inv, Batch, UNCHANGED <<driver, closer, snap>>
  PROVE  Inv'
<1>1. Kept
  BY HeatCheckKeeps, LaunchRefusedKeeps, LaunchCheckKeeps, SpawnKeeps, PollTopKeeps, PollMceKeeps,
     PollErrorsKeeps, PollExitKeeps, PollFaultKeeps, PollWaitKeeps, FinishKeeps, TerminateKeeps,
     LateMceKeeps, ClassifyKeeps
  DEF Batch, Inv
<1>2. mode' = mode /\ lanes' = lanes /\ at # "returned"
  BY ZenonT(60) DEF Batch, HeatCheck, LaunchRefused, Refusal, LaunchCheck, LaunchUnless, Spawn, PollTop,
         PollMce, PollErrors, PollExit, PollFault, PollWait, Finish, Terminate, LateMce, Classify
<1> QED
  BY <1>1, <1>2, DriverWaits

\* Every step of the machine.
LEMMA MachineKeeps ==
  ASSUME Inv, Machine, UNCHANGED <<driver, closer, snap>>
  PROVE  Inv'
<1>1. Kept
  BY PayloadDiesKeeps, PayloadErrsKeeps, KernelLogsKeeps, DutyCycleKeeps DEF Machine, Inv
<1>2. mode' = mode /\ lanes' = lanes /\ at' = at
  BY ZenonT(60) DEF Machine, PayloadDies, PayloadErrs, KernelLogs, DutyCycle
<1> QED
  BY <1>1, <1>2, DriverWaits

\* Every step keeps the invariant.
LEMMA StepKeeps ==
  ASSUME Inv, [Next]_vars
  PROVE  Inv'
<1>1. CASE Worker
  <2>1. CASE Batch /\ UNCHANGED <<driver, closer, snap>>
    BY <2>1, BatchKeeps
  <2>2. CASE Driver
    BY <2>2, RunSchedulerKeeps, NextCoreKeeps, SettleKeeps, StressKeeps, StressedKeeps,
       VariableKeeps, SegmentKeeps, IdleKeeps, RecordCoreKeeps, GapKeeps, EndSchedulerKeeps,
       RunParallelKeeps, EndParallelKeeps, RunRapidKeeps, RapidLoadKeeps, RapidLoadedKeeps,
       RapidRestKeeps, RunSoakKeeps, SoakKeeps, EndSoakKeeps, ReportCoresKeeps, ReportBatchKeeps,
       ReportRapidKeeps, ReportSoakKeeps
    DEF Driver
  <2> QED
    BY <1>1, <2>1, <2>2 DEF Worker
<1>2. CASE Closer
  BY <1>2, CallStopKeeps, MarkStoppingKeeps, TearOneKeeps, TornDownKeeps DEF Closer
<1>3. CASE Hardware
  BY <1>3, MachineKeeps DEF Hardware
<1>4. CASE UNCHANGED vars
  BY <1>4 DEF vars, supervised, driver, Inv, Batches, Drives, BatchTypes, MachineTypes, LaneTypes,
     CloserTypes, Locked, Unstarted, GoneIsDead, StaysStopped, Visits, Live, Earning, ErredIsSpoilt,
     ReadIsJudged, EndsFor, OursIsLate, PassIsLast, SomeFailed, NoneRuns, Failed, Running, Covers,
     DriverTypes, Between, Entering, RecordedPassIsWhole, PassIsWhole
<1> QED
  BY <1>1, <1>2, <1>3, <1>4 DEF Next

\* The invariant holds of every run: with any number of cores, rounds, segments
\* and failures, in every mode, with or without a thread that stops it.
THEOREM RunIsInvariant == Spec => []Inv
BY InitHolds, StepKeeps, PTL DEF Spec

\* The variables have their types.
THEOREM RunTypeCorrect == Spec => []TypeOK
<1>1. Inv => TypeOK
  <2> SUFFICES ASSUME Inv PROVE TypeOK
    OBVIOUS
  <2>1. run \in [Cores -> LaneRuns] /\ Len(report) <= 1
    BY DEF Inv, Batches, LaneTypes, Drives, DriverTypes
  <2>2. lanes \subseteq Cores /\ todo \subseteq Cores /\ stop \in BOOLEAN
        /\ lock \in {"free", "worker", "closer"} /\ results \in [Cores -> Verdicts]
    BY DEF Inv, Batches, BatchTypes, Drives, DriverTypes
  <2>3. MachineTypes
    BY DEF Inv, Batches
  <2> QED
    BY <2>1, <2>2, <2>3 DEF MachineTypes, LaneRuns, TypeOK
<1> QED
  BY <1>1, RunIsInvariant, PTL

\* Once force_teardown has reported that every lane is gone, no payload of this
\* run is alive, then or ever after.
THEOREM TeardownStands == Spec => []TeardownConfirmed
<1>1. Inv => TeardownConfirmed
  BY DEF Inv, Batches, Visits, TeardownConfirmed
<1> QED
  BY <1>1, RunIsInvariant, PTL

\* A core's recorded pass covers every phase that was configured, whenever the
\* run is stopped.
THEOREM PassesAreWhole == Spec => []RecordedPassIsWhole
<1>1. Inv => RecordedPassIsWhole
  BY DEF Inv, Drives
<1> QED
  BY <1>1, RunIsInvariant, PTL

\* A lane passes only if its payload was alive until the deadline, or died of a
\* signal that matches one of ours, wrote no error, and the kernel logged none of
\* a core it covers, unless another lane failed or another thread tore the batch
\* down.
THEOREM PassesAreEarned == Spec => []PassIsEarned
<1>1. Inv => PassIsEarned
  <2> SUFFICES ASSUME Inv, at = "returned", closer \in {"away", "set", "stopped"}, NEW l \in lanes,
                      run[l].verdict = "pass"
               PROVE  Earned(l) \/ \E k \in lanes \ {l} : run[k].verdict \in Failures
    BY DEF PassIsEarned
  <2>1. ~run[l].erred /\ (run[l].ended = Rounds \/ run[l].code = "claimed" \/ SomeFailed)
    BY DEF Inv, Earning, PassIsLast, Torn
  <2>2. Covers(l) \intersect read \subseteq base
    BY DEF Inv, Earning, ReadIsJudged, Standing
  <2>3. run[l].verdict \notin Failures
    BY DEF Failures, Soft
  <2> QED
    BY <2>1, <2>2, <2>3 DEF Earned, SomeFailed, Failed
<1> QED
  BY <1>1, RunIsInvariant, PTL
=============================================================================
