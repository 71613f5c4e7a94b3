-------------------------- MODULE CoreSearchProofs --------------------------
(***************************************************************************)
(* What the search of one core keeps true for every limit, step, retry and  *)
(* penalty, as long as no core starts beyond stock on the safe side.        *)
(***************************************************************************)
EXTENDS CoreSearch, FiniteSetTheorems, TLAPS

\* No core starts beyond stock on the safe side.
OriginsOnTrialSide == Start \in Nat /\ Inherited \subseteq Nat

Offset == Nat \cup {None}

CoreType == [phase : Phase, current : Nat, baseline : Nat, best : Offset,
             coarseFail : Offset, failBound : Offset, passBound : Offset,
             tries : Nat, fails : Nat, battery : Nat, strikes : Nat]

\* The pass bound lies inside the fail bound.
Ordered(c) == Set(c.passBound) /\ Set(c.failBound) => c.passBound < c.failBound

\* Bounds, a backoff and a confirmation all come after a best offset.
HasBest(c) ==
  c.best = None =>
    /\ c.failBound = None /\ c.passBound = None
    /\ c.phase \notin Backoff \cup {"confirmed", "annealing"}

\* A confirmation runs at the best offset.
ConfirmsBest(c) == c.phase = "confirming" => c.best = c.current

\* A core at rest, or annealing from there, holds its baseline or an offset that
\* the log, whose deepest pass is d, has a pass beyond.
Backed(c, d) ==
  c.phase \in {"confirmed", "annealing"} => c.best = c.baseline \/ Reaches(d, c.best)

Sound(c, d) ==
  c \in CoreType /\ Ordered(c) /\ HasBest(c) /\ ConfirmsBest(c) /\ Backed(c, d)

\* The step to the core c does not forget how shallow the core has failed.
Stands(c) == Set(core.failBound) => Reaches(core.failBound, c.failBound)

\* The inductive invariant.
Inv ==
  /\ Sound(core, deepest)
  /\ deepest \in Offset
  /\ testing => core.phase \in Stepped

\* The log after some rows, and after a pass at the current offset.
Longer(d) == d \in Offset /\ (Set(deepest) => Reaches(d, deepest))

Logged(d) == Longer(d) /\ Reaches(d, core.current)

-----------------------------------------------------------------------------
(* Three ways a step keeps its part of the invariant *)

\* A core whose bounds did not move.
LEMMA SameBounds ==
  ASSUME Inv, NEW c \in CoreType,
         c.failBound = core.failBound, c.passBound = core.passBound
  PROVE  Ordered(c) /\ Stands(c) /\ (c.best # None => HasBest(c))
<1>1. core \in CoreType /\ Ordered(core)
  BY DEF Inv, Sound
<1> QED
  BY <1>1, NoneAssumption DEF CoreType, Offset, Ordered, Stands, HasBest, Reaches, Set

\* A core that neither confirms nor rests.
LEMMA Searching ==
  ASSUME NEW c, NEW d, c.phase \notin {"confirming", "confirmed", "annealing"}
  PROVE  ConfirmsBest(c) /\ Backed(c, d)
BY DEF ConfirmsBest, Backed

\* A core that rests where it just passed.
LEMMA RestsOnPass ==
  ASSUME Inv, NEW c \in CoreType, NEW d, Logged(d),
         c.phase = "confirmed", c.best = core.current
  PROVE  ConfirmsBest(c) /\ Backed(c, d)
BY DEF ConfirmsBest, Backed, Logged

\* What the invariant says of the core, field by field.
LEMMA CoreFacts ==
  ASSUME Inv
  PROVE  /\ core \in CoreType
         /\ core.current \in Nat /\ core.baseline \in Nat
         /\ core.best \in Offset /\ core.failBound \in Offset /\ core.passBound \in Offset
         /\ core.tries \in Nat /\ core.fails \in Nat /\ core.strikes \in Nat
         /\ core.best = None => core.failBound = None /\ core.passBound = None
         /\ core.phase \in Backoff \cup {"confirmed", "annealing"} => core.best \in Nat
         /\ core.phase = "confirming" => core.best = core.current
<1>1. core \in CoreType /\ HasBest(core) /\ ConfirmsBest(core)
  BY DEF Inv, Sound
<1> QED
  BY <1>1, NoneAssumption DEF CoreType, Offset, HasBest, ConfirmsBest

-----------------------------------------------------------------------------
(* Entering a phase *)

\* Entering the coarse search, from the baseline or the configured start.
LEMMA EnterCoarseSound ==
  ASSUME OriginsOnTrialSide, Inv, core.phase = "not_started"
  PROVE  Sound(EnterCoarse, deepest) /\ Stands(EnterCoarse)
<1>1. /\ core \in CoreType /\ core.current \in Nat /\ HasBest(core)
  BY CoreFacts DEF Inv, Sound
<1>2. \A n \in Nat : Least(n + Coarse, Max) \in Nat
  BY LimitAssumption, StepAssumption DEF OriginsOnTrialSide, Least
<1>3. EnterCoarse \in CoreType
  BY <1>1, <1>2 DEF CoreType, Phase, EnterCoarse, OriginsOnTrialSide
<1>4. /\ EnterCoarse.phase = "coarse_search" /\ EnterCoarse.best = core.best
      /\ EnterCoarse.failBound = core.failBound /\ EnterCoarse.passBound = core.passBound
  BY <1>1 DEF CoreType, EnterCoarse
<1>5. HasBest(EnterCoarse)
  BY <1>1, <1>4 DEF HasBest, Backoff
<1> QED
  BY <1>3, <1>4, <1>5, SameBounds, Searching DEF Sound

\* Entering the confirmation, at the best offset or the baseline.
LEMMA EnterConfirmSound ==
  ASSUME Inv, core.phase = "settled"
  PROVE  Sound(EnterConfirm, deepest) /\ Stands(EnterConfirm)
<1>2. EnterConfirm \in CoreType
  BY CoreFacts, NoneAssumption, ZenonT(60) DEF CoreType, Offset, Phase, EnterConfirm, Set
<1>3. /\ EnterConfirm.phase = "confirming"
      /\ EnterConfirm.best = EnterConfirm.current /\ EnterConfirm.best # None
      /\ EnterConfirm.failBound = core.failBound /\ EnterConfirm.passBound = core.passBound
  BY CoreFacts, NoneAssumption DEF CoreType, Offset, EnterConfirm, Set
<1>4. ConfirmsBest(EnterConfirm) /\ Backed(EnterConfirm, deepest)
  BY <1>3 DEF ConfirmsBest, Backed
<1> QED
  BY <1>2, <1>3, <1>4, SameBounds DEF Sound

\* Entering the backoff, a fine step back or at the baseline.
LEMMA EnterBackoffSound ==
  ASSUME Inv, core.phase = "failed_confirm"
  PROVE  Sound(EnterBackoff, deepest) /\ Stands(EnterBackoff)
<1>1. Set(core.best) /\ ~AtBaseline(core.best - Fine) => core.best - Fine \in Nat
  BY CoreFacts, NoneAssumption, StepAssumption DEF AtBaseline, Set, Offset
<1>2. EnterBackoff \in CoreType
  BY <1>1, CoreFacts, ZenonT(60) DEF CoreType, Offset, Phase, EnterBackoff
<1>3. /\ EnterBackoff.phase = "backoff_preconfirm" /\ EnterBackoff.best \in Nat
      /\ EnterBackoff.failBound = core.failBound /\ EnterBackoff.passBound = core.passBound
  BY <1>1, CoreFacts DEF CoreType, EnterBackoff
<1> QED
  BY <1>2, <1>3, SameBounds, Searching, NoneAssumption DEF Sound

-----------------------------------------------------------------------------
(* A pass *)

\* A pass of the coarse search goes on or settles.
LEMMA CoarsePassSound ==
  ASSUME Inv, core.phase = "coarse_search", NEW d, Logged(d)
  PROVE  Sound(CoarsePass, d) /\ Stands(CoarsePass)
<1>1. core.current + CoarseStep \in Nat
  BY CoreFacts, StepAssumption DEF CoarseStep
<1>2. CoarsePass \in CoreType
  BY <1>1, CoreFacts, ZenonT(60) DEF CoreType, Offset, Phase, CoarsePass
<1>3. /\ CoarsePass.phase \in {"coarse_search", "settled"} /\ CoarsePass.best = core.current
      /\ CoarsePass.failBound = core.failBound /\ CoarsePass.passBound = core.passBound
  BY CoreFacts DEF CoreType, CoarsePass
<1> QED
  BY <1>2, <1>3, CoreFacts, SameBounds, Searching, NoneAssumption DEF Sound

\* A pass of the fine search goes on or settles.
LEMMA FinePassSound ==
  ASSUME Inv, core.phase = "fine_search", NEW d, Logged(d)
  PROVE  Sound(FinePass, d) /\ Stands(FinePass)
<1>1. core.current + Fine \in Nat
  BY CoreFacts, StepAssumption
<1>2. FinePass \in CoreType
  BY <1>1, CoreFacts, ZenonT(60) DEF CoreType, Offset, Phase, FinePass
<1>3. /\ FinePass.phase \in {"fine_search", "settled"} /\ FinePass.best = core.current
      /\ FinePass.failBound = core.failBound /\ FinePass.passBound = core.passBound
  BY CoreFacts DEF CoreType, FinePass
<1> QED
  BY <1>2, <1>3, CoreFacts, SameBounds, Searching, NoneAssumption DEF Sound

\* A pass of the confirmation rests at the best offset, which is the one tested.
LEMMA ConfirmPassSound ==
  ASSUME Inv, core.phase = "confirming", NEW d, Logged(d)
  PROVE  Sound(ConfirmPass, d) /\ Stands(ConfirmPass)
<1>1. ConfirmPass \in CoreType
  BY CoreFacts DEF CoreType, Phase, ConfirmPass
<1>2. /\ ConfirmPass.phase = "confirmed" /\ ConfirmPass.best = core.current
      /\ ConfirmPass.failBound = core.failBound /\ ConfirmPass.passBound = core.passBound
  BY CoreFacts DEF CoreType, ConfirmPass
<1> QED
  BY <1>1, <1>2, CoreFacts, SameBounds, RestsOnPass, NoneAssumption DEF Sound

\* The midpoint between the bounds is a depth.
LEMMA MidpointType ==
  ASSUME NEW pass \in Nat, NEW fail \in Nat
  PROVE  Midpoint(pass, fail) \in Nat
<1>1. Gap(pass, fail) \in Nat
  BY DEF Gap
<1>2. \A g \in Nat : g \div 2 \in Nat
  OBVIOUS
<1> QED
  BY <1>1, <1>2 DEF Midpoint

\* A pass that no fail bound contradicts becomes the pass bound.
LEMMA NewPassBound ==
  ASSUME Inv, core.phase \in Backoff, ~Contradicted, NEW c \in CoreType,
         c.passBound = core.current, c.failBound = core.failBound, c.best \in Nat
  PROVE  Ordered(c) /\ HasBest(c) /\ Stands(c)
<1>1. Set(core.failBound) => core.current < core.failBound
  BY CoreFacts, NoneAssumption DEF Contradicted, Reaches, Set, Offset
<1> QED
  BY <1>1, CoreFacts, NoneAssumption DEF Ordered, HasBest, Stands, Reaches, Set, Offset

\* A pass of the backoff search is confirmed or halves the gap.
LEMMA PreconfirmPassSound ==
  ASSUME Inv, core.phase = "backoff_preconfirm", ~Contradicted, NEW d, Logged(d)
  PROVE  Sound(PreconfirmPass, d) /\ Stands(PreconfirmPass)
<1>1. Set(core.failBound) => Midpoint(core.current, core.failBound) \in Nat
  BY CoreFacts, MidpointType DEF Set, Offset
<1>2. PreconfirmPass \in CoreType
  BY <1>1, CoreFacts, ZenonT(60) DEF CoreType, Offset, Phase, PreconfirmPass
<1>3. /\ PreconfirmPass.phase \in Backoff /\ PreconfirmPass.best = core.current
      /\ PreconfirmPass.failBound = core.failBound
      /\ PreconfirmPass.passBound = core.current
  BY CoreFacts DEF CoreType, PreconfirmPass, Backoff
<1>4. core.phase \in Backoff
  BY DEF Backoff
<1>5. Ordered(PreconfirmPass) /\ HasBest(PreconfirmPass) /\ Stands(PreconfirmPass)
  BY <1>2, <1>3, <1>4, CoreFacts, NewPassBound
<1>6. ConfirmsBest(PreconfirmPass) /\ Backed(PreconfirmPass, d)
  BY <1>3, Searching DEF Backoff
<1> QED
  BY <1>2, <1>5, <1>6 DEF Sound

\* A pass of the backoff confirmation rests there or halves the gap.
LEMMA BackoffConfirmPassSound ==
  ASSUME Inv, core.phase = "backoff_confirming", ~Contradicted, NEW d, Logged(d)
  PROVE  Sound(BackoffConfirmPass, d) /\ Stands(BackoffConfirmPass)
<1>1. Set(core.failBound) => Midpoint(core.current, core.failBound) \in Nat
  BY CoreFacts, MidpointType DEF Set, Offset
<1>2. BackoffConfirmPass \in CoreType
  BY <1>1, CoreFacts, ZenonT(60) DEF CoreType, Offset, Phase, BackoffConfirmPass
<1>3. /\ BackoffConfirmPass.phase \in {"confirmed", "backoff_preconfirm"}
      /\ BackoffConfirmPass.best = core.current
      /\ BackoffConfirmPass.failBound = core.failBound
      /\ BackoffConfirmPass.passBound = core.current
  BY CoreFacts DEF CoreType, BackoffConfirmPass
<1>4. core.phase \in Backoff
  BY DEF Backoff
<1>5. Ordered(BackoffConfirmPass) /\ HasBest(BackoffConfirmPass) /\ Stands(BackoffConfirmPass)
  BY <1>2, <1>3, <1>4, CoreFacts, NewPassBound
<1>6. ConfirmsBest(BackoffConfirmPass) /\ Backed(BackoffConfirmPass, d)
  BY <1>2, <1>3, Searching, RestsOnPass
<1> QED
  BY <1>2, <1>5, <1>6 DEF Sound

\* A pass at or beyond the fail bound moves no bound.
LEMMA ContradictoryPassSound ==
  ASSUME Inv, Contradicted, NEW d
  PROVE  Sound(ContradictoryPass, d) /\ Stands(ContradictoryPass)
<1>1. core.failBound \in Nat /\ core.best \in Nat
  BY CoreFacts, NoneAssumption DEF Contradicted, Reaches, Set, Offset
<1>2. ~AtBaseline(core.failBound - Fine) =>
        core.failBound - Fine \in Nat /\ Least(core.best, core.failBound - Fine) \in Nat
  BY <1>1, CoreFacts, StepAssumption DEF AtBaseline, Least
<1>3. ContradictoryPass \in CoreType
  BY <1>2, CoreFacts, ZenonT(60) DEF CoreType, Offset, Phase, ContradictoryPass
<1>4. /\ ContradictoryPass.phase = "backoff_preconfirm" /\ ContradictoryPass.best \in Nat
      /\ ContradictoryPass.failBound = core.failBound
      /\ ContradictoryPass.passBound = core.passBound
  BY <1>2, CoreFacts DEF CoreType, ContradictoryPass
<1> QED
  BY <1>3, <1>4, SameBounds, Searching, NoneAssumption DEF Sound

\* Back from an annealing probe, to the offset the core held.
LEMMA AnnealBackSound ==
  ASSUME Inv, core.phase = "annealing", NEW d,
         \A best \in Nat : Reaches(deepest, best) => Reaches(d, best)
  PROVE  Sound(AnnealBack, d) /\ Stands(AnnealBack)
<1>1. core.best \in Nat
  BY CoreFacts
<1>2. AnnealBack \in CoreType
  <2>1. core \in CoreType /\ core.strikes + 1 \in Nat
    BY CoreFacts
  <2> QED
    BY <1>1, <2>1 DEF CoreType, Phase, AnnealBack
<1>3. /\ AnnealBack.phase = "confirmed" /\ AnnealBack.best = core.best
      /\ AnnealBack.baseline = core.baseline
      /\ AnnealBack.failBound = core.failBound /\ AnnealBack.passBound = core.passBound
  BY CoreFacts DEF CoreType, AnnealBack
<1>4. ConfirmsBest(AnnealBack) /\ Backed(AnnealBack, d)
  BY <1>1, <1>3 DEF ConfirmsBest, Backed, Inv, Sound
<1> QED
  BY <1>1, <1>2, <1>3, <1>4, SameBounds, NoneAssumption DEF Sound

\* A longer log backs what the log backed.
LEMMA LongerBacks ==
  ASSUME Inv, NEW d, Longer(d)
  PROVE  \A best \in Nat : Reaches(deepest, best) => Reaches(d, best)
BY NoneAssumption DEF Inv, Longer, Reaches, Set, Offset

\* A pass of an annealing probe rests there, unless a fail bound contradicts it.
LEMMA AnnealPassSound ==
  ASSUME Inv, core.phase = "annealing", NEW d, Logged(d)
  PROVE  Sound(AnnealPass, d) /\ Stands(AnnealPass)
<1>1. CASE Reaches(core.current, core.failBound)
  BY <1>1, AnnealBackSound, LongerBacks DEF AnnealPass, Logged
<1>2. CASE ~Reaches(core.current, core.failBound)
  <2> DEFINE c == [core EXCEPT !.phase = "confirmed", !.best = core.current, !.strikes = 0,
                              !.battery = 0]
  <2>1. AnnealPass = c
    BY <1>2 DEF AnnealPass
  <2>2. c \in CoreType
    BY CoreFacts DEF CoreType, Offset, Phase
  <2>3. /\ c.phase = "confirmed" /\ c.best = core.current
        /\ c.failBound = core.failBound /\ c.passBound = core.passBound
    BY CoreFacts DEF CoreType
  <2> HIDE DEF c
  <2> QED
    BY <2>1, <2>2, <2>3, CoreFacts, SameBounds, RestsOnPass, NoneAssumption DEF Sound
<1> QED
  BY <1>1, <1>2

\* Whatever phase a slot ran in, its pass keeps the core sound.
LEMMA PassSound ==
  ASSUME Inv, testing, NEW d, Logged(d)
  PROVE  Sound(PassOf(core.phase), d) /\ Stands(PassOf(core.phase))
<1>1. core.phase \in Stepped
  BY DEF Inv
<1>2. CASE core.phase = "coarse_search"
  BY <1>2, CoarsePassSound DEF PassOf, Contradicted, Backoff
<1>3. CASE core.phase = "fine_search"
  BY <1>3, FinePassSound DEF PassOf, Contradicted, Backoff
<1>4. CASE core.phase = "confirming"
  BY <1>4, ConfirmPassSound DEF PassOf, Contradicted, Backoff
<1>5. CASE core.phase = "annealing"
  BY <1>5, AnnealPassSound DEF PassOf, Contradicted, Backoff
<1>6. CASE core.phase \in Backoff /\ Contradicted
  <2>1. PassOf(core.phase) = ContradictoryPass
    BY <1>6 DEF PassOf, Backoff
  <2> QED
    BY <1>6, <2>1, ContradictoryPassSound
<1>7. CASE core.phase = "backoff_preconfirm" /\ ~Contradicted
  BY <1>7, PreconfirmPassSound DEF PassOf
<1>8. CASE core.phase = "backoff_confirming" /\ ~Contradicted
  BY <1>8, BackoffConfirmPassSound DEF PassOf
<1> QED
  BY <1>1, <1>2, <1>3, <1>4, <1>5, <1>6, <1>7, <1>8 DEF Stepped, Backoff

-----------------------------------------------------------------------------
(* A failure *)

\* A first failure of the coarse search steps back, a later one searches finely.
LEMMA CoarseFailSound ==
  ASSUME OriginsOnTrialSide, Inv, core.phase = "coarse_search", NEW d
  PROVE  Sound(CoarseFail, d) /\ Stands(CoarseFail)
<1>1. CASE Set(core.best)
  <2>1. core.best \in Nat
    BY <1>1, CoreFacts DEF Set, Offset
  <2>2. Least(core.best + Fine, Max) \in Nat
    BY <2>1, StepAssumption, LimitAssumption DEF Least, OriginsOnTrialSide
  <2>3. CoarseFail \in CoreType
    BY <1>1, <2>2, CoreFacts, ZenonT(60) DEF CoreType, Offset, Phase, CoarseFail
  <2>4. /\ CoarseFail.phase \in {"settled", "fine_search"} /\ CoarseFail.best = core.best
        /\ CoarseFail.failBound = core.failBound /\ CoarseFail.passBound = core.passBound
    BY <1>1, CoreFacts DEF CoreType, CoarseFail
  <2> QED
    BY <2>1, <2>3, <2>4, SameBounds, Searching, NoneAssumption DEF Sound
<1>2. CASE ~Set(core.best)
  <2> DEFINE next == FloorAtBaseline(core.current - Fine)
  <2>1. next \in Nat
    BY CoreFacts, StepAssumption DEF FloorAtBaseline, Greatest
  <2>2. core.failBound = None /\ core.passBound = None
    BY <1>2, CoreFacts DEF Set
  <2>3. CoarseFail \in CoreType
    BY <1>2, <2>1, CoreFacts, ZenonT(60) DEF CoreType, Offset, Phase, CoarseFail
  <2>4. /\ CoarseFail.phase = "backoff_preconfirm" /\ CoarseFail.best = next
        /\ CoarseFail.passBound = None
    BY <1>2, <2>2, CoreFacts DEF CoreType, CoarseFail
  <2> HIDE DEF next
  <2>5. Ordered(CoarseFail) /\ HasBest(CoarseFail) /\ Stands(CoarseFail)
    BY <2>1, <2>2, <2>4, NoneAssumption DEF Ordered, HasBest, Stands, Set
  <2> QED
    BY <2>3, <2>4, <2>5, Searching DEF Sound
<1> QED
  BY <1>1, <1>2

\* A failure of the fine search settles.
LEMMA FineFailSound ==
  ASSUME Inv, core.phase = "fine_search", NEW d
  PROVE  Sound(FineFail, d) /\ Stands(FineFail)
<1>1. FineFail \in CoreType
  BY CoreFacts DEF CoreType, Phase, FineFail
<1>2. /\ FineFail.phase = "settled" /\ FineFail.best = core.best
      /\ FineFail.failBound = core.failBound /\ FineFail.passBound = core.passBound
  BY CoreFacts DEF CoreType, FineFail
<1>3. HasBest(FineFail)
  BY <1>2, CoreFacts DEF HasBest, Backoff
<1> QED
  BY <1>1, <1>2, <1>3, SameBounds, Searching DEF Sound

\* A failed confirmation is retried until its tries are used up.
LEMMA ConfirmFailSound ==
  ASSUME Inv, core.phase = "confirming", NEW d
  PROVE  Sound(ConfirmFail, d) /\ Stands(ConfirmFail)
<1>1. core \in CoreType /\ core.tries + 1 \in Nat
  BY CoreFacts
<1>2. ConfirmFail \in CoreType
  BY <1>1 DEF CoreType, Phase, ConfirmFail
<1>3. /\ ConfirmFail.phase \in {"confirming", "failed_confirm"}
      /\ ConfirmFail.best = core.best /\ ConfirmFail.current = core.current
      /\ ConfirmFail.failBound = core.failBound /\ ConfirmFail.passBound = core.passBound
  BY <1>1 DEF CoreType, ConfirmFail
<1>4. HasBest(ConfirmFail) /\ ConfirmsBest(ConfirmFail) /\ Backed(ConfirmFail, d)
  BY <1>3, CoreFacts DEF HasBest, ConfirmsBest, Backed, Backoff
<1> QED
  BY <1>2, <1>3, <1>4, SameBounds DEF Sound

\* How a failure at a depth moves the bounds: the fail bound only comes closer,
\* and a pass bound it reaches is dropped.
LEMMA FailedBounds ==
  ASSUME Inv, NEW depth \in Nat
  PROVE  LET fail == Tightened(core.failBound, depth)
             pass == Unrefuted(core.passBound, depth)
         IN  /\ fail \in Nat /\ pass \in Offset
             /\ Set(pass) => pass < fail
             /\ Set(core.failBound) => Reaches(core.failBound, fail)
<1> DEFINE fail == Tightened(core.failBound, depth)
           pass == Unrefuted(core.passBound, depth)
<1>1. /\ core.failBound \in Offset /\ core.passBound \in Offset
      /\ Set(core.passBound) /\ Set(core.failBound) => core.passBound < core.failBound
  BY CoreFacts DEF Inv, Sound, Ordered
<1>2. fail \in Nat /\ fail <= depth /\ (Set(core.failBound) => fail <= core.failBound)
  BY <1>1, NoneAssumption DEF Tightened, Least, Set, Offset
<1>3. fail = depth \/ (Set(core.failBound) /\ fail = core.failBound)
  BY DEF Tightened, Least
<1>4. pass \in Offset /\ (Set(pass) => pass = core.passBound /\ pass < depth)
  BY <1>1, NoneAssumption DEF Unrefuted, Reaches, Set, Offset
<1>5. Set(pass) => pass < fail
  BY <1>1, <1>3, <1>4
<1>6. Set(core.failBound) => Reaches(core.failBound, fail)
  BY <1>1, <1>2, NoneAssumption DEF Reaches, Set, Offset
<1> QED
  BY <1>2, <1>4, <1>5, <1>6

\* The bounds after a failed backoff step, and the rest of the core.
LEMMA FailedFacts ==
  ASSUME Inv, core.phase \in Backoff
  PROVE  /\ Failed \in CoreType
         /\ Failed.failBound \in Nat /\ Failed.passBound \in Offset
         /\ Set(Failed.passBound) => Failed.passBound < Failed.failBound
         /\ Set(core.failBound) => Reaches(core.failBound, Failed.failBound)
         /\ Failed.phase = core.phase /\ Failed.best = core.best /\ core.best \in Nat
         /\ Failed.current = core.current /\ Failed.fails = core.fails
<1> DEFINE fail == Tightened(core.failBound, core.current)
           pass == Unrefuted(core.passBound, core.current)
<1>1. /\ fail \in Nat /\ pass \in Offset
      /\ Set(pass) => pass < fail
      /\ Set(core.failBound) => Reaches(core.failBound, fail)
  BY CoreFacts, FailedBounds
<1>2. Failed = [core EXCEPT !.failBound = fail, !.passBound = pass]
  BY DEF Failed
<1> HIDE DEF fail, pass
<1>3. Failed \in CoreType
  BY <1>1, <1>2, CoreFacts DEF CoreType, Offset
<1>4. /\ Failed.failBound = fail /\ Failed.passBound = pass
      /\ Failed.phase = core.phase /\ Failed.best = core.best
      /\ Failed.current = core.current /\ Failed.fails = core.fails
  BY <1>2, CoreFacts DEF CoreType
<1> QED
  BY <1>1, <1>3, <1>4, CoreFacts

\* A core that took over the bounds of a failure.
LEMMA FailedSound ==
  ASSUME Inv, core.phase \in Backoff, NEW c \in CoreType, NEW d,
         c.failBound = Failed.failBound, c.passBound = Failed.passBound,
         c.phase \in Backoff, c.best \in Nat
  PROVE  Sound(c, d) /\ Stands(c)
<1>1. Ordered(c) /\ HasBest(c) /\ Stands(c)
  BY FailedFacts, NoneAssumption DEF Ordered, HasBest, Stands
<1>2. ConfirmsBest(c) /\ Backed(c, d)
  BY Searching DEF Backoff
<1> QED
  BY <1>1, <1>2 DEF Sound

\* A failed backoff step closes in on the pass bound or steps further back.
LEMMA PreconfirmFailSound ==
  ASSUME Inv, core.phase = "backoff_preconfirm", NEW d
  PROVE  Sound(PreconfirmFail, d) /\ Stands(PreconfirmFail)
<1> DEFINE s == [Failed EXCEPT !.fails = @ + 1]
           jump == s.fails >= JumpAfter
           step == IF jump THEN Greatest(Fine, (core.current - core.baseline) \div 2) ELSE Fine
           next == FloorAtBaseline(core.current - step)
<1>1. core.phase \in Backoff
  BY DEF Backoff
<1>2. Failed \in CoreType /\ Failed.fails + 1 \in Nat
  BY <1>1, FailedFacts, CoreFacts
<1>3. s \in CoreType
  BY <1>2 DEF CoreType
<1>4. /\ s.failBound = Failed.failBound /\ s.passBound = Failed.passBound
      /\ s.phase = "backoff_preconfirm" /\ s.failBound \in Nat /\ s.passBound \in Offset
      /\ s.fails \in Nat
  BY <1>1, <1>2, FailedFacts DEF CoreType
<1>5. next \in Nat
  <2>1. (core.current - core.baseline) \div 2 \in Int
    BY CoreFacts
  <2>2. step \in Int
    BY <2>1, StepAssumption DEF Greatest
  <2> HIDE DEF step
  <2> QED
    BY <2>2, CoreFacts DEF FloorAtBaseline, Greatest
<1>6. PreconfirmFail =
        IF Set(s.passBound)
          THEN IF Converged(s.passBound, s.failBound)
                 THEN [s EXCEPT !.best = s.passBound, !.current = s.passBound,
                                !.phase = "backoff_confirming"]
                 ELSE [s EXCEPT !.best = s.passBound,
                                !.current = Midpoint(s.passBound, s.failBound)]
          ELSE [s EXCEPT !.best = next, !.current = next,
                         !.fails = IF jump THEN 0 ELSE @]
  BY DEF PreconfirmFail
<1> HIDE DEF s, jump, next
<1>7. Set(s.passBound) => s.passBound \in Nat /\ Midpoint(s.passBound, s.failBound) \in Nat
  BY <1>4, MidpointType DEF Set, Offset
<1>8. PreconfirmFail \in CoreType
  BY <1>3, <1>4, <1>5, <1>6, <1>7, ZenonT(60) DEF CoreType, Offset, Phase
<1>9. /\ PreconfirmFail.phase \in Backoff /\ PreconfirmFail.best \in Nat
      /\ PreconfirmFail.failBound = Failed.failBound
      /\ PreconfirmFail.passBound = Failed.passBound
  BY <1>3, <1>4, <1>5, <1>6, <1>7 DEF CoreType, Backoff
<1> QED
  BY <1>1, <1>8, <1>9, FailedSound

\* A failed backoff confirmation steps back, to the pass bound if there is one.
LEMMA BackoffConfirmFailSound ==
  ASSUME Inv, core.phase = "backoff_confirming", NEW d
  PROVE  Sound(BackoffConfirmFail, d) /\ Stands(BackoffConfirmFail)
<1>1. core.phase \in Backoff
  BY DEF Backoff
<1>2. /\ Failed \in CoreType /\ Failed.passBound \in Offset
      /\ Failed.phase = "backoff_confirming"
  BY <1>1, FailedFacts
<1>3. FloorAtBaseline(core.best - Fine) \in Nat
  BY <1>1, CoreFacts, StepAssumption DEF FloorAtBaseline, Greatest
<1>4. Set(Failed.passBound) => Failed.passBound \in Nat
  BY <1>2 DEF Set, Offset
<1>5. BackoffConfirmFail \in CoreType
  BY <1>2, <1>3, <1>4, ZenonT(60) DEF CoreType, Offset, Phase, BackoffConfirmFail
<1>6. /\ BackoffConfirmFail.phase \in Backoff /\ BackoffConfirmFail.best \in Nat
      /\ BackoffConfirmFail.failBound = Failed.failBound
      /\ BackoffConfirmFail.passBound = Failed.passBound
  BY <1>2, <1>3, <1>4 DEF CoreType, Backoff, BackoffConfirmFail
<1> QED
  BY <1>1, <1>5, <1>6, FailedSound

\* Whatever phase a slot ran in, its failure keeps the core sound.
LEMMA FailSound ==
  ASSUME OriginsOnTrialSide, Inv, core.phase \in Stepped
  PROVE  Sound(FailOf(core.phase), deepest) /\ Stands(FailOf(core.phase))
<1>1. CASE FailPauses /\ core.phase \in Backoff
  <2>1. FailOf(core.phase) = Failed
    BY <1>1 DEF FailOf, Backoff
  <2> QED
    BY <1>1, <2>1, FailedFacts, FailedSound
<1>2. CASE FailPauses /\ core.phase = "confirming"
  <2>1. FailOf(core.phase) = core
    BY <1>2 DEF FailOf, Backoff
  <2>2. Sound(core, deepest)
    BY DEF Inv
  <2>3. Stands(core)
    BY CoreFacts, SameBounds
  <2> QED
    BY <2>1, <2>2, <2>3
<1>3. CASE core.phase = "coarse_search"
  BY <1>3, CoarseFailSound DEF FailOf, FailPauses, Backoff
<1>4. CASE core.phase = "fine_search"
  BY <1>4, FineFailSound DEF FailOf, FailPauses, Backoff
<1>5. CASE core.phase = "annealing"
  BY <1>5, AnnealBackSound DEF FailOf, FailPauses, Backoff
<1>6. CASE core.phase = "confirming" /\ ~FailPauses
  BY <1>6, ConfirmFailSound DEF FailOf
<1>7. CASE core.phase = "backoff_preconfirm" /\ ~FailPauses
  BY <1>7, PreconfirmFailSound DEF FailOf
<1>8. CASE core.phase = "backoff_confirming" /\ ~FailPauses
  BY <1>8, BackoffConfirmFailSound DEF FailOf
<1> QED
  BY <1>1, <1>2, <1>3, <1>4, <1>5, <1>6, <1>7, <1>8 DEF Stepped, Backoff, FailPauses

-----------------------------------------------------------------------------
(* What the rest of the engine does to the core *)

\* A penalty backs off, and never past stock.
LEMMA RetreatRetreats ==
  ASSUME NEW crashed \in Nat, NEW steps \in Nat
  PROVE  Retreat(crashed, steps) \in Nat /\ Retreat(crashed, steps) <= crashed
<1>1. steps * Fine \in Nat
  BY StepAssumption
<1> QED
  BY <1>1 DEF Retreat, Greatest

\* Charging the core with a crash keeps it sound, whatever it was doing.
LEMMA PenaltySound ==
  ASSUME Inv, NEW crashed \in Nat, NEW steps \in Nat
  PROVE  Sound(Penalty(crashed, steps), deepest) /\ Stands(Penalty(crashed, steps))
<1> DEFINE c == Penalty(crashed, steps)
           retreat == Retreat(crashed, steps)
           base == IF AtBaseline(crashed) THEN retreat ELSE core.baseline
           current == IF AtBaseline(crashed) THEN retreat ELSE FloorAtBaseline(retreat)
           best == IF Set(core.best) THEN Least(core.best, current) ELSE base
           fail == Tightened(core.failBound, crashed)
           pass == Unrefuted(core.passBound, crashed)
           phase == IF core.phase \in Demoted THEN "backoff_preconfirm" ELSE core.phase
           strikes == IF core.phase \in {"confirmed", "annealing"} THEN MaxStrikes
                      ELSE core.strikes
<1>1. c = [core EXCEPT !.failBound = fail, !.passBound = pass, !.baseline = base,
                       !.current = current, !.best = best, !.strikes = strikes,
                       !.phase = phase, !.battery = 0, !.tries = 0]
  BY DEF Penalty
<1>2. retreat \in Nat /\ retreat <= crashed
  BY RetreatRetreats
<1>3. base \in Nat /\ current \in Nat /\ base <= current
  BY <1>2, CoreFacts DEF FloorAtBaseline, Greatest
<1>4. best \in Nat
  BY <1>3, CoreFacts DEF Least, Set, Offset
<1>5. /\ fail \in Nat /\ pass \in Offset
      /\ Set(pass) => pass < fail
      /\ Set(core.failBound) => Reaches(core.failBound, fail)
  BY FailedBounds
<1>6. phase \in Phase \ {"confirming", "confirmed"} /\ strikes \in Nat
  BY CoreFacts, CounterAssumption DEF CoreType, Phase, Demoted
<1>7. phase = "annealing" => best = base \/ Reaches(deepest, best)
  <2> SUFFICES ASSUME phase = "annealing" PROVE best = base \/ Reaches(deepest, best)
    OBVIOUS
  <2>1. core.phase = "annealing"
    BY DEF Demoted
  <2>2. core.best \in Nat /\ (core.best = core.baseline \/ Reaches(deepest, core.best))
    BY <2>1, CoreFacts DEF Inv, Sound, Backed
  <2>3. best = Least(core.best, current)
    BY <2>2, NoneAssumption DEF Set
  <2>4. \A n \in Nat : Reaches(deepest, core.best) /\ n <= core.best => Reaches(deepest, n)
    BY <2>2, NoneAssumption DEF Inv, Reaches, Set, Offset
  <2>5. CASE AtBaseline(crashed)
    <3>1. base = retreat /\ current = retreat /\ retreat <= core.baseline
      BY <1>2, <2>5, CoreFacts DEF AtBaseline
    <3> HIDE DEF base, current, retreat, best
    <3> QED
      BY <1>2, <1>3, <2>2, <2>3, <2>4, <3>1 DEF Least
  <2>6. CASE ~AtBaseline(crashed)
    <3>1. base = core.baseline
      BY <2>6
    <3> HIDE DEF base, current, retreat, best
    <3> QED
      BY <1>3, <2>2, <2>3, <2>4, <3>1 DEF Least
  <2> QED
    BY <2>5, <2>6
<1> HIDE DEF c, retreat, base, current, best, fail, pass, phase, strikes
<1>8. c \in CoreType
  BY <1>1, <1>3, <1>4, <1>5, <1>6, CoreFacts, ZenonT(60) DEF CoreType, Offset
<1>9. /\ c.failBound = fail /\ c.passBound = pass /\ c.best = best
      /\ c.phase = phase /\ c.baseline = base
  BY <1>1, CoreFacts DEF CoreType
<1>10. Ordered(c) /\ HasBest(c) /\ Stands(c)
  BY <1>4, <1>5, <1>9, NoneAssumption DEF Ordered, HasBest, Stands
<1>11. ConfirmsBest(c) /\ Backed(c, deepest)
  BY <1>6, <1>7, <1>9 DEF ConfirmsBest, Backed
<1> QED
  BY <1>8, <1>10, <1>11 DEF Sound, c

\* What a failure can have found resident is a depth.
LEMMA ResidentType ==
  ASSUME Inv
  PROVE  Resident \subseteq Nat
BY CoreFacts DEF Resident, Live, Set, Offset

\* A sound core has nothing to reconcile: its confirmation is backed.
LEMMA NothingToReconcile ==
  ASSUME NEW c, Sound(c, deepest), deepest \in Offset
  PROVE  Reconciled(c) = c
<1>1. CASE c.phase = "confirmed"
  <2>1. c.best \in Nat /\ (c.best = c.baseline \/ Reaches(deepest, c.best))
    BY <1>1, NoneAssumption DEF Sound, CoreType, HasBest, Backed, Offset
  <2> QED
    BY <2>1, NoneAssumption DEF Reconciled, Reaches, Set, Offset
<1>2. CASE c.phase # "confirmed"
  BY <1>2 DEF Reconciled
<1> QED
  BY <1>1, <1>2

\* Re-opening a quarantined session pulls the core to stock and keeps it sound.
LEMMA PulledSound ==
  ASSUME Inv
  PROVE  Sound(Pulled, deepest) /\ Stands(Pulled)
<1>1. Pulled = [core EXCEPT !.current = 0, !.baseline = 0,
                            !.best = IF Set(core.best) THEN 0 ELSE core.best]
  <2>1. /\ Least(core.current, 0) = 0 /\ Least(core.baseline, 0) = 0
        /\ Set(core.best) => Least(core.best, 0) = 0
    BY CoreFacts DEF Least, Set, Offset
  <2> QED
    BY <2>1 DEF Pulled
<1>2. Pulled \in CoreType
  BY <1>1, CoreFacts DEF CoreType, Offset
<1>3. /\ Pulled.phase = core.phase /\ Pulled.current = 0 /\ Pulled.baseline = 0
      /\ Pulled.best = IF Set(core.best) THEN 0 ELSE core.best
      /\ Pulled.failBound = core.failBound /\ Pulled.passBound = core.passBound
  BY <1>1, CoreFacts DEF CoreType
<1>4. HasBest(Pulled)
  BY <1>3, NoneAssumption DEF HasBest, Inv, Sound, Set
<1>5. ConfirmsBest(Pulled)
  BY <1>3, CoreFacts, NoneAssumption DEF ConfirmsBest, Set
<1>6. Backed(Pulled, deepest)
  BY <1>3, CoreFacts, NoneAssumption DEF Backed, Set
<1> QED
  BY <1>2, <1>3, <1>4, <1>5, <1>6, SameBounds DEF Sound

-----------------------------------------------------------------------------
(* Every step *)

\* The battery index is no part of what is sound.
LEMMA BatterySound ==
  ASSUME NEW c, NEW d, NEW n \in Nat, Sound(c, d)
  PROVE  LET b == [c EXCEPT !.battery = n]
         IN  Sound(b, d) /\ (Stands(c) => Stands(b)) /\ b.phase = c.phase
<1> DEFINE b == [c EXCEPT !.battery = n]
<1>1. c \in CoreType
  BY DEF Sound
<1>2. b \in CoreType
  BY <1>1 DEF CoreType
<1>3. /\ b.phase = c.phase /\ b.best = c.best /\ b.current = c.current
      /\ b.baseline = c.baseline /\ b.failBound = c.failBound /\ b.passBound = c.passBound
  BY <1>1 DEF CoreType
<1> HIDE DEF b
<1>4. Sound(b, d) /\ (Stands(c) => Stands(b))
  BY <1>2, <1>3 DEF Sound, Ordered, HasBest, ConfirmsBest, Backed, Stands
<1> QED
  BY <1>3, <1>4 DEF b

\* A core that does not move, under a log that may deepen.
LEMMA CoreStays ==
  ASSUME Inv, NEW d, Longer(d)
  PROVE  Sound(core, d) /\ Stands(core)
<1>1. Stands(core)
  BY CoreFacts, SameBounds
<1>2. \A best \in Nat : Reaches(deepest, best) => Reaches(d, best)
  BY LongerBacks
<1>3. Backed(core, d)
  BY <1>2, CoreFacts DEF Inv, Sound, Backed
<1> QED
  BY <1>1, <1>3 DEF Inv, Sound

\* The log as it is, and one row later.
LEMMA LogStays ==
  ASSUME Inv
  PROVE  Longer(deepest)
BY NoneAssumption DEF Inv, Longer, Reaches, Set, Offset

LEMMA PassLengthens ==
  ASSUME Inv, NEW depth \in Nat
  PROVE  Longer(Deeper(deepest, depth)) /\ Reaches(Deeper(deepest, depth), depth)
BY NoneAssumption DEF Inv, Deeper, Longer, Greatest, Reaches, Set, Offset

\* The log after a logged pass.
LEMMA LogPassLogs ==
  ASSUME Inv, NEW r, LogPass(r)
  PROVE  Logged(deepest')
BY CoreFacts, PassLengthens DEF LogPass, Logged

\* A step that leaves the core alone, under a log that may be longer.
LEMMA OnlyLogs ==
  ASSUME Inv, core' = core, testing' => testing, Longer(deepest')
  PROVE  Inv' /\ Stands(core')
<1>1. Sound(core', deepest') /\ Stands(core')
  BY CoreStays
<1> QED
  BY <1>1 DEF Inv, Longer

\* The dispatch enters a phase or goes on in the one the core is in.
LEMMA DispatchStep ==
  ASSUME OriginsOnTrialSide, Inv, Dispatch
  PROVE  Inv' /\ Stands(core')
<1>1. core.phase \in Phase \ {"confirmed"} /\ core' = LedOn /\ deepest' = deepest
  BY CoreFacts DEF Dispatch, Carry, CoreType
<1>2. CASE core.phase = "not_started"
  <2>1. core' = EnterCoarse /\ EnterCoarse.phase = "coarse_search"
    BY <1>1, <1>2, CoreFacts DEF LedOn, EnterCoarse, CoreType
  <2> QED
    BY <1>1, <1>2, <2>1, EnterCoarseSound DEF Inv, Stepped
<1>3. CASE core.phase = "settled"
  <2>1. core' = EnterConfirm /\ EnterConfirm.phase = "confirming"
    BY <1>1, <1>3, CoreFacts DEF LedOn, EnterConfirm, CoreType
  <2> QED
    BY <1>1, <1>3, <2>1, EnterConfirmSound DEF Inv, Stepped
<1>4. CASE core.phase = "failed_confirm"
  <2>1. core' = EnterBackoff /\ EnterBackoff.phase = "backoff_preconfirm"
    BY <1>1, <1>4, CoreFacts DEF LedOn, EnterBackoff, CoreType
  <2> QED
    BY <1>1, <1>4, <2>1, EnterBackoffSound DEF Inv, Stepped, Backoff
<1>5. CASE core.phase \notin {"not_started", "settled", "failed_confirm"}
  <2>1. core' = core /\ core.phase \in Stepped
    BY <1>1, <1>5 DEF LedOn, Phase, Stepped, Backoff
  <2> QED
    BY <1>1, <2>1, CoreStays, LogStays DEF Inv
<1> QED
  BY <1>2, <1>3, <1>4, <1>5

\* An annealing probe starts one step beyond a confirmed offset and moves no bound.
LEMMA AnnealStep ==
  ASSUME Inv, Anneal
  PROVE  Inv' /\ Stands(core')
<1>1. core.best \in Nat /\ core.best + Fine \in Nat
  BY CoreFacts, StepAssumption DEF Anneal
<1>2. core' \in CoreType
  BY <1>1, CoreFacts DEF CoreType, Phase, Anneal
<1>3. /\ core'.phase = "annealing" /\ core'.best = core.best
      /\ core'.baseline = core.baseline
      /\ core'.failBound = core.failBound /\ core'.passBound = core.passBound
      /\ deepest' = deepest
  BY CoreFacts DEF CoreType, Anneal
<1>4. ConfirmsBest(core') /\ Backed(core', deepest)
  BY <1>3 DEF Anneal, ConfirmsBest, Backed, Inv, Sound
<1>5. Ordered(core') /\ HasBest(core') /\ Stands(core')
  BY <1>1, <1>2, <1>3, SameBounds, NoneAssumption
<1> QED
  BY <1>2, <1>3, <1>4, <1>5 DEF Inv, Sound, Stepped

\* A passed regime that leaves others to run only logs the pass.
LEMMA FinishRegimeStep ==
  ASSUME Inv, NEW r, FinishRegime(r)
  PROVE  Inv' /\ Stands(core')
<1>1. core.battery + 1 \in Nat /\ core' = [core EXCEPT !.battery = core.battery + 1]
  BY CoreFacts DEF FinishRegime, CoreType
<1>2. Longer(deepest') /\ testing' = FALSE
  BY LogPassLogs DEF FinishRegime, Logged
<1>3. Sound(core', deepest') /\ Stands(core')
  BY <1>1, <1>2, CoreStays, BatterySound
<1> QED
  BY <1>2, <1>3 DEF Inv, Longer

\* The last regime of the battery logs the pass and advances the core.
LEMMA FinishPassStep ==
  ASSUME Inv, NEW r, FinishPass(r)
  PROVE  Inv' /\ Stands(core')
<1>1. /\ testing /\ Logged(deepest') /\ testing' = FALSE
      /\ core' = [PassOf(core.phase) EXCEPT !.battery = 0]
  BY LogPassLogs DEF FinishPass, Advance
<1>2. Sound(core', deepest') /\ Stands(core')
  BY <1>1, PassSound, BatterySound
<1> QED
  BY <1>1, <1>2 DEF Inv, Logged, Longer

\* A failure, of the slot or of a step that a hunt leaves unanswered.
LEMMA FailStep ==
  ASSUME OriginsOnTrialSide, Inv, core.phase \in Stepped, deepest' = deepest,
         Advance(FailOf(core.phase), "fail", FALSE)
  PROVE  Inv' /\ Stands(core')
<1>1. core' = [FailOf(core.phase) EXCEPT !.battery = 0] /\ testing' = FALSE
  BY DEF Advance
<1>2. Sound(core', deepest) /\ Stands(core')
  BY <1>1, FailSound, BatterySound
<1> QED
  BY <1>1, <1>2 DEF Inv

\* The last failure of a streak advances the core and leaves its battery alone.
LEMMA ApparatusFailStep ==
  ASSUME OriginsOnTrialSide, Inv, NEW r, ApparatusFail(r)
  PROVE  Inv' /\ Stands(core')
<1>1. /\ core' = FailOf(core.phase) /\ testing' = FALSE /\ deepest' = deepest
      /\ core.phase \in Stepped
  BY DEF ApparatusFail, Carry, Inv
<1> QED
  BY <1>1, FailSound DEF Inv

\* A crash or kernel error charged to the core is a penalty.
LEMMA ChargedStep ==
  ASSUME Inv, Charged
  PROVE  Inv' /\ Stands(core')
<1>1. PICK crashed \in Resident \ {0}, steps \in {1, PenaltySteps} : Charge(crashed, steps)
  BY DEF Charged
<1>2. crashed \in Nat /\ steps \in Nat
  BY ResidentType, CounterAssumption
<1>3. /\ core' = Penalty(crashed, steps) /\ testing' = FALSE /\ deepest' = deepest
  BY <1>1 DEF Charge
<1> QED
  BY <1>2, <1>3, PenaltySound DEF Inv

\* A failed validation takes a confirmed core a step back, where it stays backed.
LEMMA ValidationFailsStep ==
  ASSUME Inv, ValidationFails
  PROVE  Inv' /\ Stands(core')
<1> USE DEF ValidationFails
<1>1. /\ ~testing /\ testing' = testing /\ deepest' = deepest
      /\ core.phase = "confirmed" /\ core.best \in Nat
  BY CoreFacts
<1>2. CASE core.best = core.baseline
  BY <1>1, <1>2, OnlyLogs, LogStays
<1>3. CASE core.best # core.baseline
  <2> DEFINE next == FloorAtBaseline(core.best - Fine)
  <2>1. core' = [core EXCEPT !.best = next, !.current = next]
    BY <1>3
  <2>2. next \in Nat /\ (next = core.baseline \/ next <= core.best)
    BY <1>1, CoreFacts, StepAssumption DEF FloorAtBaseline, Greatest
  <2>3. Reaches(deepest, core.best)
    BY <1>1, <1>3 DEF Inv, Sound, Backed
  <2>4. next = core.baseline \/ Reaches(deepest, next)
    BY <1>1, <2>2, <2>3, NoneAssumption DEF Inv, Reaches, Set, Offset
  <2> HIDE DEF next
  <2>5. core' \in CoreType
    BY <2>1, <2>2, CoreFacts DEF CoreType, Offset
  <2>6. /\ core'.phase = "confirmed" /\ core'.best = next /\ core'.baseline = core.baseline
        /\ core'.failBound = core.failBound /\ core'.passBound = core.passBound
    BY <1>1, <2>1, CoreFacts DEF CoreType
  <2>7. ConfirmsBest(core') /\ Backed(core', deepest)
    BY <2>4, <2>6 DEF ConfirmsBest, Backed
  <2>8. Ordered(core') /\ HasBest(core') /\ Stands(core')
    BY <2>2, <2>5, <2>6, SameBounds, NoneAssumption
  <2> QED
    BY <1>1, <2>5, <2>7, <2>8 DEF Inv, Sound
<1> QED
  BY <1>2, <1>3

\* A resume has nothing to reconcile in a sound core.
LEMMA ResumeStep ==
  ASSUME Inv, Resume
  PROVE  Inv' /\ Stands(core')
<1>1. core' = core /\ testing' = FALSE /\ deepest' = deepest
  BY NothingToReconcile DEF Resume, TakenUp, Carry, Inv
<1> QED
  BY <1>1, OnlyLogs, LogStays

\* Re-opening a quarantined session pulls the core to stock.
LEMMA ReopenStep ==
  ASSUME Inv, Reopen
  PROVE  Inv' /\ Stands(core')
<1>1. core' = Pulled /\ testing' = FALSE /\ deepest' = deepest
  BY NothingToReconcile, PulledSound DEF Reopen, TakenUp, Carry, Inv
<1> QED
  BY <1>1, PulledSound DEF Inv

\* Every step keeps the invariant and the fail bound.
LEMMA StepSound ==
  ASSUME OriginsOnTrialSide, Inv, [Next]_vars
  PROVE  Inv' /\ Stands(core')
<1>1. CASE Dispatch
  BY <1>1, DispatchStep
<1>2. CASE Anneal
  BY <1>2, AnnealStep
<1>3. CASE \E r \in Offered : FinishFail(r)
  <2>1. /\ core.phase \in Stepped /\ deepest' = deepest
        /\ Advance(FailOf(core.phase), "fail", FALSE)
    BY <1>3 DEF FinishFail, LogFail, Inv
  <2> QED
    BY <2>1, FailStep
<1>4. CASE \E r \in Offered : FinishRegime(r) \/ FinishPass(r) \/ ApparatusFail(r)
  BY <1>4, FinishRegimeStep, FinishPassStep, ApparatusFailStep
<1>5. CASE Inconclusive \/ Dropped \/ OtherSlot
  <2>1. core' = core /\ (testing' => testing)
    <3>1. Inconclusive => core' = core /\ (testing' => testing)
      BY DEF Inconclusive
    <3>2. Dropped => core' = core /\ (testing' => testing)
      BY DEF Dropped
    <3>3. OtherSlot => core' = core /\ (testing' => testing)
      BY DEF OtherSlot
    <3> QED
      BY <1>5, <3>1, <3>2, <3>3
  <2>2. Longer(deepest')
    <3>1. CASE Inconclusive
      BY <3>1, LogStays DEF Inconclusive
    <3>2. CASE Dropped
      BY <3>2, LogStays, LogPassLogs DEF Dropped, LogFail, Logged
    <3>3. CASE OtherSlot
      <4>1. CASE \E r \in Regimes : LogPass(r)
        BY <4>1, LogPassLogs DEF Logged
      <4>2. CASE \E depth \in Resident :
                   deepest' = Deeper(deepest, depth) \/ deepest' = deepest
        BY <4>2, ResidentType, PassLengthens, LogStays
      <4> QED
        BY <3>3, <4>1, <4>2 DEF OtherSlot, LogFail
    <3> QED
      BY <1>5, <3>1, <3>2, <3>3
  <2> QED
    BY <2>1, <2>2, OnlyLogs
<1>6. CASE Charged
  BY <1>6, ChargedStep
<1>7. CASE Unanswered
  <2>1. /\ core.phase \in Stepped /\ deepest' = deepest
        /\ Advance(FailOf(core.phase), "fail", FALSE)
    BY <1>7 DEF Unanswered
  <2> QED
    BY <2>1, FailStep
<1>8. CASE ValidationFails
  BY <1>8, ValidationFailsStep
<1>9. CASE Pause
  BY <1>9, OnlyLogs, LogStays DEF Pause
<1>10. CASE Resume
  BY <1>10, ResumeStep
<1>11. CASE Reopen
  BY <1>11, ReopenStep
<1>12. CASE UNCHANGED vars
  BY <1>12, OnlyLogs, LogStays DEF vars
<1> QED
  BY <1>1, <1>2, <1>3, <1>4, <1>5, <1>6, <1>7, <1>8, <1>9, <1>10, <1>11, <1>12
     DEF Next, Slot, Finish

\* A new session starts sound.
LEMMA InitSound ==
  ASSUME OriginsOnTrialSide, Init
  PROVE  Inv
<1>1. deepest = None /\ testing = FALSE
  BY DEF Init
<1>2. PICK phase \in {"not_started", "coarse_search"}, origin \in Nat, baseline \in Nat :
        core = [phase |-> phase, current |-> origin, baseline |-> baseline,
                best |-> None, coarseFail |-> None, failBound |-> None, passBound |-> None,
                tries |-> 0, fails |-> 0, battery |-> 0, strikes |-> 0]
  <2>1. Inherited \cup {Start} \subseteq Nat /\ Seeds \subseteq Nat
    BY OriginAssumption, LimitAssumption DEF OriginsOnTrialSide
  <2> QED
    BY <2>1 DEF Init, OriginsOnTrialSide
<1>3. core \in CoreType
  BY <1>2 DEF CoreType, Phase, Offset
<1>4. Ordered(core) /\ HasBest(core) /\ ConfirmsBest(core) /\ Backed(core, deepest)
  BY <1>2 DEF Ordered, HasBest, ConfirmsBest, Backed, Set, Backoff
<1> QED
  BY <1>1, <1>3, <1>4 DEF Inv, Sound, Offset

-----------------------------------------------------------------------------
(* The theorems *)

\* Whatever the verdicts, crashes, restarts and quarantines of a session, the
\* core and its bounds keep their types and the invariant the rest follows from
\* (engine.py:1597-2133).
THEOREM SearchIsInvariant ==
  ASSUME OriginsOnTrialSide
  PROVE  Spec => []Inv
<1>1. Init => Inv
  BY InitSound
<1>2. Inv /\ [Next]_vars => Inv'
  BY StepSound
<1> QED
  BY <1>1, <1>2, PTL DEF Spec

\* The pass bound always lies inside the fail bound, so that the binary search
\* of the backoff closes in (engine.py:1616-1622, 1960-1963).
THEOREM BoundsStayOrdered ==
  ASSUME OriginsOnTrialSide
  PROVE  Spec => []BoundsOrdered
<1>1. Inv => BoundsOrdered
  BY DEF Inv, Sound, Ordered, BoundsOrdered
<1> QED
  BY <1>1, SearchIsInvariant, PTL

\* Nothing forgets how shallow the core has failed: a fail bound, once there,
\* only moves towards stock (engine.py:1616-1622, 1960-1963).
THEOREM FailBoundsStand ==
  ASSUME OriginsOnTrialSide
  PROVE  Spec => FailBoundStands
<1>1. Inv /\ [Next]_vars =>
        [Set(core.failBound) => Reaches(core.failBound, core'.failBound)]_vars
  BY StepSound DEF Stands
<1> QED
  BY <1>1, SearchIsInvariant, PTL DEF Spec, FailBoundStands

\* A confirmed core holds its baseline or an offset that a logged pass backs, so
\* a resume never takes a confirmation back (engine.py:2110-2133).
THEOREM ConfirmationsStayBacked ==
  ASSUME OriginsOnTrialSide
  PROVE  Spec => []ConfirmationIsBacked
<1>1. Inv => ConfirmationIsBacked
  BY DEF Inv, Sound, Backed, ConfirmationIsBacked
<1> QED
  BY <1>1, SearchIsInvariant, PTL

-----------------------------------------------------------------------------
(* What a battery has covered *)

\* The order puts as many regimes ahead as the index counts, and unless the index
\* comes from another offset, each of them has a logged pass.
OrderFits ==
  /\ order \subseteq Wanted(core.phase)
  /\ Cardinality(order) = core.battery
  /\ ~carried => order \subseteq covered

\* The log has as many passes as the index counts.
CountFits == ~carried => core.battery <= Cardinality(covered \intersect Wanted(core.phase))

\* The order and the index fit the log, a battery is only under way in a phase that
\* tests, and a verdict PASS has seen every regime.
Battery ==
  /\ testing \/ order # None => OrderFits
  /\ CountFits
  /\ core.phase \in {"not_started", "confirmed"} => core.battery = 0
  /\ PassIsComplete

\* There are regimes to cover, finitely many in every phase.
LEMMA WantedFinite ==
  ASSUME NEW phase
  PROVE  IsFiniteSet(Wanted(phase)) /\ Wanted(phase) \subseteq Regimes
<1>1. IsFiniteSet(CoarseRegimes)
  BY RegimeAssumption, FS_Subset
<1> QED
  BY <1>1, RegimeAssumption DEF Wanted

\* A larger part of a battery counts more, and as much only if it is the same.
LEMMA PartsCount ==
  ASSUME NEW phase, NEW S, NEW T, S \subseteq T, T \subseteq Wanted(phase)
  PROVE  /\ Cardinality(S) \in Nat /\ Cardinality(T) \in Nat
         /\ Cardinality(S) <= Cardinality(T)
         /\ Cardinality(S) = Cardinality(T) => S = T
<1>1. IsFiniteSet(S) /\ IsFiniteSet(T) /\ S \in SUBSET T
  BY WantedFinite, FS_Subset
<1>2. Cardinality(S) \in Nat /\ Cardinality(T) \in Nat
  BY <1>1, FS_CardinalityType
<1>3. Cardinality(S) <= Cardinality(T) /\ (Cardinality(T) = Cardinality(S) => T = S)
  BY <1>1, FS_Subset
<1> QED
  BY <1>2, <1>3

\* The battery is over, with a verdict or a penalty.
LEMMA BatteryEmptied ==
  ASSUME BatteryOver, testing' = FALSE, core'.battery = 0, PassIsComplete'
  PROVE  Battery'
<1>1. Cardinality({}) = 0
  BY FS_EmptySet
<1>2. CountFits'
  BY <1>1 DEF CountFits, BatteryOver
<1> QED
  BY <1>2 DEF Battery, BatteryOver

\* A step that leaves the battery alone, and may log a pass.
LEMMA BatteryKept ==
  ASSUME Inv, Battery, core'.phase = core.phase, core'.battery = core.battery,
         testing' => testing, order' = order, carried' = carried,
         covered \subseteq covered', PassIsComplete'
  PROVE  Battery'
<1>1. CountFits'
  <2> DEFINE before == covered \intersect Wanted(core.phase)
             after == covered' \intersect Wanted(core.phase)
  <2>1. before \subseteq after /\ after \subseteq Wanted(core.phase)
    OBVIOUS
  <2>2. /\ Cardinality(before) \in Nat /\ Cardinality(after) \in Nat
        /\ Cardinality(before) <= Cardinality(after)
    BY <2>1, PartsCount
  <2>3. core.battery \in Nat /\ (~carried => core.battery <= Cardinality(before))
    BY CoreFacts DEF CoreType, Battery, CountFits
  <2> HIDE DEF before, after
  <2>4. ~carried => core.battery <= Cardinality(after)
    BY <2>2, <2>3
  <2> QED
    BY <2>4 DEF CountFits, after
<1>2. testing' \/ order' # None => OrderFits'
  BY DEF Battery, OrderFits
<1> QED
  BY <1>1, <1>2 DEF Battery

\* What the step to the core c asks of it, for its index to go on counting.
GoesOn(c) ==
  /\ c.battery \in Nat
  /\ \/ c.battery = 0 /\ (c.phase # core.phase \/ core.battery = 0)
     \/ c.battery = core.battery /\ Wanted(core.phase) \subseteq Wanted(c.phase)

\* The index is carried to the core c: the log still has the passes it counts, or
\* it is known to come from another offset.
LEMMA CarriedCounts ==
  ASSUME Inv, Battery, NEW c, GoesOn(c), Carry(c)
  PROVE  CountFits'
<1>1. core' = c /\ covered' \in Known(c)
      /\ carried' = (c.battery > 0 /\ (carried \/ c.current # core.current))
  BY DEF Carry
<1>2. CASE c.battery = 0
  <2>1. covered' = {} /\ core'.battery = 0
    BY <1>1, <1>2 DEF Known, GoesOn
  <2>2. Cardinality(covered' \intersect Wanted(core'.phase)) = 0
    BY <2>1, FS_EmptySet
  <2> QED
    BY <2>1, <2>2 DEF CountFits
<1>3. CASE c.battery > 0 /\ ~carried'
  <2>1. ~carried /\ c.current = core.current
    BY <1>1, <1>3
  <2>2. covered' = covered
    BY <1>1, <1>3, <2>1 DEF Known, GoesOn
  <2>3. c.battery = core.battery /\ Wanted(core.phase) \subseteq Wanted(c.phase)
    BY <1>3 DEF GoesOn
  <2> DEFINE before == covered \intersect Wanted(core.phase)
             after == covered \intersect Wanted(c.phase)
  <2>4. before \subseteq after /\ after \subseteq Wanted(c.phase)
    BY <2>3
  <2>5. /\ Cardinality(before) \in Nat /\ Cardinality(after) \in Nat
        /\ Cardinality(before) <= Cardinality(after)
    BY <2>4, PartsCount
  <2>6. c.battery \in Nat /\ c.battery <= Cardinality(before)
    BY <2>1, <2>3 DEF Battery, CountFits, GoesOn
  <2> HIDE DEF before, after
  <2>7. c.battery <= Cardinality(after)
    BY <2>5, <2>6
  <2> QED
    BY <1>1, <2>2, <2>7 DEF CountFits, after
<1>4. CASE carried'
  BY <1>4 DEF CountFits
<1>5. c.battery \in Nat
  BY DEF GoesOn
<1> QED
  BY <1>2, <1>3, <1>4, <1>5

\* An order that is still good fits the core c.
LEMMA FrozenFits ==
  ASSUME Inv, Battery, NEW c, GoesOn(c), Carry(c), order' = Frozen(c), order' # None
  PROVE  OrderFits'
<1>1. c.phase = core.phase /\ c.current = core.current /\ order' = order /\ core' = c
  BY DEF Frozen, Carry
<1>2. OrderFits /\ c.battery = core.battery
  BY <1>1 DEF Battery, GoesOn
<1>3. order' \subseteq Wanted(core'.phase) /\ Cardinality(order') = core'.battery
  BY <1>1, <1>2 DEF OrderFits
<1>4. CASE c.battery = 0
  <2>1. Cardinality({}) = 0 /\ {} \subseteq order' /\ Cardinality(order') = 0
    BY <1>1, <1>3, <1>4, FS_EmptySet
  <2>2. Cardinality({}) = Cardinality(order') => {} = order'
    BY <1>3, <2>1, PartsCount
  <2>3. order' = {}
    BY <2>1, <2>2
  <2> QED
    BY <1>3, <2>3 DEF OrderFits
<1>5. CASE c.battery > 0
  <2>1. covered' = covered
    BY <1>1, <1>5 DEF Carry, Known, GoesOn
  <2>2. ~carried' => ~carried
    BY <1>1, <1>5 DEF Carry
  <2> QED
    BY <1>1, <1>2, <1>3, <2>1, <2>2 DEF OrderFits
<1> QED
  BY <1>4, <1>5 DEF GoesOn

\* An order made from the log fits the core c: as the log has enough passes, they
\* are all the order puts ahead.
LEMMA OrdersFit ==
  ASSUME Inv, Battery, NEW c, GoesOn(c), Carry(c), order' \in Orders(c, covered')
  PROVE  OrderFits'
<1>1. /\ core' = c /\ order' \subseteq Wanted(c.phase) /\ Cardinality(order') = c.battery
      /\ order' \subseteq covered' \/ covered' \intersect Wanted(c.phase) \subseteq order'
  BY DEF Orders, Carry
<1>2. ASSUME ~carried', covered' \intersect Wanted(c.phase) \subseteq order'
      PROVE  order' \subseteq covered'
  <2> DEFINE known == covered' \intersect Wanted(c.phase)
  <2>1. c.battery <= Cardinality(known)
    BY <1>1, <1>2, CarriedCounts DEF CountFits
  <2>2. /\ Cardinality(known) \in Nat /\ Cardinality(known) <= Cardinality(order')
        /\ Cardinality(known) = Cardinality(order') => known = order'
    BY <1>1, <1>2, PartsCount
  <2>3. known \subseteq covered'
    OBVIOUS
  <2> HIDE DEF known
  <2>4. Cardinality(known) = Cardinality(order')
    BY <1>1, <2>1, <2>2 DEF GoesOn
  <2> QED
    BY <2>2, <2>3, <2>4
<1> QED
  BY <1>1, <1>2 DEF OrderFits

\* The regimes ahead and one more, counted.
LEMMA OneMore ==
  ASSUME Battery, NEW r \in Offered
  PROVE  /\ order \union {r} \subseteq Wanted(core.phase)
         /\ Cardinality(order \union {r}) = core.battery + 1
         /\ ~carried => order \union {r} \subseteq covered \union {r}
<1>1. testing /\ r \in Wanted(core.phase) /\ r \notin order
  BY DEF Offered
<1>2. OrderFits
  BY <1>1 DEF Battery
<1>3. IsFiniteSet(order)
  BY <1>2, WantedFinite, FS_Subset DEF OrderFits
<1>4. Cardinality(order \union {r}) = Cardinality(order) + 1
  BY <1>1, <1>3, FS_AddElement
<1> QED
  BY <1>1, <1>2, <1>4 DEF OrderFits

\* When the last regime passes, every regime has.
LEMMA FullIsComplete ==
  ASSUME Inv, Battery, NEW r \in Offered, ~carried,
         core.battery + 1 >= Cardinality(Wanted(core.phase))
  PROVE  Wanted(core.phase) \subseteq covered \union {r}
<1> DEFINE ahead == order \union {r}
           all == Wanted(core.phase)
<1>1. /\ ahead \subseteq all /\ Cardinality(ahead) = core.battery + 1
      /\ ahead \subseteq covered \union {r}
  BY OneMore
<1>2. /\ Cardinality(ahead) \in Nat /\ Cardinality(all) \in Nat
      /\ Cardinality(ahead) <= Cardinality(all)
      /\ Cardinality(ahead) = Cardinality(all) => ahead = all
  BY <1>1, PartsCount
<1>3. core.battery + 1 >= Cardinality(all)
  OBVIOUS
<1> HIDE DEF ahead, all
<1>4. ahead = all
  BY <1>1, <1>2, <1>3
<1> QED
  BY <1>1, <1>4 DEF all

\* A regime passes and others are left.
LEMMA FinishRegimeCounts ==
  ASSUME Inv, Battery, NEW r \in Offered, FinishRegime(r)
  PROVE  Battery'
<1>1. /\ core'.phase = core.phase /\ core'.battery = core.battery + 1
      /\ covered' = covered \union {r} /\ order' = order \union {r}
      /\ carried' = carried /\ verdict' = NoVerdict
  BY CoreFacts DEF FinishRegime, CoreType
<1>2. core.phase \notin {"not_started", "confirmed"}
  BY DEF FinishRegime, Inv, Stepped, Backoff
<1>3. OrderFits'
  BY <1>1, OneMore DEF OrderFits
<1>4. CountFits'
  <2> SUFFICES ASSUME ~carried'
               PROVE  core'.battery <= Cardinality(covered' \intersect Wanted(core'.phase))
    BY DEF CountFits
  <2> DEFINE known == covered' \intersect Wanted(core'.phase)
  <2>1. /\ order' \subseteq known /\ known \subseteq Wanted(core'.phase)
        /\ Cardinality(order') = core'.battery
    BY <1>3 DEF OrderFits
  <2>2. Cardinality(order') <= Cardinality(known)
    BY <2>1, PartsCount
  <2> HIDE DEF known
  <2>3. core'.battery <= Cardinality(known)
    BY <2>1, <2>2
  <2> QED
    BY <2>3 DEF known
<1>5. PassIsComplete'
  BY <1>1 DEF PassIsComplete, NoVerdict
<1> QED
  BY <1>1, <1>2, <1>3, <1>4, <1>5 DEF Battery

\* The last regime passes.
LEMMA FinishPassCounts ==
  ASSUME Inv, Battery, NEW r \in Offered, FinishPass(r)
  PROVE  Battery'
<1>1. Logged(deepest') /\ testing
  BY LogPassLogs DEF FinishPass
<1>2. PassOf(core.phase) \in CoreType
  BY <1>1, PassSound DEF Sound
<1>3. core'.battery = 0
  BY <1>2 DEF FinishPass, Advance, CoreType
<1>4. /\ verdict'.complete = (Wanted(core.phase) \subseteq covered \union {r})
      /\ verdict'.carried = carried
  BY DEF FinishPass, Advance, Verdict
<1>5. ~carried => Wanted(core.phase) \subseteq covered \union {r}
  BY FullIsComplete DEF FinishPass
<1>6. PassIsComplete'
  BY <1>4, <1>5 DEF PassIsComplete
<1> QED
  BY <1>3, <1>6, BatteryEmptied DEF FinishPass, Advance

\* A failure.
LEMMA FailCounts ==
  ASSUME OriginsOnTrialSide, Inv, core.phase \in Stepped,
         Advance(FailOf(core.phase), "fail", FALSE)
  PROVE  Battery'
<1>1. FailOf(core.phase) \in CoreType
  BY FailSound DEF Sound
<1>2. core'.battery = 0
  BY <1>1 DEF Advance, CoreType
<1>3. PassIsComplete'
  BY DEF Advance, Verdict, PassIsComplete
<1> QED
  BY <1>2, <1>3, BatteryEmptied DEF Advance

\* A failure moves the core on and leaves its index alone, except that a failed
\* probe ends at zero.
LEMMA FailGoesOn ==
  ASSUME OriginsOnTrialSide, Inv, core.phase \in Stepped
  PROVE  /\ GoesOn(FailOf(core.phase))
         /\ FailOf(core.phase).phase \in {"not_started", "confirmed"}
              => FailOf(core.phase).battery = 0
<1> DEFINE c == FailOf(core.phase)
<1>0. core.battery \in Nat /\ core.phase \in Phase /\ core \in CoreType
  BY CoreFacts DEF CoreType
<1>1. CASE core.phase = "annealing"
  <2>1. c = AnnealBack
    BY <1>1 DEF FailOf, FailPauses, Backoff
  <2>2. c.battery = 0 /\ c.phase = "confirmed"
    BY <1>0, <2>1 DEF AnnealBack, CoreType
  <2> HIDE DEF c
  <2>3. GoesOn(c)
    BY <1>1, <2>2 DEF GoesOn
  <2> QED
    BY <2>2, <2>3 DEF c
<1>2. CASE core.phase # "annealing"
  <2>0. FailPauses => c.battery = core.battery /\ c.phase = core.phase
    <3>1. Failed.battery = core.battery /\ Failed.phase = core.phase
      BY <1>0 DEF Failed, CoreType
    <3>2. FailPauses => c = Failed \/ c = core
      <4>1. FailPauses => core.phase \in {"backoff_preconfirm", "backoff_confirming", "confirming"}
        BY DEF FailPauses, Backoff
      <4> QED
        BY <4>1 DEF FailOf
    <3> HIDE DEF c
    <3> QED
      BY <3>1, <3>2
  <2>1. c.battery = core.battery
    <3>1. CASE FailPauses
      BY <1>0, <3>1, <2>0
    <3>2. CASE ~FailPauses /\ core.phase = "coarse_search"
      BY <1>0, <3>2 DEF FailOf, CoarseFail, Backoff, CoreType
    <3>3. CASE ~FailPauses /\ core.phase = "fine_search"
      BY <1>0, <3>3 DEF FailOf, FineFail, Backoff, CoreType
    <3>4. CASE ~FailPauses /\ core.phase = "confirming"
      BY <1>0, <3>4 DEF FailOf, ConfirmFail, Backoff, CoreType
    <3>5. CASE ~FailPauses /\ core.phase = "backoff_preconfirm"
      BY <1>0, <3>5 DEF FailOf, PreconfirmFail, Failed, Backoff, CoreType
    <3>6. CASE ~FailPauses /\ core.phase = "backoff_confirming"
      BY <1>0, <3>6 DEF FailOf, BackoffConfirmFail, Failed, Backoff, CoreType
    <3> QED
      BY <1>2, <3>1, <3>2, <3>3, <3>4, <3>5, <3>6 DEF Stepped, Backoff
  <2>2. c.phase \in Phase \ {"not_started", "confirmed", "coarse_search"} \/ c.phase = core.phase
    <3>1. CASE FailPauses
      BY <1>0, <3>1, <2>0
    <3>2. CASE ~FailPauses /\ core.phase = "coarse_search"
      BY <1>0, <3>2 DEF FailOf, CoarseFail, Backoff, CoreType, Phase
    <3>3. CASE ~FailPauses /\ core.phase = "fine_search"
      BY <1>0, <3>3 DEF FailOf, FineFail, Backoff, CoreType, Phase
    <3>4. CASE ~FailPauses /\ core.phase = "confirming"
      BY <1>0, <3>4 DEF FailOf, ConfirmFail, Backoff, CoreType, Phase
    <3>5. CASE ~FailPauses /\ core.phase = "backoff_preconfirm"
      BY <1>0, <3>5 DEF FailOf, PreconfirmFail, Failed, Backoff, CoreType, Phase
    <3>6. CASE ~FailPauses /\ core.phase = "backoff_confirming"
      BY <1>0, <3>6 DEF FailOf, BackoffConfirmFail, Failed, Backoff, CoreType, Phase
    <3> QED
      BY <1>2, <3>1, <3>2, <3>3, <3>4, <3>5, <3>6 DEF Stepped, Backoff
  <2> HIDE DEF c
  <2>3. Wanted(core.phase) \subseteq Wanted(c.phase)
    BY <2>2, RegimeAssumption DEF Wanted
  <2>4. c.phase \notin {"not_started", "confirmed"}
    BY <2>2 DEF Stepped, Backoff
  <2> QED
    BY <1>0, <2>1, <2>3, <2>4 DEF GoesOn, c
<1> QED
  BY <1>1, <1>2

\* The last failure of a streak.
LEMMA ApparatusFailCounts ==
  ASSUME OriginsOnTrialSide, Inv, Battery, NEW r, ApparatusFail(r)
  PROVE  Battery'
<1> DEFINE c == FailOf(core.phase)
<1>1. /\ Carry(c) /\ order' = Frozen(c) /\ testing' = FALSE /\ core' = c
      /\ verdict' = Verdict("fail", FALSE) /\ core.phase \in Stepped
  BY DEF ApparatusFail, Carry, Inv
<1>2. GoesOn(c) /\ (c.phase \in {"not_started", "confirmed"} => c.battery = 0)
  BY <1>1, FailGoesOn
<1> HIDE DEF c
<1>3. CountFits'
  BY <1>1, <1>2, CarriedCounts
<1>4. order' # None => OrderFits'
  BY <1>1, <1>2, FrozenFits
<1>5. PassIsComplete'
  BY <1>1 DEF Verdict, PassIsComplete
<1> QED
  BY <1>1, <1>2, <1>3, <1>4, <1>5 DEF Battery

\* A charge.
LEMMA ChargedCounts ==
  ASSUME Inv, Charged
  PROVE  Battery'
<1>1. PICK crashed \in Resident \ {0}, steps \in {1, PenaltySteps} : Charge(crashed, steps)
  BY DEF Charged
<1>2. core'.battery = 0
  BY <1>1, CoreFacts DEF Charge, Penalty, CoreType
<1>3. PassIsComplete'
  BY <1>1 DEF Charge, Verdict, PassIsComplete
<1> QED
  BY <1>1, <1>2, <1>3, BatteryEmptied DEF Charge

\* A phase that only leads on takes the index along.
LEMMA LedOnGoesOn ==
  ASSUME Inv, Battery, core.phase # "confirmed"
  PROVE  GoesOn(LedOn) /\ LedOn.phase \notin {"not_started", "confirmed"}
<1>1. core \in CoreType /\ core.battery \in Nat /\ core.phase \in Phase
  BY CoreFacts DEF CoreType
<1>2. LedOn.battery = core.battery
  BY <1>1 DEF LedOn, EnterCoarse, EnterConfirm, EnterBackoff, CoreType
<1>3. \/ core.phase = "not_started" /\ LedOn.phase = "coarse_search"
      \/ core.phase \notin {"not_started", "coarse_search"}
           /\ LedOn.phase \in Phase \ {"not_started", "coarse_search", "confirmed"}
      \/ LedOn.phase = core.phase /\ core.phase # "not_started"
  BY <1>1 DEF LedOn, EnterCoarse, EnterConfirm, EnterBackoff, CoreType, Phase
<1>4. core.phase = "not_started" => core.battery = 0
  BY DEF Battery
<1>5. Wanted(core.phase) \subseteq Wanted(LedOn.phase) \/ core.phase = "not_started"
  BY <1>3 DEF Wanted
<1> QED
  BY <1>1, <1>2, <1>3, <1>4, <1>5 DEF GoesOn

\* A slot starts.
LEMMA DispatchCounts ==
  ASSUME Inv, Battery, Dispatch
  PROVE  Battery'
<1> DEFINE c == LedOn
<1>1. /\ Carry(c) /\ core' = c /\ verdict' = NoVerdict
      /\ (order' = Frozen(c) /\ order' # None) \/ order' \in Orders(c, covered')
  BY DEF Dispatch, Carry
<1>2. GoesOn(c) /\ c.phase \notin {"not_started", "confirmed"}
  BY LedOnGoesOn DEF Dispatch
<1> HIDE DEF c
<1>3. OrderFits'
  BY <1>1, <1>2, FrozenFits, OrdersFit
<1>4. CountFits'
  BY <1>1, <1>2, CarriedCounts
<1>5. PassIsComplete'
  BY <1>1 DEF PassIsComplete, NoVerdict
<1> QED
  BY <1>1, <1>2, <1>3, <1>4, <1>5 DEF Battery

\* A probe starts.
LEMMA AnnealCounts ==
  ASSUME Inv, Anneal
  PROVE  Battery'
<1>1. core'.battery = 0 /\ core'.phase = "annealing"
  BY CoreFacts DEF Anneal, CoreType
<1>2. Cardinality({}) = 0
  BY FS_EmptySet
<1>3. OrderFits' /\ CountFits'
  BY <1>1, <1>2 DEF Anneal, OrderFits, CountFits
<1>4. PassIsComplete'
  BY DEF Anneal, PassIsComplete, NoVerdict
<1> QED
  BY <1>1, <1>3, <1>4 DEF Battery

\* The session is taken up with the core c.
LEMMA TakenUpCounts ==
  ASSUME Inv, Battery, NEW c, TakenUp(c), PassIsComplete',
         c.phase = core.phase, c.battery = core.battery
  PROVE  Battery'
<1>1. /\ Carry(c) /\ core' = c /\ testing' = FALSE
      /\ order' = Frozen(c) \/ order' = None
  BY DEF TakenUp, Carry
<1>2. GoesOn(c)
  BY CoreFacts DEF GoesOn, CoreType
<1>3. CountFits'
  BY <1>1, <1>2, CarriedCounts
<1>4. order' # None => OrderFits'
  BY <1>1, <1>2, FrozenFits
<1> QED
  BY <1>1, <1>3, <1>4 DEF Battery

\* Every step keeps the count.
LEMMA StepCounts ==
  ASSUME OriginsOnTrialSide, Inv, Battery, [Next]_vars
  PROVE  Battery'
<1>1. CASE Dispatch
  BY <1>1, DispatchCounts
<1>2. CASE Anneal
  BY <1>2, AnnealCounts
<1>3. CASE (\E r \in Offered : FinishFail(r)) \/ Unanswered
  <2>1. core.phase \in Stepped /\ Advance(FailOf(core.phase), "fail", FALSE)
    BY <1>3 DEF FinishFail, Unanswered, Inv
  <2> QED
    BY <2>1, FailCounts
<1>4. CASE \E r \in Offered : FinishRegime(r) \/ FinishPass(r) \/ ApparatusFail(r)
  BY <1>4, FinishRegimeCounts, FinishPassCounts, ApparatusFailCounts
<1>5. CASE Charged
  BY <1>5, ChargedCounts
<1>6. CASE Inconclusive \/ Dropped \/ OtherSlot \/ Pause
  <2>1. /\ core' = core /\ (testing' => testing) /\ order' = order /\ carried' = carried
        /\ verdict' = NoVerdict
    <3> DEFINE Alone == /\ core' = core /\ (testing' => testing) /\ order' = order
                        /\ carried' = carried /\ verdict' = NoVerdict
    <3>1. Inconclusive => Alone
      BY DEF Inconclusive
    <3>2. Dropped => Alone
      BY DEF Dropped
    <3>3. OtherSlot => Alone
      BY DEF OtherSlot
    <3>4. Pause => Alone
      BY DEF Pause
    <3> HIDE DEF Alone
    <3>5. Alone
      BY <1>6, <3>1, <3>2, <3>3, <3>4
    <3> QED
      BY <3>5 DEF Alone
  <2>2. covered \subseteq covered'
    BY <1>6 DEF Inconclusive, Dropped, OtherSlot, Pause
  <2>3. PassIsComplete'
    BY <2>1 DEF PassIsComplete, NoVerdict
  <2> QED
    BY <2>1, <2>2, <2>3, BatteryKept
<1>7. CASE ValidationFails
  <2>1. core'.phase = core.phase /\ core'.battery = core.battery
    BY <1>7, CoreFacts DEF ValidationFails, CoreType
  <2>2. PassIsComplete'
    BY <1>7 DEF ValidationFails, PassIsComplete, NoVerdict
  <2> QED
    BY <1>7, <2>1, <2>2, BatteryKept DEF ValidationFails
<1>8. CASE Resume
  <2>1. TakenUp(core) /\ PassIsComplete'
    BY <1>8, NothingToReconcile DEF Resume, Inv, PassIsComplete, NoVerdict
  <2> QED
    BY <2>1, TakenUpCounts
<1>9. CASE Reopen
  <2>1. TakenUp(Pulled)
    BY <1>9, NothingToReconcile, PulledSound DEF Reopen, Inv
  <2>2. Pulled.phase = core.phase /\ Pulled.battery = core.battery
    BY CoreFacts DEF Pulled, CoreType
  <2>3. PassIsComplete'
    BY <1>9 DEF Reopen, Verdict, PassIsComplete
  <2> QED
    BY <2>1, <2>2, <2>3, TakenUpCounts
<1>10. CASE UNCHANGED vars
  <2>1. PassIsComplete'
    BY <1>10 DEF vars, Battery, PassIsComplete
  <2> QED
    BY <1>10, <2>1, BatteryKept DEF vars
<1> QED
  BY <1>1, <1>2, <1>3, <1>4, <1>5, <1>6, <1>7, <1>8, <1>9, <1>10 DEF Next, Slot, Finish

\* A verdict PASS of a core means that every regime of its battery passed at that
\* offset, whatever interrupted the battery and however its order was made again,
\* unless the battery index was carried there from another offset
\* (engine.py:1282-1308, 3823-3833).
THEOREM PassesAreComplete ==
  ASSUME OriginsOnTrialSide
  PROVE  Spec => []PassIsComplete
<1>1. Init => Inv /\ Battery
  <2>1. Init => /\ covered = {} /\ core.battery = 0 /\ testing = FALSE /\ order = None
                /\ PassIsComplete
    BY DEF Init, PassIsComplete, NoVerdict
  <2>2. Cardinality({}) = 0
    BY FS_EmptySet
  <2>3. Init => CountFits
    BY <2>1, <2>2 DEF CountFits
  <2> QED
    BY <2>1, <2>3, InitSound DEF Battery
<1>2. Inv /\ Battery /\ [Next]_vars => Inv' /\ Battery'
  BY StepSound, StepCounts
<1>3. Battery => PassIsComplete
  BY DEF Battery
<1> QED
  BY <1>1, <1>2, <1>3, PTL DEF Spec

=============================================================================
