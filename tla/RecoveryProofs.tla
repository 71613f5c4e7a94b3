--------------------------- MODULE RecoveryProofs ---------------------------
(***************************************************************************)
(* Proofs about Recovery, for every number of cores, of deaths of the machine *)
(* and of the process, and of tests: the rotations are fair, every slot       *)
(* starts on an available core, resume charges a core only with what was       *)
(* announced when the machine crashed, and it leaves no crash unanswered.      *)
(*                                                                           *)
(* The fairness of a rotation is an invariant about two cursors: the one in    *)
(* memory, by which the next core is picked, and the one in the test log, from *)
(* which a restart rebuilds it.  A core that waits has been passed by each     *)
(* core between itself and the cursor once (Round, Rounds), and the two        *)
(* cursors agree while nothing is under test.                                  *)
(***************************************************************************)
EXTENDS Recovery, FiniteSetTheorems, NaturalsInduction, TLAPS

Slots0 == Cores \union {NoCore}
Apps == {"off", "idle", "write", "smu", "test", "done", "paused", "hunt", "masked", "probe",
         "attribute", "charge", "close", "stamp", "streak", "restore", "go"}
Goals == {"mask", "passed", "passing", "failed", "pause", "restore", "refused"}

\* Types, in groups the provers can take at once.
OrderTypes ==
  /\ order \in Orders /\ phase \in [Cores -> Phases] /\ crashes \in [Cores -> Nat]
  /\ cool \in [Cores -> Nat] /\ skipped \in [Cores -> Nat]
  /\ last \in Slots0 /\ lastIn \in [{0, 1} -> Slots0]
  /\ finished \in [core : Slots0, on : [{0, 1} -> Slots0]]
OffsetTypes ==
  /\ current \in [Cores -> Nat] /\ best \in [Cores -> Nat] /\ journal \in [Cores -> Nat]
  /\ hw \in [Cores -> Nat] /\ intent \in [Cores -> Nat]
MarkTypes ==
  /\ inTest \in SUBSET Cores /\ saved \in {"none", "saved", "armed"}
  /\ streak \in Nat /\ stamp \in Nat /\ boot \in Nat /\ kills \in Nat /\ tests \in Nat
  /\ named \in SUBSET Slots0 /\ charged \in SUBSET Cores
PlaceTypes ==
  /\ app \in Apps /\ goal \in Goals /\ owed \in SUBSET Cores
  /\ how \in {"same", "clean", "crash"} /\ pending \in BOOLEAN /\ ended \in {"up", "crash", "clean"}
TypeOK == OrderTypes /\ OffsetTypes /\ MarkTypes /\ PlaceTypes

\* A slot is under way; its test is over and the offset is being reverted; nothing is
\* under test and the cursors are those of the log.
InSlot == app \in {"write", "smu", "test"} /\ goal = "mask"
Tested == app \in {"write", "smu"} /\ goal \in {"passed", "passing", "failed"}
Rests == app = "idle" \/ Tested

\* Until resume stamps a new boot nothing is announced: the journal is what the last boot
\* of the session left.
Boots ==
  /\ stamp <= boot
  /\ stamp # boot => /\ app \in {"off", "paused", "attribute", "charge", "close", "stamp"}
                     /\ ended # "up" /\ intent = journal

\* A crash is charged to cores with an offset in that journal, or a hunt is pending.
Blame ==
  /\ app \in {"attribute", "charge"} => how = "crash" /\ stamp # boot /\ ended = "crash"
  /\ app = "charge" => owed # {} /\ owed \subseteq Residents
  /\ (how = "crash" /\ intent # Stock /\ app \notin {"attribute", "charge", "paused"})
       => pending \/ charged # {}

\* The core under test is the cursor, and nobody waits for it.
Places ==
  /\ app \in {"masked", "probe"} => last \in Cores /\ skipped = Fresh
  /\ app = "test" => goal = "mask"
  /\ InSlot => last \in Cores /\ lastIn[CcdOf(last)] = last
  /\ Tested => last \in Cores /\ skipped[last] = 0

\* The log is about one core, and the cursor at rest is that core or a round is new.
Log ==
  /\ finished.core = NoCore => skipped = Fresh
  /\ finished.core # NoCore => finished.on[CcdOf(finished.core)] = finished.core
  /\ Rests => skipped = Fresh \/ (last = finished.core /\ lastIn[CcdOf(last)] = last)
  /\ \A d \in Cores : d \notin Available(cool) => skipped[d] = 0

\* The cores a rotation has passed from d, where it was d's turn, to p; over all cores, or
\* on the CCD of d, where a core of the other CCD comes with each and Beside counts the one
\* that came before.
Passed(d, p) == {x \in Cores : (d < x /\ x <= p) \/ (p < d /\ (d < x \/ x <= p))}
PassedOn(d, p) == Passed(d, p) \cap On(Cores, CcdOf(d))
Beside(d, q) == IF q # NoCore /\ CcdOf(q) # CcdOf(d) THEN 1 ELSE 0
Round(d, p) == Cardinality(Passed(d, p))
Rounds(d, p) == 2 * Cardinality(PassedOn(d, p))
Since(d, p) == IF p = NoCore THEN 0 ELSE Rounds(d, p)

\* No core has waited for more tests than its round has passed cores, by the log and, in a
\* slot, by the cursors, with the test under way counted.
OneRound == order = "round_robin" =>
  /\ finished.core # NoCore => \A d \in Cores : skipped[d] <= Round(d, finished.core)
  /\ InSlot => \A d \in Available(cool) \ {last} : skipped[d] + 1 <= Round(d, last)
TwoRounds == order = "ccd_round_robin" =>
  /\ \A d \in Cores :
       skipped[d] <= Since(d, finished.on[CcdOf(d)]) + Beside(d, finished.core)
  /\ Rests => \A d \in Cores : skipped[d] <= Rounds(d, lastIn[CcdOf(d)]) + Beside(d, last)
  /\ InSlot => \A d \in Available(cool) \ {last} :
       /\ skipped[d] + 1 <= Rounds(d, lastIn[CcdOf(d)]) + Beside(d, last)
       /\ CcdOf(d) # CcdOf(last) => skipped[d] <= Since(d, finished.on[CcdOf(d)])

\* The inductive invariant.
Inv == TypeOK /\ Boots /\ Blame /\ Places /\ Log /\ OneRound /\ TwoRounds

-----------------------------------------------------------------------------
\* A non-empty set of natural numbers has a least member.
LEMMA Least ==
  ASSUME NEW S \in SUBSET Nat, S # {}
  PROVE  \E x \in S : \A y \in S : x <= y
<1>1. PICK x \in S : \A y \in S : <<y, x>> \notin OpToRel(<, Nat)
  BY NatLessThanWellFounded, WFMin, Zenon
<1>2. \A y \in S : <<y, x>> \in Nat \X Nat /\ <<y, x>>[1] = y /\ <<y, x>>[2] = x
  OBVIOUS
<1>3. \A y \in S : ~(y < x)
  BY <1>1, <1>2, Zenon DEF OpToRel
<1> QED
  BY <1>3

USE OrderAssumption, RecoveryAssumption DEF NoCore

-----------------------------------------------------------------------------
(* Which core is picked *)

\* The lowest of a set of numbers is one of them, and is lowest.
LEMMA LowestIs ==
  ASSUME NEW S \in SUBSET Nat, S # {}
  PROVE  Lowest(S) \in S /\ \A y \in S : Lowest(S) <= y
BY Least DEF Lowest

\* The next core of a rotation is one of those it goes over.
LEMMA AfterIs ==
  ASSUME NEW S \in SUBSET Cores, S # {}, NEW p \in Cores \union {NoCore}
  PROVE  /\ After(S, p) \in S
         /\ (\E x \in S : x > p) => After(S, p) > p /\ \A x \in S : x > p => After(S, p) <= x
         /\ (\A x \in S : ~(x > p)) => \A x \in S : After(S, p) <= x
<1> DEFINE later == {x \in S : x > p}
<1>1. S \in SUBSET Nat /\ later \in SUBSET Nat /\ later \subseteq S
  OBVIOUS
<1>2. CASE later = {}
  <2>1. After(S, p) = Lowest(S)
    BY <1>2 DEF After
  <2>2. \A x \in S : ~(x > p)
    BY <1>2
  <2> QED BY <2>1, <2>2, <1>1, LowestIs
<1>3. CASE later # {}
  <2>1. After(S, p) = Lowest(later)
    BY <1>3 DEF After
  <2>2. Lowest(later) \in later /\ \A y \in later : Lowest(later) <= y
    BY <1>1, <1>3, LowestIs
  <2> QED BY <2>1, <2>2, <1>3
<1> QED BY <1>2, <1>3

\* Draining the cooldowns leaves a core available, if any is unfinished.
LEMMA DrainedFrees ==
  ASSUME cool \in [Cores -> Nat], Unfinished # {}
  PROVE  /\ Available(Drained) # {} /\ Available(Drained) \subseteq Cores
         /\ Drained \in [Cores -> Nat]
         /\ \A d \in Cores : Drained[d] <= cool[d]
<1> DEFINE K == {cool[c] : c \in Unfinished}
           k == IF Available(cool) # {} THEN 0 ELSE Lowest(K)
<1>1. Unfinished \subseteq Cores
  BY DEF Unfinished
<1>2. K \in SUBSET Nat /\ K # {}
  BY <1>1, ZenonT(60)
<1>3. Lowest(K) \in K
  BY <1>2, LowestIs
<1>4. k \in Nat
  BY <1>2, <1>3
<1>5. Drained = [c \in Cores |-> Less(cool[c], k)]
  BY DEF Drained
<1> HIDE DEF k
<1>6. \A d \in Cores : Drained[d] \in Nat /\ Drained[d] <= cool[d]
  BY <1>4, <1>5 DEF Less
<1>7. Available(Drained) # {}
  <2>1. CASE Available(cool) # {}
    <3>1. PICK c \in Available(cool) : TRUE
      BY <2>1
    <3>2. c \in Unfinished /\ cool[c] = 0 /\ c \in Cores
      BY <3>1, <1>1 DEF Available
    <3>3. Drained[c] = 0
      BY <3>2, <1>6
    <3> QED BY <3>2, <3>3 DEF Available
  <2>2. CASE Available(cool) = {}
    <3>1. PICK c \in Unfinished : cool[c] = Lowest(K)
      BY <1>3
    <3>2. k = cool[c]
      BY <2>2, <3>1 DEF k
    <3>3. c \in Cores /\ Drained[c] = 0
      BY <3>1, <3>2, <1>1, <1>4, <1>5 DEF Less
    <3> QED BY <3>1, <3>3 DEF Available
  <2> QED BY <2>1, <2>2
<1> QED BY <1>1, <1>5, <1>6, <1>7 DEF Available

\* Of cores with a score, one is best; a tie goes to the lower core.
LEMMA WeakestIs ==
  ASSUME NEW S \in SUBSET Cores, S # {}, crashes \in [Cores -> Nat], phase \in [Cores -> Phases]
  PROVE  PickWeakest(S) \in S
<1>1. \A c \in S : Score(c) \in Nat
  BY DEF Score, Phases
<1> DEFINE K == {Score(c) : c \in S}
           T == {c \in S : Score(c) = Lowest(K)}
<1> HIDE DEF K, T
<1>2. Lowest(K) \in K /\ \A y \in K : Lowest(K) <= y
  <2>1. \A c \in S : Score(c) \in K
    BY DEF K
  <2>2. \A y \in K : y \in Nat
    BY <1>1 DEF K
  <2>3. K \in SUBSET Nat /\ K # {}
    BY <2>1, <2>2
  <2> QED BY <2>3, LowestIs
<1>3. T \in SUBSET Nat /\ T # {}
  BY <1>2 DEF K, T
<1>4. Lowest(T) \in T /\ \A y \in T : Lowest(T) <= y
  BY <1>3, LowestIs
<1>5. \A d \in S \ {Lowest(T)} : \/ Score(Lowest(T)) < Score(d)
                                 \/ Score(Lowest(T)) = Score(d) /\ Lowest(T) < d
  <2> TAKE d \in S \ {Lowest(T)}
  <2>1. Score(d) \in K /\ Score(Lowest(T)) = Lowest(K) /\ Lowest(T) \in S
    BY <1>4 DEF K, T
  <2>2. Lowest(K) <= Score(d) /\ Lowest(K) \in Nat /\ Score(d) \in Nat
    BY <2>1, <1>1, <1>2
  <2>3. CASE Score(d) = Lowest(K)
    <3>1. d \in T
      BY <2>3 DEF T
    <3>2. Lowest(T) <= d /\ d \in Nat /\ Lowest(T) \in Nat /\ d # Lowest(T)
      BY <3>1, <1>3, <1>4
    <3> QED BY <3>2, <2>1, <2>3
  <2>4. CASE Score(d) # Lowest(K)
    BY <2>1, <2>2, <2>4
  <2> QED BY <2>3, <2>4
<1>6. Lowest(T) \in S
  BY <1>4 DEF T
<1> QED BY <1>5, <1>6 DEF PickWeakest

\* CCDs with work are CCDs, and there is one.
LEMMA CcdFacts ==
  ASSUME NEW S \in SUBSET Cores
  PROVE  /\ CcdsOf(S) \subseteq {0, 1} /\ \A c : CcdOf(c) \in {0, 1}
         /\ S # {} => CcdsOf(S) # {} /\ Elsewhere(S) # {}
         /\ Elsewhere(S) \subseteq CcdsOf(S)
         /\ \A d \in CcdsOf(S) : On(S, d) # {} /\ On(S, d) \subseteq S
BY DEF CcdsOf, CcdOf, Elsewhere, On

\* Every order picks one of the cores that are available.
LEMMA PickIsAvailable ==
  ASSUME NEW S \in SUBSET Cores, S # {}, crashes \in [Cores -> Nat], phase \in [Cores -> Phases],
         last \in Cores \union {NoCore}, lastIn \in [{0, 1} -> Cores \union {NoCore}]
  PROVE  Pick(S) \in S
<1>1. S \in SUBSET Nat /\ Lowest(S) \in S
  BY LowestIs
<1>2. PickRoundRobin(S) \in S
  BY <1>1, AfterIs DEF PickRoundRobin
<1>3. PickSequential(S) \in S /\ PickWeakest(S) \in S
  BY <1>1, WeakestIs DEF PickSequential
<1>4. PickCcdAlternating(S) \in S
  <2> DEFINE done(d) == Cardinality(On(Cores \ Unfinished, d))
             first == CHOOSE d \in Elsewhere(S) :
                        \A e \in Elsewhere(S) \ {d} : done(d) < done(e) \/ (done(d) = done(e) /\ d < e)
  <2>1. \A d : done(d) \in Nat
    <3> TAKE d
    <3>1. On(Cores \ Unfinished, d) \in SUBSET Cores
      BY DEF On
    <3> QED BY <3>1, FS_Subset, FS_CardinalityType
  <2>2. Elsewhere(S) \subseteq {0, 1} /\ Elsewhere(S) # {}
    BY CcdFacts
  <2> HIDE DEF done
  <2>3. \E d \in Elsewhere(S) : \A e \in Elsewhere(S) \ {d} : done(d) < done(e) \/ (done(d) = done(e) /\ d < e)
    <3>1. CASE Elsewhere(S) = {0}
      BY <3>1
    <3>2. CASE Elsewhere(S) = {1}
      BY <3>2
    <3>3. CASE Elsewhere(S) = {0, 1}
      <4>1. done(0) \in Nat /\ done(1) \in Nat
        BY <2>1
      <4>2. done(0) <= done(1) \/ done(1) < done(0)
        BY <4>1
      <4>3. CASE done(0) <= done(1)
        BY <3>3, <4>1, <4>3
      <4>4. CASE done(1) < done(0)
        BY <3>3, <4>1, <4>4
      <4> QED BY <4>2, <4>3, <4>4
    <3> QED BY <2>2, <3>1, <3>2, <3>3
  <2>4. first \in Elsewhere(S)
    BY <2>3
  <2>5. PickCcdAlternating(S) = Lowest(On(S, first))
    BY DEF PickCcdAlternating, done
  <2> HIDE DEF first
  <2>6. On(S, first) # {} /\ On(S, first) \subseteq S /\ On(S, first) \in SUBSET Nat
    BY <1>1, <2>4, CcdFacts
  <2> QED BY <2>5, <2>6, LowestIs
<1>5. PickCcdRoundRobin(S) \in S
  <2> DEFINE d == Lowest(Elsewhere(S))
  <2>1. d \in Elsewhere(S)
    BY LowestIs, CcdFacts
  <2> HIDE DEF d
  <2>2. d \in {0, 1} /\ On(S, d) # {} /\ On(S, d) \subseteq S /\ On(S, d) \in SUBSET Nat
    BY <1>1, <2>1, CcdFacts
  <2>3. Lowest(On(S, d)) \in S /\ After(On(S, d), lastIn[d]) \in S
    <3>1. On(S, d) \in SUBSET Cores /\ lastIn[d] \in Cores \union {NoCore}
      BY <2>2
    <3> QED BY <2>2, <3>1, LowestIs, AfterIs
  <2> QED BY <1>2, <2>3 DEF PickCcdRoundRobin, d
<1> QED BY <1>2, <1>3, <1>4, <1>5 DEF Pick

-----------------------------------------------------------------------------
(* The rotation *)

\* What a rotation passes is finite, leaves out the core that waits, and includes the
\* core it has come to.
LEMMA PassedFacts ==
  ASSUME NEW d \in Cores, NEW p \in Cores \union {NoCore}
  PROVE  /\ IsFiniteSet(Passed(d, p)) /\ IsFiniteSet(PassedOn(d, p))
         /\ Round(d, p) \in Nat /\ Rounds(d, p) \in Nat /\ Since(d, p) \in Nat
         /\ p = d => Passed(d, p) = {} /\ PassedOn(d, p) = {} /\ Round(d, p) = 0 /\ Rounds(d, p) = 0
         /\ (p # d /\ p # NoCore) => p \in Passed(d, p) /\ Round(d, p) >= 1
         /\ (p # d /\ p # NoCore /\ CcdOf(p) = CcdOf(d)) => p \in PassedOn(d, p) /\ Rounds(d, p) >= 2
<1> DEFINE P == Passed(d, p)
           Q == PassedOn(d, p)
<1>1. P \in SUBSET Cores /\ Q \in SUBSET Cores
  BY DEF Passed, PassedOn
<1>2. IsFiniteSet(P) /\ IsFiniteSet(Q)
  BY <1>1, FS_Subset
<1>3. Cardinality(P) \in Nat /\ Cardinality(Q) \in Nat
  BY <1>2, FS_CardinalityType
<1>4. p = d => P = {} /\ Q = {}
  <2>1. \A x \in Cores : ~(d < x /\ x <= d) /\ ~(d < d)
    OBVIOUS
  <2>2. Passed(d, d) = {}
    BY <2>1 DEF Passed
  <2> QED BY <2>2 DEF PassedOn
<1>5. (p # d /\ p # NoCore) => p \in P
  BY DEF Passed
<1>6. (p # d /\ p # NoCore /\ CcdOf(p) = CcdOf(d)) => p \in Q
  BY <1>5 DEF PassedOn, On
<1>7. /\ Cardinality(P) = 0 <=> P = {}
      /\ Cardinality(Q) = 0 <=> Q = {}
  BY <1>2, FS_EmptySet
<1> HIDE DEF P, Q
<1>8. /\ Round(d, p) = Cardinality(P) /\ Rounds(d, p) = 2 * Cardinality(Q)
      /\ Since(d, p) = IF p = NoCore THEN 0 ELSE Rounds(d, p)
  BY DEF Round, Rounds, Since, P, Q
<1>9. P = Passed(d, p) /\ Q = PassedOn(d, p)
  BY DEF P, Q
<1> QED BY <1>2, <1>3, <1>4, <1>5, <1>6, <1>7, <1>8, <1>9

\* When a rotation over S goes on from p to another core than d, which is in S, it
\* has passed one core more.
LEMMA RotationPasses ==
  ASSUME NEW S \in SUBSET Cores, NEW d \in S, NEW p \in Cores \union {NoCore},
         d # After(S, p)
  PROVE  /\ Passed(d, p) \subseteq Passed(d, After(S, p))
         /\ After(S, p) \in Passed(d, After(S, p)) \ Passed(d, p)
<1> DEFINE c == After(S, p)
<1>1. /\ c \in S
      /\ (\E x \in S : x > p) => c > p /\ \A x \in S : x > p => c <= x
      /\ (\A x \in S : ~(x > p)) => \A x \in S : c <= x
  BY AfterIs
<1> HIDE DEF c
<1>2. d # c /\ c \in Cores /\ d \in Cores
  BY <1>1 DEF c
<1>3. CASE \E x \in S : x > p
  <2>1. c > p /\ (d > p => c < d)
    BY <1>1, <1>2, <1>3
  <2>2. ASSUME NEW x \in Cores, x \in Passed(d, p) PROVE x \in Passed(d, c)
    <3>1. (d < x /\ x <= p) \/ (p < d /\ (d < x \/ x <= p))
      BY <2>2 DEF Passed
    <3>2. (d < x /\ x <= c) \/ (c < d /\ (d < x \/ x <= c))
      BY <2>1, <1>2, <3>1
    <3> QED BY <3>2 DEF Passed
  <2>3. c \in Passed(d, c) /\ c \notin Passed(d, p)
    BY <2>1, <1>2 DEF Passed
  <2>4. \A x \in Passed(d, p) : x \in Cores
    BY DEF Passed
  <2> QED BY <2>2, <2>3, <2>4 DEF c
<1>4. CASE \A x \in S : ~(x > p)
  <2>1. d <= p /\ c < d
    BY <1>1, <1>2, <1>4
  <2>2. Passed(d, p) \subseteq Passed(d, c)
    <3>1. \A x \in Cores : x \in Passed(d, p) => d < x
      BY <2>1, <1>2 DEF Passed
    <3>2. \A x \in Cores : d < x => x \in Passed(d, c)
      BY <2>1, <1>2 DEF Passed
    <3> QED BY <3>1, <3>2 DEF Passed
  <2>3. c \in Passed(d, c) /\ c \notin Passed(d, p)
    BY <2>1, <1>2 DEF Passed
  <2> QED BY <2>2, <2>3 DEF c
<1> QED BY <1>3, <1>4

\* So the round gets longer by one, over all cores or over those of a CCD.
LEMMA RoundGrows ==
  ASSUME NEW S \in SUBSET Cores, NEW d \in S, NEW p \in Cores \union {NoCore},
         d # After(S, p)
  PROVE  /\ Round(d, p) + 1 <= Round(d, After(S, p))
         /\ CcdOf(After(S, p)) = CcdOf(d) => Rounds(d, p) + 2 <= Rounds(d, After(S, p))
<1> DEFINE c == After(S, p)
<1>1. c \in Cores /\ d \in Cores
  BY AfterIs
<1>2. Passed(d, p) \subseteq Passed(d, c) /\ c \in Passed(d, c) \ Passed(d, p)
  BY RotationPasses
<1> HIDE DEF c
<1>3. IsFiniteSet(Passed(d, c)) /\ IsFiniteSet(PassedOn(d, c)) /\ IsFiniteSet(Passed(d, p)) /\ IsFiniteSet(PassedOn(d, p))
  BY <1>1, PassedFacts
<1>4. Round(d, p) + 1 <= Round(d, c)
  <2>1. Passed(d, p) \in SUBSET Passed(d, c) /\ Passed(d, p) # Passed(d, c)
    BY <1>2
  <2>2. Cardinality(Passed(d, p)) <= Cardinality(Passed(d, c)) /\ Cardinality(Passed(d, p)) # Cardinality(Passed(d, c))
    BY <1>3, <2>1, FS_Subset
  <2>3. Cardinality(Passed(d, p)) \in Nat /\ Cardinality(Passed(d, c)) \in Nat
    BY <1>3, FS_CardinalityType
  <2> QED BY <2>2, <2>3 DEF Round
<1>5. ASSUME CcdOf(c) = CcdOf(d) PROVE Rounds(d, p) + 2 <= Rounds(d, c)
  <2>1. PassedOn(d, p) \in SUBSET PassedOn(d, c) /\ PassedOn(d, p) # PassedOn(d, c)
    <3>1. c \in On(Cores, CcdOf(d))
      BY <1>1, <1>5 DEF On
    <3> QED BY <1>2, <3>1 DEF PassedOn
  <2>2. Cardinality(PassedOn(d, p)) <= Cardinality(PassedOn(d, c)) /\ Cardinality(PassedOn(d, p)) # Cardinality(PassedOn(d, c))
    BY <1>3, <2>1, FS_Subset
  <2>3. Cardinality(PassedOn(d, p)) \in Nat /\ Cardinality(PassedOn(d, c)) \in Nat
    BY <1>3, FS_CardinalityType
  <2> QED BY <2>2, <2>3 DEF Rounds
<1> QED BY <1>4, <1>5 DEF c

\* A round is shorter than the cores are many.
LEMMA RoundBound ==
  ASSUME NEW d \in Cores, NEW p \in Cores \union {NoCore}
  PROVE  /\ Round(d, p) < Cardinality(Cores) /\ Cardinality(Cores) \in Nat
         /\ Rounds(d, p) + 1 < 2 * Largest /\ Largest \in Nat
<1> DEFINE E == On(Cores, CcdOf(d))
<1>1. IsFiniteSet(FirstCcd) /\ IsFiniteSet(Cores \ FirstCcd) /\ IsFiniteSet(E) /\ d \in E
  <2>1. FirstCcd \in SUBSET Cores /\ Cores \ FirstCcd \in SUBSET Cores /\ E \in SUBSET Cores /\ d \in E
    BY DEF On
  <2> QED BY <2>1, FS_Subset
<1>2. Cardinality(FirstCcd) \in Nat /\ Cardinality(Cores \ FirstCcd) \in Nat /\ Cardinality(E) \in Nat
      /\ Cardinality(Cores) \in Nat
  BY <1>1, FS_CardinalityType
<1>3. E = FirstCcd \/ E = Cores \ FirstCcd
  <2>1. CASE d \in FirstCcd
    <3>0. CcdOf(d) = 0 /\ \A x \in Cores : CcdOf(x) = 0 <=> x \in FirstCcd
      BY <2>1 DEF CcdOf
    <3>1. E = FirstCcd
      BY <3>0 DEF On
    <3> QED BY <3>1
  <2>2. CASE d \notin FirstCcd
    <3>0. CcdOf(d) = 1 /\ \A x \in Cores : CcdOf(x) = 1 <=> x \notin FirstCcd
      BY <2>2 DEF CcdOf
    <3>1. E = Cores \ FirstCcd
      BY <3>0 DEF On
    <3> QED BY <3>1
  <2> QED BY <2>1, <2>2
<1>4. Cardinality(E) <= Largest /\ Largest \in Nat
  BY <1>2, <1>3 DEF Largest
<1>5. Passed(d, p) \in SUBSET Cores /\ Passed(d, p) # Cores
  BY DEF Passed
<1>6. Cardinality(Passed(d, p)) < Cardinality(Cores)
  <2>1. Cardinality(Passed(d, p)) <= Cardinality(Cores) /\ Cardinality(Passed(d, p)) # Cardinality(Cores)
    BY <1>5, FS_Subset
  <2>2. Cardinality(Passed(d, p)) \in Nat
    BY <1>5, FS_Subset, FS_CardinalityType
  <2> QED BY <1>2, <2>1, <2>2
<1>7. PassedOn(d, p) \in SUBSET E /\ PassedOn(d, p) # E
  BY <1>1 DEF Passed, PassedOn
<1>8. Cardinality(PassedOn(d, p)) < Cardinality(E)
  <2>1. Cardinality(PassedOn(d, p)) <= Cardinality(E) /\ Cardinality(PassedOn(d, p)) # Cardinality(E)
    BY <1>1, <1>7, FS_Subset
  <2>2. Cardinality(PassedOn(d, p)) \in Nat
    BY <1>1, <1>7, FS_Subset, FS_CardinalityType
  <2> QED BY <1>2, <2>1, <2>2
<1>9. Cardinality(PassedOn(d, p)) \in Nat
  BY <1>1, <1>7, FS_Subset, FS_CardinalityType
<1> HIDE DEF E
<1>10. Rounds(d, p) + 1 < 2 * Largest
  BY <1>2, <1>4, <1>8, <1>9 DEF Rounds
<1> QED BY <1>2, <1>4, <1>6, <1>10 DEF Round

-----------------------------------------------------------------------------
(* Steps that leave the rotation alone *)

\* The rotation stands while its state does, and neither a slot begins nor a test is
\* over.
LEMMA OrderStands ==
  ASSUME Inv, UNCHANGED ordering, Rests' => Rests, InSlot' => InSlot, Tested' => Tested,
         app' \in {"masked", "probe"} => app \in {"masked", "probe"},
         app' = "test" => goal' = "mask"
  PROVE  OrderTypes' /\ Places' /\ Log' /\ OneRound' /\ TwoRounds'
<1> USE DEF Inv, TypeOK, ordering
<1>1. OrderTypes' /\ Places'
  BY DEF OrderTypes, Places, Fresh, Phases
<1>2. Log'
  BY DEF Log, Fresh, Available, Unfinished
<1>3. OneRound'
  BY DEF OneRound, Available, Unfinished, Round, Passed
<1>4. TwoRounds'
  BY DEF TwoRounds, Available, Unfinished, Rounds, Since, PassedOn, Passed, Beside
<1> QED
  BY <1>1, <1>2, <1>3, <1>4

\* What is written is an offset.
LEMMA TargetIsOffset ==
  ASSUME Inv
  PROVE  \A c \in Cores : Target(c) \in Nat
BY DEF Inv, TypeOK, OrderTypes, OffsetTypes, Target

\* The next offset is announced in the journal,
LEMMA WriteIntentKeeps == Inv /\ WriteIntent => Inv'
<1> SUFFICES ASSUME Inv, WriteIntent PROVE Inv'
  OBVIOUS
<1> USE DEF WriteIntent, ghosts, machine, Go
<1>1. OrderTypes' /\ Places' /\ Log' /\ OneRound' /\ TwoRounds'
  BY OrderStands DEF Rests, InSlot, Tested
<1> USE DEF Inv, TypeOK, OffsetTypes, MarkTypes, PlaceTypes
<1>2. (OffsetTypes /\ MarkTypes /\ PlaceTypes)'
  BY TargetIsOffset, ZenonT(60) DEF OrderTypes, ordering, Places, Slots0, Apps, Goals, InSlot
<1>3. Boots' /\ Blame'
  BY DEF Boots, Blame, Residents
<1> QED
  BY <1>1, <1>2, <1>3

\* and written to the hardware,
LEMMA WriteSmuKeeps == Inv /\ WriteSmu => Inv'
<1> SUFFICES ASSUME Inv, WriteSmu PROVE Inv'
  OBVIOUS
<1> USE DEF WriteSmu, ghosts, durable, Go
<1>1. OrderTypes' /\ Places' /\ Log' /\ OneRound' /\ TwoRounds'
  BY OrderStands DEF Rests, InSlot, Tested
<1> USE DEF Inv, TypeOK, OffsetTypes, MarkTypes, PlaceTypes
<1>2. (OffsetTypes /\ MarkTypes /\ PlaceTypes)'
  BY TargetIsOffset, ZenonT(60) DEF OrderTypes, ordering, Places, Slots0, Apps, Goals, InSlot
<1>3. Boots' /\ Blame'
  BY DEF Boots, Blame, Residents
<1> QED
  BY <1>1, <1>2, <1>3

\* or refused.
LEMMA WriteRefusedKeeps == Inv /\ WriteRefused => Inv'
<1> SUFFICES ASSUME Inv, WriteRefused PROVE Inv'
  OBVIOUS
<1> USE DEF WriteRefused, ghosts, Go, Forget, Stock, Restoring
<1>1. OrderTypes' /\ Places' /\ Log' /\ OneRound' /\ TwoRounds'
  BY OrderStands DEF Rests, InSlot, Tested
<1> USE DEF Inv, TypeOK, OffsetTypes, MarkTypes, PlaceTypes
<1>2. (MarkTypes /\ PlaceTypes)'
  BY DEF OrderTypes, ordering, Apps, Goals
<1>4. OffsetTypes'
  <2>1. CASE goal = "mask"
    BY <2>1
  <2>2. CASE goal # "mask"
    BY <2>2
  <2> QED BY <2>1, <2>2
<1>3. Boots' /\ Blame'
  BY DEF Boots, Blame, Residents
<1> QED
  BY <1>1, <1>2, <1>3, <1>4

\* The test starts;
LEMMA LaunchKeeps == Inv /\ Launch => Inv'
<1> SUFFICES ASSUME Inv, Launch PROVE Inv'
  OBVIOUS
<1> USE DEF Launch, ghosts, machine, Go, Stock
<1>1. OrderTypes' /\ Places' /\ Log' /\ OneRound' /\ TwoRounds'
  BY OrderStands DEF Rests, InSlot, Tested
<1> USE DEF Inv, TypeOK, OffsetTypes, MarkTypes, PlaceTypes
<1>2. (OffsetTypes /\ MarkTypes /\ PlaceTypes)'
  BY DEF OrderTypes, ordering, Places, Slots0, Apps, Goals, InSlot
<1>3. Boots' /\ Blame'
  BY DEF Boots, Blame, Residents
<1> QED
  BY <1>1, <1>2, <1>3

\* it may end without a verdict.
LEMMA TestWithoutKeeps == Inv /\ TestWithout => Inv'
<1> SUFFICES ASSUME Inv, TestWithout PROVE Inv'
  OBVIOUS
<1> USE DEF TestWithout, ghosts, machine, Go
<1>1. OrderTypes' /\ Places' /\ Log' /\ OneRound' /\ TwoRounds'
  BY OrderStands DEF Rests, InSlot, Tested
<1> USE DEF Inv, TypeOK, OffsetTypes, MarkTypes, PlaceTypes
<1>2. (OffsetTypes /\ MarkTypes /\ PlaceTypes)'
  BY DEF OrderTypes, ordering, Places, Slots0, Apps, Goals, InSlot
<1>3. Boots' /\ Blame'
  BY DEF Boots, Blame, Residents
<1> QED
  BY <1>1, <1>2, <1>3

\* The search is over.
LEMMA CompleteKeeps == Inv /\ Complete => Inv'
<1> SUFFICES ASSUME Inv, Complete PROVE Inv'
  OBVIOUS
<1> USE DEF Complete, ghosts, machine, durable, Go, Unfinished
<1>1. OrderTypes' /\ Places' /\ Log' /\ OneRound' /\ TwoRounds'
  BY OrderStands DEF Rests, InSlot, Tested
<1> USE DEF Inv, TypeOK, OffsetTypes, MarkTypes, PlaceTypes
<1>2. (OffsetTypes /\ MarkTypes /\ PlaceTypes)'
  BY DEF OrderTypes, ordering, Places, Slots0, Apps, Goals, InSlot
<1>3. Boots' /\ Blame'
  BY DEF Boots, Blame, Residents
<1> QED
  BY <1>1, <1>2, <1>3

\* A probe is armed.
LEMMA HuntArmKeeps == Inv /\ HuntArm => Inv'
<1> SUFFICES ASSUME Inv, HuntArm PROVE Inv'
  OBVIOUS
<1> USE DEF HuntArm, ghosts, machine, Go
<1>1. OrderTypes' /\ Places' /\ Log' /\ OneRound' /\ TwoRounds'
  BY OrderStands DEF Rests, InSlot, Tested
<1> USE DEF Inv, TypeOK, OffsetTypes, MarkTypes, PlaceTypes
<1>2. (OffsetTypes /\ MarkTypes /\ PlaceTypes)'
  BY DEF OrderTypes, ordering, Places, Slots0, Apps, Goals, InSlot
<1>3. Boots' /\ Blame'
  BY DEF Boots, Blame, Residents
<1> QED
  BY <1>1, <1>2, <1>3

\* resume finds out how the last boot ended; what the journal holds is what it held then.
LEMMA ResumeKeeps == Inv /\ Resume => Inv'
<1> SUFFICES ASSUME Inv, Resume PROVE Inv'
  OBVIOUS
<1> USE DEF Resume, ResumeWhere, ghosts, machine, Go
<1>1. OrderTypes' /\ Places' /\ Log' /\ OneRound' /\ TwoRounds'
  BY OrderStands DEF Rests, InSlot, Tested
<1> USE DEF Inv, TypeOK, OffsetTypes, MarkTypes, PlaceTypes
<1>2. (OffsetTypes /\ MarkTypes /\ PlaceTypes)'
  BY DEF OrderTypes, ordering, Places, Slots0, Apps, Goals, InSlot
<1>3. Boots' /\ Blame'
  BY DEF Boots, Blame, Residents
<1> QED
  BY <1>1, <1>2, <1>3

\* The crash is attributed, to cores whose offsets the journal holds, or to a hunt.
LEMMA AttributeKeeps == Inv /\ Attribute => Inv'
<1> SUFFICES ASSUME Inv, Attribute PROVE Inv'
  OBVIOUS
<1> USE DEF Attribute, Residents, AttributeWhere, ghosts, machine, durable, Go
<1>1. OrderTypes' /\ Places' /\ Log' /\ OneRound' /\ TwoRounds'
  BY OrderStands DEF Rests, InSlot, Tested
<1> USE DEF Inv, TypeOK, OffsetTypes, MarkTypes, PlaceTypes
<1>2. (OffsetTypes /\ MarkTypes /\ PlaceTypes)'
  BY ZenonT(60) DEF OrderTypes, ordering, Places, Slots0, Apps, Goals, InSlot
<1>3. Boots'
  BY DEF Boots, Blame
<1>4. Blame'
  <2>1. how = "crash" /\ stamp # boot /\ ended = "crash" /\ intent = journal
    BY DEF Boots, Blame
  <2>2. intent # Stock => Residents # {}
    BY <2>1 DEF Residents, Stock
  <2>3. app' = "charge" => owed' # {} /\ owed' \subseteq Residents
    BY DEF Residents
  <2>4. (app' = "close" /\ intent # Stock) => pending'
    BY <2>2 DEF Residents
  <2> QED
    BY <2>1, <2>3, <2>4 DEF Blame, Residents
<1> QED
  BY <1>1, <1>2, <1>3, <1>4

\* The marks are cleared,
LEMMA CloseKeeps == Inv /\ Close => Inv'
<1> SUFFICES ASSUME Inv, Close PROVE Inv'
  OBVIOUS
<1> USE DEF Close, ghosts, machine, Go
<1>1. OrderTypes' /\ Places' /\ Log' /\ OneRound' /\ TwoRounds'
  BY OrderStands DEF Rests, InSlot, Tested
<1> USE DEF Inv, TypeOK, OffsetTypes, MarkTypes, PlaceTypes
<1>2. (OffsetTypes /\ MarkTypes /\ PlaceTypes)'
  BY DEF OrderTypes, ordering, Places, Slots0, Apps, Goals, InSlot
<1>3. Boots' /\ Blame'
  BY DEF Boots, Blame, Residents
<1> QED
  BY <1>1, <1>2, <1>3

\* the boot is stamped: the crash counts as handled,
LEMMA StampKeeps == Inv /\ Stamp => Inv'
<1> SUFFICES ASSUME Inv, Stamp PROVE Inv'
  OBVIOUS
<1> USE DEF Stamp, ghosts, Go
<1>1. OrderTypes' /\ Places' /\ Log' /\ OneRound' /\ TwoRounds'
  BY OrderStands DEF Rests, InSlot, Tested
<1> USE DEF Inv, TypeOK, OffsetTypes, MarkTypes, PlaceTypes
<1>2. (OffsetTypes /\ MarkTypes /\ PlaceTypes)'
  BY DEF OrderTypes, ordering, Places, Slots0, Apps, Goals, InSlot
<1>3. Boots' /\ Blame'
  BY DEF Boots, Blame, Residents
<1> QED
  BY <1>1, <1>2, <1>3

\* the streak goes on,
LEMMA StreakKeeps == Inv /\ Streak => Inv'
<1> SUFFICES ASSUME Inv, Streak PROVE Inv'
  OBVIOUS
<1> USE DEF Streak, ghosts, machine, Go, Handled
<1>1. OrderTypes' /\ Places' /\ Log' /\ OneRound' /\ TwoRounds'
  BY OrderStands DEF Rests, InSlot, Tested
<1> USE DEF Inv, TypeOK, OffsetTypes, MarkTypes, PlaceTypes
<1>2. (OffsetTypes /\ MarkTypes /\ PlaceTypes)'
  BY DEF OrderTypes, ordering, Places, Slots0, Apps, Goals, InSlot
<1>3. Boots' /\ Blame'
  BY DEF Boots, Blame, Residents
<1> QED
  BY <1>1, <1>2, <1>3

\* and the baselines are written,
LEMMA RestoreKeeps == Inv /\ Restore => Inv'
<1> SUFFICES ASSUME Inv, Restore PROVE Inv'
  OBVIOUS
<1> USE DEF Restore, ghosts, machine, durable, Go
<1>1. OrderTypes' /\ Places' /\ Log' /\ OneRound' /\ TwoRounds'
  BY OrderStands DEF Rests, InSlot, Tested
<1> USE DEF Inv, TypeOK, OffsetTypes, MarkTypes, PlaceTypes
<1>2. (OffsetTypes /\ MarkTypes /\ PlaceTypes)'
  BY DEF OrderTypes, ordering, Places, Slots0, Apps, Goals, InSlot
<1>3. Boots' /\ Blame'
  BY DEF Boots, Blame, Residents
<1> QED
  BY <1>1, <1>2, <1>3

\* some of them, or all.
LEMMA RestoreRefusedKeeps == Inv /\ RestoreRefused => Inv'
<1> SUFFICES ASSUME Inv, RestoreRefused PROVE Inv'
  OBVIOUS
<1> USE DEF RestoreRefused, ghosts, machine, durable, Go, Restoring
<1>1. OrderTypes' /\ Places' /\ Log' /\ OneRound' /\ TwoRounds'
  BY OrderStands DEF Rests, InSlot, Tested
<1> USE DEF Inv, TypeOK, OffsetTypes, MarkTypes, PlaceTypes
<1>2. (OffsetTypes /\ MarkTypes /\ PlaceTypes)'
  BY DEF OrderTypes, ordering, Places, Slots0, Apps, Goals, InSlot
<1>3. Boots' /\ Blame'
  BY DEF Boots, Blame, Residents
<1> QED
  BY <1>1, <1>2, <1>3

-----------------------------------------------------------------------------
(* Steps of the rotation *)

\* The lowest of the cores is the next one of a rotation that has no cursor.
LEMMA FromTheStart ==
  ASSUME NEW S \in SUBSET Cores
  PROVE  Lowest(S) = After(S, NoCore)
<1>1. \A x \in S : x > NoCore
  OBVIOUS
<1>2. {x \in S : x > NoCore} = S
  BY <1>1
<1> QED
  BY <1>2 DEF After

\* Of two available cores, the one that is not picked has waited one test longer, and
\* its round is longer by as much, with the CCDs in turn too.
LEMMA TurnsGrow ==
  ASSUME Inv, app = "idle", order = "ccd_round_robin", NEW S \in SUBSET Cores, NEW d \in S,
         NEW c, c = PickCcdRoundRobin(S), c # d,
         NEW k, k = IF RunDry(S) THEN 0 ELSE skipped[d]
  PROVE  /\ k + 1 <= Rounds(d, IF CcdOf(d) = CcdOf(c) THEN c ELSE lastIn[CcdOf(d)]) + Beside(d, c)
         /\ CcdOf(d) # CcdOf(c) => k <= Since(d, finished.on[CcdOf(d)])
<1>1. /\ OrderTypes /\ d \in Cores /\ S # {} /\ k \in Nat
      /\ lastIn[CcdOf(d)] \in Cores \union {NoCore} /\ finished.on[CcdOf(d)] \in Cores \union {NoCore}
  BY CcdFacts DEF Inv, TypeOK, OrderTypes, Slots0
<1>2. /\ k <= skipped[d] /\ skipped[d] \in Nat
      /\ skipped[d] <= Since(d, finished.on[CcdOf(d)]) + Beside(d, finished.core)
      /\ skipped[d] <= Rounds(d, lastIn[CcdOf(d)]) + Beside(d, last)
      /\ skipped[d] = 0 \/ (last = finished.core /\ last # NoCore /\ lastIn[CcdOf(last)] = last)
  BY <1>1 DEF Inv, OrderTypes, TwoRounds, Log, Rests, Fresh
<1>3. c \in S
  <2>1. Pick(S) = c
    BY DEF Pick
  <2> QED BY <1>1, <2>1, PickIsAvailable DEF OrderTypes, Slots0
<1>4. /\ Rounds(d, lastIn[CcdOf(d)]) \in Nat /\ Since(d, finished.on[CcdOf(d)]) \in Nat
      /\ Rounds(d, c) \in Nat /\ (CcdOf(c) = CcdOf(d) => Rounds(d, c) >= 2)
  <2>1. \A p \in Cores \union {NoCore} : Rounds(d, p) \in Nat /\ Since(d, p) \in Nat
    BY <1>1, PassedFacts
  <2>2. c \in Cores /\ c # NoCore
    BY <1>3
  <2>3. CcdOf(c) = CcdOf(d) => Rounds(d, c) >= 2
    BY <1>1, <2>2, PassedFacts
  <2> QED BY <1>1, <2>1, <2>2, <2>3
<1>5. CASE Cardinality(CcdsOf(S)) < 2
  <2>1. CcdOf(c) = CcdOf(d) /\ \A e \in CcdsOf(S) : e = CcdOf(d)
    <3>1. CcdsOf(S) \subseteq {0, 1} /\ CcdsOf(S) # {0, 1}
      <4>1. Cardinality({0, 1}) = 2
        <5>0. 1 \notin {0} /\ {0, 1} = {0} \union {1}
          OBVIOUS
        <5>1. IsFiniteSet({0}) /\ Cardinality({0}) = 1
          BY FS_Singleton
        <5>2. Cardinality({0} \union {1}) = Cardinality({0}) + 1
          BY <5>0, <5>1, FS_AddElement
        <5> QED BY <5>0, <5>1, <5>2
      <4> QED BY <4>1, <1>5, CcdFacts
    <3>2. CcdOf(c) \in CcdsOf(S) /\ CcdOf(d) \in CcdsOf(S)
      BY <1>3 DEF CcdsOf
    <3> QED BY <3>1, <3>2
  <2>2. c = After(S, last)
    BY <1>5, FromTheStart DEF PickCcdRoundRobin, PickRoundRobin
  <2>3. CASE k = 0
    BY <2>1, <2>3, <1>4 DEF Beside
  <2>4. CASE k # 0
    <3>1. k = skipped[d] /\ ~RunDry(S) /\ last = finished.core /\ last # NoCore /\ lastIn[CcdOf(last)] = last
      <4>1. k = skipped[d] /\ ~RunDry(S)
        BY <2>4
      <4> QED BY <4>1, <2>4, <1>2
    <3>2. CcdOf(last) = CcdOf(d) /\ last \in Cores
      BY <3>1, <2>1, <1>1 DEF RunDry, OrderTypes, Slots0
    <3>3. Rounds(d, last) + 2 <= Rounds(d, c) /\ Rounds(d, last) \in Nat
      BY <3>2, <2>1, <2>2, <1>1, RoundGrows, PassedFacts
    <3>4. skipped[d] <= Rounds(d, last)
      <4>1. lastIn[CcdOf(d)] = last /\ Beside(d, last) = 0
        BY <3>1, <3>2 DEF Beside
      <4> QED BY <3>3, <4>1, <1>2
    <3> QED BY <3>1, <3>3, <3>4, <2>1, <1>2, <1>4 DEF Beside
  <2> QED BY <2>3, <2>4
<1>6. CASE ~(Cardinality(CcdsOf(S)) < 2)
  <2>1. CcdsOf(S) = {0, 1}
    <3>1. CcdsOf(S) \subseteq {0, 1} /\ Cardinality({}) = 0 /\ Cardinality({0}) = 1 /\ Cardinality({1}) = 1
      BY FS_EmptySet, FS_Singleton, CcdFacts
    <3> QED BY <3>1, <1>6
  <2> DEFINE e == Lowest(Elsewhere(S))
  <2>2. e \in Elsewhere(S) /\ e \in {0, 1}
    BY <1>1, CcdFacts, LowestIs
  <2>3. last # NoCore => e # CcdOf(last)
    <3>1. ASSUME last # NoCore PROVE \A x \in Elsewhere(S) : x # CcdOf(last)
      <4>1. CcdOf(last) \in {0, 1}
        BY CcdFacts
      <4>2. {x \in CcdsOf(S) : last # NoCore /\ x # CcdOf(last)} # {}
        BY <2>1, <3>1, <4>1
      <4> QED BY <4>2 DEF Elsewhere
    <3> QED BY <3>1, <2>2
  <2> HIDE DEF e
  <2>4. ~RunDry(S) /\ k = skipped[d]
    BY <2>1, CcdFacts DEF RunDry
  <2>5. /\ c = After(On(S, e), lastIn[e]) /\ On(S, e) \in SUBSET Cores /\ On(S, e) # {}
        /\ lastIn[e] \in Cores \union {NoCore}
    <3>1. On(S, e) \in SUBSET Cores /\ On(S, e) # {} /\ lastIn[e] \in Cores \union {NoCore}
      BY <2>1, <2>2, <1>1, CcdFacts DEF OrderTypes, Slots0
    <3> QED BY <3>1, <1>6, FromTheStart DEF PickCcdRoundRobin, e
  <2>6. CcdOf(c) = e
    BY <2>5, AfterIs DEF On
  <2>7. CASE CcdOf(d) = e
    <3>1. d \in On(S, e)
      BY <2>7 DEF On
    <3>2. Rounds(d, lastIn[e]) + 2 <= Rounds(d, c)
      BY <3>1, <2>5, <2>6, <2>7, RoundGrows
    <3> QED BY <3>2, <2>4, <2>6, <2>7, <1>2, <1>4 DEF Beside
  <2>8. CASE CcdOf(d) # e
    <3>1. last # NoCore => CcdOf(last) = CcdOf(d)
      BY <2>2, <2>3, <2>8, CcdFacts
    <3>2. Beside(d, last) = 0 /\ Beside(d, c) = 1
      BY <3>1, <2>6, <2>8, <1>3 DEF Beside
    <3>3. skipped[d] <= Since(d, finished.on[CcdOf(d)])
      BY <3>2, <1>2, <1>4
    <3> QED BY <3>2, <3>3, <2>4, <2>6, <2>8, <1>2, <1>4
  <2> QED BY <2>7, <2>8
<1> QED
  BY <1>5, <1>6

-----------------------------------------------------------------------------
(* Steps of a slot and of a hunt *)

\* What the choice of a core does: the cooldowns drain until some core is available, one
\* of those is taken, and a core that becomes available with the choice has waited for
\* nothing.
LEMMA RunNextPicks ==
  ASSUME Inv, RunNext, NEW S, S = Available(Drained)
  PROVE  /\ S \in SUBSET Cores /\ Pick(S) \in S /\ last' = Pick(S)
         /\ lastIn' = [lastIn EXCEPT ![CcdOf(last')] = last'] /\ CcdOf(last') \in {0, 1}
         /\ skipped' = IF order = "ccd_round_robin" /\ RunDry(S) THEN Fresh ELSE skipped
         /\ cool' \in [Cores -> Nat] /\ phase' \in [Cores -> Phases]
         /\ S \subseteq Available(cool)'
         /\ \A d \in Cores \ S : skipped[d] = 0
         /\ UNCHANGED <<order, crashes, finished>>
<1> DEFINE c == Pick(S)
<1>1. OrderTypes /\ Unfinished # {}
  BY DEF Inv, TypeOK, RunNext, PickNext, PickNextBy
<1>2. /\ S # {} /\ S \in SUBSET Cores /\ Drained \in [Cores -> Nat]
      /\ \A d \in Cores : Drained[d] <= cool[d]
  BY <1>1, DrainedFrees DEF OrderTypes
<1>3. c \in S
  BY <1>1, <1>2, PickIsAvailable DEF OrderTypes, Slots0
<1>4. /\ last' = c /\ lastIn' = [lastIn EXCEPT ![CcdOf(c)] = c]
      /\ skipped' = IF order = "ccd_round_robin" /\ RunDry(S) THEN Fresh ELSE skipped
      /\ cool' = [d \in Cores |-> IF d = c THEN Drained[d] ELSE Less(Drained[d], 1)]
      /\ phase' = [phase EXCEPT ![c] = CASE @ = "new" -> "search"
                                         [] @ = "settled" -> "confirm" [] OTHER -> @]
      /\ UNCHANGED <<order, crashes, finished>>
  BY DEF RunNext, PickNext, PickNextBy
<1> HIDE DEF c
<1>5. c \in Cores
  BY <1>2, <1>3
<1>6. cool' \in [Cores -> Nat] /\ \A d \in Cores : cool'[d] <= Drained[d]
  BY <1>2, <1>4 DEF Less
<1>7. phase' \in [Cores -> Phases]
  BY <1>1, <1>4, <1>5 DEF OrderTypes, Phases
<1>8. S \subseteq Available(cool)'
  <2> SUFFICES ASSUME NEW d \in S PROVE d \in Available(cool)'
    OBVIOUS
  <2>1. d \in Cores /\ phase[d] # "confirmed" /\ Drained[d] = 0
    BY DEF Available, Unfinished
  <2>2. cool'[d] = 0
    BY <1>2, <1>6, <2>1
  <2>3. phase'[d] # "confirmed"
    BY <1>1, <1>4, <2>1 DEF OrderTypes
  <2> QED BY <2>1, <2>2, <2>3 DEF Available, Unfinished
<1>9. ASSUME NEW d \in Cores, d \notin S PROVE skipped[d] = 0
  <2>1. d \notin Available(cool)
    BY <1>2, <1>9, <1>1 DEF Available, OrderTypes
  <2> QED BY <2>1 DEF Inv, Log
<1> QED
  BY <1>2, <1>3, <1>4, <1>6, <1>7, <1>8, <1>9, CcdFacts DEF c

\* A slot begins: whoever has to wait still waits in the round.
LEMMA RunNextKeeps == Inv /\ RunNext => Inv'
<1> SUFFICES ASSUME Inv, RunNext PROVE Inv'
  OBVIOUS
<1> DEFINE S == Available(Drained)
           c == last'
<1>1. /\ S \in SUBSET Cores /\ Pick(S) \in S /\ c = Pick(S)
      /\ lastIn' = [lastIn EXCEPT ![CcdOf(c)] = c] /\ CcdOf(c) \in {0, 1}
      /\ skipped' = IF order = "ccd_round_robin" /\ RunDry(S) THEN Fresh ELSE skipped
      /\ cool' \in [Cores -> Nat] /\ phase' \in [Cores -> Phases]
      /\ S \subseteq Available(cool)'
      /\ \A d \in Cores \ S : skipped[d] = 0
      /\ UNCHANGED <<order, crashes, finished>>
  BY RunNextPicks
<1>2. /\ app = "idle" /\ app' = "write" /\ goal' = "mask"
      /\ inTest' = inTest \union {c} /\ owed' \in SUBSET Cores
      /\ UNCHANGED <<current, best, journal, saved, stamp, streak, machine, how, pending, ghosts>>
  BY <1>1 DEF RunNext, Go
<1> HIDE DEF S, c
<1>3. c \in Cores /\ c # NoCore
  BY <1>1
<1>4. /\ lastIn' \in [{0, 1} -> Slots0] /\ lastIn'[CcdOf(c)] = c
      /\ \A d \in Cores : CcdOf(d) # CcdOf(c) => lastIn'[CcdOf(d)] = lastIn[CcdOf(d)]
  BY <1>1, <1>3, CcdFacts DEF Inv, TypeOK, OrderTypes, Slots0
<1>5. skipped' \in [Cores -> Nat] /\ \A d \in Cores : skipped'[d] <= skipped[d] /\ skipped[d] \in Nat
  BY <1>1 DEF Inv, TypeOK, OrderTypes, Fresh
<1>6. OrderTypes'
  BY <1>1, <1>3, <1>4, <1>5 DEF Inv, TypeOK, OrderTypes, Slots0, c
<1>7. (OffsetTypes /\ MarkTypes /\ PlaceTypes)'
  <2>1. OffsetTypes'
    BY <1>2 DEF Inv, TypeOK, OffsetTypes, machine, ghosts
  <2>2. MarkTypes'
    BY <1>2, <1>3 DEF Inv, TypeOK, MarkTypes, machine, ghosts
  <2>3. PlaceTypes'
    BY <1>2 DEF Inv, TypeOK, PlaceTypes, machine, Apps, Goals
  <2> QED BY <2>1, <2>2, <2>3
<1>8. Boots' /\ Blame'
  BY <1>2 DEF Inv, TypeOK, PlaceTypes, MarkTypes, Boots, Blame, machine, ghosts
<1>9. InSlot' /\ ~Rests' /\ ~Tested'
  BY <1>2 DEF InSlot, Rests, Tested
<1>10. Places'
  BY <1>2, <1>3, <1>4, <1>9 DEF Places, c
<1>11. Log'
  <2>1. skipped = Fresh => skipped' = Fresh
    BY <1>1
  <2>2. ASSUME NEW d \in Cores, d \notin Available(cool)' PROVE skipped'[d] = 0
    BY <1>1, <1>5, <2>2
  <2> QED BY <1>1, <1>9, <2>1, <2>2 DEF Inv, Log
<1>12. OneRound'
  <2> SUFFICES ASSUME order = "round_robin" PROVE OneRound'
    BY <1>1 DEF OneRound
  <2>1. skipped' = skipped
    BY <1>1
  <2>2. ASSUME NEW d \in Available(cool)', d # c PROVE skipped[d] + 1 <= Round(d, c)
    <3>1. d \in Cores
      BY DEF Available, Unfinished
    <3>2. CASE d \in S
      <4>1. last \in Cores \union {NoCore} /\ c = After(S, last)
        BY <1>1, FromTheStart DEF Inv, TypeOK, OrderTypes, Slots0, Pick, PickRoundRobin
      <4>2. Round(d, last) + 1 <= Round(d, c)
        BY <1>1, <2>2, <3>2, <4>1, RoundGrows
      <4>3. Round(d, last) \in Nat /\ Round(d, c) \in Nat
        BY <1>3, <3>1, <4>1, PassedFacts
      <4>4. skipped[d] <= Round(d, last)
        BY <1>2, <3>1, <4>3 DEF Inv, OneRound, Log, Rests, Fresh
      <4> QED BY <1>5, <3>1, <4>2, <4>3, <4>4
    <3>3. CASE d \notin S
      <4>1. skipped[d] = 0 /\ Round(d, c) >= 1
        BY <1>1, <1>3, <2>2, <3>1, <3>3, PassedFacts
      <4> QED BY <4>1
    <3> QED BY <3>2, <3>3
  <2> QED BY <1>1, <2>1, <2>2 DEF Inv, OneRound, c
<1>13. TwoRounds'
  <2> SUFFICES ASSUME order = "ccd_round_robin" PROVE TwoRounds'
    BY <1>1 DEF TwoRounds
  <2>1. ASSUME NEW d \in Cores
        PROVE  skipped'[d] <= Since(d, finished.on[CcdOf(d)]) + Beside(d, finished.core)
    <3>1. finished.on[CcdOf(d)] \in Cores \union {NoCore}
      BY CcdFacts DEF Inv, TypeOK, OrderTypes, Slots0
    <3>2. Since(d, finished.on[CcdOf(d)]) \in Nat /\ Beside(d, finished.core) \in Nat
      BY <3>1, PassedFacts DEF Beside
    <3>3. skipped[d] <= Since(d, finished.on[CcdOf(d)]) + Beside(d, finished.core)
      BY DEF Inv, TwoRounds
    <3> QED BY <1>5, <3>2, <3>3
  <2>2. ASSUME NEW d \in Available(cool)', d # c
        PROVE  /\ skipped'[d] + 1 <= Rounds(d, lastIn'[CcdOf(d)]) + Beside(d, c)
               /\ CcdOf(d) # CcdOf(c) => skipped'[d] <= Since(d, finished.on[CcdOf(d)])
    <3>1. d \in Cores
      BY DEF Available, Unfinished
    <3>2. lastIn'[CcdOf(d)] = IF CcdOf(d) = CcdOf(c) THEN c ELSE lastIn[CcdOf(d)]
      BY <1>4, <3>1
    <3>3. CASE d \in S
      <4>1. c = PickCcdRoundRobin(S)
        BY <1>1 DEF Pick
      <4>2. skipped'[d] = IF RunDry(S) THEN 0 ELSE skipped[d]
        BY <1>1, <3>1 DEF Fresh
      <4> QED BY <1>1, <1>2, <2>2, <3>2, <3>3, <4>1, <4>2, TurnsGrow
    <3>4. CASE d \notin S
      <4>1. skipped'[d] = 0
        BY <1>1, <1>5, <3>1, <3>4
      <4>2. /\ lastIn[CcdOf(d)] \in Cores \union {NoCore}
            /\ finished.on[CcdOf(d)] \in Cores \union {NoCore}
        BY CcdFacts, ZenonT(60) DEF Inv, TypeOK, OrderTypes, Slots0
      <4>3. /\ Since(d, finished.on[CcdOf(d)]) \in Nat /\ Rounds(d, lastIn[CcdOf(d)]) \in Nat
        BY <3>1, <4>2, PassedFacts
      <4>4. CcdOf(d) = CcdOf(c) => Rounds(d, c) >= 2 /\ Rounds(d, c) \in Nat
        BY <1>3, <2>2, <3>1, PassedFacts
      <4>5. CcdOf(d) # CcdOf(c) => Beside(d, c) = 1
        BY <1>3 DEF Beside
      <4>6. Beside(d, c) \in Nat
        BY DEF Beside
      <4> QED BY <3>2, <4>1, <4>3, <4>4, <4>5, <4>6
    <3> QED BY <3>3, <3>4
  <2> QED BY <1>1, <1>9, <2>1, <2>2 DEF TwoRounds, c
<1> QED
  BY <1>6, <1>7, <1>8, <1>10, <1>11, <1>12, <1>13 DEF Inv, TypeOK

\* A test is over: it is in the log, and the cores that were available have waited for it.
LEMMA TestFinishesKeeps == Inv /\ TestFinishes => Inv'
<1> SUFFICES ASSUME Inv, TestFinishes PROVE Inv'
  OBVIOUS
<1> USE DEF TestFinishes, Go, Finished, Logged, machine, Inv, TypeOK, PlaceTypes, OrderTypes
<1>1. OrderTypes'
  BY DEF Slots0, Phases, Places, InSlot, Available, Fresh, CcdOf
<1>2. OffsetTypes'
  BY DEF OffsetTypes, Slots0, Places, Phases
<1>3. MarkTypes'
  BY DEF MarkTypes, OffsetTypes, Slots0
<1>4. PlaceTypes'
  BY LowestIs DEF Places, Apps, Goals, Slots0, InSlot
<1>5. Boots' /\ Blame'
  BY LowestIs DEF Boots, Blame, MarkTypes, OffsetTypes, Residents, Stock, Apps
<1>6. Places'
  BY DEF Places, Tested, CcdOf, InSlot, Available, Fresh, Slots0
<1>7. Log'
  BY DEF Log, Available, Unfinished, CcdOf, Fresh, Rests, Tested, Places, InSlot, Slots0
<1>8. OneRound'
  BY PassedFacts DEF OneRound, Available, Unfinished, InSlot, Log, Fresh, Rests, Tested, Places, Slots0
<1>9. TwoRounds'
  <2> SUFFICES ASSUME order = "ccd_round_robin" PROVE TwoRounds'
    BY DEF TwoRounds
  <2>1. InSlot /\ last \in Cores /\ lastIn[CcdOf(last)] = last /\ ~InSlot' /\ last # NoCore
    BY DEF Places, InSlot
  <2> SUFFICES ASSUME NEW d \in Cores
        PROVE  /\ skipped'[d] <= Since(d, finished'.on[CcdOf(d)]) + Beside(d, last)
               /\ skipped'[d] <= Rounds(d, lastIn[CcdOf(d)]) + Beside(d, last)
    BY <2>1 DEF TwoRounds, Beside
  <2>2. /\ CcdOf(d) \in {0, 1} /\ CcdOf(last) \in {0, 1} /\ Beside(d, last) \in {0, 1}
        /\ lastIn[CcdOf(d)] \in Cores \union {NoCore} /\ finished.on[CcdOf(d)] \in Cores \union {NoCore}
    BY CcdFacts DEF Slots0, Beside
  <2>3. finished'.on[CcdOf(d)] = IF CcdOf(d) = CcdOf(last) THEN last ELSE finished.on[CcdOf(d)]
    BY <2>2
  <2>4. /\ Rounds(d, lastIn[CcdOf(d)]) \in Nat /\ Rounds(d, last) \in Nat
        /\ Since(d, finished.on[CcdOf(d)]) \in Nat /\ Since(d, last) = Rounds(d, last)
    BY <2>1, <2>2, PassedFacts DEF Since
  <2>5. skipped'[d] = IF d \in Available(cool) \ {last} THEN skipped[d] + 1 ELSE 0
    OBVIOUS
  <2>6. CASE d \in Available(cool) \ {last}
    <3>1. /\ skipped[d] + 1 <= Rounds(d, lastIn[CcdOf(d)]) + Beside(d, last)
          /\ CcdOf(d) # CcdOf(last) => skipped[d] <= Since(d, finished.on[CcdOf(d)])
      BY <2>1, <2>6 DEF TwoRounds
    <3>2. CcdOf(d) # CcdOf(last) => Beside(d, last) = 1
      BY <2>1 DEF Beside
    <3>3. skipped'[d] = skipped[d] + 1 /\ skipped[d] \in Nat
      BY <2>5, <2>6
    <3> HIDE DEF TestFinishes, Inv
    <3>4. CASE CcdOf(d) = CcdOf(last)
      BY <2>1, <2>2, <2>3, <2>4, <3>1, <3>3, <3>4
    <3>5. CASE CcdOf(d) # CcdOf(last)
      BY <2>2, <2>3, <2>4, <3>1, <3>2, <3>3, <3>5
    <3> QED BY <3>4, <3>5
  <2>7. CASE d \notin Available(cool) \ {last}
    <3>1. skipped'[d] = 0
      BY <2>5, <2>7
    <3> HIDE DEF TestFinishes, Inv
    <3> QED BY <2>2, <2>3, <2>4, <3>1
  <2> QED BY <2>6, <2>7
<1> QED
  BY <1>1, <1>2, <1>3, <1>4, <1>5, <1>6, <1>7, <1>8, <1>9

\* The revert is done, and the core of the test takes its step.
LEMMA WrittenKeeps == Inv /\ Written => Inv'
<1> SUFFICES ASSUME Inv, Written PROVE Inv'
  OBVIOUS
<1> USE DEF Written, Forget, Go, Stepped, Less, ghosts, machine, Inv, TypeOK, PlaceTypes, OrderTypes
<1>1. OrderTypes'
  BY DEF Slots0, Phases, Places, InSlot, Available, Fresh, CcdOf
<1>2. OffsetTypes'
  BY DEF OffsetTypes, Slots0, Places, Phases
<1>3. MarkTypes'
  BY DEF MarkTypes, OffsetTypes, Slots0
<1>4. PlaceTypes'
  BY LowestIs DEF Places, Apps, Goals, Slots0, InSlot
<1>5. Boots' /\ Blame'
  BY LowestIs DEF Boots, Blame, MarkTypes, OffsetTypes, Residents, Stock, Apps
<1>6. Places'
  BY DEF Places, Tested, CcdOf, InSlot, Available, Fresh, Slots0
<1>7. Log'
  <2>1. UNCHANGED <<last, lastIn, finished, skipped, cool>> /\ (Rests' => Rests)
    BY DEF Rests, Tested, Goals
  <2>2. ASSUME NEW d \in Cores, d \notin Available(cool)' PROVE skipped[d] = 0
    <3>1. CASE d = last
      <4>1. Tested \/ (phase' = phase)
        BY DEF Tested
      <4> QED BY <2>2, <3>1, <4>1 DEF Places, Log, Available, Unfinished
    <3>2. CASE d # last
      <4>1. phase'[d] = phase[d]
        BY <3>2
      <4> QED BY <2>2, <4>1 DEF Log, Available, Unfinished
    <3> QED BY <3>1, <3>2
  <2> HIDE DEF Written
  <2> QED BY <2>1, <2>2 DEF Log, Fresh
<1>8. OneRound'
  BY PassedFacts DEF OneRound, Available, Unfinished, InSlot, Log, Fresh, Rests, Tested, Places, Slots0
<1>9. TwoRounds'
  <2>1. ~InSlot' /\ UNCHANGED <<order, last, lastIn, finished, skipped>>
    BY DEF InSlot
  <2>2. Rests' => Rests
    BY DEF Rests, Tested, Goals
  <2> HIDE DEF Written
  <2> QED BY <2>1, <2>2 DEF TwoRounds, Beside
<1> QED
  BY <1>1, <1>2, <1>3, <1>4, <1>5, <1>6, <1>7, <1>8, <1>9

\* The mask of a probe is written: its core moves the cursor, and a new round begins.
LEMMA HuntMaskKeeps == Inv /\ HuntMask => Inv'
<1> SUFFICES ASSUME Inv, HuntMask PROVE Inv'
  OBVIOUS
<1> USE DEF HuntMask, Go, Fresh, ghosts, Inv, TypeOK, PlaceTypes, OrderTypes
<1>1. OrderTypes'
  BY DEF Slots0, Phases, Places, InSlot, Available, Fresh, CcdOf
<1>2. OffsetTypes'
  BY DEF OffsetTypes, Slots0, Places, Phases
<1>3. MarkTypes'
  BY DEF MarkTypes, OffsetTypes, Slots0
<1>4. PlaceTypes'
  BY LowestIs DEF Places, Apps, Goals, Slots0, InSlot
<1>5. Boots' /\ Blame'
  BY LowestIs DEF Boots, Blame, MarkTypes, OffsetTypes, Residents, Stock, Apps
<1>6. Places'
  BY DEF Places, Tested, CcdOf, InSlot, Available, Fresh, Slots0
<1>7. Log'
  BY DEF Log, Available, Unfinished, CcdOf, Fresh, Rests, Tested, Places, InSlot, Slots0
<1>8. OneRound'
  <2>1. ASSUME finished.core # NoCore, NEW d \in Cores PROVE 0 <= Round(d, finished.core)
    <3>1. finished.core \in Cores \union {NoCore}
      BY DEF Slots0
    <3>2. Round(d, finished.core) \in Nat
      BY <3>1, PassedFacts
    <3> HIDE DEF HuntMask, Inv
    <3> QED BY <3>2
  <2>2. ~InSlot' /\ finished' = finished /\ \A d \in Cores : skipped'[d] = 0
    BY DEF InSlot
  <2> HIDE DEF HuntMask, Inv
  <2> QED BY <2>1, <2>2 DEF OneRound
<1>9. TwoRounds'
  <2>1. ASSUME NEW d \in Cores
        PROVE  0 <= Since(d, finished.on[CcdOf(d)]) + Beside(d, finished.core)
    <3>1. finished.on[CcdOf(d)] \in Cores \union {NoCore} /\ Beside(d, finished.core) \in Nat
      BY CcdFacts DEF Slots0, Beside
    <3>2. Since(d, finished.on[CcdOf(d)]) \in Nat
      BY <3>1, PassedFacts
    <3> HIDE DEF HuntMask, Inv
    <3> QED BY <3>1, <3>2
  <2>2. ~InSlot' /\ ~Rests' /\ finished' = finished /\ \A d \in Cores : skipped'[d] = 0
    BY DEF InSlot, Rests, Tested
  <2> HIDE DEF HuntMask, Inv
  <2> QED BY <2>1, <2>2 DEF TwoRounds, Beside
<1> QED
  BY <1>1, <1>2, <1>3, <1>4, <1>5, <1>6, <1>7, <1>8, <1>9

\* A probe is answered.
LEMMA HuntAnswerKeeps == Inv /\ HuntAnswer => Inv'
<1> SUFFICES ASSUME Inv, HuntAnswer PROVE Inv'
  OBVIOUS
<1> USE DEF HuntAnswer, Go, Stepped, Penalized, Stock, Logged, Less, Inv, TypeOK, PlaceTypes, OrderTypes
<1>1. OrderTypes'
  BY DEF Slots0, Phases, Places, InSlot, Available, Fresh, CcdOf
<1>2. OffsetTypes'
  BY SMTT(60) DEF OffsetTypes, Slots0, Places, Phases
<1>3. MarkTypes'
  BY DEF MarkTypes, OffsetTypes, Slots0
<1>4. PlaceTypes'
  BY LowestIs DEF Places, Apps, Goals, Slots0, InSlot
<1>5. Boots' /\ Blame'
  BY LowestIs DEF Boots, Blame, MarkTypes, OffsetTypes, Residents, Stock, Apps
<1>6. Places'
  BY DEF Places, Tested, CcdOf, InSlot, Available, Fresh, Slots0
<1>7. Log'
  BY DEF Log, Available, Unfinished, CcdOf, Fresh, Rests, Tested, Places, InSlot, Slots0
<1>8. OneRound'
  BY PassedFacts DEF OneRound, Available, Unfinished, InSlot, Log, Fresh, Rests, Tested, Places, Slots0
<1>9. TwoRounds'
  <2>1. skipped = Fresh /\ last \in Cores /\ UNCHANGED skipped /\ ~InSlot' /\ ~Tested'
    BY DEF Places, InSlot, Tested
  <2>2. \A d \in Cores, p \in Cores \union {NoCore} : Since(d, p) \in Nat /\ Rounds(d, p) \in Nat
    BY PassedFacts
  <2>3. \A d \in Cores : /\ finished'.on[CcdOf(d)] \in Cores \union {NoCore}
                        /\ lastIn'[CcdOf(d)] \in Cores \union {NoCore}
                        /\ Beside(d, finished'.core) \in Nat /\ Beside(d, last') \in Nat
    BY <2>1, CcdFacts DEF Slots0, Beside
  <2>4. \A d \in Cores : /\ 0 <= Since(d, finished'.on[CcdOf(d)]) + Beside(d, finished'.core)
                        /\ 0 <= Rounds(d, lastIn'[CcdOf(d)]) + Beside(d, last')
    BY <2>2, <2>3
  <2> HIDE DEF HuntAnswer
  <2> QED BY <2>1, <2>4 DEF TwoRounds, Beside, Fresh
<1> QED
  BY <1>1, <1>2, <1>3, <1>4, <1>5, <1>6, <1>7, <1>8, <1>9

\* A core is charged with the crash: it is not available for a while.
LEMMA ChargeKeeps == Inv /\ Charge => Inv'
<1> SUFFICES ASSUME Inv, Charge PROVE Inv'
  OBVIOUS
<1> USE DEF Charge, Go, Penalized, Less, Inv, TypeOK, PlaceTypes, OrderTypes
<1>1. OrderTypes'
  <2>1. Lowest(owed) \in owed /\ owed \in SUBSET Cores /\ owed # {}
    BY LowestIs DEF Blame
  <2>2. crashes' \in [Cores -> Nat] /\ cool' \in [Cores -> Nat]
    OBVIOUS
  <2>3. phase' \in [Cores -> Phases] /\ skipped' \in [Cores -> Nat]
    BY <2>1 DEF Phases
  <2>4. UNCHANGED <<order, last, lastIn, finished>>
    OBVIOUS
  <2> HIDE DEF Charge
  <2> QED BY <2>2, <2>3, <2>4 DEF Slots0
<1>2. OffsetTypes'
  BY DEF OffsetTypes, Slots0, Places, Phases
<1>3. MarkTypes'
  <2>1. Lowest(owed) \in owed /\ owed \in SUBSET Cores /\ owed # {}
    BY LowestIs DEF Blame
  <2> QED BY <2>1, ZenonT(60) DEF MarkTypes
<1>4. PlaceTypes'
  BY LowestIs DEF Places, Apps, Goals, Slots0, InSlot
<1>5. Boots' /\ Blame'
  BY LowestIs DEF Boots, Blame, MarkTypes, OffsetTypes, Residents, Stock, Apps
<1>6. Places'
  BY DEF Places, Tested, CcdOf, InSlot, Available, Fresh, Slots0
<1>7. Log'
  BY DEF Log, Available, Unfinished, CcdOf, Fresh, Rests, Tested, Places, InSlot, Slots0
<1>8. OneRound'
  <2>1. Lowest(owed) \in owed /\ owed \in SUBSET Cores /\ owed # {}
    BY LowestIs DEF Blame
  <2>2. \A d \in Cores : skipped'[d] <= skipped[d] /\ skipped[d] \in Nat /\ skipped'[d] \in Nat
    BY <2>1
  <2>3. finished.core # NoCore => \A d \in Cores : Round(d, finished.core) \in Nat
    BY PassedFacts DEF Slots0
  <2>4. ~InSlot' /\ UNCHANGED <<order, finished>>
    BY DEF InSlot
  <2> HIDE DEF Charge
  <2>5. ASSUME order = "round_robin", finished.core # NoCore, NEW d \in Cores
        PROVE  skipped'[d] <= Round(d, finished.core)
    BY <2>2, <2>3, <2>5 DEF OneRound
  <2> QED BY <2>4, <2>5 DEF OneRound
<1>9. TwoRounds'
  <2>1. Lowest(owed) \in owed /\ owed \in SUBSET Cores /\ owed # {}
    BY LowestIs DEF Blame
  <2>2. \A d \in Cores : skipped'[d] <= skipped[d] /\ skipped[d] \in Nat /\ skipped'[d] \in Nat
    BY <2>1
  <2>3. \A d \in Cores : Since(d, finished.on[CcdOf(d)]) \in Nat /\ Beside(d, finished.core) \in Nat
    <3> TAKE d \in Cores
    <3>1. finished.on[CcdOf(d)] \in Cores \union {NoCore} /\ Beside(d, finished.core) \in Nat
      BY CcdFacts DEF Slots0, Beside
    <3> QED BY <3>1, PassedFacts
  <2>4. ~InSlot' /\ ~Rests' /\ UNCHANGED <<order, finished>>
    BY DEF InSlot, Rests, Tested
  <2> HIDE DEF Charge
  <2>5. ASSUME order = "ccd_round_robin", NEW d \in Cores
        PROVE  skipped'[d] <= Since(d, finished.on[CcdOf(d)]) + Beside(d, finished.core)
    BY <2>2, <2>3, <2>5 DEF TwoRounds
  <2> QED BY <2>4, <2>5 DEF TwoRounds, Beside
<1> QED
  BY <1>1, <1>2, <1>3, <1>4, <1>5, <1>6, <1>7, <1>8, <1>9

\* The cursors are rebuilt from the log of the tests, which held the round while they were
\* lost.
LEMMA GoOnKeeps == Inv /\ GoOn => Inv'
<1> SUFFICES ASSUME Inv, GoOn PROVE Inv'
  OBVIOUS
<1> USE DEF GoOn, Go, Forget, Reconstructed, Rebuilt, ghosts, machine, Inv, TypeOK, PlaceTypes, OrderTypes
<1>1. OrderTypes'
  BY DEF Slots0, Phases, Places, InSlot, Available, Fresh, CcdOf
<1>2. OffsetTypes'
  BY DEF OffsetTypes, Slots0, Places, Phases
<1>3. MarkTypes'
  BY DEF MarkTypes, OffsetTypes, Slots0
<1>4. PlaceTypes'
  BY LowestIs DEF Places, Apps, Goals, Slots0, InSlot
<1>5. Boots' /\ Blame'
  BY LowestIs DEF Boots, Blame, MarkTypes, OffsetTypes, Residents, Stock, Apps
<1>6. Places'
  BY DEF Places, Tested, CcdOf, InSlot, Available, Fresh, Slots0
<1>7. Log'
  BY DEF Log, Available, Unfinished, CcdOf, Fresh, Rests, Tested, Places, InSlot, Slots0
<1>8. OneRound'
  BY PassedFacts DEF OneRound, Available, Unfinished, InSlot, Log, Fresh, Rests, Tested, Places, Slots0
<1>9. TwoRounds'
  <2> SUFFICES ASSUME order = "ccd_round_robin" PROVE TwoRounds'
    BY DEF TwoRounds
  <2>1. ~InSlot' /\ UNCHANGED <<order, finished, skipped>>
    BY DEF InSlot
  <2>2. ASSUME NEW d \in Cores PROVE skipped[d] <= Rounds(d, lastIn'[CcdOf(d)]) + Beside(d, last')
    <3>1. /\ CcdOf(d) \in {0, 1} /\ finished.on[CcdOf(d)] \in Cores \union {NoCore}
          /\ lastIn[CcdOf(d)] \in Cores \union {NoCore} /\ Beside(d, last') \in Nat
      BY CcdFacts DEF Slots0, Beside
    <3>2. lastIn'[CcdOf(d)] = IF finished.on[CcdOf(d)] = NoCore THEN lastIn[CcdOf(d)]
                              ELSE finished.on[CcdOf(d)]
      BY <3>1
    <3>3. /\ Rounds(d, lastIn'[CcdOf(d)]) \in Nat
          /\ Since(d, finished.on[CcdOf(d)]) <= Rounds(d, lastIn'[CcdOf(d)])
          /\ Since(d, finished.on[CcdOf(d)]) \in Nat
      <4>1. lastIn'[CcdOf(d)] \in Cores \union {NoCore}
        BY <3>1, <3>2
      <4>2. Rounds(d, lastIn'[CcdOf(d)]) \in Nat /\ Since(d, finished.on[CcdOf(d)]) \in Nat
        BY <3>1, <4>1, PassedFacts
      <4> QED BY <3>2, <4>2 DEF Since
    <3>4. skipped[d] = 0 \/ Beside(d, last') = Beside(d, finished.core)
      BY DEF Log, Fresh, Beside
    <3>5. skipped[d] <= Since(d, finished.on[CcdOf(d)]) + Beside(d, finished.core) /\ skipped[d] \in Nat
      BY DEF TwoRounds
    <3> HIDE DEF GoOn, Inv
    <3> QED BY <3>1, <3>3, <3>4, <3>5
  <2> QED BY <2>1, <2>2 DEF TwoRounds, Beside
<1> QED
  BY <1>1, <1>2, <1>3, <1>4, <1>5, <1>6, <1>7, <1>8, <1>9

\* The process dies: the log of the tests and the journal are what it leaves.
LEMMA KillKeeps == Inv /\ Kill => Inv'
<1> SUFFICES ASSUME Inv, Kill PROVE Inv'
  OBVIOUS
<1> USE DEF Kill, Gone, Forget, Go, durable, machine, Inv, TypeOK, PlaceTypes, OrderTypes
<1>1. OrderTypes'
  BY DEF Slots0, Phases, Places, InSlot, Available, Fresh, CcdOf
<1>2. OffsetTypes'
  BY DEF OffsetTypes, Slots0, Places, Phases
<1>3. MarkTypes'
  BY DEF MarkTypes, OffsetTypes, Slots0
<1>4. PlaceTypes'
  BY LowestIs DEF Places, Apps, Goals, Slots0, InSlot
<1>5. Boots' /\ Blame'
  BY LowestIs DEF Boots, Blame, MarkTypes, OffsetTypes, Residents, Stock, Apps
<1>6. Places'
  BY DEF Places, Tested, CcdOf, InSlot, Available, Fresh, Slots0
<1>7. Log'
  BY DEF Log, Available, Unfinished, CcdOf, Fresh, Rests, Tested, Places, InSlot, Slots0
<1>8. OneRound'
  BY DEF OneRound, InSlot
<1>9. TwoRounds'
  BY DEF TwoRounds, Beside, InSlot, Rests, Tested
<1> QED
  BY <1>1, <1>2, <1>3, <1>4, <1>5, <1>6, <1>7, <1>8, <1>9

\* The machine goes down by a crash, with what was announced on record,
LEMMA CrashKeeps == Inv /\ Crash => Inv'
<1> SUFFICES ASSUME Inv, Crash PROVE Inv'
  OBVIOUS
<1> USE DEF Crash, Down, Gone, durable, Forget, Go, Stock, Inv, TypeOK, PlaceTypes, OrderTypes
<1>1. OrderTypes'
  BY DEF Slots0, Phases, Places, InSlot, Available, Fresh, CcdOf
<1>2. OffsetTypes'
  BY DEF OffsetTypes, Slots0, Places, Phases
<1>3. MarkTypes'
  <2>1. named' \in SUBSET Slots0
    BY DEF MarkTypes, Slots0
  <2>2. charged' \in SUBSET Cores
    BY DEF MarkTypes
  <2>3. boot' \in Nat
    BY DEF MarkTypes
  <2>4. UNCHANGED <<inTest, saved, streak, stamp, kills, tests>>
    OBVIOUS
  <2> HIDE DEF Crash
  <2> QED BY <2>1, <2>2, <2>3, <2>4 DEF MarkTypes
<1>4. PlaceTypes'
  BY LowestIs DEF Places, Apps, Goals, Slots0, InSlot
<1>5. Boots' /\ Blame'
  BY LowestIs DEF Boots, Blame, MarkTypes, OffsetTypes, Residents, Stock, Apps
<1>6. Places'
  BY DEF Places, Tested, CcdOf, InSlot, Available, Fresh, Slots0
<1>7. Log'
  BY DEF Log, Available, Unfinished, CcdOf, Fresh, Rests, Tested, Places, InSlot, Slots0
<1>8. OneRound'
  BY DEF OneRound, InSlot
<1>9. TwoRounds'
  BY DEF TwoRounds, Beside, InSlot, Rests, Tested
<1> QED
  BY <1>1, <1>2, <1>3, <1>4, <1>5, <1>6, <1>7, <1>8, <1>9

\* or in order.
LEMMA RebootKeeps == Inv /\ Reboot => Inv'
<1> SUFFICES ASSUME Inv, Reboot PROVE Inv'
  OBVIOUS
<1> USE DEF Reboot, Down, Gone, durable, Forget, Go, Stock, Inv, TypeOK, PlaceTypes, OrderTypes
<1>1. OrderTypes'
  BY DEF Slots0, Phases, Places, InSlot, Available, Fresh, CcdOf
<1>2. OffsetTypes'
  BY DEF OffsetTypes, Slots0, Places, Phases
<1>3. MarkTypes'
  <2>1. named' \in SUBSET Slots0
    BY DEF MarkTypes, Slots0
  <2>2. charged' \in SUBSET Cores
    BY DEF MarkTypes
  <2>3. boot' \in Nat
    BY DEF MarkTypes
  <2>4. UNCHANGED <<inTest, saved, streak, stamp, kills, tests>>
    OBVIOUS
  <2> HIDE DEF Reboot
  <2> QED BY <2>1, <2>2, <2>3, <2>4 DEF MarkTypes
<1>4. PlaceTypes'
  BY LowestIs DEF Places, Apps, Goals, Slots0, InSlot
<1>5. Boots' /\ Blame'
  BY LowestIs DEF Boots, Blame, MarkTypes, OffsetTypes, Residents, Stock, Apps
<1>6. Places'
  BY DEF Places, Tested, CcdOf, InSlot, Available, Fresh, Slots0
<1>7. Log'
  BY DEF Log, Available, Unfinished, CcdOf, Fresh, Rests, Tested, Places, InSlot, Slots0
<1>8. OneRound'
  BY DEF OneRound, InSlot
<1>9. TwoRounds'
  BY DEF TwoRounds, Beside, InSlot, Rests, Tested
<1> QED
  BY <1>1, <1>2, <1>3, <1>4, <1>5, <1>6, <1>7, <1>8, <1>9

-----------------------------------------------------------------------------
(* The invariant, and what follows from it *)

\* A session starts with every cursor free and nothing announced.
LEMMA Start == Init => Inv
<1> SUFFICES ASSUME Init PROVE Inv
  OBVIOUS
<1> USE DEF Init, OrderInit, Fresh, Stock, First
<1>1. OrderTypes
  BY DEF OrderTypes, Slots0, Phases
<1>2. OffsetTypes /\ MarkTypes /\ PlaceTypes
  <2>1. current \in [Cores -> Nat] /\ best \in [Cores -> Nat]
    OBVIOUS
  <2>2. journal \in [Cores -> Nat] /\ hw \in [Cores -> Nat] /\ intent \in [Cores -> Nat]
    OBVIOUS
  <2>3. MarkTypes
    BY DEF MarkTypes, Slots0
  <2>4. PlaceTypes
    BY DEF PlaceTypes, Apps, Goals
  <2> HIDE DEF Init
  <2> QED BY <2>1, <2>2, <2>3, <2>4 DEF OffsetTypes
<1>3. Boots /\ Blame /\ Places /\ Log
  BY CcdFacts DEF Boots, Blame, Places, Log, InSlot, Tested, Rests
<1>4. OneRound
  BY DEF OneRound, InSlot
<1>5. TwoRounds
  <2>1. ASSUME NEW d \in Cores
        PROVE  /\ Since(d, finished.on[CcdOf(d)]) = 0 /\ Rounds(d, lastIn[CcdOf(d)]) \in Nat
               /\ Beside(d, finished.core) = 0 /\ Beside(d, last) = 0
    <3>1. finished.on[CcdOf(d)] = NoCore /\ lastIn[CcdOf(d)] = NoCore
      BY CcdFacts
    <3>2. Rounds(d, NoCore) \in Nat
      BY PassedFacts
    <3> QED BY <3>1, <3>2 DEF Since, Beside
  <2>2. ~InSlot /\ \A d \in Cores : skipped[d] = 0
    BY DEF InSlot
  <2> HIDE DEF Init, OrderInit
  <2>3. ASSUME NEW d \in Cores
        PROVE  /\ skipped[d] <= Since(d, finished.on[CcdOf(d)]) + Beside(d, finished.core)
               /\ skipped[d] <= Rounds(d, lastIn[CcdOf(d)]) + Beside(d, last)
    <3>1. skipped[d] = 0 /\ Beside(d, finished.core) = 0 /\ Beside(d, last) = 0
      BY <2>1, <2>2
    <3>2. Since(d, finished.on[CcdOf(d)]) = 0 /\ Rounds(d, lastIn[CcdOf(d)]) \in Nat
      BY <2>1
    <3> QED BY <3>1, <3>2
  <2> QED BY <2>2, <2>3 DEF TwoRounds
<1> QED
  BY <1>1, <1>2, <1>3, <1>4, <1>5 DEF Inv, TypeOK

\* Every step keeps the invariant.
LEMMA StepKeeps == Inv /\ [Next]_vars => Inv'
<1> SUFFICES ASSUME Inv, [Next]_vars PROVE Inv'
  OBVIOUS
<1>1. CASE UNCHANGED vars
  <2>1. UNCHANGED ordering /\ UNCHANGED <<app, goal>>
    BY <1>1 DEF vars, process
  <2>2. OrderTypes' /\ Places' /\ Log' /\ OneRound' /\ TwoRounds'
    BY <2>1, OrderStands DEF Rests, InSlot, Tested, Inv, Places
  <2>3. (OffsetTypes /\ MarkTypes /\ PlaceTypes /\ Boots)'
    BY <1>1 DEF vars, durable, machine, process, ghosts, Inv, TypeOK, OffsetTypes, MarkTypes,
                PlaceTypes, Boots
  <2>4. Blame'
    BY <1>1 DEF vars, durable, machine, process, ghosts, Inv, Blame, Residents
  <2> QED BY <2>2, <2>3, <2>4 DEF Inv, TypeOK
<1>2. CASE Next
  BY <1>2, RunNextKeeps, WriteIntentKeeps, WriteSmuKeeps, WriteRefusedKeeps, LaunchKeeps,
     TestFinishesKeeps, TestWithoutKeeps, WrittenKeeps, CompleteKeeps, HuntMaskKeeps,
     HuntArmKeeps, HuntAnswerKeeps, ResumeKeeps, AttributeKeeps, ChargeKeeps, CloseKeeps,
     StampKeeps, StreakKeeps, RestoreKeeps, RestoreRefusedKeeps, GoOnKeeps, KillKeeps,
     CrashKeeps, RebootKeeps DEF Next
<1> QED
  BY <1>1, <1>2

\* The search across deaths, resumes and hunts keeps the invariant.
THEOREM RecoveryIsInvariant == Spec => []Inv
BY Start, StepKeeps, PTL DEF Spec

\* What the database, the machine and the process hold has its type.
THEOREM RecoveryTypeCorrect == Spec => []TypeOK
<1>1. Inv => TypeOK
  BY DEF Inv
<1> QED
  BY <1>1, RecoveryIsInvariant, PTL

\* _run_next starts a slot only on an unfinished core whose cooldown has drained, in every
\* order.
THEOREM PicksAreAvailable == Spec => [][RunNext => last' \in Available(Drained)]_vars
<1>1. Inv /\ [Next]_vars => [RunNext => last' \in Available(Drained)]_vars
  <2> SUFFICES ASSUME Inv, RunNext PROVE last' \in Available(Drained)
    OBVIOUS
  <2> DEFINE S == Available(Drained)
  <2>1. Pick(S) \in S /\ last' = Pick(S)
    BY RunNextPicks
  <2> QED BY <2>1
<1> QED
  BY <1>1, RecoveryIsInvariant, PTL DEF Spec

\* The two rotations are fair, for any number of cores, deaths of the machine and of the
\* process, crashes, cooldowns and hunts.
THEOREM RoundsAreFair == Spec => []RoundIsFair
<1>1. Inv => RoundIsFair
  <2> SUFFICES ASSUME Inv PROVE RoundIsFair
    OBVIOUS
  <2>1. OrderTypes /\ Log /\ OneRound /\ TwoRounds
    BY DEF Inv, TypeOK
  <2>2. ASSUME order = "round_robin", NEW d \in Cores PROVE skipped[d] < Cardinality(Cores)
    <3>1. CASE finished.core = NoCore
      <4>1. Cardinality(Cores) \in Nat /\ Round(d, NoCore) < Cardinality(Cores) /\ Round(d, NoCore) \in Nat
        BY RoundBound, PassedFacts
      <4>2. skipped[d] = 0
        BY <2>1, <3>1 DEF Log, Fresh
      <4> QED BY <4>1, <4>2
    <3>2. CASE finished.core # NoCore
      <4>1. finished.core \in Cores /\ skipped[d] \in Nat
        BY <2>1, <3>2 DEF OrderTypes, Slots0
      <4>2. Cardinality(Cores) \in Nat /\ Round(d, finished.core) < Cardinality(Cores)
            /\ Round(d, finished.core) \in Nat
        BY <4>1, RoundBound, PassedFacts
      <4>3. skipped[d] <= Round(d, finished.core)
        BY <2>1, <2>2, <3>2 DEF OneRound
      <4> QED BY <4>1, <4>2, <4>3
    <3> QED BY <3>1, <3>2
  <2>3. ASSUME order = "ccd_round_robin", NEW d \in Cores PROVE skipped[d] < 2 * Largest
    <3> DEFINE p == finished.on[CcdOf(d)]
    <3>1. p \in Cores \union {NoCore} /\ skipped[d] \in Nat
      BY <2>1, CcdFacts DEF OrderTypes, Slots0
    <3> HIDE DEF p
    <3>2. Rounds(d, p) + 1 < 2 * Largest /\ Largest \in Nat /\ Rounds(d, p) \in Nat
          /\ Since(d, p) \in Nat /\ Since(d, p) <= Rounds(d, p)
      BY <3>1, RoundBound, PassedFacts DEF Since
    <3>3. Beside(d, finished.core) \in {0, 1}
      BY DEF Beside
    <3>4. skipped[d] <= Since(d, p) + Beside(d, finished.core)
      BY <2>1, <2>3 DEF TwoRounds, p
    <3> QED BY <3>1, <3>2, <3>3, <3>4
  <2> QED BY <2>2, <2>3 DEF RoundIsFair
<1> QED
  BY <1>1, RecoveryIsInvariant, PTL

\* resume charges a core only with a crash of the boot the session ran in, and with an
\* offset that was announced for it when that boot ended.
THEOREM ChargesAreBacked == Spec => ChargeIsBacked
<1>1. Inv /\ [Next]_vars => [\A c \in Charges : Backed(c) /\ current'[c] < intent[c]]_vars
  <2> SUFFICES ASSUME Inv, Next, NEW c \in Cores, app # "probe", crashes'[c] # crashes[c]
               PROVE  Backed(c) /\ current'[c] < intent[c]
    BY DEF Charges
  <2>1. Charge
    BY DEF Next, RunNext, PickNext, PickNextBy, WriteIntent, WriteSmu, WriteRefused, Launch,
           TestFinishes, TestWithout, Written, Complete, HuntMask, HuntArm, HuntAnswer, Resume,
           ResumeWhere, Attribute, AttributeWhere, Close, Stamp, Streak, Restore, RestoreRefused,
           GoOn, Kill, Crash, Reboot, Down, Gone, ordering
  <2>2. /\ owed # {} /\ owed \subseteq Residents /\ ended = "crash" /\ stamp # boot /\ intent = journal
    BY <2>1 DEF Charge, Inv, Blame, Boots
  <2>3. c = Lowest(owed)
    BY <2>1 DEF Charge, Penalized
  <2>4. c \in owed /\ c \in Residents
    BY <2>2, <2>3, LowestIs DEF Residents
  <2>5. journal[c] \in Nat /\ journal[c] # 0
    BY <2>4 DEF Residents, Inv, TypeOK, OffsetTypes
  <2>6. current'[c] = Less(journal[c], 1)
    BY <2>1, <2>3 DEF Charge, Penalized
  <2> QED BY <2>2, <2>5, <2>6 DEF Backed, Less
<1> QED
  BY <1>1, RecoveryIsInvariant, PTL DEF Spec, ChargeIsBacked

\* A crash with offsets in the journal is answered, with a charge or a hunt, by the resume
\* that found it.
THEOREM CrashesAreAnswered == Spec => CrashIsAnswered
<1>1. Inv /\ [Next]_vars =>
        [(app = "go" /\ app' \in {"idle", "hunt"} /\ how = "crash" /\ intent # Stock) => Answered]_vars
  <2> SUFFICES ASSUME Inv, Next, app = "go", app' \in {"idle", "hunt"}, how = "crash", intent # Stock
               PROVE  charged # {} \/ app' = "hunt"
    BY DEF Answered
  <2>1. pending \/ charged # {}
    BY DEF Inv, Blame
  <2>2. GoOn
    BY DEF Next, RunNext, WriteIntent, WriteSmu, WriteRefused, Launch,
           TestFinishes, TestWithout, Written, Complete, HuntMask, HuntArm, HuntAnswer, Resume,
           ResumeWhere, Attribute, AttributeWhere, Charge, Close, Stamp, Streak, Restore,
           RestoreRefused, Kill, Crash, Reboot, Down, Gone, Go
  <2> QED BY <2>1, <2>2 DEF GoOn, Go
<1> QED
  BY <1>1, RecoveryIsInvariant, PTL DEF Spec, CrashIsAnswered

-----------------------------------------------------------------------------
(* What the hardware runs is on record *)

\* At rest and under test the hardware runs what the journal says.  In the writes of a
\* slot only the announced write under way differs, in those of a restore only what is
\* still owed; and the write under way is the one that was announced.
SlotWrites == app \in {"write", "smu"} /\ goal \in {"mask", "passed", "passing", "failed"}
RestoreWrites == app \in {"write", "smu"} /\ goal = "restore"
Recorded ==
  /\ app \in {"idle", "test", "go"} => hw = journal
  /\ SlotWrites => \A c \in Cores : hw[c] # journal[c] => UnderWay(c)
  /\ RestoreWrites => \A c \in Cores : hw[c] # journal[c] => c \in owed
  /\ app = "smu" => owed # {} /\ journal[NextWrite] = Target(NextWrite)

\* The next write is of a core that is owed one.
LEMMA NextIsOwed ==
  ASSUME Inv, owed # {}
  PROVE  NextWrite \in owed /\ NextWrite \in Cores
<1>1. owed \in SUBSET Cores /\ Cores \in SUBSET Nat
  BY DEF Inv, TypeOK, PlaceTypes
<1>2. Lowest(owed) \in owed
  BY <1>1, LowestIs
<1>3. owed # {last} => Lowest(owed \ {last}) \in owed \ {last}
  BY <1>1, LowestIs
<1> QED
  BY <1>1, <1>2, <1>3 DEF NextWrite

\* Places in which nothing is claimed.
LEMMA ElsewhereRecorded ==
  ASSUME app' \notin {"idle", "test", "go", "write", "smu"}
  PROVE  Recorded'
BY DEF Recorded, SlotWrites, RestoreWrites

\* Offsets that agree for every core are the same.
LEMMA SameOffsets ==
  ASSUME Inv, \A c \in Cores : hw[c] = journal[c]
  PROVE  hw = journal
<1>1. hw \in [Cores -> Nat] /\ journal \in [Cores -> Nat]
  BY DEF Inv, TypeOK, OffsetTypes
<1>2. hw = [c \in Cores |-> hw[c]] /\ journal = [c \in Cores |-> journal[c]]
  BY <1>1
<1>3. [c \in Cores |-> hw[c]] = [c \in Cores |-> journal[c]]
  OBVIOUS
<1> QED
  BY <1>2, <1>3, Zenon

\* The intent precedes the write, and the write is what it announced.
LEMMA WritesAreRecorded ==
  ASSUME Inv, Recorded, WriteIntent \/ WriteSmu
  PROVE  Recorded'
<1>0. PICK w \in owed : w = NextWrite /\ w \in Cores
  BY NextIsOwed DEF WriteIntent, WriteSmu, Recorded
<1>1. CASE WriteIntent
  <2>1. /\ app = "write" /\ app' = "smu" /\ journal' = [journal EXCEPT ![w] = Target(w)]
        /\ hw' = hw /\ owed' = owed /\ goal' = goal /\ last' = last /\ current' = current /\ best' = best
    BY <1>0, <1>1 DEF WriteIntent, Go, machine, ordering
  <2>2. NextWrite' = NextWrite /\ Target(NextWrite)' = Target(NextWrite)
    BY <2>1 DEF NextWrite, Target
  <2>3. journal'[w] = Target(w) /\ \A c \in Cores \ {w} : journal'[c] = journal[c]
    BY <1>0, <2>1 DEF Inv, TypeOK, OffsetTypes
  <2>4. journal'[NextWrite'] = Target(NextWrite)'
    BY <1>0, <2>2, <2>3, Zenon
  <2>5. SlotWrites' => \A c \in Cores : hw'[c] # journal'[c] => c = w
    BY <2>1, <2>3 DEF Recorded, SlotWrites, UnderWay
  <2>6. RestoreWrites' => \A c \in Cores : hw'[c] # journal'[c] => c \in owed'
    BY <1>0, <2>1, <2>3 DEF Recorded, RestoreWrites
  <2> QED BY <1>0, <2>1, <2>2, <2>4, <2>5, <2>6, Zenon DEF Recorded, UnderWay
<1>2. CASE WriteSmu
  <2>1. /\ app = "smu" /\ app' = "write" /\ hw' = [hw EXCEPT ![w] = Target(w)] /\ owed' = owed \ {w}
        /\ journal' = journal /\ goal' = goal
    BY <1>0, <1>2 DEF WriteSmu, Go, durable
  <2>2. journal[w] = Target(w)
    BY <1>0, <2>1 DEF Recorded
  <2>3. hw'[w] = journal'[w] /\ \A c \in Cores \ {w} : hw'[c] = hw[c] /\ journal'[c] = journal[c]
    BY <1>0, <2>1, <2>2 DEF Inv, TypeOK, OffsetTypes
  <2>4. SlotWrites' => \A c \in Cores : hw'[c] = journal'[c]
    BY <1>0, <2>1, <2>3 DEF Recorded, SlotWrites, UnderWay
  <2>5. RestoreWrites' => \A c \in Cores : hw'[c] # journal'[c] => c \in owed'
    BY <2>1, <2>3 DEF Recorded, RestoreWrites
  <2> QED BY <2>1, <2>4, <2>5 DEF Recorded
<1> QED
  BY <1>1, <1>2

\* A slot begins, launches and ends with what is on record.
LEMMA SlotsAreRecorded ==
  ASSUME Inv, Recorded, RunNext \/ Launch \/ TestFinishes \/ Complete
  PROVE  Recorded'
<1>1. CASE RunNext
  BY <1>1 DEF RunNext, Recorded, SlotWrites, RestoreWrites, Go, machine
<1>2. CASE Launch
  <2>1. app = "write" /\ goal = "mask" /\ app' = "test" /\ hw' = hw /\ journal' = journal
    BY <1>2 DEF Launch, Go, machine
  <2>2. \A c \in Cores : hw[c] = journal[c]
    BY <2>1 DEF Recorded, SlotWrites, UnderWay
  <2>3. hw = journal
    BY <2>2, SameOffsets
  <2> QED BY <2>1, <2>3 DEF Recorded, SlotWrites, RestoreWrites
<1>3. CASE TestFinishes
  <2>1. app = "test" /\ app' = "write" /\ goal' # "restore" /\ hw' = hw /\ journal' = journal
    BY <1>3 DEF TestFinishes, Go, machine
  <2> QED BY <2>1 DEF Recorded, SlotWrites, RestoreWrites
<1>4. CASE Complete
  BY <1>4, ElsewhereRecorded DEF Complete, Go
<1> QED
  BY <1>1, <1>2, <1>3, <1>4

\* The reverts end at rest, and a restore ends with stock on record and in the hardware.
LEMMA WrittenIsRecorded ==
  ASSUME Inv, Recorded, Written
  PROVE  Recorded'
<1>1. app = "write" /\ owed = {} /\ goal \in Goals /\ goal # "mask" /\ hw' = hw /\ journal' = journal
  BY DEF Written, machine, Inv, TypeOK, PlaceTypes
<1>2. CASE goal \in {"pause", "refused"}
  BY <1>2, ElsewhereRecorded DEF Written, Go
<1>3. CASE goal \in {"passed", "passing", "failed", "restore"}
  <2>1. \A c \in Cores : hw[c] = journal[c]
    BY <1>1, <1>3 DEF Recorded, SlotWrites, RestoreWrites, UnderWay
  <2>2. hw = journal
    BY <2>1, SameOffsets
  <2>3. app' \in {"go", "idle"}
    BY <1>3 DEF Written, Go
  <2> QED BY <1>1, <2>2, <2>3 DEF Recorded, SlotWrites, RestoreWrites
<1> QED
  BY <1>1, <1>2, <1>3 DEF Goals

\* A restore owes every core with an offset on either side; what it refuses it gives up.
LEMMA RestoresAreRecorded ==
  ASSUME Inv, Recorded, Restore \/ RestoreRefused \/ GoOn \/ HuntAnswer \/ TestWithout
  PROVE  Recorded'
<1>1. CASE Restore
  <2>1. /\ app' = "write" /\ goal' = "restore" /\ hw' = hw /\ journal' = journal
        /\ owed' = {c \in Cores : hw[c] # 0 \/ journal[c] # 0}
    BY <1>1 DEF Restore, Go, machine, durable
  <2> QED BY <2>1 DEF Recorded, SlotWrites, RestoreWrites
<1>2. CASE RestoreRefused
  <2>1. app' = "write" /\ goal' = "refused"
    BY <1>2 DEF RestoreRefused, Go
  <2> QED BY <2>1 DEF Recorded, SlotWrites, RestoreWrites
<1>3. CASE GoOn
  <2>1. app = "go" /\ app' \in {"hunt", "idle"} /\ hw' = hw /\ journal' = journal
    BY <1>3 DEF GoOn, Go, machine
  <2> QED BY <2>1 DEF Recorded, SlotWrites, RestoreWrites
<1>4. CASE HuntAnswer
  <2>1. app' \in {"hunt", "paused", "idle"}
    BY <1>4, Zenon DEF HuntAnswer, Go
  <2>2. app' # "hunt" => hw' = Stock /\ journal' = Stock
    BY <1>4, Zenon DEF HuntAnswer, Go
  <2> QED BY <2>1, <2>2 DEF Recorded, SlotWrites, RestoreWrites
<1>5. CASE TestWithout
  <2>1. app = "test" /\ app' = "write" /\ goal' = "pause"
    BY <1>5 DEF TestWithout, Go
  <2> QED BY <2>1 DEF Recorded, SlotWrites, RestoreWrites
<1> QED
  BY <1>1, <1>2, <1>3, <1>4, <1>5

\* The other steps lead to places in which nothing is claimed.
LEMMA OthersAreRecorded ==
  ASSUME WriteRefused \/ HuntMask \/ HuntArm \/ Resume \/ Attribute \/ Charge \/ Close \/ Stamp
         \/ Streak \/ Kill \/ Crash \/ Reboot
  PROVE  Recorded'
<1>1. app' \in {"paused", "masked", "probe", "attribute", "close", "charge", "stamp", "streak",
                "restore", "hunt", "off"}
  BY DEF WriteRefused, HuntMask, HuntArm, Resume, ResumeWhere, Attribute, AttributeWhere, Charge,
         Close, Stamp, Streak, Kill, Crash, Reboot, Down, Gone, Go
<1> QED
  BY <1>1, ElsewhereRecorded

\* In a slot, however it came about, the journal holds what the hardware runs, but for the
\* announced write under way: a crash in it finds every offset on record.
THEOREM SlotsAreOnRecord == Spec => []SlotIsOnRecord
<1>1. Init => Recorded
  BY DEF Init, Recorded, SlotWrites, RestoreWrites, Stock
<1>2. Inv /\ Recorded /\ [Next]_vars => Recorded'
  <2> SUFFICES ASSUME Inv, Recorded, [Next]_vars PROVE Recorded'
    OBVIOUS
  <2>1. CASE UNCHANGED vars
    BY <2>1 DEF vars, durable, machine, process, ordering, Recorded, SlotWrites, RestoreWrites,
                UnderWay, NextWrite, Target
  <2>2. CASE Next
    BY <2>2, WritesAreRecorded, SlotsAreRecorded, WrittenIsRecorded, RestoresAreRecorded,
       OthersAreRecorded DEF Next
  <2> QED BY <2>1, <2>2
<1>3. Recorded => SlotIsOnRecord
  BY DEF Recorded, SlotWrites, SlotIsOnRecord, UnderWay
<1> QED
  BY <1>1, <1>2, <1>3, RecoveryIsInvariant, PTL DEF Spec
=============================================================================
