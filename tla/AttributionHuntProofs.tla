----------------------- MODULE AttributionHuntProofs -----------------------
(***************************************************************************)
(* The attribution hunt, in two parts.  First the bisection: what its      *)
(* verdicts rest on for every finite set of cores and every sequence of    *)
(* answers, what they are worth on a machine with a steady fault, and that *)
(* the automaton implements the abstract attribution.  Then the engine     *)
(* around a hunt: whatever interrupts it, a probe runs exactly its mask,   *)
(* and what the hunts of every row that may survive a crash convict or     *)
(* clear rests on masks that really failed or really ran clean.            *)
(***************************************************************************)
EXTENDS AttributionHunt, MCBisect, FiniteSetTheorems, SequenceTheorems,
        WellFoundedInduction, TLAPS

-----------------------------------------------------------------------------
(* Minima of sets of naturals, and the halves of a split *)

\* A nonempty set of naturals has a least member.
LEMMA NatMinimum ==
  ASSUME NEW T \in SUBSET Nat, T # {}
  PROVE  \E x \in T : \A y \in T : x <= y
<1>1. PICK x \in T : \A y \in T : <<y, x>> \notin OpToRel(<, Nat)
  BY NatLessThanWellFounded, WFMin, Zenon
<1>2. \A y \in T : <<y, x>> \in Nat \X Nat /\ <<y, x>>[1] = y /\ <<y, x>>[2] = x
  OBVIOUS
<1>3. \A y \in T : ~(y < x)
  BY <1>1, <1>2, Zenon DEF OpToRel
<1>. QED
  BY <1>3

\* Two sequences of one member make the sequence of both.
LEMMA PairSequence ==
  ASSUME NEW S, NEW a \in S, NEW b \in S
  PROVE  Append(<<a>>, b) = <<a, b>> /\ <<a>> \o <<b>> = <<a, b>>
<1>. DEFINE s == Append(<<a>>, b)
            t == <<a>> \o <<b>>
            u == <<a, b>>
<1>1. /\ s \in Seq(S) /\ t \in Seq(S) /\ u \in Seq(S)
      /\ Len(s) = 2 /\ Len(t) = 2 /\ Len(u) = 2
  OBVIOUS
<1>2. s[1] = a /\ s[2] = b /\ t[1] = a /\ t[2] = b /\ u[1] = a /\ u[2] = b
  OBVIOUS
<1>. HIDE DEF s, t, u
<1>3. \A i \in 1..2 : s[i] = u[i] /\ t[i] = u[i]
  <2>1. \A i \in 1..2 : i = 1 \/ i = 2
    OBVIOUS
  <2>. QED
    BY <1>2, <2>1, Zenon
<1>4. s = u /\ t = u
  BY <1>1, <1>3, SeqEqual, SMTT(60)
<1>. QED
  BY <1>4 DEF s, t, u

\* What is left of a sequence behind its member k.
LEMMA RestOfSequence ==
  ASSUME NEW S, NEW p \in Seq(S), NEW k \in 1..Len(p)
  PROVE  /\ SubSeq(p, k + 1, Len(p)) \in Seq(S) /\ Len(SubSeq(p, k + 1, Len(p))) = Len(p) - k
         /\ \A i \in 1..Len(SubSeq(p, k + 1, Len(p))) :
              /\ i + k \in k..Len(p) /\ i + k \in 1..Len(p) /\ i + k # k
              /\ SubSeq(p, k + 1, Len(p))[i] = p[i + k]
OBVIOUS

\* One or two and a natural make no zero.
LEMMA SomeAndMore ==
  ASSUME NEW a \in 1..2, NEW b \in Nat
  PROVE  a + b \in Nat /\ a + b # 0
OBVIOUS

\* Sets of cores are finite sets of naturals.
LEMMA CoreSetFinite ==
  ASSUME NEW S \in CoreSets
  PROVE  /\ IsFiniteSet(S) /\ S \subseteq Nat
         /\ Cardinality(S) \in Nat
         /\ \A c \in S : {d \in S : d < c} \in CoreSets /\ Rank(S, c) \in Nat
  BY CoresAssumption, FS_Subset, FS_CardinalityType DEF CoreSets, Rank

\* split leaves neither half empty, so a set of two or more cores shrinks in
\* both halves and no half is mistaken for its parent.
LEMMA HalvesProper ==
  ASSUME NEW S \in CoreSets, Cardinality(S) >= 2
  PROVE  /\ LowerHalf(S) \in CoreSets /\ UpperHalf(S) \in CoreSets
         /\ LowerHalf(S) # {} /\ UpperHalf(S) # {}
         /\ LowerHalf(S) # S /\ UpperHalf(S) # S
         /\ LowerHalf(S) \cap UpperHalf(S) = {}
         /\ LowerHalf(S) \cup UpperHalf(S) = S
<1>. DEFINE n == Cardinality(S)
<1>1. /\ IsFiniteSet(S) /\ S \subseteq Nat /\ n \in Nat
      /\ \A c \in S : {d \in S : d < c} \in CoreSets /\ Rank(S, c) \in Nat
  BY CoreSetFinite
<1>2. S # {}
  BY <1>1, FS_EmptySet
<1>3. LowerHalf(S) # {}
  <2>1. PICK m \in S : \A y \in S : m <= y
    BY <1>1, <1>2, NatMinimum
  <2>2. {d \in S : d < m} = {}
    <3>1. \A d \in S : d \in Nat /\ m \in Nat
      BY <1>1
    <3>2. \A d \in S : ~(d < m)
      BY <2>1, <3>1
    <3>. QED
      BY <3>2
  <2>3. Rank(S, m) = 0
    BY <2>2, FS_EmptySet DEF Rank
  <2>. QED
    BY <2>1, <2>3, <1>1 DEF LowerHalf
<1>4. UpperHalf(S) # {}
  <2>. DEFINE gap == {n - Rank(S, c) : c \in S}
  <2>1. \A c \in S : Rank(S, c) <= n
    <3>1. \A c \in S : {d \in S : d < c} \in SUBSET S
      OBVIOUS
    <3>. QED
      BY <3>1, <1>1, FS_Subset DEF Rank
  <2>2. gap \in SUBSET Nat /\ gap # {}
    <3>1. \A c \in S : n \in Nat /\ Rank(S, c) \in Nat /\ Rank(S, c) <= n
      BY <2>1, <1>1
    <3>. HIDE DEF n
    <3>2. \A c \in S : n - Rank(S, c) \in Nat
      BY <3>1
    <3>. QED
      BY <3>2, <1>2
  <2>3. PICK g \in gap : \A y \in gap : g <= y
    BY <2>2, NatMinimum
  <2>4. PICK top \in S : g = n - Rank(S, top)
    BY <2>3
  <2>. DEFINE below(c) == {d \in S : d < c}
  <2>5. \A c \in S : Rank(S, c) \in Nat /\ Rank(S, c) <= Rank(S, top)
    <3>. SUFFICES ASSUME NEW c \in S PROVE Rank(S, c) \in Nat /\ Rank(S, c) <= Rank(S, top)
      OBVIOUS
    <3>1. n - Rank(S, c) \in gap
      OBVIOUS
    <3>2. n - Rank(S, top) <= n - Rank(S, c)
      BY <2>3, <2>4, <3>1, Zenon
    <3>3. n \in Nat /\ Rank(S, c) \in Nat /\ Rank(S, top) \in Nat
      BY <1>1
    <3>. HIDE DEF n
    <3>. QED
      BY <3>2, <3>3
  <2>6. \A c \in S : ~(top < c)
    <3>. SUFFICES ASSUME NEW c \in S, top < c PROVE FALSE
      OBVIOUS
    <3>1. top \in Nat /\ c \in Nat /\ \A d \in S : d \in Nat
      BY <1>1
    <3>2. below(top) \cup {top} \in SUBSET below(c) /\ top \notin below(top)
      <4>1. \A d \in S : d < top => d < c
        BY <3>1
      <4>2. ~(top < top)
        BY <3>1
      <4>. QED
        BY <4>1, <4>2
    <3>3. IsFiniteSet(below(top)) /\ IsFiniteSet(below(c))
      BY <1>1, CoreSetFinite
    <3>. HIDE DEF below
    <3>4. Cardinality(below(top) \cup {top}) = Cardinality(below(top)) + 1
      BY <3>2, <3>3, FS_AddElement
    <3>5. Cardinality(below(top) \cup {top}) <= Cardinality(below(c))
      BY <3>2, <3>3, FS_Subset
    <3>6. Cardinality(below(top)) = Rank(S, top) /\ Cardinality(below(c)) = Rank(S, c)
      BY DEF below, Rank
    <3>. QED
      BY <3>4, <3>5, <3>6, <2>5
  <2>7. below(top) = S \ {top}
    <3>1. \A d \in S : d \in Nat /\ top \in Nat /\ ~(top < d)
      BY <1>1, <2>6
    <3>2. \A d \in S : d < top <=> d # top
      BY <3>1
    <3>. QED
      BY <3>2
  <2>8. Rank(S, top) = n - 1
    <3>1. Cardinality(S \ {top}) = n - 1
      BY <1>1, FS_RemoveElement
    <3>2. Rank(S, top) = Cardinality(below(top))
      BY DEF Rank
    <3>. QED
      BY <3>1, <3>2, <2>7
  <2>9. ~(2 * Rank(S, top) < n)
    BY <2>8, <1>1
  <2>. QED
    BY <2>9 DEF LowerHalf, UpperHalf
<1>. QED
  BY <1>3, <1>4 DEF LowerHalf, UpperHalf, CoreSets

-----------------------------------------------------------------------------
(* Helpers of next_live_set *)

\* FirstSplittable is the index of the first set that is not a lone core.
LEMMA FirstSplittableFirst ==
  ASSUME NEW p \in Seq(CoreSets)
  PROVE  /\ FirstSplittable(p) \in 1..(Len(p) + 1)
         /\ \A j \in 1..(FirstSplittable(p) - 1) : j \in 1..Len(p) /\ Cardinality(p[j]) = 1
         /\ FirstSplittable(p) <= Len(p) => Cardinality(p[FirstSplittable(p)]) # 1
<1>. DEFINE wide == {i \in 1..Len(p) : Cardinality(p[i]) # 1}
<1>1. CASE wide = {}
  <2>1. FirstSplittable(p) = Len(p) + 1
    BY <1>1 DEF FirstSplittable
  <2>2. \A j \in 1..Len(p) : Cardinality(p[j]) = 1
    BY <1>1
  <2>. QED
    BY <2>1, <2>2
<1>2. CASE wide # {}
  <2>1. wide \in SUBSET Nat
    OBVIOUS
  <2>2. PICK k \in wide : \A y \in wide : k <= y
    BY <1>2, <2>1, NatMinimum
  <2>3. \A j \in 1..(k - 1) : Cardinality(p[j]) = 1
    <3>. SUFFICES ASSUME NEW j \in 1..(k - 1), Cardinality(p[j]) # 1 PROVE FALSE
      OBVIOUS
    <3>1. j \in wide
      OBVIOUS
    <3>. QED
      BY <3>1, <2>2
  <2>4. \E i \in 1..Len(p) : Cardinality(p[i]) # 1
                         /\ \A j \in 1..(i - 1) : Cardinality(p[j]) = 1
    BY <2>2, <2>3
  <2>5. /\ FirstSplittable(p) \in 1..Len(p)
        /\ Cardinality(p[FirstSplittable(p)]) # 1
        /\ \A j \in 1..(FirstSplittable(p) - 1) : Cardinality(p[j]) = 1
    BY <2>4, Zenon DEF FirstSplittable
  <2>. QED
    BY <2>5
<1>. QED
  BY <1>1, <1>2

\* The depth of the halving tree is a natural, positive when there is a split.
LEMMA SplitDepthType ==
  ASSUME NEW S \in CoreSets
  PROVE  SplitDepth(S) \in Nat /\ (Cardinality(S) >= 2 => SplitDepth(S) >= 1)
<1>. DEFINE bits == {d \in 0..30 : 2^d <= Cardinality(S) - 1}
<1>1. IsFiniteSet(0..30)
  <2>1. 0 \in Int /\ 30 \in Int
    OBVIOUS
  <2>. QED
    BY <2>1, FS_Interval
<1>2. IsFiniteSet(bits) /\ Cardinality(bits) \in Nat
  <2>1. bits \in SUBSET (0..30)
    OBVIOUS
  <2>2. IsFiniteSet(bits)
    BY <1>1, <2>1, FS_Subset
  <2>. QED
    BY <2>2, FS_CardinalityType
<1>3. ASSUME Cardinality(S) >= 2 PROVE Cardinality(bits) >= 1
  <2>1. Cardinality(S) \in Nat
    BY CoreSetFinite
  <2>2. 0 \in 0..30 /\ 2^0 <= Cardinality(S) - 1
    BY <1>3, <2>1
  <2>3. bits # {}
    BY <2>2
  <2>4. Cardinality(bits) # 0
    BY <1>2, <2>3, FS_EmptySet
  <2>. QED
    BY <1>2, <2>4
<1>. QED
  BY <1>2, <1>3 DEF SplitDepth, BitLength

\* The level of a split stays between one and the depth of the whole tree.
LEMMA SplitLevelBounds ==
  ASSUME NEW h \in HuntState, NEW target \in CoreSets, Cardinality(h.candidates) >= 2
  PROVE  /\ SplitLevel(h, target) \in Nat /\ SplitLevel(h, target) >= 1
         /\ SplitLevel(h, target) <= SplitDepth(h.candidates)
<1>1. h.candidates \in CoreSets
  BY DEF HuntState
<1>2. SplitDepth(h.candidates) \in Nat /\ SplitDepth(h.candidates) >= 1 /\ SplitDepth(target) \in Nat
  BY <1>1, SplitDepthType
<1>. QED
  BY <1>2 DEF SplitLevel

-----------------------------------------------------------------------------
(* The inductive invariant *)

\* A new hunt satisfies the invariant, with no answer given yet.
LEMMA BeginInv ==
  ASSUME NEW candidates \in CoreSets \ {{}}, NEW loaded \in CoreSets \ {{}}
  PROVE  HuntInv(Begin(candidates, loaded), {}, {})
<1>. DEFINE h == Begin(candidates, loaded)
<1>1. /\ h.stage = (IF LeadProbe(candidates, loaded) # {} THEN "lead" ELSE "probe")
      /\ h.candidates = candidates /\ h.loaded = loaded /\ h.pending = <<candidates>>
      /\ h.queue = <<>> /\ h.inFlight = {} /\ h.parent = {} /\ h.guilty = <<>>
      /\ h.level = 0 /\ h.found = {} /\ h.noReproduce = 0
      /\ h.launchesDone = 0 /\ h.armed = FALSE
  BY DEF Begin
<1>2. h \in HuntState
  <2>1. {} \in CoreSets /\ <<>> \in Seq(CoreSets) /\ <<candidates>> \in Seq(CoreSets)
    BY DEF CoreSets
  <2>2. 0 \in 0..MaxNoReproduce
    BY MaxNoReproduceAssumption
  <2>. QED
    BY <2>1, <2>2 DEF Begin, HuntState, Stage
<1>3. Len(h.pending) = 1 /\ h.pending[1] = candidates
  BY <1>1
<1>. HIDE DEF h
<1>4. PendingOK(h, {})
  BY <1>1, <1>3 DEF PendingOK, Disjoint
<1>5. h.stage = "lead" => ValidLead(h)
  BY <1>1 DEF ValidLead
<1>6. h.stage = "probe" => IdleOK(h)
  BY <1>1, MaxNoReproduceAssumption DEF IdleOK
<1>7. ~Terminal(h)
  BY <1>1 DEF Terminal
<1>. QED
  BY <1>1, <1>2, <1>4, <1>5, <1>6, <1>7 DEF HuntInv, h

\* The lone cores at the head of pending are convicted on their own failures and
\* the next set is split: next_live_set from the idle position.
LEMMA SplitNextInv ==
  ASSUME NEW h, NEW C, NEW F, HuntInv(h, C, F), h.stage = "probe", IdleOK(h)
  PROVE  HuntInv(SplitNext(h), C, F)
<1>. DEFINE k == FirstSplittable(h.pending)
            f == h.found \cup LoneHead(h.pending)
            g == SplitNext(h)
<1>1. h \in HuntState /\ h.pending \in Seq(CoreSets) /\ h.candidates \in CoreSets
      /\ C \subseteq CoreSets /\ F \subseteq CoreSets
      /\ h.found \in CoreSets /\ Len(h.pending) \in Nat
  BY DEF HuntInv, HuntState
<1>2. /\ k \in 1..(Len(h.pending) + 1)
      /\ \A j \in 1..(k - 1) : j \in 1..Len(h.pending) /\ Cardinality(h.pending[j]) = 1
      /\ k <= Len(h.pending) => Cardinality(h.pending[k]) # 1
  BY <1>1, FirstSplittableFirst
<1>3. /\ \A i \in 1..Len(h.pending) :
            /\ h.pending[i] # {} /\ h.pending[i] \subseteq h.candidates
            /\ h.pending[i] \cap h.found = {}
            /\ Cardinality(h.pending[i]) = 1 =>
                 h.pending[i] = h.candidates \/ h.pending[i] \in F
      /\ \A i, j \in 1..Len(h.pending) : i # j => h.pending[i] \cap h.pending[j] = {}
  BY DEF HuntInv, PendingOK, Disjoint
<1>4. /\ h.candidates # {} /\ h.loaded # {}
      /\ h.found \subseteq h.candidates
      /\ \A c \in h.found : ConvictedBy(h, c, C, F)
      /\ h.parent = {} /\ h.queue = <<>> /\ h.inFlight = {} /\ h.guilty = <<>> /\ h.level = 0
      /\ h.noReproduce < MaxNoReproduce
  BY DEF HuntInv, IdleOK
<1>5. \A c \in LoneHead(h.pending) :
         \E j \in 1..(k - 1) : j \in 1..Len(h.pending) /\ h.pending[j] = {c}
  <2>. SUFFICES ASSUME NEW c \in LoneHead(h.pending)
                PROVE  \E j \in 1..(k - 1) : j \in 1..Len(h.pending) /\ h.pending[j] = {c}
    OBVIOUS
  <2>1. PICK j \in 1..(k - 1) : c \in h.pending[j]
    BY DEF LoneHead
  <2>2. j \in 1..Len(h.pending) /\ Cardinality(h.pending[j]) = 1 /\ h.pending[j] \in CoreSets
    BY <2>1, <1>1, <1>2
  <2>3. \E x : h.pending[j] = {x}
    BY <2>2, CoreSetFinite, FS_Singleton
  <2>. QED
    BY <2>1, <2>2, <2>3
<1>6. \A c \in LoneHead(h.pending) : c \in h.candidates /\ (h.candidates = {c} \/ {c} \in F)
  <2>. SUFFICES ASSUME NEW c \in LoneHead(h.pending)
                PROVE  c \in h.candidates /\ (h.candidates = {c} \/ {c} \in F)
    OBVIOUS
  <2>1. PICK j \in 1..(k - 1) : j \in 1..Len(h.pending) /\ h.pending[j] = {c}
    BY <1>5
  <2>2. Cardinality(h.pending[j]) = 1
    BY <1>2
  <2>. QED
    BY <2>1, <2>2, <1>3
<1>7. /\ f \subseteq h.candidates /\ f \in CoreSets
      /\ \A c \in f : ConvictedBy(h, c, C, F)
  BY <1>1, <1>4, <1>6 DEF ConvictedBy, CoreSets
<1>8. \A i \in k..Len(h.pending) : h.pending[i] \cap f = {}
  <2>. SUFFICES ASSUME NEW i \in k..Len(h.pending), NEW c \in h.pending[i], c \in f PROVE FALSE
    OBVIOUS
  <2>1. i \in 1..Len(h.pending)
    BY <1>1, <1>2
  <2>2. c \in LoneHead(h.pending)
    BY <2>1, <1>3
  <2>3. PICK j \in 1..(k - 1) : j \in 1..Len(h.pending) /\ h.pending[j] = {c}
    BY <2>2, <1>5
  <2>4. i # j
    BY <1>1, <1>2
  <2>. QED
    BY <2>1, <2>3, <2>4, <1>3
<1>. HIDE DEF f, k
<1>9. CASE k > Len(h.pending)
  <2>1. g = [h EXCEPT !.pending = <<>>, !.found = f,
                      !.stage = IF f # {} THEN "culprit" ELSE "exhausted"]
    BY <1>9 DEF SplitNext, f, k
  <2>2. g \in HuntState
    <3>1. <<>> \in Seq(CoreSets) /\ (IF f # {} THEN "culprit" ELSE "exhausted") \in Stage
      BY DEF Stage
    <3>. HIDE DEF g
    <3>. QED
      BY <2>1, <3>1, <1>1, <1>7 DEF HuntState
  <2>3. /\ g.pending = <<>> /\ g.found = f /\ g.stage = (IF f # {} THEN "culprit" ELSE "exhausted")
        /\ g.candidates = h.candidates /\ g.loaded = h.loaded /\ g.queue = <<>> /\ g.inFlight = {}
        /\ g.parent = {} /\ g.guilty = <<>> /\ g.level = 0
    BY <2>1, <1>1, <1>4 DEF HuntState
  <2>. HIDE DEF g
  <2>4. PendingOK(g, F)
    BY <2>3 DEF PendingOK, Disjoint
  <2>5. \A c \in g.found : ConvictedBy(g, c, C, F)
    BY <2>3, <1>7 DEF ConvictedBy
  <2>6. ValidTerminal(g) /\ g.stage \notin {"lead", "probe"}
    BY <2>3 DEF ValidTerminal
  <2>. QED
    BY <2>2, <2>3, <2>4, <2>5, <2>6, <1>1, <1>4, <1>7 DEF HuntInv, g
<1>10. CASE k <= Len(h.pending)
  <2>. DEFINE target == h.pending[k]
              rest == SubSeq(h.pending, k + 1, Len(h.pending))
  <2>1. /\ k \in 1..Len(h.pending) /\ target \in CoreSets /\ target # {}
        /\ target \subseteq h.candidates /\ target \cap f = {}
    BY <1>1, <1>2, <1>3, <1>8, <1>10
  <2>2. Cardinality(target) >= 2
    <3>1. Cardinality(target) \in Nat /\ Cardinality(target) # 0
      BY <2>1, CoreSetFinite, FS_EmptySet
    <3>. QED
      BY <3>1, <1>2, <1>10
  <2>3. Cardinality(h.candidates) >= 2
    <3>1. /\ IsFiniteSet(h.candidates) /\ Cardinality(h.candidates) \in Nat
          /\ Cardinality(target) \in Nat
      BY <1>1, <2>1, CoreSetFinite
    <3>2. Cardinality(target) <= Cardinality(h.candidates)
      BY <3>1, <2>1, FS_Subset
    <3>. QED
      BY <3>1, <3>2, <2>2
  <2>4. /\ rest \in Seq(CoreSets) /\ Len(rest) = Len(h.pending) - k
        /\ \A i \in 1..Len(rest) : i + k \in k..Len(h.pending) /\ i + k \in 1..Len(h.pending)
                                /\ i + k # k /\ rest[i] = h.pending[i + k]
    <3>1. h.pending \in Seq(CoreSets) /\ k \in 1..Len(h.pending)
      BY <1>1, <2>1, Zenon
    <3>. QED
      BY <3>1, RestOfSequence, ZenonT(60)
  <2>5. /\ LowerHalf(target) \in CoreSets /\ UpperHalf(target) \in CoreSets
        /\ LowerHalf(target) # {} /\ UpperHalf(target) # {}
    BY <2>1, <2>2, HalvesProper
  <2>6. /\ SplitLevel(h, target) \in Nat /\ SplitLevel(h, target) >= 1
        /\ SplitLevel(h, target) <= SplitDepth(h.candidates)
    BY <1>1, <2>1, <2>3, SplitLevelBounds
  <2>7. g = [h EXCEPT !.pending = rest, !.found = f, !.parent = target, !.guilty = <<>>,
                      !.level = SplitLevel(h, target),
                      !.queue = <<UpperHalf(target)>>, !.inFlight = LowerHalf(target)]
    BY <1>10, <1>1, <2>1 DEF SplitNext, f, k
  <2>8. g \in HuntState
    <3>1. <<UpperHalf(target)>> \in Seq(CoreSets) /\ <<>> \in Seq(CoreSets)
      BY <2>5
    <3>. HIDE DEF g, rest, target
    <3>. QED
      BY <2>7, <3>1, <1>1, <1>7, <2>1, <2>4, <2>5, <2>6 DEF HuntState
  <2>9. /\ g.stage = h.stage /\ g.candidates = h.candidates /\ g.loaded = h.loaded
        /\ g.pending = rest /\ g.found = f /\ g.parent = target /\ g.guilty = <<>>
        /\ g.level = SplitLevel(h, target) /\ g.queue = <<UpperHalf(target)>>
        /\ g.inFlight = LowerHalf(target)
        /\ g.noReproduce < MaxNoReproduce
    BY <2>7, <1>1, <1>4, ZenonT(60) DEF HuntState
  <2>. HIDE DEF g, rest, target
  <2>10. PendingOK(g, F)
    <3>1. \A i \in 1..Len(rest) :
            /\ rest[i] # {} /\ rest[i] \subseteq h.candidates
            /\ rest[i] \cap f = {} /\ rest[i] \cap target = {}
            /\ Cardinality(rest[i]) = 1 => rest[i] = h.candidates \/ rest[i] \in F
      BY <2>1, <2>4, <1>3, <1>8, ZenonT(60) DEF target
    <3>2. \A i, j \in 1..Len(rest) : i # j => rest[i] \cap rest[j] = {}
      <4>. SUFFICES ASSUME NEW i \in 1..Len(rest), NEW j \in 1..Len(rest), i # j
                    PROVE  rest[i] \cap rest[j] = {}
        OBVIOUS
      <4>1. i + k # j + k /\ i + k \in 1..Len(h.pending) /\ j + k \in 1..Len(h.pending)
        BY <2>1, <2>4, SMTT(60)
      <4>. QED
        BY <4>1, <2>4, <1>3
    <3>. QED
      BY <3>1, <3>2, <2>9 DEF PendingOK, Disjoint
  <2>11. \A c \in g.found : ConvictedBy(g, c, C, F)
    BY <2>9, <1>7 DEF ConvictedBy
  <2>12. SplitOK(g, C, F)
    BY <2>1, <2>2, <2>6, <2>9 DEF SplitOK, HalfOK
  <2>13. ~Terminal(g) /\ g.stage # "lead"
    BY <2>9 DEF Terminal
  <2>. QED
    BY <2>8, <2>9, <2>10, <2>11, <2>12, <2>13, <1>1, <1>4, <1>7 DEF HuntInv, g
<1>. QED
  BY <1>2, <1>9, <1>10, <1>1

\* next_live_set keeps the invariant.
LEMMA NextLiveSetInv ==
  ASSUME NEW h, NEW C, NEW F, HuntInv(h, C, F), ~Terminal(h), h.inFlight = {}
  PROVE  HuntInv(NextLiveSet(h), C, F)
<1>. DEFINE g == NextLiveSet(h)
<1>1. h \in HuntState /\ h.stage \in {"lead", "probe"} /\ {} \in CoreSets
  BY DEF HuntInv, HuntState, Stage, Terminal, CoreSets
<1>2. CASE h.stage = "lead"
  <2>1. g = [h EXCEPT !.inFlight = LeadProbe(h.candidates, h.loaded)]
    BY <1>2 DEF NextLiveSet, Terminal
  <2>2. LeadProbe(h.candidates, h.loaded) \in CoreSets
    BY <1>1 DEF LeadProbe, HuntState, CoreSets
  <2>3. /\ g \in HuntState /\ g.inFlight = LeadProbe(h.candidates, h.loaded)
        /\ g.stage = h.stage /\ g.candidates = h.candidates /\ g.loaded = h.loaded
        /\ g.pending = h.pending /\ g.queue = h.queue /\ g.parent = h.parent
        /\ g.guilty = h.guilty /\ g.level = h.level /\ g.found = h.found
        /\ g.noReproduce = h.noReproduce /\ g.launchesDone = h.launchesDone
        /\ g.armed = h.armed
    <3>. HIDE DEF g
    <3>. QED
      BY <2>1, <2>2, <1>1 DEF HuntState
  <2>. HIDE DEF g
  <2>4. PendingOK(g, F) /\ ValidLead(g) /\ ~Terminal(g)
    BY <2>3, <1>2 DEF HuntInv, PendingOK, ValidLead, Terminal
  <2>5. \A c \in g.found : ConvictedBy(g, c, C, F)
    BY <2>3 DEF HuntInv, ConvictedBy
  <2>. QED
    BY <2>3, <2>4, <2>5, <1>2 DEF HuntInv, g
<1>3. CASE h.stage = "probe" /\ h.queue # <<>>
  <2>1. SplitOK(h, C, F)
    BY <1>3 DEF HuntInv, IdleOK
  <2>2. h.parent \in CoreSets /\ Cardinality(h.parent) >= 2
    BY <2>1, <1>1 DEF SplitOK, HuntState
  <2>3. /\ LowerHalf(h.parent) \in CoreSets /\ UpperHalf(h.parent) \in CoreSets
        /\ LowerHalf(h.parent) # {} /\ h.parent # {}
    BY <2>2, HalvesProper
  <2>4. \/ h.queue = <<UpperHalf(h.parent)>> /\ HalfDone(h, C, F) /\ h.noReproduce < MaxNoReproduce
        \/ h.queue = <<h.parent>> /\ WholeOK(h, C)
    BY <2>1, <2>3, <1>3 DEF SplitOK, HalfOK, WholeOK
  <2>5. /\ Head(h.queue) \in CoreSets /\ Tail(h.queue) = <<>>
        /\ h.queue = <<Head(h.queue)>>
    <3>1. PICK X \in CoreSets : h.queue = <<X>>
      BY <2>2, <2>3, <2>4
    <3>2. Head(<<X>>) = X /\ Tail(<<X>>) = <<>>
      OBVIOUS
    <3>. QED
      BY <3>1, <3>2
  <2>6. g = [h EXCEPT !.inFlight = Head(h.queue), !.queue = Tail(h.queue)]
    BY <1>3 DEF NextLiveSet, Terminal
  <2>7. /\ g \in HuntState /\ g.inFlight = Head(h.queue) /\ g.queue = <<>>
        /\ g.stage = h.stage /\ g.candidates = h.candidates /\ g.loaded = h.loaded
        /\ g.pending = h.pending /\ g.parent = h.parent
        /\ g.guilty = h.guilty /\ g.level = h.level /\ g.found = h.found
        /\ g.noReproduce = h.noReproduce /\ g.launchesDone = h.launchesDone
        /\ g.armed = h.armed
    <3>1. <<>> \in Seq(CoreSets)
      OBVIOUS
    <3>. HIDE DEF g
    <3>. QED
      BY <2>5, <2>6, <3>1, <1>1 DEF HuntState
  <2>. HIDE DEF g
  <2>8. SplitOK(g, C, F)
    <3>1. CASE h.queue = <<UpperHalf(h.parent)>> /\ HalfDone(h, C, F) /\ h.noReproduce < MaxNoReproduce
      <4>1. HalfOK(g, C, F)
        BY <3>1, <2>7 DEF HalfOK, HalfDone
      <4>. QED
        BY <4>1, <2>1, <2>7 DEF SplitOK
    <3>2. CASE h.queue = <<h.parent>> /\ WholeOK(h, C)
      <4>1. WholeOK(g, C)
        BY <3>2, <2>7 DEF WholeOK
      <4>. QED
        BY <4>1, <2>1, <2>7 DEF SplitOK
    <3>. QED
      BY <2>4, <3>1, <3>2
  <2>9. PendingOK(g, F) /\ ~Terminal(g)
    BY <2>7, <1>3 DEF HuntInv, PendingOK, Terminal
  <2>10. \A c \in g.found : ConvictedBy(g, c, C, F)
    BY <2>7 DEF HuntInv, ConvictedBy
  <2>. QED
    BY <2>7, <2>8, <2>9, <2>10, <1>3 DEF HuntInv, g
<1>4. CASE h.stage = "probe" /\ h.queue = <<>>
  <2>1. IdleOK(h)
    <3>1. SUFFICES ASSUME SplitOK(h, C, F) PROVE FALSE
      BY <1>4 DEF HuntInv
    <3>2. h.parent \in CoreSets /\ Cardinality(h.parent) >= 2
      BY <3>1, <1>1 DEF SplitOK, HuntState
    <3>3. /\ LowerHalf(h.parent) # {} /\ UpperHalf(h.parent) # {} /\ h.parent # {}
      BY <3>2, HalvesProper
    <3>. QED
      BY <3>1, <3>3, <1>4 DEF SplitOK, HalfOK, WholeOK
  <2>2. g = SplitNext(h)
    BY <1>4 DEF NextLiveSet, Terminal
  <2>. QED
    BY <2>1, <2>2, <1>4, SplitNextInv
<1>. QED
  BY <1>1, <1>2, <1>3, <1>4

\* A lead answer convicts the lead or opens the bisection of every candidate.
LEMMA RecordLeadInv ==
  ASSUME NEW h, NEW C, NEW F, NEW r \in BOOLEAN, NEW C2 \in SUBSET CoreSets,
         NEW F2 \in SUBSET CoreSets, C \subseteq C2, F \subseteq F2,
         r => h.inFlight \in F2,
         HuntInv(h, C, F), h.stage = "lead", h.inFlight # {}
  PROVE  HuntInv(RecordLead(h, r), C2, F2)
<1>. DEFINE g == RecordLead(h, r)
<1>1. /\ h \in HuntState /\ h.candidates \in CoreSets /\ h.inFlight \in CoreSets
      /\ {} \in CoreSets /\ <<>> \in Seq(CoreSets)
      /\ h.candidates # {} /\ h.loaded # {}
      /\ ValidLead(h) /\ PendingOK(h, F)
  BY DEF HuntInv, HuntState, CoreSets
<1>2. /\ h.inFlight = LeadProbe(h.candidates, h.loaded) /\ h.inFlight \subseteq h.candidates
      /\ Cardinality(h.inFlight) = 1
  BY <1>1 DEF ValidLead, LeadProbe
<1>3. CASE r
  <2>1. g = [h EXCEPT !.stage = "culprit", !.pending = <<>>, !.found = h.inFlight,
                      !.inFlight = {}, !.launchesDone = 0]
    BY <1>3 DEF RecordLead
  <2>2. /\ g \in HuntState /\ g.stage = "culprit" /\ g.pending = <<>> /\ g.found = h.inFlight
        /\ g.inFlight = {} /\ g.launchesDone = 0 /\ g.candidates = h.candidates
        /\ g.loaded = h.loaded /\ g.queue = h.queue /\ g.parent = h.parent
        /\ g.guilty = h.guilty /\ g.level = h.level /\ g.armed = h.armed
    <3>1. "culprit" \in Stage
      BY DEF Stage
    <3>. HIDE DEF g
    <3>. QED
      BY <2>1, <3>1, <1>1 DEF HuntState
  <2>. HIDE DEF g
  <2>3. PendingOK(g, F2)
    BY <2>2 DEF PendingOK, Disjoint
  <2>4. ValidTerminal(g) /\ g.level = 0
    BY <2>2, <1>1 DEF ValidTerminal, ValidLead
  <2>5. \A c \in g.found : ConvictedBy(g, c, C2, F2)
    <3>1. PICK x : h.inFlight = {x}
      BY <1>1, <1>2, CoreSetFinite, FS_Singleton
    <3>. QED
      BY <3>1, <2>2, <1>3 DEF ConvictedBy
  <2>. QED
    BY <2>2, <2>3, <2>4, <2>5, <1>1, <1>2 DEF HuntInv, g
<1>4. CASE ~r
  <2>1. g = [h EXCEPT !.stage = "probe", !.inFlight = {}, !.launchesDone = 0]
    BY <1>4 DEF RecordLead
  <2>2. /\ g \in HuntState /\ g.stage = "probe" /\ g.pending = h.pending /\ g.found = h.found
        /\ g.inFlight = {} /\ g.launchesDone = 0 /\ g.candidates = h.candidates
        /\ g.loaded = h.loaded /\ g.queue = h.queue /\ g.parent = h.parent
        /\ g.guilty = h.guilty /\ g.level = h.level /\ g.armed = h.armed
        /\ g.noReproduce = h.noReproduce
    <3>1. "probe" \in Stage
      BY DEF Stage
    <3>. HIDE DEF g
    <3>. QED
      BY <2>1, <3>1, <1>1 DEF HuntState
  <2>. HIDE DEF g
  <2>3. PendingOK(g, F2)
    BY <2>2, <1>1 DEF PendingOK
  <2>4. IdleOK(g) /\ ~Terminal(g)
    BY <2>2, <1>1, MaxNoReproduceAssumption DEF IdleOK, ValidLead, Terminal
  <2>5. g.found = {}
    BY <2>2, <1>1 DEF ValidLead
  <2>. QED
    BY <2>2, <2>3, <2>4, <2>5, <1>1 DEF HuntInv, g
<1>. QED
  BY <1>3, <1>4

\* The open split, and what an answer to it may rely on.
LEMMA SplitFacts ==
  ASSUME NEW h, NEW C, NEW F, HuntInv(h, C, F), h.stage = "probe", h.inFlight # {}
  PROVE  /\ SplitOK(h, C, F) /\ h \in HuntState
         /\ h.parent \in CoreSets /\ h.parent # {}
         /\ LowerHalf(h.parent) \in CoreSets /\ UpperHalf(h.parent) \in CoreSets
         /\ LowerHalf(h.parent) # {} /\ UpperHalf(h.parent) # {}
         /\ LowerHalf(h.parent) # h.parent /\ UpperHalf(h.parent) # h.parent
         /\ LowerHalf(h.parent) \cap UpperHalf(h.parent) = {}
         /\ LowerHalf(h.parent) \cup UpperHalf(h.parent) = h.parent
         /\ LowerHalf(h.parent) # UpperHalf(h.parent)
<1>1. SplitOK(h, C, F) /\ h \in HuntState
  BY DEF HuntInv, IdleOK
<1>2. h.parent \in CoreSets /\ Cardinality(h.parent) >= 2
  BY <1>1 DEF SplitOK, HuntState
<1>. QED
  BY <1>1, <1>2, HalvesProper

\* The answer about a whole set whose halves ran clean.
LEMMA RecordWholeSetInv ==
  ASSUME NEW h, NEW C, NEW F, NEW r \in BOOLEAN, NEW C2 \in SUBSET CoreSets,
         NEW F2 \in SUBSET CoreSets, C \subseteq C2, F \subseteq F2,
         r => h.inFlight \in F2,
         HuntInv(h, C, F), h.stage = "probe", h.inFlight # {}, h.inFlight = h.parent
  PROVE  HuntInv(RecordWholeSet(h, r), C2, F2)
<1>. DEFINE g == RecordWholeSet(h, r)
<1>1. /\ SplitOK(h, C, F) /\ h \in HuntState /\ h.parent \in CoreSets
      /\ {} \in CoreSets /\ <<>> \in Seq(CoreSets)
      /\ h.candidates # {} /\ h.loaded # {} /\ h.found \in CoreSets
      /\ PendingOK(h, F) /\ h.found \subseteq h.candidates
      /\ \A c \in h.found : ConvictedBy(h, c, C, F)
  <2>1. SplitOK(h, C, F)
    BY SplitFacts
  <2>. QED
    BY <2>1 DEF HuntInv, HuntState, CoreSets
<1>2. WholeOK(h, C) /\ h.queue = <<>>
  BY <1>1, SplitFacts DEF SplitOK, HalfOK, WholeOK
<1>3. CASE r
  <2>1. g = [h EXCEPT !.parent = {}, !.level = 0, !.inFlight = {}, !.launchesDone = 0,
                      !.found = h.found \cup h.parent, !.noReproduce = 0,
                      !.stage = IF h.pending = <<>> THEN "culprit" ELSE "probe"]
    BY <1>3 DEF RecordWholeSet
  <2>2. /\ g \in HuntState /\ g.stage = (IF h.pending = <<>> THEN "culprit" ELSE "probe")
        /\ g.pending = h.pending /\ g.found = h.found \cup h.parent
        /\ g.inFlight = {} /\ g.launchesDone = 0 /\ g.candidates = h.candidates
        /\ g.loaded = h.loaded /\ g.queue = h.queue /\ g.parent = {}
        /\ g.guilty = h.guilty /\ g.level = 0 /\ g.armed = h.armed
        /\ g.noReproduce = 0
    <3>1. /\ (IF h.pending = <<>> THEN "culprit" ELSE "probe") \in Stage
          /\ h.found \cup h.parent \in CoreSets /\ 0 \in 0..MaxNoReproduce /\ 0 \in Nat
      BY <1>1, MaxNoReproduceAssumption DEF Stage, CoreSets
    <3>. HIDE DEF g
    <3>. QED
      BY <2>1, <3>1, <1>1, ZenonT(60) DEF HuntState
  <2>. HIDE DEF g
  <2>3. PendingOK(g, F2)
    BY <2>2, <1>1 DEF PendingOK
  <2>4. g.stage = "probe" => IdleOK(g)
    BY <2>2, <1>2, MaxNoReproduceAssumption DEF IdleOK, WholeOK
  <2>5. Terminal(g) => ValidTerminal(g) /\ g.level = 0
    BY <2>2, <1>2, SplitFacts DEF Terminal, ValidTerminal, WholeOK
  <2>6. \A c \in g.found : ConvictedBy(g, c, C2, F2)
    <3>1. ASSUME NEW c \in h.found PROVE ConvictedBy(g, c, C2, F2)
      BY <3>1, <1>1, <2>2 DEF ConvictedBy
    <3>2. ASSUME NEW c \in h.parent PROVE ConvictedBy(g, c, C2, F2)
      BY <3>2, <1>2, <1>3 DEF ConvictedBy, WholeOK
    <3>. QED
      BY <3>1, <3>2, <2>2
  <2>7. g.found \subseteq g.candidates /\ g.stage # "lead"
    BY <2>2, <1>1 DEF SplitOK
  <2>. QED
    BY <2>2, <2>3, <2>4, <2>5, <2>6, <2>7, <1>1 DEF HuntInv, g
<1>4. CASE ~r
  <2>1. g = [h EXCEPT !.parent = {}, !.level = 0, !.inFlight = {}, !.launchesDone = 0,
                      !.pending = <<>>,
                      !.stage = IF h.found # {} THEN "culprit" ELSE "exhausted"]
    BY <1>4 DEF RecordWholeSet
  <2>2. /\ g \in HuntState /\ g.stage = (IF h.found # {} THEN "culprit" ELSE "exhausted")
        /\ g.pending = <<>> /\ g.found = h.found
        /\ g.inFlight = {} /\ g.launchesDone = 0 /\ g.candidates = h.candidates
        /\ g.loaded = h.loaded /\ g.queue = h.queue /\ g.parent = {}
        /\ g.guilty = h.guilty /\ g.level = 0 /\ g.armed = h.armed
    <3>1. (IF h.found # {} THEN "culprit" ELSE "exhausted") \in Stage /\ 0 \in Nat
      BY DEF Stage
    <3>. HIDE DEF g
    <3>. QED
      BY <2>1, <3>1, <1>1, ZenonT(60) DEF HuntState
  <2>. HIDE DEF g
  <2>3. PendingOK(g, F2)
    BY <2>2 DEF PendingOK, Disjoint
  <2>4. ValidTerminal(g) /\ g.stage \notin {"lead", "probe"}
    BY <2>2, <1>2 DEF ValidTerminal, WholeOK
  <2>5. \A c \in g.found : ConvictedBy(g, c, C2, F2)
    BY <2>2, <1>1 DEF ConvictedBy
  <2>. QED
    BY <2>2, <2>3, <2>4, <2>5, <1>1 DEF HuntInv, g
<1>. QED
  BY <1>3, <1>4

\* A split whose whole set is asked next is still a hunt.
LEMMA RetriedIsHunt ==
  ASSUME NEW h \in HuntState, NEW n \in 0..MaxNoReproduce, NEW q \in Seq(CoreSets)
  PROVE  [h EXCEPT !.parent = {}, !.level = 0, !.inFlight = {}, !.launchesDone = 0,
                   !.guilty = <<>>, !.noReproduce = n, !.parent = h.parent, !.level = h.level,
                   !.queue = q] \in HuntState
<1>. DEFINE base == [h EXCEPT !.parent = {}, !.level = 0, !.inFlight = {}, !.launchesDone = 0,
                              !.guilty = <<>>, !.noReproduce = n]
<1>1. {} \in CoreSets /\ <<>> \in Seq(CoreSets) /\ 0 \in Nat
  BY DEF CoreSets
<1>2. h.parent \in CoreSets /\ h.level \in Nat
  BY DEF HuntState
<1>3. base \in HuntState
  BY <1>1 DEF HuntState
<1>. HIDE DEF base
<1>4. [base EXCEPT !.parent = h.parent, !.level = h.level, !.queue = q] \in HuntState
  BY <1>2, <1>3 DEF HuntState
<1>. QED
  BY <1>4, Zenon DEF base

\* The second half has answered: the guilty halves replace their parent, or the
\* parent is asked again, in halves or whole.
LEMMA FoldSplitInv ==
  ASSUME NEW h, NEW C, NEW F, NEW guilty \in Seq(CoreSets), NEW C2 \in SUBSET CoreSets,
         NEW F2 \in SUBSET CoreSets, C \subseteq C2, F \subseteq F2,
         h \in HuntState, h.candidates # {}, h.loaded # {},
         h.queue = <<>>, h.stage = "probe",
         PendingOK(h, F), h.found \subseteq h.candidates,
         \A c \in h.found : ConvictedBy(h, c, C, F),
         Cardinality(h.parent) >= 2, h.parent \subseteq h.candidates, h.parent \cap h.found = {},
         h.level >= 1, h.level <= SplitDepth(h.candidates), h.noReproduce < MaxNoReproduce,
         \/ guilty = <<>> /\ LowerHalf(h.parent) \in C2 /\ UpperHalf(h.parent) \in C2
         \/ guilty = <<LowerHalf(h.parent)>> /\ LowerHalf(h.parent) \in F2
         \/ guilty = <<UpperHalf(h.parent)>> /\ UpperHalf(h.parent) \in F2
         \/ /\ guilty = <<LowerHalf(h.parent), UpperHalf(h.parent)>>
            /\ LowerHalf(h.parent) \in F2 /\ UpperHalf(h.parent) \in F2
  PROVE  HuntInv(FoldSplit(h, guilty), C2, F2)
<1>. DEFINE g == FoldSplit(h, guilty)
            p == h.pending
<1>1. /\ h.parent \in CoreSets /\ {} \in CoreSets /\ <<>> \in Seq(CoreSets)
      /\ p \in Seq(CoreSets) /\ Len(p) \in Nat /\ 0 \in Nat
      /\ h.noReproduce \in 0..MaxNoReproduce
  BY DEF HuntState, CoreSets
<1>2. /\ LowerHalf(h.parent) \in CoreSets /\ UpperHalf(h.parent) \in CoreSets
      /\ LowerHalf(h.parent) # {} /\ UpperHalf(h.parent) # {}
      /\ LowerHalf(h.parent) \cap UpperHalf(h.parent) = {}
      /\ LowerHalf(h.parent) \cup UpperHalf(h.parent) = h.parent
      /\ h.parent # {}
  BY <1>1, HalvesProper
<1>3. /\ \A i \in 1..Len(p) :
            /\ p[i] # {} /\ p[i] \subseteq h.candidates
            /\ p[i] \cap h.found = {} /\ p[i] \cap h.parent = {}
            /\ Cardinality(p[i]) = 1 => p[i] = h.candidates \/ p[i] \in F2
      /\ \A i, j \in 1..Len(p) : i # j => p[i] \cap p[j] = {}
  BY DEF PendingOK, Disjoint
<1>4. CASE guilty # <<>>
  <2>. DEFINE q == guilty \o p
  <2>1. /\ Len(guilty) \in 1..2
        /\ \A i \in 1..Len(guilty) :
             guilty[i] \in {LowerHalf(h.parent), UpperHalf(h.parent)} /\ guilty[i] \in F2
        /\ \A i, j \in 1..Len(guilty) : i # j => guilty[i] \cap guilty[j] = {}
    <3>1. CASE guilty = <<LowerHalf(h.parent)>> /\ LowerHalf(h.parent) \in F2
      BY <3>1
    <3>2. CASE guilty = <<UpperHalf(h.parent)>> /\ UpperHalf(h.parent) \in F2
      BY <3>2
    <3>3. CASE /\ guilty = <<LowerHalf(h.parent), UpperHalf(h.parent)>>
               /\ LowerHalf(h.parent) \in F2 /\ UpperHalf(h.parent) \in F2
      <4>1. Len(guilty) = 2 /\ guilty[1] = LowerHalf(h.parent) /\ guilty[2] = UpperHalf(h.parent)
        BY <3>3
      <4>. QED
        BY <4>1, <3>3, <1>2
    <3>. QED
      BY <1>4, <3>1, <3>2, <3>3
  <2>2. /\ q \in Seq(CoreSets) /\ Len(q) = Len(guilty) + Len(p)
        /\ \A i \in 1..Len(q) :
             \/ i \in 1..Len(guilty) /\ q[i] = guilty[i]
             \/ i - Len(guilty) \in 1..Len(p) /\ q[i] = p[i - Len(guilty)]
    BY <1>1
  <2>3. g = [h EXCEPT !.parent = {}, !.level = 0, !.inFlight = {},
                      !.launchesDone = 0, !.guilty = <<>>, !.pending = q]
    BY <1>4 DEF FoldSplit
  <2>. HIDE DEF q
  <2>4. /\ g \in HuntState /\ g.stage = "probe" /\ g.candidates = h.candidates
        /\ g.loaded = h.loaded /\ g.pending = q /\ g.queue = <<>> /\ g.inFlight = {}
        /\ g.parent = {} /\ g.guilty = <<>> /\ g.level = 0 /\ g.found = h.found
        /\ g.noReproduce = h.noReproduce
    <3>. HIDE DEF g
    <3>. QED
      BY <2>3, <2>2, <1>1 DEF HuntState
  <2>. HIDE DEF g, p
  <2>5. \A i \in 1..Len(q) :
          /\ q[i] # {} /\ q[i] \subseteq h.candidates /\ q[i] \cap h.found = {}
          /\ Cardinality(q[i]) = 1 => q[i] = h.candidates \/ q[i] \in F2
    <3>. SUFFICES ASSUME NEW i \in 1..Len(q)
                  PROVE  /\ q[i] # {} /\ q[i] \subseteq h.candidates /\ q[i] \cap h.found = {}
                         /\ Cardinality(q[i]) = 1 => q[i] = h.candidates \/ q[i] \in F2
      OBVIOUS
    <3>1. CASE i \in 1..Len(guilty) /\ q[i] = guilty[i]
      BY <3>1, <2>1, <1>2
    <3>2. CASE i - Len(guilty) \in 1..Len(p) /\ q[i] = p[i - Len(guilty)]
      BY <3>2, <1>3
    <3>. QED
      BY <2>2, <3>1, <3>2
  <2>6. \A i, j \in 1..Len(q) : i # j => q[i] \cap q[j] = {}
    <3>. SUFFICES ASSUME NEW i \in 1..Len(q), NEW j \in 1..Len(q), i # j
                  PROVE  q[i] \cap q[j] = {}
      OBVIOUS
    <3>. DEFINE front(x) == x \in 1..Len(guilty) /\ q[x] = guilty[x]
                back(x) == x - Len(guilty) \in 1..Len(p) /\ q[x] = p[x - Len(guilty)]
    <3>1. (front(i) \/ back(i)) /\ (front(j) \/ back(j))
      BY <2>2
    <3>2. CASE front(i) /\ front(j)
      BY <3>2, <2>1
    <3>3. CASE front(i) /\ back(j)
      <4>1. q[i] \subseteq h.parent
        BY <3>3, <2>1, <1>2
      <4>2. q[j] \cap h.parent = {}
        BY <3>3, <1>3
      <4>. QED
        BY <4>1, <4>2
    <3>4. CASE back(i) /\ front(j)
      <4>1. q[j] \subseteq h.parent
        BY <3>4, <2>1, <1>2
      <4>2. q[i] \cap h.parent = {}
        BY <3>4, <1>3
      <4>. QED
        BY <4>1, <4>2
    <3>5. CASE back(i) /\ back(j)
      <4>1. i - Len(guilty) # j - Len(guilty)
        BY <2>1, <2>2, <1>1
      <4>. QED
        BY <4>1, <3>5, <1>3, SMTT(60)
    <3>. QED
      BY <3>1, <3>2, <3>3, <3>4, <3>5
  <2>7. PendingOK(g, F2)
    BY <2>4, <2>5, <2>6 DEF PendingOK, Disjoint
  <2>8. q # <<>>
    <3>1. Len(q) \in Nat /\ Len(q) # 0
      <4>1. Len(guilty) \in 1..2
        BY <2>1, Zenon
      <4>2. Len(q) = Len(guilty) + Len(p)
        BY <2>2, Zenon
      <4>3. Len(p) \in Nat
        BY <1>1, Zenon
      <4>. QED
        BY <4>1, <4>2, <4>3, SomeAndMore, Zenon
    <3>2. Len(<<>>) = 0
      OBVIOUS
    <3>. QED
      BY <3>1, <3>2, Zenon
  <2>9. IdleOK(g) /\ ~Terminal(g)
    BY <2>4, <2>8 DEF IdleOK, Terminal
  <2>10. \A c \in g.found : ConvictedBy(g, c, C2, F2)
    BY <2>4 DEF ConvictedBy
  <2>. QED
    BY <2>4, <2>7, <2>9, <2>10 DEF HuntInv, g
<1>5. CASE guilty = <<>> /\ h.noReproduce + 1 >= MaxNoReproduce
  <2>1. g = [h EXCEPT !.parent = {}, !.level = 0, !.inFlight = {},
                      !.launchesDone = 0, !.guilty = <<>>, !.noReproduce = h.noReproduce + 1,
                      !.parent = h.parent, !.level = h.level, !.queue = <<h.parent>>]
    BY <1>1, <1>5, MaxNoReproduceAssumption DEF FoldSplit, HuntState
  <2>2. /\ g \in HuntState /\ g.stage = "probe" /\ g.candidates = h.candidates
        /\ g.loaded = h.loaded /\ g.pending = p /\ g.queue = <<h.parent>> /\ g.inFlight = {}
        /\ g.parent = h.parent /\ g.guilty = <<>> /\ g.level = h.level /\ g.found = h.found
       
    <3>1. h.noReproduce + 1 \in 0..MaxNoReproduce /\ <<h.parent>> \in Seq(CoreSets)
      BY <1>1, MaxNoReproduceAssumption
    <3>. HIDE DEF g
    <3>2. g \in HuntState
      BY <2>1, <3>1, RetriedIsHunt, Zenon
    <3>3. /\ g.stage = "probe" /\ g.candidates = h.candidates
          /\ g.loaded = h.loaded /\ g.pending = p /\ g.queue = <<h.parent>> /\ g.inFlight = {}
      BY <2>1, <1>1 DEF HuntState
    <3>4. /\ g.parent = h.parent /\ g.guilty = <<>> /\ g.level = h.level /\ g.found = h.found
         
      BY <2>1, <1>1 DEF HuntState
    <3>. QED
      BY <3>2, <3>3, <3>4
  <2>. HIDE DEF g
  <2>3. PendingOK(g, F2)
    BY <2>2, <1>3 DEF PendingOK, Disjoint
  <2>4. WholeOK(g, C2)
    BY <2>2, <1>2, <1>5 DEF WholeOK
  <2>5. SplitOK(g, C2, F2) /\ ~Terminal(g)
    BY <2>2, <2>4 DEF SplitOK, Terminal
  <2>6. \A c \in g.found : ConvictedBy(g, c, C2, F2)
    BY <2>2 DEF ConvictedBy
  <2>. QED
    BY <2>2, <2>3, <2>5, <2>6 DEF HuntInv, g
<1>6. CASE guilty = <<>> /\ h.noReproduce + 1 < MaxNoReproduce
  <2>. DEFINE q == <<h.parent>> \o p
  <2>1. g = [h EXCEPT !.parent = {}, !.level = 0, !.inFlight = {}, !.launchesDone = 0,
                      !.guilty = <<>>, !.noReproduce = h.noReproduce + 1, !.pending = q]
    BY <1>1, <1>6, MaxNoReproduceAssumption DEF FoldSplit
  <2>2. /\ q \in Seq(CoreSets) /\ Len(q) = 1 + Len(p) /\ q[1] = h.parent
        /\ \A i \in 1..Len(q) : i # 1 => i - 1 \in 1..Len(p) /\ q[i] = p[i - 1]
    BY <1>1
  <2>. HIDE DEF q
  <2>3. /\ g \in HuntState /\ g.stage = "probe" /\ g.candidates = h.candidates
        /\ g.loaded = h.loaded /\ g.pending = q /\ g.queue = <<>> /\ g.inFlight = {}
        /\ g.parent = {} /\ g.guilty = <<>> /\ g.level = 0 /\ g.found = h.found
        /\ g.noReproduce = h.noReproduce + 1
    <3>1. h.noReproduce + 1 \in 0..MaxNoReproduce
      BY <1>1, <1>6, MaxNoReproduceAssumption
    <3>. HIDE DEF g
    <3>. QED
      BY <2>1, <2>2, <3>1, <1>1 DEF HuntState
  <2>. HIDE DEF g, p
  <2>4. \A i \in 1..Len(q) :
          /\ q[i] # {} /\ q[i] \subseteq h.candidates /\ q[i] \cap h.found = {}
          /\ Cardinality(q[i]) = 1 => q[i] = h.candidates \/ q[i] \in F2
    <3>. SUFFICES ASSUME NEW i \in 1..Len(q)
                  PROVE  /\ q[i] # {} /\ q[i] \subseteq h.candidates /\ q[i] \cap h.found = {}
                         /\ Cardinality(q[i]) = 1 => q[i] = h.candidates \/ q[i] \in F2
      OBVIOUS
    <3>1. CASE i = 1
      <4>1. q[i] = h.parent /\ ~(Cardinality(h.parent) = 1)
        BY <3>1, <2>2
      <4>. QED
        BY <4>1, <1>2
    <3>2. CASE i # 1
      BY <3>2, <2>2, <1>3, SMTT(60)
    <3>. QED
      BY <3>1, <3>2
  <2>5. \A i, j \in 1..Len(q) : i # j => q[i] \cap q[j] = {}
    <3>. SUFFICES ASSUME NEW i \in 1..Len(q), NEW j \in 1..Len(q), i # j
                  PROVE  q[i] \cap q[j] = {}
      OBVIOUS
    <3>1. CASE i # 1 /\ j # 1
      <4>1. i - 1 # j - 1
        BY <2>2, <1>1
      <4>. QED
        BY <4>1, <3>1, <2>2, <1>3, SMTT(60)
    <3>2. CASE i = 1 \/ j = 1
      BY <3>2, <2>2, <1>3, ZenonT(60)
    <3>. QED
      BY <3>1, <3>2
  <2>6. PendingOK(g, F2)
    BY <2>3, <2>4, <2>5 DEF PendingOK, Disjoint
  <2>7. q # <<>>
    BY <2>2, <1>1
  <2>8. IdleOK(g) /\ ~Terminal(g)
    BY <2>3, <2>7, <1>6 DEF IdleOK, Terminal
  <2>9. \A c \in g.found : ConvictedBy(g, c, C2, F2)
    BY <2>3 DEF ConvictedBy
  <2>. QED
    BY <2>3, <2>6, <2>8, <2>9 DEF HuntInv, g
<1>7. h.noReproduce \in Nat /\ MaxNoReproduce \in Nat
  BY <1>1, MaxNoReproduceAssumption
<1>. QED
  BY <1>4, <1>5, <1>6, <1>7

\* record keeps the invariant, with the answer added to the evidence.
LEMMA RecordInv ==
  ASSUME NEW h, NEW C, NEW F, NEW r \in BOOLEAN, NEW C2 \in SUBSET CoreSets,
         NEW F2 \in SUBSET CoreSets, C \subseteq C2, F \subseteq F2,
         r => h.inFlight \in F2, ~r => h.inFlight \in C2,
         HuntInv(h, C, F), h.inFlight # {}
  PROVE  HuntInv(Record(h, r), C2, F2)
<1>1. h.stage \in {"lead", "probe"} /\ h \in HuntState
  BY DEF HuntInv, HuntState, Stage, Terminal, ValidTerminal
<1>2. CASE h.stage = "lead"
  <2>1. Record(h, r) = RecordLead(h, r)
    BY <1>2 DEF Record
  <2>. QED
    BY <2>1, <1>2, RecordLeadInv
<1>3. CASE h.stage = "probe" /\ h.inFlight = h.parent
  <2>1. Record(h, r) = RecordWholeSet(h, r)
    BY <1>3 DEF Record
  <2>. QED
    BY <2>1, <1>3, RecordWholeSetInv
<1>4. CASE h.stage = "probe" /\ h.inFlight # h.parent
  <2>. DEFINE guilty == IF r THEN Append(h.guilty, h.inFlight) ELSE h.guilty
              counted == IF r THEN [h EXCEPT !.noReproduce = 0] ELSE h
              lower == LowerHalf(h.parent)
              upper == UpperHalf(h.parent)
  <2>1. Record(h, r) = RecordHalf(h, r)
    BY <1>4 DEF Record
  <2>2. /\ lower \in CoreSets /\ upper \in CoreSets /\ lower # {} /\ upper # {} /\ lower # upper
        /\ SplitOK(h, C, F) /\ h.parent \in CoreSets
    BY <1>4, SplitFacts
  <2>3. HalfOK(h, C, F) /\ h.noReproduce < MaxNoReproduce
    BY <2>2, <1>4 DEF SplitOK, HalfOK, WholeOK
  <2>4. /\ counted \in HuntState /\ counted.stage = "probe"
        /\ counted.candidates = h.candidates /\ counted.loaded = h.loaded
        /\ counted.pending = h.pending /\ counted.queue = h.queue /\ counted.inFlight = h.inFlight
        /\ counted.parent = h.parent /\ counted.guilty = h.guilty /\ counted.level = h.level
        /\ counted.found = h.found /\ counted.noReproduce < MaxNoReproduce
        /\ counted.armed = h.armed
    <3>1. 0 \in 0..MaxNoReproduce /\ 0 < MaxNoReproduce
      BY MaxNoReproduceAssumption
    <3>. QED
      BY <3>1, <2>3, <1>1, <1>4 DEF HuntState
  <2>5. /\ h.candidates # {} /\ h.loaded # {}
        /\ PendingOK(h, F) /\ h.found \subseteq h.candidates
        /\ \A c \in h.found : ConvictedBy(h, c, C, F)
    BY DEF HuntInv
  <2>6. /\ PendingOK(counted, F) /\ \A c \in counted.found : ConvictedBy(counted, c, C, F)
    <3>. HIDE DEF counted
    <3>. QED
      BY <2>4, <2>5 DEF PendingOK, ConvictedBy
  <2>7. CASE h.queue # <<>>
    <3>. DEFINE g == [counted EXCEPT !.guilty = guilty, !.inFlight = {}, !.launchesDone = 0]
    <3>1. RecordHalf(h, r) = g
      BY <2>7 DEF RecordHalf
    <3>2. h.inFlight = lower /\ h.queue = <<upper>> /\ h.guilty = <<>>
      BY <2>3, <2>7 DEF HalfOK
    <3>3. guilty \in Seq(CoreSets) /\ guilty = (IF r THEN <<lower>> ELSE <<>>)
      BY <3>2, <2>2
    <3>. HIDE DEF guilty, counted
    <3>4. /\ g \in HuntState /\ g.stage = "probe" /\ g.candidates = h.candidates
          /\ g.loaded = h.loaded /\ g.pending = h.pending /\ g.queue = h.queue
          /\ g.inFlight = {} /\ g.parent = h.parent /\ g.guilty = guilty /\ g.level = h.level
          /\ g.found = h.found /\ g.noReproduce < MaxNoReproduce /\ g.launchesDone = 0
          /\ g.armed = h.armed
      <4>1. {} \in CoreSets /\ 0 \in Nat
        BY DEF CoreSets
      <4>. QED
        BY <4>1, <3>3, <2>4, ZenonT(60) DEF HuntState
    <3>. HIDE DEF g
    <3>5. HalfDone(g, C2, F2)
      BY <3>2, <3>3, <3>4 DEF HalfDone
    <3>6. HalfOK(g, C2, F2)
      BY <3>2, <3>4, <3>5 DEF HalfOK
    <3>7. SplitOK(g, C2, F2)
      BY <3>4, <3>6, <2>2 DEF SplitOK
    <3>8. PendingOK(g, F2) /\ ~Terminal(g)
      BY <3>4, <2>5 DEF PendingOK, Terminal
    <3>9. \A c \in g.found : ConvictedBy(g, c, C2, F2)
      BY <3>4, <2>5 DEF ConvictedBy
    <3>. QED
      BY <2>1, <3>1, <3>4, <3>7, <3>8, <3>9, <2>5 DEF HuntInv
  <2>8. CASE h.queue = <<>>
    <3>1. RecordHalf(h, r) = FoldSplit(counted, guilty)
      BY <2>8 DEF RecordHalf
    <3>2. h.inFlight = upper /\ HalfDone(h, C, F)
      BY <2>2, <2>3, <2>8 DEF HalfOK
    <3>3. /\ guilty \in Seq(CoreSets)
          /\ \/ guilty = <<>> /\ lower \in C2 /\ upper \in C2
             \/ guilty = <<lower>> /\ lower \in F2
             \/ guilty = <<upper>> /\ upper \in F2
             \/ guilty = <<lower, upper>> /\ lower \in F2 /\ upper \in F2
      <4>1. CASE h.guilty = <<>> /\ lower \in C
        <5>1. Append(<<>>, upper) = <<upper>>
          OBVIOUS
        <5>. QED
          BY <4>1, <5>1, <3>2, <2>2
      <4>2. CASE h.guilty = <<lower>> /\ lower \in F
        <5>1. Append(<<lower>>, upper) = <<lower, upper>>
          BY <2>2, PairSequence
        <5>. QED
          BY <4>2, <5>1, <3>2, <2>2
      <4>. QED
        BY <3>2, <4>1, <4>2 DEF HalfDone
    <3>. HIDE DEF guilty, counted
    <3>4. /\ Cardinality(counted.parent) >= 2 /\ counted.parent \subseteq counted.candidates
          /\ counted.parent \cap counted.found = {}
          /\ counted.level >= 1 /\ counted.level <= SplitDepth(counted.candidates)
      BY <2>2, <2>4 DEF SplitOK
    <3>5. HuntInv(FoldSplit(counted, guilty), C2, F2)
      BY <2>4, <2>5, <2>6, <2>8, <3>3, <3>4, FoldSplitInv
    <3>. QED
      BY <2>1, <3>1, <3>5
  <2>. QED
    BY <2>7, <2>8
<1>. QED
  BY <1>1, <1>2, <1>3, <1>4

\* next_live_set leaves the series of the mask in flight alone.
LEMMA NextLiveSetSeries ==
  ASSUME NEW h, NEW C, NEW F, HuntInv(h, C, F)
  PROVE  /\ NextLiveSet(h).armed = h.armed /\ NextLiveSet(h).launchesDone = h.launchesDone
         /\ h.inFlight # {} => NextLiveSet(h) = h
<1>. DEFINE g == NextLiveSet(h)
<1>1. h \in HuntState /\ h.stage \in {"lead", "probe", "culprit", "exhausted"}
  BY DEF HuntInv, HuntState, Stage
<1>2. CASE Terminal(h) \/ h.inFlight # {}
  <2>1. NextLiveSet(h) = h
    BY <1>2 DEF NextLiveSet, Terminal
  <2>. QED
    BY <2>1
<1>3. CASE ~Terminal(h) /\ h.inFlight = {} /\ h.stage = "lead"
  <2>1. g = [h EXCEPT !.inFlight = LeadProbe(h.candidates, h.loaded)]
    BY <1>3 DEF NextLiveSet
  <2>. QED
    BY <2>1, <1>1, <1>3 DEF HuntState
<1>4. CASE ~Terminal(h) /\ h.inFlight = {} /\ h.stage = "probe" /\ h.queue # <<>>
  <2>1. g = [h EXCEPT !.inFlight = Head(h.queue), !.queue = Tail(h.queue)]
    BY <1>4 DEF NextLiveSet
  <2>. QED
    BY <2>1, <1>1, <1>4 DEF HuntState
<1>5. CASE ~Terminal(h) /\ h.inFlight = {} /\ h.stage = "probe" /\ h.queue = <<>>
  <2>1. g = SplitNext(h)
    BY <1>5 DEF NextLiveSet
  <2>2. SplitNext(h).armed = h.armed /\ SplitNext(h).launchesDone = h.launchesDone
    BY <1>1 DEF SplitNext, HuntState
  <2>. QED
    BY <2>1, <2>2, <1>5
<1>. QED
  BY <1>1, <1>2, <1>3, <1>4, <1>5 DEF Terminal

\* record closes the series of the mask that answered.
LEMMA RecordEndsSeries ==
  ASSUME NEW h \in HuntState, NEW r \in BOOLEAN
  PROVE  Record(h, r).armed = h.armed /\ Record(h, r).launchesDone = 0
<1>1. /\ RecordLead(h, r).armed = h.armed /\ RecordLead(h, r).launchesDone = 0
  BY DEF RecordLead, HuntState
<1>2. /\ RecordWholeSet(h, r).armed = h.armed /\ RecordWholeSet(h, r).launchesDone = 0
  BY DEF RecordWholeSet, HuntState
<1>3. ASSUME NEW k \in HuntState, NEW guilty
      PROVE  FoldSplit(k, guilty).armed = k.armed /\ FoldSplit(k, guilty).launchesDone = 0
  <2>. DEFINE g == FoldSplit(k, guilty)
  <2>1. /\ k.noReproduce \in Nat /\ MaxNoReproduce \in Nat
    BY MaxNoReproduceAssumption DEF HuntState
  <2>2. CASE guilty # <<>>
    BY <2>2 DEF FoldSplit, HuntState
  <2>3. CASE guilty = <<>> /\ k.noReproduce + 1 >= MaxNoReproduce
    BY <2>3, <2>1 DEF FoldSplit, HuntState
  <2>4. CASE guilty = <<>> /\ k.noReproduce + 1 < MaxNoReproduce
    BY <2>4, <2>1 DEF FoldSplit, HuntState
  <2>. QED
    BY <2>1, <2>2, <2>3, <2>4
<1>4. /\ RecordHalf(h, r).armed = h.armed /\ RecordHalf(h, r).launchesDone = 0
  <2>. DEFINE counted == IF r THEN [h EXCEPT !.noReproduce = 0] ELSE h
              guilty == IF r THEN Append(h.guilty, h.inFlight) ELSE h.guilty
  <2>1. counted \in HuntState /\ counted.armed = h.armed
    <3>1. 0 \in 0..MaxNoReproduce
      BY MaxNoReproduceAssumption
    <3>. QED
      BY <3>1 DEF HuntState
  <2>. HIDE DEF counted
  <2>2. CASE h.queue # <<>>
    <3>1. RecordHalf(h, r)
            = [counted EXCEPT !.guilty = guilty, !.inFlight = {}, !.launchesDone = 0]
      BY <2>2 DEF RecordHalf, counted
    <3>. QED
      BY <3>1, <2>1 DEF HuntState
  <2>3. CASE h.queue = <<>>
    <3>1. RecordHalf(h, r) = FoldSplit(counted, guilty)
      BY <2>3 DEF RecordHalf, counted
    <3>. HIDE DEF guilty
    <3>. QED
      BY <3>1, <2>1, <1>3
  <2>. QED
    BY <2>2, <2>3
<1>. QED
  BY <1>1, <1>2, <1>4 DEF Record

\* Every reachable state of a hunt satisfies the invariant.
THEOREM HuntIsInvariant == Spec => []HuntInvariant
<1>1. Init => HuntInvariant
  BY BeginInv DEF Init, Begin, HuntInvariant
<1>2. HuntInvariant /\ [Next]_vars => HuntInvariant'
  <2>. SUFFICES ASSUME HuntInvariant, [Next]_vars PROVE HuntInvariant'
    OBVIOUS
  <2>1. CASE Dispatch
    BY <2>1, NextLiveSetInv, NextLiveSetSeries DEF Dispatch, HuntInvariant
  <2>2. ASSUME NEW reproduced \in BOOLEAN, Answer(reproduced) PROVE HuntInvariant'
    <3>1. hunt.inFlight \in CoreSets /\ clean \subseteq CoreSets /\ failed \subseteq CoreSets
      BY DEF HuntInvariant, HuntInv, HuntState
    <3>2. /\ clean' \in SUBSET CoreSets /\ failed' \in SUBSET CoreSets
          /\ clean \subseteq clean' /\ failed \subseteq failed'
          /\ reproduced => hunt.inFlight \in failed'
          /\ ~reproduced => hunt.inFlight \in clean'
      BY <2>2, <3>1 DEF Answer
    <3>. QED
      <4>1. HuntInv(Record(hunt, reproduced), clean', failed')
        BY <2>2, <3>2, RecordInv DEF Answer, HuntInvariant
      <4>2. /\ Record(hunt, reproduced).armed = hunt.armed
            /\ Record(hunt, reproduced).launchesDone = 0
        BY RecordEndsSeries DEF HuntInvariant, HuntInv
      <4>. QED
        BY <2>2, <4>1, <4>2 DEF Answer, HuntInvariant
  <2>3. CASE UNCHANGED vars
    BY <2>3 DEF vars, HuntInvariant
  <2>. QED
    BY <2>1, <2>2, <2>3 DEF Next
<1>. QED
  BY <1>1, <1>2, PTL DEF Spec

\* The fields of a hunt and its history keep their types and bounds.
THEOREM TypeCorrect == Spec => []TypeOK
<1>1. HuntInvariant => TypeOK
  BY DEF HuntInvariant, HuntInv, TypeOK
<1>. QED
  BY <1>1, HuntIsInvariant, PTL

\* Every reachable state is one that to_json accepts, so a hunt is never lost to
\* an InvalidHuntState.
THEOREM StatesWellFormed == Spec => []WellFormed
<1>1. ASSUME HuntInvariant PROVE WellFormed
  <2>. DEFINE C == clean
              F == failed
  <2>1. /\ hunt \in HuntState /\ hunt.candidates # {} /\ hunt.loaded # {}
        /\ hunt.armed = FALSE /\ hunt.launchesDone = 0 /\ hunt.candidates \in CoreSets
        /\ hunt.found \subseteq hunt.candidates /\ hunt.stage \in Stage
        /\ SplitDepth(hunt.candidates) \in Nat
    <3>1. hunt.candidates \in CoreSets
      BY <1>1 DEF HuntInvariant, HuntInv, HuntState
    <3>2. SplitDepth(hunt.candidates) \in Nat
      BY <3>1, SplitDepthType
    <3>. QED
      BY <1>1, <3>1, <3>2 DEF HuntInvariant, HuntInv, HuntState
  <2>2. /\ NonEmptySets(hunt.pending) /\ Disjoint(hunt.pending)
        /\ Members(hunt.pending) \subseteq hunt.candidates
        /\ Members(hunt.pending) \cap hunt.found = {}
        /\ Members(hunt.pending) \cap hunt.parent = {}
    BY <1>1 DEF HuntInvariant, HuntInv, PendingOK, NonEmptySets, Members
  <2>3. /\ NonEmptySets(<<>>) /\ Disjoint(<<>>) /\ Members(<<>>) = {}
        /\ \A S : S # {} => NonEmptySets(<<S>>)
        /\ \A S : Disjoint(<<S>>) /\ Members(<<S>>) = S
    BY DEF NonEmptySets, Disjoint, Members
  <2>4. CASE hunt.stage = "lead"
    <3>1. ValidLead(hunt)
      BY <1>1, <2>4 DEF HuntInvariant, HuntInv
    <3>2. /\ hunt.queue = <<>> /\ hunt.guilty = <<>> /\ hunt.parent = {} /\ hunt.found = {}
          /\ hunt.level = 0 /\ hunt.inFlight \subseteq hunt.candidates
      BY <3>1 DEF ValidLead, LeadProbe
    <3>. QED
      BY <2>1, <2>2, <2>3, <2>4, <3>1, <3>2 DEF WellFormed, ValidState, Terminal
  <2>5. CASE hunt.stage = "probe" /\ IdleOK(hunt)
    <3>1. /\ hunt.queue = <<>> /\ hunt.guilty = <<>> /\ hunt.parent = {} /\ hunt.inFlight = {}
          /\ hunt.level = 0 /\ hunt.pending # <<>> /\ Len(<<>>) = 0
      BY <2>5 DEF IdleOK
    <3>2. ValidProbe(hunt)
      BY <3>1 DEF ValidProbe
    <3>. QED
      BY <2>1, <2>2, <2>3, <2>5, <3>1, <3>2 DEF WellFormed, ValidState, Terminal
  <2>6. CASE hunt.stage = "probe" /\ SplitOK(hunt, clean, failed)
    <3>. DEFINE lower == LowerHalf(hunt.parent)
                upper == UpperHalf(hunt.parent)
    <3>1. /\ hunt.parent \in CoreSets /\ Cardinality(hunt.parent) >= 2
          /\ hunt.parent \subseteq hunt.candidates /\ hunt.parent \cap hunt.found = {}
          /\ hunt.level >= 1 /\ hunt.level <= SplitDepth(hunt.candidates)
      BY <2>1, <2>6 DEF SplitOK, HuntState
    <3>2. /\ lower # {} /\ upper # {} /\ lower \cap upper = {} /\ hunt.parent # {}
          /\ lower \subseteq hunt.parent /\ upper \subseteq hunt.parent
      BY <3>1, HalvesProper
    <3>. HIDE DEF lower, upper
    <3>3. \/ hunt.queue = <<upper>> /\ hunt.inFlight = lower /\ hunt.guilty = <<>>
          \/ hunt.queue = <<upper>> /\ hunt.inFlight = {} /\ hunt.guilty \in {<<>>, <<lower>>}
          \/ hunt.queue = <<>> /\ hunt.inFlight = upper /\ hunt.guilty \in {<<>>, <<lower>>}
          \/ hunt.queue = <<hunt.parent>> /\ hunt.inFlight = {} /\ hunt.guilty = <<>>
          \/ hunt.queue = <<>> /\ hunt.inFlight = hunt.parent /\ hunt.guilty = <<>>
      BY <2>6 DEF SplitOK, HalfOK, HalfDone, WholeOK, lower, upper
    <3>4. /\ hunt.queue \in {<<>>, <<upper>>, <<hunt.parent>>} /\ hunt.guilty \in {<<>>, <<lower>>}
          /\ hunt.inFlight \subseteq hunt.parent
          /\ hunt.queue # <<>> \/ hunt.inFlight # {}
          /\ Len(hunt.queue) < 2 /\ Len(hunt.guilty) < 2
      <4>1. \A S : <<S>> # <<>> /\ Len(<<S>>) = 1 /\ Len(<<>>) = 0
        OBVIOUS
      <4>2. /\ hunt.queue \in {<<>>, <<upper>>, <<hunt.parent>>} /\ hunt.guilty \in {<<>>, <<lower>>}
            /\ hunt.inFlight \in {{}, lower, upper, hunt.parent}
        BY <3>3, Zenon
      <4>3. hunt.queue # <<>> \/ hunt.inFlight # {}
        BY <3>2, <3>3, <4>1, Zenon
      <4>4. Len(hunt.queue) < 2 /\ Len(hunt.guilty) < 2
        <5>1. /\ Len(hunt.queue) = 0 \/ Len(hunt.queue) = 1
              /\ Len(hunt.guilty) = 0 \/ Len(hunt.guilty) = 1
          BY <4>1, <4>2, Zenon
        <5>2. 0 < 2 /\ 1 < 2
          OBVIOUS
        <5>. QED
          BY <5>1, <5>2, Zenon
      <4>. QED
        BY <4>2, <4>3, <4>4, <3>2
    <3>5. Members(ActiveHalves(hunt)) \subseteq hunt.parent /\ Disjoint(ActiveHalves(hunt))
      <4>0. /\ lower \in CoreSets /\ upper \in CoreSets
            /\ <<lower>> \in Seq(CoreSets) /\ <<upper>> \in Seq(CoreSets)
            /\ <<hunt.parent>> \in Seq(CoreSets) /\ <<>> \in Seq(CoreSets)
            /\ \A q \in Seq(CoreSets) : q \o <<>> = q /\ <<>> \o q = q
        <5>1. lower \in CoreSets /\ upper \in CoreSets
          BY <3>1, HalvesProper DEF lower, upper
        <5>. QED
          BY <5>1, <3>1
      <4>1. ActiveHalves(hunt) \in {<<upper, lower>>, <<lower, upper>>, <<lower>>, <<upper>>,
                                   <<hunt.parent>>}
        <5>. DEFINE probe == IF hunt.inFlight # {} THEN <<hunt.inFlight>> ELSE <<>>
        <5>1. CASE hunt.queue = <<upper>> /\ hunt.inFlight = lower /\ hunt.guilty = <<>>
          <6>1. (<<upper>> \o <<>>) \o <<lower>> = <<upper, lower>>
            BY <4>0, PairSequence
          <6>2. probe = <<lower>>
            BY <5>1, <3>2
          <6>. QED
            BY <5>1, <6>1, <6>2 DEF ActiveHalves
        <5>2. CASE hunt.queue = <<upper>> /\ hunt.inFlight = {} /\ hunt.guilty = <<>>
          <6>1. (<<upper>> \o <<>>) \o <<>> = <<upper>> /\ probe = <<>>
            BY <4>0, <5>2
          <6>. QED
            BY <5>2, <6>1 DEF ActiveHalves
        <5>3. CASE hunt.queue = <<upper>> /\ hunt.inFlight = {} /\ hunt.guilty = <<lower>>
          <6>1. <<upper, lower>> \in Seq(CoreSets) /\ probe = <<>>
            BY <4>0, <5>3
          <6>2. (<<upper>> \o <<lower>>) \o <<>> = <<upper, lower>>
            BY <4>0, <6>1, PairSequence
          <6>. QED
            BY <5>3, <6>1, <6>2 DEF ActiveHalves
        <5>4. CASE hunt.queue = <<>> /\ hunt.inFlight = upper /\ hunt.guilty = <<>>
          <6>1. (<<>> \o <<>>) \o <<upper>> = <<upper>> /\ probe = <<upper>>
            BY <4>0, <5>4, <3>2
          <6>. QED
            BY <5>4, <6>1 DEF ActiveHalves
        <5>5. CASE hunt.queue = <<>> /\ hunt.inFlight = upper /\ hunt.guilty = <<lower>>
          <6>1. (<<>> \o <<lower>>) \o <<upper>> = <<lower, upper>> /\ probe = <<upper>>
            BY <4>0, <5>5, <3>2, PairSequence
          <6>. QED
            BY <5>5, <6>1 DEF ActiveHalves
        <5>6. CASE hunt.queue = <<hunt.parent>> /\ hunt.inFlight = {} /\ hunt.guilty = <<>>
          <6>1. (<<hunt.parent>> \o <<>>) \o <<>> = <<hunt.parent>> /\ probe = <<>>
            BY <4>0, <5>6
          <6>. QED
            BY <5>6, <6>1 DEF ActiveHalves
        <5>7. CASE hunt.queue = <<>> /\ hunt.inFlight = hunt.parent /\ hunt.guilty = <<>>
          <6>1. (<<>> \o <<>>) \o <<hunt.parent>> = <<hunt.parent>> /\ probe = <<hunt.parent>>
            BY <4>0, <5>7, <3>2
          <6>. QED
            BY <5>7, <6>1 DEF ActiveHalves
        <5>. QED
          BY <3>3, <5>1, <5>2, <5>3, <5>4, <5>5, <5>6, <5>7
      <4>2. \A S, T : Members(<<S, T>>) = S \cup T /\ (S \cap T = {} => Disjoint(<<S, T>>))
        BY DEF Members, Disjoint
      <4>3. PICK a \in {<<upper, lower>>, <<lower, upper>>, <<lower>>, <<upper>>, <<hunt.parent>>} :
              ActiveHalves(hunt) = a
        BY <4>1, Zenon
      <4>4. Members(a) \subseteq hunt.parent /\ Disjoint(a)
        <5>0. /\ lower \cup upper \subseteq hunt.parent /\ upper \cup lower \subseteq hunt.parent
              /\ lower \cap upper = {} /\ upper \cap lower = {}
          BY <3>2
        <5>1. CASE a = <<upper, lower>>
          <6>1. Members(<<upper, lower>>) = upper \cup lower /\ Disjoint(<<upper, lower>>)
            BY <5>0, <4>2, Zenon
          <6>. QED
            BY <6>1, <5>0, <5>1, Zenon
        <5>2. CASE a = <<lower, upper>>
          <6>1. Members(<<lower, upper>>) = lower \cup upper /\ Disjoint(<<lower, upper>>)
            BY <5>0, <4>2, Zenon
          <6>. QED
            BY <6>1, <5>0, <5>2, Zenon
        <5>3. CASE a \in {<<lower>>, <<upper>>, <<hunt.parent>>}
          <6>1. PICK S \in {lower, upper, hunt.parent} : a = <<S>>
            BY <5>3, Zenon
          <6>. QED
            BY <6>1, <2>3, <3>2
        <5>. QED
          BY <5>1, <5>2, <5>3
      <4>. QED
        BY <4>3, <4>4, Zenon
    <3>6. ValidProbe(hunt)
      <4>1. hunt.pending # <<>> \/ hunt.queue # <<>> \/ hunt.inFlight # {}
        BY <3>4
      <4>. QED
        BY <4>1, <3>1, <3>2, <3>4, <3>5, <2>2 DEF ValidProbe
    <3>7. /\ NonEmptySets(hunt.queue) /\ Disjoint(hunt.queue) /\ Members(hunt.queue) \subseteq hunt.parent
          /\ NonEmptySets(hunt.guilty) /\ Disjoint(hunt.guilty)
          /\ Members(hunt.guilty) \subseteq hunt.parent
      BY <2>3, <3>2, <3>4
    <3>. QED
      BY <2>1, <2>2, <2>6, <3>1, <3>4, <3>6, <3>7 DEF WellFormed, ValidState, Terminal
  <2>7. CASE Terminal(hunt)
    <3>1. ValidTerminal(hunt) /\ hunt.level = 0 /\ hunt.stage \notin {"lead", "probe"}
      BY <1>1, <2>7 DEF HuntInvariant, HuntInv, Terminal
    <3>2. /\ hunt.queue = <<>> /\ hunt.guilty = <<>> /\ hunt.parent = {} /\ hunt.inFlight = {}
      BY <3>1 DEF ValidTerminal
    <3>. QED
      BY <2>1, <2>2, <2>3, <2>7, <3>1, <3>2 DEF WellFormed, ValidState
  <2>. QED
    BY <1>1, <2>1, <2>4, <2>5, <2>6, <2>7 DEF HuntInvariant, HuntInv, Stage, Terminal
<1>. QED
  BY <1>1, HuntIsInvariant, PTL

\* No core is convicted without the evidence a conviction takes, however the
\* probes answer.
THEOREM ConvictionsAreSound == Spec => []ConvictionSound
<1>1. HuntInvariant => ConvictionSound
  BY DEF HuntInvariant, HuntInv, ConvictionSound
<1>. QED
  BY <1>1, HuntIsInvariant, PTL

-----------------------------------------------------------------------------
(* What the sets in pending can still cost.  The sum is a function that    *)
(* recurs on the length of the sequence: that it exists, and what it does  *)
(* with the head of the sequence, follow from least counterexamples.       *)

\* f adds up the costs of the sets of p.
Adds(p, f) ==
  /\ f \in [0..Len(p) -> Int] /\ f[0] = 0
  /\ \A i \in 1..Len(p) : f[i] = f[i - 1] + SetCost(p[i])

\* What a set costs is an integer.
LEMMA CostType ==
  ASSUME NEW S \in CoreSets
  PROVE  SetCost(S) \in Int /\ SplitCost \in Nat /\ (S # {} => SetCost(S) \in Nat)
<1>1. Cardinality(S) \in Nat /\ IsFiniteSet(S) /\ MaxNoReproduce \in Nat
  BY CoreSetFinite, MaxNoReproduceAssumption
<1>2. SplitCost \in Nat
  BY <1>1 DEF SplitCost
<1>3. S # {} => Cardinality(S) - 1 \in Nat
  <2>1. S # {} => Cardinality(S) # 0
    BY <1>1, FS_EmptySet
  <2>. QED
    BY <2>1, <1>1
<1>4. \A a, b \in Int : a * b \in Int
  OBVIOUS
<1>5. \A a, b \in Nat : a * b \in Nat
  OBVIOUS
<1>. DEFINE n == Cardinality(S) - 1
<1>6. n \in Int /\ (S # {} => n \in Nat) /\ SplitCost \in Int
  BY <1>1, <1>2, <1>3
<1>. HIDE DEF n
<1>7. SplitCost * n \in Int /\ (S # {} => SplitCost * n \in Nat)
  BY <1>2, <1>4, <1>5, <1>6, Zenon
<1>. QED
  BY <1>2, <1>7 DEF SetCost, n

\* The costs of a sequence can be added up.
LEMMA AddsExists ==
  ASSUME NEW p \in Seq(CoreSets)
  PROVE  \E f : Adds(p, f)
<1>. DEFINE Some(n) == \E f \in [0..n -> Int] :
              f[0] = 0 /\ \A i \in 1..n : f[i] = f[i - 1] + SetCost(p[i])
            bad == {n \in Nat : n <= Len(p) /\ ~Some(n)}
<1>1. Len(p) \in Nat /\ \A i \in 1..Len(p) : SetCost(p[i]) \in Int
  BY CostType
<1>2. CASE bad = {}
  <2>1. Some(Len(p))
    <3>. HIDE DEF Some
    <3>. QED
      BY <1>1, <1>2
  <2>. QED
    BY <2>1 DEF Adds
<1>3. CASE bad # {}
  <2>1. PICK n \in bad : \A m \in bad : n <= m
    <3>1. bad \in SUBSET Nat
      OBVIOUS
    <3>. HIDE DEF bad
    <3>. QED
      BY <1>3, <3>1, NatMinimum
  <2>2. Some(0)
    <3>. DEFINE z == [i \in 0..0 |-> 0]
    <3>1. z \in [0..0 -> Int] /\ z[0] = 0 /\ 1..0 = {}
      OBVIOUS
    <3>. HIDE DEF z
    <3>. QED
      BY <3>1
  <2>3. n \in Nat /\ n <= Len(p) /\ ~Some(n) /\ n # 0
    <3>1. n \in Nat /\ n <= Len(p) /\ ~Some(n)
      BY <2>1
    <3>. QED
      BY <3>1, <2>2
  <2>4. n - 1 \in Nat /\ n - 1 <= Len(p) /\ n - 1 \notin bad
    <3>1. n - 1 \in Nat /\ n - 1 <= Len(p) /\ ~(n <= n - 1)
      BY <1>1, <2>3
    <3>. HIDE DEF bad
    <3>. QED
      BY <2>1, <3>1
  <2>5. PICK f \in [0..(n - 1) -> Int] :
          f[0] = 0 /\ \A i \in 1..(n - 1) : f[i] = f[i - 1] + SetCost(p[i])
    BY <2>4
  <2>. DEFINE g == [i \in 0..n |-> IF i = n THEN f[n - 1] + SetCost(p[n]) ELSE f[i]]
  <2>6. g \in [0..n -> Int]
    <3>1. f[n - 1] + SetCost(p[n]) \in Int
      BY <1>1, <2>3, <2>4, <2>5
    <3>2. \A i \in 0..n : i # n => f[i] \in Int
      BY <2>3, <2>5
    <3>. QED
      BY <3>1, <3>2
  <2>7. g[0] = 0
    BY <2>3, <2>5
  <2>8. \A i \in 1..n : g[i] = g[i - 1] + SetCost(p[i])
    <3>. SUFFICES ASSUME NEW i \in 1..n PROVE g[i] = g[i - 1] + SetCost(p[i])
      OBVIOUS
    <3>1. i \in 0..n /\ i - 1 \in 0..n /\ i - 1 # n
      BY <2>3
    <3>2. g[i - 1] = f[i - 1]
      BY <3>1
    <3>3. CASE i = n
      BY <3>1, <3>2, <3>3
    <3>4. CASE i # n
      <4>1. g[i] = f[i] /\ i \in 1..(n - 1)
        BY <3>1, <3>4, <2>3
      <4>. QED
        BY <3>2, <4>1, <2>5
    <3>. QED
      BY <3>3, <3>4
  <2>. HIDE DEF g
  <2>. QED
    BY <2>3, <2>6, <2>7, <2>8
<1>. QED
  BY <1>2, <1>3

\* CostOf is that sum.
LEMMA CostAdds ==
  ASSUME NEW p \in Seq(CoreSets), NEW f, Adds(p, f)
  PROVE  CostOf(p) = f[Len(p)]
<1>. DEFINE Body(q) == [i \in 0..Len(p) |-> IF i = 0 THEN 0 ELSE q[i - 1] + SetCost(p[i])]
            c == CHOOSE q : q = Body(q)
<1>1. Len(p) \in Nat /\ f \in [0..Len(p) -> Int] /\ f[0] = 0
      /\ \A i \in 1..Len(p) : f[i] = f[i - 1] + SetCost(p[i])
  BY DEF Adds
<1>2. f = Body(f)
  <2>1. \A i \in 0..Len(p) : f[i] = IF i = 0 THEN 0 ELSE f[i - 1] + SetCost(p[i])
    BY <1>1
  <2>. QED
    BY <1>1, <2>1
<1>3. c = Body(c)
  BY <1>2
<1>4. CostOf(p) = c[Len(p)]
  BY DEF CostOf
<1>. HIDE DEF c
<1>5. c[0] = 0 /\ \A i \in 1..Len(p) : c[i] = c[i - 1] + SetCost(p[i])
  BY <1>1, <1>3
<1>. DEFINE bad == {n \in Nat : n <= Len(p) /\ f[n] # c[n]}
<1>6. SUFFICES ASSUME bad # {} PROVE FALSE
  BY <1>1, <1>4
<1>7. PICK n \in bad : \A m \in bad : n <= m
  <2>1. bad \in SUBSET Nat
    OBVIOUS
  <2>. HIDE DEF bad
  <2>. QED
    BY <1>6, <2>1, NatMinimum
<1>8. n \in Nat /\ n <= Len(p) /\ f[n] # c[n] /\ n # 0
  <2>1. n \in Nat /\ n <= Len(p) /\ f[n] # c[n]
    BY <1>7
  <2>. QED
    BY <1>1, <1>5, <2>1
<1>9. n \in 1..Len(p) /\ n - 1 \in Nat /\ n - 1 <= Len(p) /\ ~(n <= n - 1)
  BY <1>1, <1>8
<1>10. n - 1 \notin bad
  <2>. HIDE DEF bad
  <2>. QED
    BY <1>7, <1>9
<1>. QED
  BY <1>1, <1>5, <1>8, <1>9, <1>10

\* A sequence costs an integer, and the empty one nothing.
LEMMA CostOfNone == CostOf(<<>>) = 0
<1>. DEFINE f == [i \in 0..0 |-> 0]
<1>1. <<>> \in Seq(CoreSets) /\ Len(<<>>) = 0
  OBVIOUS
<1>2. f \in [0..0 -> Int] /\ f[0] = 0 /\ 1..0 = {}
  OBVIOUS
<1>. HIDE DEF f
<1>3. Adds(<<>>, f)
  BY <1>1, <1>2 DEF Adds
<1>. QED
  BY <1>1, <1>2, <1>3, CostAdds

\* A set put in front of a sequence adds its own cost.
LEMMA CostOfFront ==
  ASSUME NEW p \in Seq(CoreSets), NEW S \in CoreSets
  PROVE  /\ CostOf(p) \in Int
         /\ <<S>> \o p \in Seq(CoreSets) /\ CostOf(<<S>> \o p) = SetCost(S) + CostOf(p)
<1>. DEFINE q == <<S>> \o p
<1>1. PICK f : Adds(p, f)
  BY AddsExists
<1>2. /\ Len(p) \in Nat /\ f \in [0..Len(p) -> Int] /\ f[0] = 0 /\ f[Len(p)] \in Int
      /\ \A i \in 1..Len(p) : f[i] = f[i - 1] + SetCost(p[i])
      /\ CostOf(p) = f[Len(p)] /\ SetCost(S) \in Int
  <2>1. CostOf(p) = f[Len(p)]
    BY <1>1, CostAdds
  <2>2. /\ Len(p) \in Nat /\ f \in [0..Len(p) -> Int] /\ f[0] = 0
        /\ \A i \in 1..Len(p) : f[i] = f[i - 1] + SetCost(p[i])
    BY <1>1 DEF Adds
  <2>. QED
    BY <2>1, <2>2, CostType, SMTT(60)
<1>2a. Len(p) \in Nat /\ SetCost(S) \in Int /\ f[0] = 0 /\ \A i \in 0..Len(p) : f[i] \in Int
  BY <1>2
<1>3. /\ q \in Seq(CoreSets) /\ Len(q) = Len(p) + 1 /\ q[1] = S
      /\ \A i \in 2..Len(q) : i - 1 \in 1..Len(p) /\ q[i] = p[i - 1]
  OBVIOUS
<1>. HIDE DEF q
<1>. DEFINE g == [i \in 0..Len(q) |-> IF i = 0 THEN 0 ELSE SetCost(S) + f[i - 1]]
<1>4. g \in [0..Len(q) -> Int] /\ g[0] = 0
  <2>1. ASSUME NEW i \in 0..Len(q), i # 0 PROVE SetCost(S) + f[i - 1] \in Int
    <3>1. i - 1 \in 0..Len(p)
      BY <1>2a, <1>3, <2>1
    <3>2. f[i - 1] \in Int
      BY <1>2a, <3>1
    <3>. QED
      BY <1>2a, <3>2
  <2>. QED
    BY <2>1, <1>2, <1>3
<1>5. \A i \in 1..Len(q) : g[i] = g[i - 1] + SetCost(q[i])
  <2>. SUFFICES ASSUME NEW i \in 1..Len(q) PROVE g[i] = g[i - 1] + SetCost(q[i])
    OBVIOUS
  <2>1. i \in 0..Len(q) /\ i - 1 \in 0..Len(q) /\ i # 0 /\ g[i] = SetCost(S) + f[i - 1]
    BY <1>2, <1>3
  <2>2. CASE i = 1
    <3>1. g[i - 1] = 0 /\ f[i - 1] = 0
      BY <1>2, <2>1, <2>2
    <3>. QED
      BY <1>2, <1>3, <2>1, <2>2, <3>1
  <2>3. CASE i # 1
    <3>1. i - 1 \in 1..Len(p) /\ q[i] = p[i - 1] /\ i - 1 # 0
      BY <1>2, <1>3, <2>1, <2>3
    <3>2. g[i - 1] = SetCost(S) + f[i - 1 - 1]
      BY <2>1, <3>1
    <3>3. f[i - 1] = f[i - 1 - 1] + SetCost(p[i - 1])
      BY <1>2, <3>1
    <3>4. f[i - 1 - 1] \in Int /\ SetCost(p[i - 1]) \in Int
      <4>1. i - 1 - 1 \in 0..Len(p)
        BY <1>2a, <3>1
      <4>2. p[i - 1] \in CoreSets
        BY <3>1
      <4>3. SetCost(p[i - 1]) \in Int
        BY <4>2, CostType
      <4>. QED
        BY <1>2a, <4>1, <4>3
    <3>. QED
      BY <1>2a, <2>1, <3>1, <3>2, <3>3, <3>4
  <2>. QED
    BY <2>2, <2>3
<1>6. g[Len(q)] = SetCost(S) + f[Len(p)]
  BY <1>2, <1>3
<1>. HIDE DEF g
<1>7. CostOf(q) = g[Len(q)]
  BY <1>3, <1>4, <1>5, CostAdds DEF Adds
<1>. QED
  BY <1>2, <1>3, <1>6, <1>7 DEF q

\* A sequence of nonempty sets costs at least nothing; the lone sets at its head
\* cost nothing, and what follows them costs the first wide set and the rest.
LEMMA CostOfSplit ==
  ASSUME NEW p \in Seq(CoreSets), \A i \in 1..Len(p) : p[i] # {}
  PROVE  /\ CostOf(p) \in Nat
         /\ FirstSplittable(p) > Len(p) => CostOf(p) = 0
         /\ \A i \in 1..Len(p) : SetCost(p[i]) <= CostOf(p)
         /\ FirstSplittable(p) <= Len(p) =>
              CostOf(p) = SetCost(p[FirstSplittable(p)])
                            + CostOf(SubSeq(p, FirstSplittable(p) + 1, Len(p)))
<1>. DEFINE k == FirstSplittable(p)
<1>1. PICK f : Adds(p, f)
  BY AddsExists
<1>2. /\ Len(p) \in Nat /\ f \in [0..Len(p) -> Int] /\ f[0] = 0 /\ f[Len(p)] \in Int
      /\ \A i \in 1..Len(p) : f[i] = f[i - 1] + SetCost(p[i])
      /\ \A i \in 1..Len(p) : SetCost(p[i]) \in Nat
      /\ CostOf(p) = f[Len(p)]
  <2>1. CostOf(p) = f[Len(p)]
    BY <1>1, CostAdds
  <2>2. /\ Len(p) \in Nat /\ f \in [0..Len(p) -> Int] /\ f[0] = 0
        /\ \A i \in 1..Len(p) : f[i] = f[i - 1] + SetCost(p[i])
    BY <1>1 DEF Adds
  <2>3. \A i \in 1..Len(p) : SetCost(p[i]) \in Nat
    BY CostType
  <2>. QED
    BY <2>1, <2>2, <2>3
<1>2a. Len(p) \in Nat /\ \A i \in 0..Len(p) : f[i] \in Int
  BY <1>2
<1>3. /\ k \in 1..(Len(p) + 1)
      /\ \A j \in 1..(k - 1) : j \in 1..Len(p) /\ SetCost(p[j]) = 0
  <2>1. /\ k \in 1..(Len(p) + 1)
        /\ \A j \in 1..(k - 1) : j \in 1..Len(p) /\ Cardinality(p[j]) = 1
    BY FirstSplittableFirst
  <2>2. ASSUME NEW j \in 1..(k - 1) PROVE SetCost(p[j]) = 0
    <3>1. Cardinality(p[j]) = 1 /\ SplitCost \in Nat
      BY <2>1, MaxNoReproduceAssumption DEF SplitCost
    <3>. QED
      BY <3>1 DEF SetCost
  <2>. QED
    BY <2>1, <2>2
<1>. HIDE DEF k
\* No part of the sum falls below an earlier one.
<1>4. \A m, n \in 0..Len(p) : m <= n => f[m] <= f[n]
  <2>. SUFFICES ASSUME NEW m \in 0..Len(p)
                PROVE  \A n \in 0..Len(p) : m <= n => f[m] <= f[n]
    OBVIOUS
  <2>. DEFINE bad == {n \in Nat : n <= Len(p) /\ m <= n /\ ~(f[m] <= f[n])}
  <2>1. SUFFICES ASSUME bad # {} PROVE FALSE
    <3>1. \A n \in 0..Len(p) : n \in Nat /\ n <= Len(p)
      BY <1>2a
    <3>2. \A n \in 0..Len(p) : m <= n => f[m] <= f[n] \/ n \in bad
      BY <3>1, Zenon
    <3>. QED
      BY <3>2, Zenon
  <2>2. PICK n \in bad : \A l \in bad : n <= l
    <3>1. bad \in SUBSET Nat
      OBVIOUS
    <3>. HIDE DEF bad
    <3>. QED
      BY <2>1, <3>1, NatMinimum
  <2>3. n \in Nat /\ n <= Len(p) /\ m <= n /\ ~(f[m] <= f[n])
    BY <2>2
  <2>4. n # m /\ n - 1 \in Nat /\ m <= n - 1 /\ n - 1 <= Len(p) /\ ~(n <= n - 1)
    <3>1. f[m] \in Int
      BY <1>2
    <3>2. n # m
      BY <2>3, <3>1
    <3>. QED
      BY <1>2, <2>3, <3>2
  <2>5. n - 1 \notin bad
    <3>. HIDE DEF bad
    <3>. QED
      BY <2>2, <2>4
  <2>6. f[m] <= f[n - 1]
    BY <2>4, <2>5
  <2>7. n \in 1..Len(p) /\ f[m] \in Int /\ f[n - 1] \in Int
    <3>1. n \in 1..Len(p) /\ n - 1 \in 0..Len(p)
      BY <1>2a, <2>3, <2>4
    <3>. QED
      BY <1>2a, <3>1
  <2>8. f[n] = f[n - 1] + SetCost(p[n]) /\ SetCost(p[n]) \in Nat
    BY <1>2, <2>7
  <2>. QED
    BY <2>3, <2>6, <2>7, <2>8
<1>5. CostOf(p) \in Nat
  <2>1. f[0] <= f[Len(p)]
    BY <1>2, <1>4
  <2>. QED
    BY <1>2, <2>1
<1>6. \A i \in 1..Len(p) : SetCost(p[i]) <= CostOf(p)
  <2>. SUFFICES ASSUME NEW i \in 1..Len(p) PROVE SetCost(p[i]) <= CostOf(p)
    OBVIOUS
  <2>1. i \in 0..Len(p) /\ i - 1 \in 0..Len(p) /\ 0 \in 0..Len(p) /\ Len(p) \in 0..Len(p)
        /\ 0 <= i - 1 /\ i <= Len(p)
    BY <1>2
  <2>2. f[0] <= f[i - 1] /\ f[i] <= f[Len(p)]
    BY <1>4, <2>1
  <2>3. f[i - 1] \in Int /\ SetCost(p[i]) \in Nat /\ f[i] = f[i - 1] + SetCost(p[i])
    BY <1>2, <2>1
  <2>. QED
    BY <1>2, <2>2, <2>3
\* The lone sets add nothing.
<1>7. f[k - 1] = 0 /\ k - 1 \in 0..Len(p)
  <2>1. k - 1 \in 0..Len(p)
    BY <1>2, <1>3
  <2>. DEFINE bad == {n \in Nat : n <= k - 1 /\ f[n] # 0}
  <2>2. SUFFICES ASSUME bad # {} PROVE FALSE
    BY <2>1
  <2>3. PICK n \in bad : \A l \in bad : n <= l
    <3>1. bad \in SUBSET Nat
      OBVIOUS
    <3>. HIDE DEF bad
    <3>. QED
      BY <2>2, <3>1, NatMinimum
  <2>4. n \in Nat /\ n <= k - 1 /\ f[n] # 0 /\ n # 0
    <3>1. n \in Nat /\ n <= k - 1 /\ f[n] # 0
      BY <2>3
    <3>. QED
      BY <3>1, <1>2
  <2>5. n \in 1..(k - 1) /\ n - 1 \in Nat /\ n - 1 <= k - 1 /\ ~(n <= n - 1)
    BY <2>1, <2>4
  <2>6. n - 1 \notin bad
    <3>. HIDE DEF bad
    <3>. QED
      BY <2>3, <2>5
  <2>7. f[n - 1] = 0
    BY <2>5, <2>6
  <2>8. n \in 1..Len(p) /\ SetCost(p[n]) = 0
    BY <1>3, <2>5
  <2>. QED
    BY <1>2, <2>4, <2>7, <2>8
<1>8. k > Len(p) => CostOf(p) = 0
  <2>1. k > Len(p) => k - 1 = Len(p)
    <3>1. Len(p) \in Nat /\ k \in 1..(Len(p) + 1)
      BY <1>2a, <1>3
    <3>. QED
      BY <3>1
  <2>. QED
    BY <1>2, <1>7, <2>1
<1>9. ASSUME k <= Len(p)
      PROVE  CostOf(p) = SetCost(p[k]) + CostOf(SubSeq(p, k + 1, Len(p)))
  <2>. DEFINE q == SubSeq(p, k + 1, Len(p))
  <2>1. k \in 1..Len(p)
    BY <1>2, <1>3, <1>9
  <2>2. /\ q \in Seq(CoreSets) /\ Len(q) = Len(p) - k
        /\ \A i \in 1..Len(q) : i + k \in 1..Len(p) /\ q[i] = p[i + k]
    BY <2>1, RestOfSequence
  <2>. HIDE DEF q
  <2>. DEFINE g == [i \in 0..Len(q) |-> f[i + k] - f[k]]
  <2>2a. Len(q) = Len(p) - k
    BY <2>2
  <2>3. \A i \in 0..Len(q) : i + k \in 0..Len(p) /\ f[i + k] \in Int
    <3>1. \A i \in 0..Len(q) : i + k \in 0..Len(p)
      BY <1>2a, <2>1, <2>2a
    <3>. QED
      BY <1>2a, <3>1
  <2>4. f[k] \in Int /\ k \in Nat /\ Len(q) \in Nat
    <3>1. k \in 0..Len(p) /\ k \in Nat /\ Len(q) \in Nat
      BY <1>2a, <2>1, <2>2a
    <3>. QED
      BY <1>2a, <3>1
  <2>5. g \in [0..Len(q) -> Int] /\ g[0] = 0
    BY <2>3, <2>4
  <2>6. \A i \in 1..Len(q) : g[i] = g[i - 1] + SetCost(q[i])
    <3>. SUFFICES ASSUME NEW i \in 1..Len(q) PROVE g[i] = g[i - 1] + SetCost(q[i])
      OBVIOUS
    <3>1. i \in 0..Len(q) /\ i - 1 \in 0..Len(q) /\ i + k \in 1..Len(p)
          /\ (i + k) - 1 = (i - 1) + k
      BY <2>1, <2>2, <2>4
    <3>2. g[i] = f[i + k] - f[k] /\ g[i - 1] = f[(i - 1) + k] - f[k]
      BY <3>1
    <3>3. f[i + k] = f[(i - 1) + k] + SetCost(q[i])
      BY <1>2, <2>2, <3>1
    <3>4. f[(i - 1) + k] \in Int /\ SetCost(q[i]) \in Int
      <4>1. q[i] \in CoreSets
        BY <2>2
      <4>. QED
        BY <2>3, <3>1, <4>1, CostType
    <3>. DEFINE here == f[i + k]
                before == f[(i - 1) + k]
                cost == SetCost(q[i])
                start == f[k]
    <3>5. /\ g[i] = here - start /\ g[i - 1] = before - start /\ here = before + cost
          /\ before \in Int /\ cost \in Int /\ start \in Int
      BY <2>4, <3>2, <3>3, <3>4, Zenon
    <3>. HIDE DEF g, here, before, cost, start
    <3>6. g[i] = g[i - 1] + cost
      BY <3>5
    <3>. QED
      BY <3>6 DEF cost
  <2>7. g[Len(q)] = f[Len(p)] - f[k]
    BY <1>2, <2>1, <2>2
  <2>. HIDE DEF g
  <2>8. CostOf(q) = g[Len(q)]
    BY <2>2, <2>5, <2>6, CostAdds DEF Adds
  <2>9. f[k] = SetCost(p[k]) /\ SetCost(p[k]) \in Int
    BY <1>2, <1>7, <2>1
  <2>. QED
    BY <1>2, <2>4, <2>7, <2>8, <2>9 DEF q
<1>. QED
  BY <1>5, <1>6, <1>8, <1>9 DEF k

\* The halves of a split cost one split less than their parent.
LEMMA CostOfHalves ==
  ASSUME NEW S \in CoreSets, Cardinality(S) >= 2
  PROVE  /\ SetCost(LowerHalf(S)) \in Nat /\ SetCost(UpperHalf(S)) \in Nat
         /\ SetCost(S) = SetCost(LowerHalf(S)) + SetCost(UpperHalf(S)) + SplitCost
<1>. DEFINE lower == LowerHalf(S)
            upper == UpperHalf(S)
            l == Cardinality(lower)
            u == Cardinality(upper)
            n == Cardinality(S)
<1>1. /\ lower \in CoreSets /\ upper \in CoreSets /\ lower # {} /\ upper # {}
      /\ lower \cap upper = {} /\ lower \cup upper = S
  BY HalvesProper
<1>2. SetCost(lower) \in Nat /\ SetCost(upper) \in Nat /\ SplitCost \in Nat
  BY <1>1, CostType
<1>3. IsFiniteSet(lower) /\ IsFiniteSet(upper) /\ l \in Nat /\ u \in Nat
  BY <1>1, CoreSetFinite
<1>. HIDE DEF lower, upper
<1>4. n = l + u
  <2>1. Cardinality(lower \cap upper) = 0
    BY <1>1, FS_EmptySet
  <2>2. n = l + u - Cardinality(lower \cap upper)
    BY <1>1, <1>3, FS_Union
  <2>. QED
    BY <1>3, <2>1, <2>2
<1>. HIDE DEF l, u, n
<1>5. \A c, a, b \in Nat : c * ((a + b) - 1) = c * (a - 1) + c * (b - 1) + c
  OBVIOUS
<1>6. SplitCost * (n - 1) = SplitCost * (l - 1) + SplitCost * (u - 1) + SplitCost
  BY <1>2, <1>3, <1>4, <1>5
<1>. QED
  BY <1>2, <1>6 DEF SetCost, n, l, u, lower, upper

\* A set that can be split costs a split at least, which pays for every round.
LEMMA CostOfWide ==
  ASSUME NEW S \in CoreSets, Cardinality(S) >= 2
  PROVE  SetCost(S) \in Nat /\ SetCost(S) >= 2 * MaxNoReproduce + 1
<1>. DEFINE lower == SetCost(LowerHalf(S))
            upper == SetCost(UpperHalf(S))
<1>1. lower \in Nat /\ upper \in Nat /\ SetCost(S) = lower + upper + SplitCost
  BY CostOfHalves
<1>. HIDE DEF lower, upper
<1>. QED
  BY <1>1, MaxNoReproduceAssumption DEF SplitCost

-----------------------------------------------------------------------------
(* The budget of a hunt *)

\* What keeps the clean rounds on account: a guilty half has reset them, and
\* between two splits they belong to a set of pending that will be split again.
OnAccount(h) ==
  /\ h.guilty # <<>> => h.noReproduce = 0
  /\ ~Terminal(h) /\ h.parent = {} /\ h.noReproduce # 0 =>
       \E i \in 1..Len(h.pending) : Cardinality(h.pending[i]) # 1

\* What waits costs a natural number of probes.
LEMMA WaitingCost ==
  ASSUME NEW h, NEW C, NEW F, HuntInv(h, C, F)
  PROVE  /\ h \in HuntState /\ h.pending \in Seq(CoreSets) /\ CostOf(h.pending) \in Nat
         /\ \A i \in 1..Len(h.pending) : h.pending[i] # {} /\ h.pending[i] \in CoreSets
         /\ h.noReproduce \in Nat /\ MaxNoReproduce \in Nat \ {0}
         /\ h.parent \in CoreSets /\ h.inFlight \in CoreSets
<1>1. /\ h \in HuntState /\ h.pending \in Seq(CoreSets)
      /\ \A i \in 1..Len(h.pending) : h.pending[i] # {}
  BY DEF HuntInv, HuntState, PendingOK
<1>2. CostOf(h.pending) \in Nat
  BY <1>1, CostOfSplit
<1>3. h.noReproduce \in Nat /\ MaxNoReproduce \in Nat \ {0}
  BY <1>1, MaxNoReproduceAssumption DEF HuntState
<1>4. h.parent \in CoreSets /\ h.inFlight \in CoreSets
  BY <1>1 DEF HuntState
<1>. QED
  BY <1>1, <1>2, <1>3, <1>4

\* Between two splits the budget is what waits, less the rounds on account.
LEMMA IdleBudget ==
  ASSUME NEW h, NEW C, NEW F, HuntInv(h, C, F), OnAccount(h), h.parent = {},
         h.stage \in {"lead", "probe"}
  PROVE  /\ ProbesLeft(h) = CostOf(h.pending) - 2 * h.noReproduce
                              + (IF h.stage = "lead" THEN 1 ELSE 0)
         /\ 2 * h.noReproduce <= CostOf(h.pending)
<1>1. /\ h.pending \in Seq(CoreSets) /\ CostOf(h.pending) \in Nat
      /\ \A i \in 1..Len(h.pending) : h.pending[i] # {} /\ h.pending[i] \in CoreSets
      /\ h.noReproduce \in Nat /\ MaxNoReproduce \in Nat
  BY WaitingCost
<1>2. ~Terminal(h)
  BY DEF Terminal
<1>3. ProbesLeft(h) = CostOf(h.pending) + (-(2 * h.noReproduce))
                        + (IF h.stage = "lead" THEN 1 ELSE 0)
  <2>1. SplitLeft(h) = -(2 * h.noReproduce)
    BY DEF SplitLeft
  <2>. QED
    BY <1>2, <2>1 DEF ProbesLeft
<1>4. 2 * h.noReproduce <= CostOf(h.pending)
  <2>1. CASE h.noReproduce = 0
    BY <1>1, <2>1
  <2>2. CASE h.noReproduce # 0
    <3>1. h.noReproduce <= MaxNoReproduce
      BY DEF HuntInv, HuntState
    <3>2. PICK i \in 1..Len(h.pending) : Cardinality(h.pending[i]) # 1
      BY <1>2, <2>2 DEF OnAccount
    <3>3. Cardinality(h.pending[i]) >= 2
      <4>1. h.pending[i] \in CoreSets /\ h.pending[i] # {}
        BY <1>1
      <4>2. Cardinality(h.pending[i]) \in Nat /\ Cardinality(h.pending[i]) # 0
        BY <4>1, CoreSetFinite, FS_EmptySet
      <4>. QED
        BY <3>2, <4>2
    <3>4. SetCost(h.pending[i]) \in Nat /\ SetCost(h.pending[i]) >= 2 * MaxNoReproduce + 1
      BY <1>1, <3>3, CostOfWide
    <3>5. SetCost(h.pending[i]) <= CostOf(h.pending)
      BY <1>1, CostOfSplit
    <3>. DEFINE cost == SetCost(h.pending[i])
                all == CostOf(h.pending)
    <3>6. cost \in Nat /\ all \in Nat /\ cost >= 2 * MaxNoReproduce + 1 /\ cost <= all
      BY <1>1, <3>4, <3>5
    <3>. HIDE DEF cost, all
    <3>7. 2 * h.noReproduce <= all
      BY <1>1, <3>1, <3>6
    <3>. QED
      BY <3>7 DEF all
  <2>. QED
    BY <2>1, <2>2
<1>. DEFINE all == CostOf(h.pending)
<1>5. /\ ProbesLeft(h) = all + (-(2 * h.noReproduce)) + (IF h.stage = "lead" THEN 1 ELSE 0)
      /\ all \in Nat /\ h.noReproduce \in Nat
  BY <1>1, <1>3
<1>. HIDE DEF all
<1>6. ProbesLeft(h) = all - 2 * h.noReproduce + (IF h.stage = "lead" THEN 1 ELSE 0)
  BY <1>5
<1>. QED
  BY <1>4, <1>6 DEF all

\* The budget of an open split, by its position.
LEMMA SplitBudget ==
  ASSUME NEW h, NEW C, NEW F, HuntInv(h, C, F), OnAccount(h), h.stage = "probe",
         SplitOK(h, C, F)
  PROVE  /\ HalfOK(h, C, F) /\ h.guilty = <<>> =>
              ProbesLeft(h) = CostOf(h.pending) + (SetCost(h.parent) - 2 * h.noReproduce
                                - (IF h.queue # <<>> /\ h.inFlight # {} THEN 0 ELSE 1))
         /\ HalfOK(h, C, F) /\ h.guilty # <<>> =>
              /\ h.noReproduce = 0
              /\ ProbesLeft(h) = CostOf(h.pending) + (1 + SetCost(LowerHalf(h.parent))
                                                        + SetCost(UpperHalf(h.parent)))
         /\ WholeOK(h, C) => ProbesLeft(h) = CostOf(h.pending) + 1
<1>. DEFINE lower == LowerHalf(h.parent)
            upper == UpperHalf(h.parent)
<1>1. /\ h.parent \in CoreSets /\ Cardinality(h.parent) >= 2
  BY WaitingCost DEF SplitOK
<1>2. /\ lower # {} /\ upper # {} /\ lower # h.parent /\ upper # h.parent /\ h.parent # {}
  BY <1>1, HalvesProper
<1>3. ~Terminal(h) /\ h.stage # "lead"
  BY DEF Terminal
<1>. DEFINE inQuestion == {h.inFlight} \cup {h.queue[i] : i \in 1..Len(h.queue)}
            all == CostOf(h.pending)
<1>4. ProbesLeft(h) = all + SplitLeft(h)
  <2>1. CostOf(h.pending) \in Nat
    BY WaitingCost
  <2>2. ProbesLeft(h) = all + SplitLeft(h) + 0
    BY <1>3 DEF ProbesLeft
  <2>3. SplitLeft(h) \in Int => all + SplitLeft(h) + 0 = all + SplitLeft(h)
    BY <2>1
  <2>4. SplitLeft(h) \in Int
    <3>1. /\ SetCost(lower) \in Int /\ SetCost(upper) \in Int /\ SetCost(h.parent) \in Int
          /\ h.noReproduce \in Nat
      BY <1>1, CostOfHalves, CostOfWide, WaitingCost
    <3>. HIDE DEF lower, upper
    <3>2. /\ 1 + SetCost(lower) + SetCost(upper) \in Int
          /\ SetCost(h.parent) - 2 * h.noReproduce - 0 \in Int
          /\ SetCost(h.parent) - 2 * h.noReproduce - 1 \in Int
          /\ -(2 * h.noReproduce) \in Int /\ 1 \in Int
      BY <3>1
    <3>. QED
      BY <3>2, Zenon DEF SplitLeft, lower, upper
  <2>. QED
    BY <2>2, <2>3, <2>4
<1>5. ASSUME HalfOK(h, C, F)
      PROVE  h.parent \notin inQuestion /\ h.queue # <<h.parent>>
  <2>1. h.queue \in {<<>>, <<upper>>} /\ h.inFlight \in {{}, lower, upper}
    BY <1>5 DEF HalfOK
  <2>. HIDE DEF lower, upper
  <2>2. \A i \in 1..Len(h.queue) : h.queue[i] # h.parent
    BY <1>2, <2>1
  <2>3. h.queue # <<h.parent>>
    <3>1. 1 \in 1..Len(<<h.parent>>) /\ <<h.parent>>[1] = h.parent
      OBVIOUS
    <3>. QED
      BY <2>2, <3>1, Zenon
  <2>4. h.inFlight # h.parent
    BY <1>2, <2>1, Zenon
  <2>. QED
    BY <2>2, <2>3, <2>4
<1>6. ASSUME HalfOK(h, C, F), h.guilty = <<>>
      PROVE  SplitLeft(h) = SetCost(h.parent) - 2 * h.noReproduce
                              - (IF h.queue # <<>> /\ h.inFlight # {} THEN 0 ELSE 1)
  <2>1. h.parent \notin inQuestion /\ h.parent # {} /\ h.guilty = <<>>
    BY <1>2, <1>5, <1>6
  <2>. HIDE DEF lower, upper
  <2>. QED
    BY <2>1 DEF SplitLeft
<1>7. ASSUME HalfOK(h, C, F), h.guilty # <<>>
      PROVE  h.noReproduce = 0 /\ SplitLeft(h) = 1 + SetCost(lower) + SetCost(upper)
  <2>1. h.parent \notin inQuestion /\ h.parent # {} /\ h.guilty # <<>> /\ h.queue # <<h.parent>>
        /\ h.parent # h.inFlight
    BY <1>2, <1>5, <1>7
  <2>2. h.noReproduce = 0
    BY <1>7 DEF OnAccount
  <2>. QED
    BY <2>1, <2>2, Zenon DEF SplitLeft
<1>8. ASSUME WholeOK(h, C)
      PROVE  SplitLeft(h) = 1
  <2>1. h.parent \in inQuestion
    <3>1. CASE h.inFlight = h.parent
      BY <3>1
    <3>2. CASE h.queue = <<h.parent>>
      <4>1. 1 \in 1..Len(h.queue) /\ h.queue[1] = h.parent
        BY <3>2
      <4>. QED
        BY <4>1
    <3>. QED
      BY <1>8, <3>1, <3>2 DEF WholeOK
  <2>2. h.guilty = <<>>
    BY <1>8 DEF WholeOK
  <2>. QED
    BY <1>2, <2>1, <2>2 DEF SplitLeft
<1>. QED
  BY <1>4, <1>6, <1>7, <1>8

\* No state owes a negative number of probes.
LEMMA BudgetNatural ==
  ASSUME NEW h, NEW C, NEW F, HuntInv(h, C, F), OnAccount(h)
  PROVE  ProbesLeft(h) \in Nat
<1>1. h.stage \in Stage
  BY DEF HuntInv, HuntState
<1>2. CASE Terminal(h)
  BY <1>2 DEF ProbesLeft
<1>. DEFINE all == CostOf(h.pending)
            n == h.noReproduce
<1>3. all \in Nat /\ n \in Nat /\ MaxNoReproduce \in Nat
  BY WaitingCost
<1>4. CASE h.stage = "lead" \/ (h.stage = "probe" /\ IdleOK(h))
  <2>1. h.parent = {} /\ h.stage \in {"lead", "probe"}
    BY <1>4 DEF HuntInv, ValidLead, IdleOK
  <2>2. /\ ProbesLeft(h) = all - 2 * n + (IF h.stage = "lead" THEN 1 ELSE 0)
        /\ 2 * n <= all
    BY <2>1, IdleBudget
  <2>. HIDE DEF all, n
  <2>. QED
    BY <1>3, <2>2
<1>5. CASE h.stage = "probe" /\ SplitOK(h, C, F)
  <2>. DEFINE cost == SetCost(h.parent)
              lower == SetCost(LowerHalf(h.parent))
              upper == SetCost(UpperHalf(h.parent))
              waits == h.queue # <<>> /\ h.inFlight # {}
  <2>1. h.parent \in CoreSets /\ Cardinality(h.parent) >= 2
    BY <1>5, WaitingCost DEF SplitOK
  <2>2. /\ cost \in Nat /\ cost >= 2 * MaxNoReproduce + 1 /\ lower \in Nat /\ upper \in Nat
    BY <2>1, CostOfHalves, CostOfWide
  <2>3. HalfOK(h, C, F) => n < MaxNoReproduce
    BY DEF HalfOK
  <2>4. \/ /\ HalfOK(h, C, F)
           /\ ProbesLeft(h) = all + (cost - 2 * n - (IF waits THEN 0 ELSE 1))
        \/ ProbesLeft(h) = all + (1 + lower + upper)
        \/ ProbesLeft(h) = all + 1
    BY <1>5, SplitBudget DEF SplitOK
  <2>. HIDE DEF all, n, cost, lower, upper, waits
  <2>5. ASSUME HalfOK(h, C, F),
               ProbesLeft(h) = all + (cost - 2 * n - (IF waits THEN 0 ELSE 1))
        PROVE  ProbesLeft(h) \in Nat
    BY <1>3, <2>2, <2>3, <2>5
  <2>. QED
    BY <1>3, <2>2, <2>4, <2>5
<1>. QED
  BY <1>1, <1>2, <1>4, <1>5 DEF HuntInv, Stage, Terminal

\* Taking the next mask is free.
LEMMA NextLiveSetBudget ==
  ASSUME NEW h, NEW C, NEW F, HuntInv(h, C, F), OnAccount(h), ~Terminal(h), h.inFlight = {}
  PROVE  OnAccount(NextLiveSet(h)) /\ ProbesLeft(NextLiveSet(h)) <= ProbesLeft(h)
<1>. DEFINE g == NextLiveSet(h)
<1>1. h \in HuntState /\ h.stage \in {"lead", "probe"} /\ {} \in CoreSets
  BY DEF HuntInv, HuntState, Stage, Terminal, CoreSets
<1>2. HuntInv(g, C, F)
  BY NextLiveSetInv
<1>3. ProbesLeft(h) \in Nat
  BY BudgetNatural
<1>4. CASE h.stage = "lead"
  <2>1. g = [h EXCEPT !.inFlight = LeadProbe(h.candidates, h.loaded)]
    BY <1>4 DEF NextLiveSet, Terminal
  <2>2. /\ g.stage = h.stage /\ g.pending = h.pending /\ g.parent = h.parent
        /\ g.guilty = h.guilty /\ g.noReproduce = h.noReproduce
    BY <2>1, <1>1 DEF HuntState
  <2>. HIDE DEF g
  <2>3. h.parent = {}
    BY <1>4 DEF HuntInv, ValidLead
  <2>4. OnAccount(g)
    BY <2>2 DEF OnAccount, Terminal
  <2>5. ProbesLeft(g) = ProbesLeft(h)
    BY <1>2, <1>4, <2>2, <2>3, <2>4, IdleBudget
  <2>. QED
    BY <1>3, <2>4, <2>5 DEF g
<1>5. CASE h.stage = "probe" /\ h.queue # <<>>
  <2>1. g = [h EXCEPT !.inFlight = Head(h.queue), !.queue = Tail(h.queue)]
    BY <1>5 DEF NextLiveSet, Terminal
  <2>2. /\ g.stage = h.stage /\ g.pending = h.pending /\ g.parent = h.parent
        /\ g.guilty = h.guilty /\ g.noReproduce = h.noReproduce
        /\ g.inFlight = Head(h.queue) /\ g.queue = Tail(h.queue)
    BY <2>1, <1>1 DEF HuntState
  <2>. HIDE DEF g
  <2>3. SplitOK(h, C, F)
    BY <1>5 DEF HuntInv, IdleOK
  <2>4. h.parent \in CoreSets /\ Cardinality(h.parent) >= 2
    BY <2>3, WaitingCost DEF SplitOK
  <2>5. /\ LowerHalf(h.parent) # {} /\ h.parent # {}
        /\ UpperHalf(h.parent) # {} /\ UpperHalf(h.parent) # h.parent
    BY <2>4, HalvesProper
  <2>6. OnAccount(g)
    BY <2>2, <2>5 DEF OnAccount, Terminal
  <2>7. SplitOK(g, C, F)
    BY <1>2, <1>5, <2>2, <2>5 DEF HuntInv, IdleOK
  <2>8. \/ HalfOK(h, C, F) /\ h.queue = <<UpperHalf(h.parent)>>
        \/ WholeOK(h, C) /\ h.queue = <<h.parent>>
    BY <1>5, <2>3, <2>5 DEF SplitOK, HalfOK, WholeOK
  <2>9. \A S : Head(<<S>>) = S /\ Tail(<<S>>) = <<>>
    OBVIOUS
  <2>10. CASE HalfOK(h, C, F) /\ h.queue = <<UpperHalf(h.parent)>>
    <3>1. g.inFlight = UpperHalf(g.parent) /\ g.queue = <<>> /\ HalfOK(g, C, F)
      <4>1. g.inFlight = UpperHalf(g.parent) /\ g.queue = <<>>
        BY <2>2, <2>9, <2>10
      <4>2. ~WholeOK(g, C)
        BY <2>2, <2>5, <4>1 DEF WholeOK
      <4>. QED
        BY <2>7, <4>1, <4>2 DEF SplitOK
    <3>2. CASE h.guilty = <<>>
      <4>. DEFINE all == CostOf(h.pending)
                  cost == SetCost(h.parent)
                  n == h.noReproduce
      <4>1. ProbesLeft(h) = all + (cost - 2 * n - 1)
        BY <1>5, <2>3, <2>10, <3>2, SplitBudget
      <4>2. ProbesLeft(g) = all + (cost - 2 * n - 1)
        BY <1>2, <1>5, <2>2, <2>6, <2>7, <3>1, <3>2, SplitBudget
      <4>. QED
        BY <1>3, <2>6, <4>1, <4>2 DEF g
    <3>3. CASE h.guilty # <<>>
      <4>1. ProbesLeft(h) = CostOf(h.pending) + (1 + SetCost(LowerHalf(h.parent))
                                                   + SetCost(UpperHalf(h.parent)))
        BY <1>5, <2>3, <2>10, <3>3, SplitBudget
      <4>2. ProbesLeft(g) = CostOf(g.pending) + (1 + SetCost(LowerHalf(g.parent))
                                                   + SetCost(UpperHalf(g.parent)))
        BY <1>2, <1>5, <2>2, <2>6, <2>7, <3>1, <3>3, SplitBudget
      <4>3. ProbesLeft(g) = ProbesLeft(h)
        BY <2>2, <4>1, <4>2
      <4>. QED
        BY <1>3, <2>6, <4>3 DEF g
    <3>. QED
      BY <3>2, <3>3
  <2>11. CASE WholeOK(h, C) /\ h.queue = <<h.parent>>
    <3>1. WholeOK(g, C)
      BY <2>2, <2>9, <2>11 DEF WholeOK
    <3>2. ProbesLeft(h) = CostOf(h.pending) + 1 /\ ProbesLeft(g) = CostOf(g.pending) + 1
      BY <1>2, <1>5, <2>2, <2>3, <2>6, <2>7, <2>11, <3>1, SplitBudget
    <3>3. ProbesLeft(g) = ProbesLeft(h)
      BY <2>2, <3>2
    <3>. QED
      BY <1>3, <2>6, <3>3 DEF g
  <2>. QED
    BY <2>8, <2>10, <2>11
<1>6. CASE h.stage = "probe" /\ h.queue = <<>>
  <2>. DEFINE p == h.pending
              k == FirstSplittable(p)
              f == h.found \cup LoneHead(p)
              n == h.noReproduce
  <2>1. g = SplitNext(h)
    BY <1>6 DEF NextLiveSet, Terminal
  <2>2. IdleOK(h)
    <3>1. SUFFICES ASSUME SplitOK(h, C, F) PROVE FALSE
      BY <1>6 DEF HuntInv
    <3>2. h.parent \in CoreSets /\ Cardinality(h.parent) >= 2
      BY <3>1, <1>1 DEF SplitOK, HuntState
    <3>3. LowerHalf(h.parent) # {} /\ UpperHalf(h.parent) # {} /\ h.parent # {}
      BY <3>2, HalvesProper
    <3>. QED
      BY <3>1, <3>3, <1>6 DEF SplitOK, HalfOK, WholeOK
  <2>3. h.parent = {} /\ h.stage # "lead"
    BY <1>6, <2>2 DEF IdleOK
  <2>4. /\ p \in Seq(CoreSets) /\ CostOf(p) \in Nat /\ n \in Nat
        /\ \A i \in 1..Len(p) : p[i] # {} /\ p[i] \in CoreSets
    BY WaitingCost
  <2>5. ProbesLeft(h) = CostOf(p) - 2 * n
    <3>. DEFINE all == CostOf(p)
    <3>1. ProbesLeft(h) = all - 2 * n + 0
      BY <1>6, <2>3, IdleBudget
    <3>2. all \in Nat /\ n \in Nat
      BY <2>4
    <3>. HIDE DEF all, n
    <3>3. ProbesLeft(h) = all - 2 * n
      BY <3>1, <3>2
    <3>. QED
      BY <3>3 DEF all
  <2>6. /\ k \in 1..(Len(p) + 1) /\ Len(p) \in Nat
        /\ k <= Len(p) => Cardinality(p[k]) # 1
    BY <2>4, FirstSplittableFirst
  <2>7. CASE k > Len(p)
    <3>1. g = [h EXCEPT !.pending = <<>>, !.found = f,
                        !.stage = IF f # {} THEN "culprit" ELSE "exhausted"]
      BY <2>1, <2>7 DEF SplitNext
    <3>2. g.stage \in {"culprit", "exhausted"} /\ g.guilty = h.guilty /\ h.guilty = <<>>
      BY <3>1, <1>1, <2>2 DEF HuntState, IdleOK
    <3>. HIDE DEF g
    <3>3. OnAccount(g) /\ ProbesLeft(g) = 0
      BY <3>2 DEF OnAccount, Terminal, ProbesLeft
    <3>. QED
      BY <1>3, <3>3 DEF g
  <2>8. CASE k <= Len(p)
    <3>. DEFINE target == p[k]
                rest == SubSeq(p, k + 1, Len(p))
    <3>1. k \in 1..Len(p) /\ ~(k > Len(p))
      BY <2>6, <2>8
    <3>2. target \in CoreSets /\ target # {} /\ Cardinality(target) >= 2
      <4>1. target \in CoreSets /\ target # {} /\ Cardinality(target) # 1
        BY <2>4, <2>6, <2>8, <3>1
      <4>2. Cardinality(target) \in Nat /\ Cardinality(target) # 0
        BY <4>1, CoreSetFinite, FS_EmptySet
      <4>. HIDE DEF target
      <4>. QED
        BY <4>1, <4>2
    <3>3. g = [h EXCEPT !.pending = rest, !.found = f, !.parent = target, !.guilty = <<>>,
                        !.level = SplitLevel(h, target), !.queue = <<UpperHalf(target)>>,
                        !.inFlight = LowerHalf(target)]
      BY <2>1, <3>1 DEF SplitNext
    <3>. HIDE DEF f, rest, target
    <3>4. /\ g.stage = h.stage /\ g.pending = rest /\ g.parent = target /\ g.guilty = <<>>
          /\ g.queue = <<UpperHalf(target)>> /\ g.inFlight = LowerHalf(target)
          /\ g.noReproduce = n
      BY <3>3, <1>1 DEF HuntState
    <3>. HIDE DEF g
    <3>5. /\ LowerHalf(target) # {} /\ UpperHalf(target) # {} /\ LowerHalf(target) # target
          /\ UpperHalf(target) # target
      BY <3>2, HalvesProper
    <3>6. OnAccount(g)
      BY <3>2, <3>4 DEF OnAccount
    <3>7. SplitOK(g, C, F) /\ HalfOK(g, C, F)
      <4>1. SplitOK(g, C, F)
        BY <1>2, <1>6, <3>2, <3>4 DEF HuntInv, IdleOK
      <4>2. ~WholeOK(g, C)
        BY <3>4, <3>5 DEF WholeOK
      <4>. QED
        BY <4>1, <4>2 DEF SplitOK
    <3>8. ProbesLeft(g) = CostOf(rest) + (SetCost(target) - 2 * n - 0)
      <4>1. g.queue # <<>> /\ g.inFlight # {}
        BY <3>4, <3>5
      <4>2. ProbesLeft(g) = CostOf(g.pending) + (SetCost(g.parent) - 2 * g.noReproduce
                              - (IF g.queue # <<>> /\ g.inFlight # {} THEN 0 ELSE 1))
        BY <1>2, <1>6, <3>4, <3>6, <3>7, SplitBudget
      <4>. QED
        BY <3>4, <4>1, <4>2
    <3>9. CostOf(p) = SetCost(target) + CostOf(rest)
      BY <2>4, <2>8, CostOfSplit DEF rest, target
    <3>10. CostOf(rest) \in Nat /\ SetCost(target) \in Nat
      BY <1>2, <3>2, <3>4, WaitingCost, CostOfWide
    <3>. DEFINE all == CostOf(p)
                less == CostOf(rest)
                cost == SetCost(target)
    <3>11. /\ ProbesLeft(g) = less + (cost - 2 * n - 0) /\ ProbesLeft(h) = all - 2 * n
           /\ all = cost + less /\ less \in Nat /\ cost \in Nat /\ n \in Nat
      BY <2>4, <2>5, <3>8, <3>9, <3>10
    <3>. HIDE DEF all, less, cost, n
    <3>12. ProbesLeft(g) <= ProbesLeft(h)
      BY <3>11
    <3>. QED
      BY <3>6, <3>12 DEF g
  <2>. QED
    BY <2>6, <2>7, <2>8
<1>. QED
  BY <1>1, <1>4, <1>5, <1>6

\* g is what folding the answers of two halves leaves of h.
Folded(h, g, guilty) ==
  /\ g.stage = h.stage /\ g.guilty = <<>> /\ g.inFlight = {}
  /\ guilty # <<>> =>
       /\ g.pending = guilty \o h.pending /\ g.parent = {} /\ g.noReproduce = h.noReproduce
  /\ guilty = <<>> /\ h.noReproduce + 1 >= MaxNoReproduce =>
       /\ g.pending = h.pending /\ g.parent = h.parent /\ g.queue = <<h.parent>>
       /\ g.noReproduce = h.noReproduce + 1
  /\ guilty = <<>> /\ h.noReproduce + 1 < MaxNoReproduce =>
       /\ g.pending = <<h.parent>> \o h.pending /\ g.parent = {}
       /\ g.noReproduce = h.noReproduce + 1

\* Guilty halves wait in place of their parent, and a clean round is counted and
\* brings the parent back, in halves or whole.
LEMMA FoldFields ==
  ASSUME NEW h \in HuntState, NEW guilty \in Seq(CoreSets)
  PROVE  Folded(h, FoldSplit(h, guilty), guilty)
<1>. DEFINE g == FoldSplit(h, guilty)
<1>1. h.noReproduce \in Nat /\ MaxNoReproduce \in Nat
  BY MaxNoReproduceAssumption DEF HuntState
<1>2. CASE guilty # <<>>
  <2>1. g = [h EXCEPT !.parent = {}, !.level = 0, !.inFlight = {}, !.launchesDone = 0,
                      !.guilty = <<>>, !.pending = guilty \o h.pending]
    BY <1>2 DEF FoldSplit
  <2>. HIDE DEF g
  <2>2. /\ g.stage = h.stage /\ g.guilty = <<>> /\ g.inFlight = {} /\ g.parent = {}
        /\ g.pending = guilty \o h.pending /\ g.noReproduce = h.noReproduce
    BY <2>1 DEF HuntState
  <2>. QED
    BY <1>2, <2>2 DEF g, Folded
<1>3. CASE guilty = <<>> /\ h.noReproduce + 1 >= MaxNoReproduce
  <2>1. g = [h EXCEPT !.parent = {}, !.level = 0, !.inFlight = {},
                      !.launchesDone = 0, !.guilty = <<>>, !.noReproduce = h.noReproduce + 1,
                      !.parent = h.parent, !.level = h.level, !.queue = <<h.parent>>]
    BY <1>1, <1>3 DEF FoldSplit, HuntState
  <2>. HIDE DEF g
  <2>2. /\ g.stage = h.stage /\ g.guilty = <<>> /\ g.inFlight = {} /\ g.parent = h.parent
        /\ g.pending = h.pending /\ g.queue = <<h.parent>> /\ g.noReproduce = h.noReproduce + 1
    BY <2>1 DEF HuntState
  <2>3. ~(h.noReproduce + 1 < MaxNoReproduce)
    BY <1>1, <1>3
  <2>. QED
    BY <1>3, <2>2, <2>3 DEF g, Folded
<1>4. CASE guilty = <<>> /\ h.noReproduce + 1 < MaxNoReproduce
  <2>1. g = [h EXCEPT !.parent = {}, !.level = 0, !.inFlight = {}, !.launchesDone = 0,
                      !.guilty = <<>>, !.noReproduce = h.noReproduce + 1,
                      !.pending = <<h.parent>> \o h.pending]
    BY <1>1, <1>4 DEF FoldSplit
  <2>. HIDE DEF g
  <2>2. /\ g.stage = h.stage /\ g.guilty = <<>> /\ g.inFlight = {} /\ g.parent = {}
        /\ g.pending = <<h.parent>> \o h.pending /\ g.noReproduce = h.noReproduce + 1
    BY <2>1 DEF HuntState
  <2>3. ~(h.noReproduce + 1 >= MaxNoReproduce)
    BY <1>1, <1>4
  <2>. QED
    BY <1>4, <2>2, <2>3 DEF g, Folded
<1>. QED
  BY <1>1, <1>2, <1>3, <1>4

\* What the answer of a half changes in the sum: all is the cost of what waits,
\* n the clean rounds out of m, and cost the parent's, less and more its halves'.
LEMMA HalfSums ==
  ASSUME NEW all \in Nat, NEW n \in Nat, NEW m \in Nat, NEW cost \in Nat,
         NEW less \in Nat, NEW more \in Nat, n + 1 <= m, cost = less + more + (2 * m + 1)
  PROVE  /\ (all + (1 + less + more)) + 1 <= all + (cost - 2 * n - 0)
         /\ (all + (cost - 2 * n - 1)) + 1 <= all + (cost - 2 * n - 0)
         /\ (more + all) + 1 <= all + (cost - 2 * n - 1)
         /\ (less + all) + 1 <= all + (1 + less + more)
         /\ (less + (more + all)) + 1 <= all + (1 + less + more)
         /\ (all + 1) + 1 <= all + (cost - 2 * n - 1)
         /\ ((cost + all) - 2 * (n + 1) + 0) + 1 <= all + (cost - 2 * n - 1)
OBVIOUS

\* The answer of a half costs the probe that gave it.
LEMMA RecordHalfBudget ==
  ASSUME NEW h, NEW C, NEW F, NEW r \in BOOLEAN, NEW C2, NEW F2,
         HuntInv(h, C, F), OnAccount(h), HuntInv(RecordHalf(h, r), C2, F2),
         h.stage = "probe", h.inFlight # {}, h.inFlight # h.parent
  PROVE  OnAccount(RecordHalf(h, r)) /\ ProbesLeft(RecordHalf(h, r)) + 1 <= ProbesLeft(h)
<1>. DEFINE lower == LowerHalf(h.parent)
            upper == UpperHalf(h.parent)
            guilty == IF r THEN Append(h.guilty, h.inFlight) ELSE h.guilty
            counted == IF r THEN [h EXCEPT !.noReproduce = 0] ELSE h
            g == RecordHalf(h, r)
            n == h.noReproduce
            all == CostOf(h.pending)
            cost == SetCost(h.parent)
            less == SetCost(lower)
            more == SetCost(upper)
<1>1. /\ SplitOK(h, C, F) /\ h \in HuntState /\ h.parent \in CoreSets /\ h.parent # {}
      /\ lower \in CoreSets /\ upper \in CoreSets /\ lower # {} /\ upper # {}
      /\ lower # h.parent /\ upper # h.parent /\ lower # upper
  BY SplitFacts
<1>2. HalfOK(h, C, F) /\ n < MaxNoReproduce /\ Cardinality(h.parent) >= 2
  BY <1>1 DEF SplitOK, HalfOK, WholeOK
<1>3. /\ all \in Nat /\ n \in Nat /\ MaxNoReproduce \in Nat /\ n + 1 <= MaxNoReproduce
      /\ h.pending \in Seq(CoreSets)
  BY <1>2, WaitingCost
<1>4. /\ cost \in Nat /\ less \in Nat /\ more \in Nat
      /\ cost = less + more + (2 * MaxNoReproduce + 1)
  <2>1. cost \in Nat
    BY <1>1, <1>2, CostOfWide
  <2>2. less \in Nat /\ more \in Nat /\ cost = less + more + SplitCost
    BY <1>1, <1>2, CostOfHalves
  <2>. QED
    BY <2>1, <2>2 DEF SplitCost
<1>5. /\ h.guilty = <<>> =>
           ProbesLeft(h) = all + (cost - 2 * n - (IF h.queue # <<>> /\ h.inFlight # {}
                                                    THEN 0 ELSE 1))
      /\ h.guilty # <<>> => n = 0 /\ ProbesLeft(h) = all + (1 + less + more)
  BY <1>1, <1>2, SplitBudget
<1>9. /\ (all + (1 + less + more)) + 1 <= all + (cost - 2 * n - 0)
      /\ (all + (cost - 2 * n - 1)) + 1 <= all + (cost - 2 * n - 0)
      /\ (more + all) + 1 <= all + (cost - 2 * n - 1)
      /\ (less + all) + 1 <= all + (1 + less + more)
      /\ (less + (more + all)) + 1 <= all + (1 + less + more)
      /\ (all + 1) + 1 <= all + (cost - 2 * n - 1)
      /\ ((cost + all) - 2 * (n + 1) + 0) + 1 <= all + (cost - 2 * n - 1)
  <2>. HIDE DEF all, cost, less, more, n
  <2>. QED
    BY <1>3, <1>4, HalfSums
<1>6. /\ counted \in HuntState /\ counted.stage = "probe" /\ counted.pending = h.pending
      /\ counted.parent = h.parent /\ counted.queue = h.queue
      /\ counted.noReproduce = (IF r THEN 0 ELSE n)
  <2>1. 0 \in 0..MaxNoReproduce
    BY <1>3
  <2>. QED
    BY <2>1, <1>1 DEF HuntState
<1>7. CASE h.queue # <<>>
  <2>1. h.inFlight = lower /\ h.queue = <<upper>> /\ h.guilty = <<>>
    BY <1>2, <1>7 DEF HalfOK
  <2>2. guilty \in Seq(CoreSets) /\ guilty = (IF r THEN <<lower>> ELSE <<>>)
    BY <1>1, <2>1
  <2>3. g = [counted EXCEPT !.guilty = guilty, !.inFlight = {}, !.launchesDone = 0]
    BY <1>7 DEF RecordHalf
  <2>4. ProbesLeft(h) = all + (cost - 2 * n - 0)
    BY <1>5, <1>7, <2>1
  <2>. HIDE DEF guilty, counted, g
  <2>5. /\ g.stage = "probe" /\ g.pending = h.pending /\ g.parent = h.parent
        /\ g.queue = <<upper>> /\ g.inFlight = {} /\ g.guilty = (IF r THEN <<lower>> ELSE <<>>)
        /\ g.noReproduce = (IF r THEN 0 ELSE n)
    BY <1>6, <2>1, <2>2, <2>3 DEF HuntState
  <2>6. SplitOK(g, C2, F2) /\ HalfOK(g, C2, F2)
    <3>1. HuntInv(g, C2, F2)
      BY DEF g
    <3>2. SplitOK(g, C2, F2)
      BY <3>1, <2>5, <1>1 DEF HuntInv, IdleOK
    <3>3. upper # h.parent
      BY <1>1
    <3>4. ~WholeOK(g, C2)
      <4>1. \A S, T : <<S>> = <<T>> => S = T
        OBVIOUS
      <4>2. g.queue # <<g.parent>> /\ g.inFlight # g.parent
        BY <1>1, <2>5, <3>3, <4>1, Zenon
      <4>. QED
        BY <4>2, Zenon DEF WholeOK
    <3>. QED
      BY <3>2, <3>4 DEF SplitOK
  <2>7. OnAccount(g)
    <3>1. r \in BOOLEAN
      OBVIOUS
    <3>. QED
      BY <2>5, <1>1, <3>1 DEF OnAccount
  <2>8. CASE r
    <3>1. g.guilty # <<>>
      BY <2>5, <2>8
    <3>2. ProbesLeft(g) = all + (1 + less + more)
      <4>1. ProbesLeft(g) = CostOf(g.pending) + (1 + SetCost(LowerHalf(g.parent))
                                                   + SetCost(UpperHalf(g.parent)))
        BY <2>5, <2>6, <2>7, <3>1, SplitBudget DEF g
      <4>. QED
        BY <4>1, <2>5
    <3>3. ProbesLeft(g) + 1 <= ProbesLeft(h)
      BY <1>9, <2>4, <3>2, Zenon
    <3>. QED
      BY <2>7, <3>3 DEF g
  <2>9. CASE ~r
    <3>1. g.guilty = <<>> /\ g.noReproduce = n /\ g.inFlight = {}
      BY <2>5, <2>9
    <3>2. ProbesLeft(g) = all + (cost - 2 * n - 1)
      <4>1. ProbesLeft(g) = CostOf(g.pending) + (SetCost(g.parent) - 2 * g.noReproduce
                              - (IF g.queue # <<>> /\ g.inFlight # {} THEN 0 ELSE 1))
        BY <2>5, <2>6, <2>7, <3>1, SplitBudget DEF g
      <4>. QED
        BY <4>1, <2>5, <3>1
    <3>3. ProbesLeft(g) + 1 <= ProbesLeft(h)
      BY <1>9, <2>4, <3>2, Zenon
    <3>. QED
      BY <2>7, <3>3 DEF g
  <2>. QED
    BY <2>8, <2>9
<1>8. CASE h.queue = <<>>
  <2>1. h.inFlight = upper /\ HalfDone(h, C, F)
    BY <1>1, <1>2, <1>8 DEF HalfOK
  <2>2. g = FoldSplit(counted, guilty)
    BY <1>8 DEF RecordHalf
  <2>3. h.guilty \in {<<>>, <<lower>>}
    BY <2>1 DEF HalfDone
  <2>4. /\ guilty \in Seq(CoreSets)
        /\ \/ ~r /\ h.guilty = <<>> /\ guilty = <<>>
           \/ r /\ h.guilty = <<>> /\ guilty = <<upper>>
           \/ ~r /\ h.guilty = <<lower>> /\ guilty = <<lower>>
           \/ r /\ h.guilty = <<lower>> /\ guilty = <<lower, upper>>
    <3>1. CASE h.guilty = <<>>
      <4>1. Append(<<>>, upper) = <<upper>>
        OBVIOUS
      <4>. QED
        BY <3>1, <4>1, <2>1, <1>1
    <3>2. CASE h.guilty = <<lower>>
      <4>1. Append(<<lower>>, upper) = <<lower, upper>>
        BY <1>1, PairSequence
      <4>. QED
        BY <3>2, <4>1, <2>1, <1>1
    <3>. QED
      BY <2>3, <3>1, <3>2
  <2>. HIDE DEF guilty, counted
  <2>5. /\ g.stage = "probe" /\ g.guilty = <<>> /\ g.inFlight = {}
        /\ guilty # <<>> => /\ g.pending = guilty \o h.pending /\ g.parent = {}
                            /\ g.noReproduce = counted.noReproduce
        /\ guilty = <<>> /\ counted.noReproduce + 1 >= MaxNoReproduce =>
             /\ g.pending = h.pending /\ g.parent = h.parent
             /\ g.queue = <<h.parent>> /\ g.noReproduce = counted.noReproduce + 1
        /\ guilty = <<>> /\ counted.noReproduce + 1 < MaxNoReproduce =>
             /\ g.pending = <<h.parent>> \o h.pending /\ g.parent = {}
             /\ g.noReproduce = counted.noReproduce + 1
    <3>0. counted \in HuntState /\ guilty \in Seq(CoreSets)
      BY <1>6, <2>4, Zenon
    <3>1. Folded(counted, FoldSplit(counted, guilty), guilty)
      BY <3>0, FoldFields
    <3>. HIDE DEF g
    <3>. QED
      BY <1>6, <2>2, <3>1, Zenon DEF Folded
  <2>6. ProbesLeft(h) = (IF h.guilty = <<>> THEN all + (cost - 2 * n - 1)
                                            ELSE all + (1 + less + more))
    BY <1>5, <1>8
  <2>. HIDE DEF g
  <2>7. HuntInv(g, C2, F2)
    BY DEF g
  <2>8. CASE guilty # <<>>
    <3>1. g.noReproduce = 0
      <4>1. ~r => n = 0
        BY <1>5, <2>4, <2>8
      <4>. QED
        BY <4>1, <1>6, <2>5, <2>8
    <3>2. OnAccount(g)
      BY <2>5, <3>1 DEF OnAccount
    <3>3. ProbesLeft(g) = CostOf(g.pending)
      <4>1. ProbesLeft(g) = CostOf(g.pending) - 2 * g.noReproduce
                              + (IF g.stage = "lead" THEN 1 ELSE 0)
        BY <2>5, <2>7, <2>8, <3>2, IdleBudget
      <4>2. CostOf(g.pending) \in Nat
        BY <2>7, WaitingCost
      <4>. QED
        BY <2>5, <3>1, <4>1, <4>2
    <3>4. /\ guilty = <<upper>> => CostOf(g.pending) = more + all
          /\ guilty = <<lower>> => CostOf(g.pending) = less + all
          /\ guilty = <<lower, upper>> => CostOf(g.pending) = less + (more + all)
      <4>0. g.pending = guilty \o h.pending /\ h.pending \in Seq(CoreSets)
            /\ lower \in CoreSets /\ upper \in CoreSets
        BY <1>1, <1>3, <2>5, <2>8
      <4>. HIDE DEF lower, upper
      <4>1. CASE guilty = <<upper>>
        BY <4>0, <4>1, CostOfFront, <1>1 DEF more
      <4>2. CASE guilty = <<lower>>
        BY <4>0, <4>2, CostOfFront DEF less
      <4>3. CASE guilty = <<lower, upper>>
        <5>1. <<lower, upper>> \o h.pending = <<lower>> \o (<<upper>> \o h.pending)
          <6>1. <<lower>> \o <<upper>> = <<lower, upper>>
            BY <4>0, PairSequence
          <6>2. (<<lower>> \o <<upper>>) \o h.pending = <<lower>> \o (<<upper>> \o h.pending)
            BY <4>0
          <6>. QED
            BY <6>1, <6>2
        <5>2. /\ <<upper>> \o h.pending \in Seq(CoreSets)
              /\ CostOf(<<upper>> \o h.pending) = more + all
          BY <4>0, CostOfFront
        <5>3. CostOf(<<lower>> \o (<<upper>> \o h.pending)) = less + CostOf(<<upper>> \o h.pending)
          BY <4>0, <5>2, CostOfFront
        <5>. QED
          BY <4>0, <4>3, <5>1, <5>2, <5>3
      <4>4. <<upper>> # <<lower>> /\ <<upper>> # <<lower, upper>> /\ <<lower>> # <<lower, upper>>
        BY <1>1
      <4>. QED
        BY <4>1, <4>2, <4>3
    <3>5. \/ h.guilty = <<>> /\ ProbesLeft(g) = more + all
          \/ h.guilty # <<>> /\ ProbesLeft(g) = less + all
          \/ h.guilty # <<>> /\ ProbesLeft(g) = less + (more + all)
      <4>1. <<lower>> # <<>>
        OBVIOUS
      <4>2. \/ h.guilty = <<>> /\ guilty = <<upper>>
            \/ h.guilty # <<>> /\ guilty = <<lower>>
            \/ h.guilty # <<>> /\ guilty = <<lower, upper>>
        BY <2>4, <2>8, <4>1, Zenon
      <4>. QED
        BY <3>3, <3>4, <4>2, Zenon
    <3>6. ProbesLeft(g) + 1 <= ProbesLeft(h)
      <4>1. /\ h.guilty = <<>> => ProbesLeft(h) = all + (cost - 2 * n - 1)
            /\ h.guilty # <<>> => ProbesLeft(h) = all + (1 + less + more)
        BY <2>6, Zenon
      <4>. QED
        BY <1>9, <3>5, <4>1, Zenon
    <3>. QED
      BY <3>2, <3>6 DEF g
  <2>9. CASE guilty = <<>> /\ n + 1 >= MaxNoReproduce
    <3>1. ~r /\ h.guilty = <<>>
      BY <2>4, <2>9
    <3>2. /\ g.pending = h.pending /\ g.parent = h.parent /\ g.queue = <<h.parent>>
      BY <1>6, <2>5, <2>9, <3>1
    <3>3. OnAccount(g)
      BY <1>1, <2>5, <3>2 DEF OnAccount
    <3>4. SplitOK(g, C2, F2)
      BY <1>1, <2>5, <2>7, <3>2 DEF HuntInv, IdleOK
    <3>5. WholeOK(g, C2)
      <4>1. \A S, T : <<S>> = <<T>> => S = T
        OBVIOUS
      <4>2. g.queue # <<UpperHalf(g.parent)>> /\ g.queue # <<>>
        BY <1>1, <3>2, <4>1
      <4>3. ~HalfOK(g, C2, F2)
        BY <4>2 DEF HalfOK
      <4>. QED
        BY <3>4, <4>3 DEF SplitOK
    <3>6. ProbesLeft(g) = all + 1
      BY <2>5, <2>7, <3>2, <3>3, <3>4, <3>5, SplitBudget
    <3>7. ProbesLeft(h) = all + (cost - 2 * n - 1)
      BY <2>6, <3>1
    <3>8. ProbesLeft(g) + 1 <= ProbesLeft(h)
      BY <1>9, <3>6, <3>7, Zenon
    <3>. QED
      BY <3>3, <3>8 DEF g
  <2>10. CASE guilty = <<>> /\ n + 1 < MaxNoReproduce
    <3>1. ~r /\ h.guilty = <<>>
      BY <2>4, <2>10
    <3>2. g.pending = <<h.parent>> \o h.pending /\ g.parent = {} /\ g.noReproduce = n + 1
      BY <1>6, <2>5, <2>10, <3>1
    <3>3. OnAccount(g)
      <4>1. 1 \in 1..Len(g.pending) /\ g.pending[1] = h.parent
        <5>1. h.pending \in Seq(CoreSets) /\ h.parent \in CoreSets
          BY <1>1, <1>3
        <5>. QED
          BY <3>2, <5>1
      <4>2. Cardinality(h.parent) # 1
        BY <1>2
      <4>. QED
        BY <2>5, <4>1, <4>2 DEF OnAccount
    <3>4. ProbesLeft(g) = (cost + all) - 2 * (n + 1) + 0
      <4>1. CostOf(g.pending) = cost + all
        BY <1>1, <1>3, <3>2, CostOfFront
      <4>2. ProbesLeft(g) = CostOf(g.pending) - 2 * g.noReproduce
                              + (IF g.stage = "lead" THEN 1 ELSE 0)
        BY <2>5, <2>7, <3>2, <3>3, IdleBudget
      <4>. QED
        BY <2>5, <3>2, <4>1, <4>2
    <3>5. ProbesLeft(h) = all + (cost - 2 * n - 1)
      BY <2>6, <3>1
    <3>6. ProbesLeft(g) + 1 <= ProbesLeft(h)
      BY <1>9, <3>4, <3>5, Zenon
    <3>. QED
      BY <3>3, <3>6 DEF g
  <2>11. n + 1 >= MaxNoReproduce \/ n + 1 < MaxNoReproduce
    BY <1>3
  <2>. QED
    BY <2>8, <2>9, <2>10, <2>11
<1>. QED
  BY <1>7, <1>8

\* Every answer costs the probe that gave it.
LEMMA RecordBudget ==
  ASSUME NEW h, NEW C, NEW F, NEW r \in BOOLEAN, NEW C2 \in SUBSET CoreSets,
         NEW F2 \in SUBSET CoreSets, C \subseteq C2, F \subseteq F2,
         r => h.inFlight \in F2, ~r => h.inFlight \in C2,
         HuntInv(h, C, F), OnAccount(h), h.inFlight # {}
  PROVE  OnAccount(Record(h, r)) /\ ProbesLeft(Record(h, r)) + 1 <= ProbesLeft(h)
<1>1. h.stage \in {"lead", "probe"} /\ h \in HuntState
  BY DEF HuntInv, HuntState, Stage, Terminal, ValidTerminal
<1>2. HuntInv(Record(h, r), C2, F2)
  BY RecordInv
<1>. DEFINE g == Record(h, r)
            all == CostOf(h.pending)
            n == h.noReproduce
<1>3. all \in Nat /\ n \in Nat
  BY WaitingCost
<1>4. CASE h.stage = "lead"
  <2>1. g = RecordLead(h, r)
    BY <1>4 DEF Record
  <2>2. h.parent = {} /\ h.guilty = <<>> /\ n = 0
    BY <1>4 DEF HuntInv, ValidLead
  <2>3. ProbesLeft(h) = all + 1
    <3>1. ProbesLeft(h) = all - 2 * n + 1
      BY <1>4, <2>2, IdleBudget
    <3>. HIDE DEF all, n
    <3>. QED
      BY <1>3, <2>2, <3>1
  <2>4. CASE r
    <3>1. g = [h EXCEPT !.stage = "culprit", !.pending = <<>>, !.found = h.inFlight,
                        !.inFlight = {}, !.launchesDone = 0]
      BY <2>1, <2>4 DEF RecordLead
    <3>. HIDE DEF g
    <3>2. g.stage = "culprit" /\ g.guilty = <<>>
      BY <3>1, <1>1, <2>2 DEF HuntState
    <3>3. OnAccount(g) /\ ProbesLeft(g) = 0
      BY <3>2 DEF OnAccount, Terminal, ProbesLeft
    <3>. HIDE DEF all, n
    <3>4. ProbesLeft(g) + 1 <= ProbesLeft(h)
      BY <1>3, <2>3, <3>3
    <3>. QED
      BY <3>3, <3>4 DEF g
  <2>5. CASE ~r
    <3>1. g = [h EXCEPT !.stage = "probe", !.inFlight = {}, !.launchesDone = 0]
      BY <2>1, <2>5 DEF RecordLead
    <3>. HIDE DEF g
    <3>2. /\ g.stage = "probe" /\ g.guilty = <<>> /\ g.parent = {} /\ g.pending = h.pending
          /\ g.noReproduce = 0
      BY <3>1, <1>1, <2>2 DEF HuntState
    <3>3. OnAccount(g)
      BY <3>2 DEF OnAccount
    <3>4. ProbesLeft(g) = all - 2 * 0 + 0
      BY <1>2, <3>2, <3>3, IdleBudget DEF g
    <3>. HIDE DEF all, n
    <3>5. ProbesLeft(g) + 1 <= ProbesLeft(h)
      BY <1>3, <2>3, <3>4
    <3>. QED
      BY <3>3, <3>5 DEF g
  <2>. QED
    BY <2>4, <2>5
<1>5. CASE h.stage = "probe" /\ h.inFlight = h.parent
  <2>1. g = RecordWholeSet(h, r)
    BY <1>5 DEF Record
  <2>2. SplitOK(h, C, F) /\ WholeOK(h, C) /\ h.guilty = <<>>
    <3>1. SplitOK(h, C, F)
      BY <1>5, SplitFacts
    <3>2. WholeOK(h, C)
      BY <1>5, <3>1, SplitFacts DEF SplitOK, HalfOK, WholeOK
    <3>. QED
      BY <3>1, <3>2 DEF WholeOK
  <2>3. ProbesLeft(h) = all + 1
    BY <1>5, <2>2, SplitBudget
  <2>4. CASE r /\ h.pending # <<>>
    <3>1. g = [h EXCEPT !.parent = {}, !.level = 0, !.inFlight = {}, !.launchesDone = 0,
                        !.found = h.found \cup h.parent, !.noReproduce = 0, !.stage = "probe"]
      BY <2>1, <2>4 DEF RecordWholeSet
    <3>. HIDE DEF g
    <3>2. /\ g.stage = "probe" /\ g.guilty = <<>> /\ g.parent = {} /\ g.pending = h.pending
          /\ g.noReproduce = 0
      <4>1. 0 \in 0..MaxNoReproduce
        BY MaxNoReproduceAssumption
      <4>. QED
        BY <3>1, <1>1, <2>2, <4>1 DEF HuntState
    <3>3. OnAccount(g)
      BY <3>2 DEF OnAccount
    <3>4. ProbesLeft(g) = all - 2 * 0 + 0
      BY <1>2, <3>2, <3>3, IdleBudget DEF g
    <3>. HIDE DEF all, n
    <3>5. ProbesLeft(g) + 1 <= ProbesLeft(h)
      BY <1>3, <2>3, <3>4
    <3>. QED
      BY <3>3, <3>5 DEF g
  <2>5. CASE ~(r /\ h.pending # <<>>)
    <3>1. g.stage \in {"culprit", "exhausted"} /\ g.guilty = <<>>
      <4>1. CASE r
        <5>1. g = [h EXCEPT !.parent = {}, !.level = 0, !.inFlight = {}, !.launchesDone = 0,
                            !.found = h.found \cup h.parent, !.noReproduce = 0,
                            !.stage = "culprit"]
          BY <2>1, <2>5, <4>1 DEF RecordWholeSet
        <5>. HIDE DEF g
        <5>. QED
          BY <5>1, <1>1, <2>2 DEF HuntState
      <4>2. CASE ~r
        <5>1. g = [h EXCEPT !.parent = {}, !.level = 0, !.inFlight = {}, !.launchesDone = 0,
                            !.pending = <<>>,
                            !.stage = IF h.found # {} THEN "culprit" ELSE "exhausted"]
          BY <2>1, <4>2 DEF RecordWholeSet
        <5>. HIDE DEF g
        <5>. QED
          BY <5>1, <1>1, <2>2 DEF HuntState
      <4>. QED
        BY <4>1, <4>2
    <3>. HIDE DEF g
    <3>2. OnAccount(g) /\ ProbesLeft(g) = 0
      BY <3>1 DEF OnAccount, Terminal, ProbesLeft
    <3>. HIDE DEF all, n
    <3>3. ProbesLeft(g) + 1 <= ProbesLeft(h)
      BY <1>3, <2>3, <3>2
    <3>. QED
      BY <3>2, <3>3 DEF g
  <2>. QED
    BY <2>4, <2>5
<1>6. CASE h.stage = "probe" /\ h.inFlight # h.parent
  <2>1. g = RecordHalf(h, r)
    BY <1>6 DEF Record
  <2>. QED
    BY <1>2, <1>6, <2>1, RecordHalfBudget
<1>. QED
  BY <1>1, <1>4, <1>5, <1>6

\* An answer adds to the evidence.
LEMMA AnswerEvidence ==
  ASSUME NEW reproduced \in BOOLEAN, HuntInvariant, Answer(reproduced)
  PROVE  /\ clean' \in SUBSET CoreSets /\ failed' \in SUBSET CoreSets
         /\ clean \subseteq clean' /\ failed \subseteq failed'
         /\ reproduced => hunt.inFlight \in failed'
         /\ ~reproduced => hunt.inFlight \in clean'
<1>1. hunt.inFlight \in CoreSets /\ clean \subseteq CoreSets /\ failed \subseteq CoreSets
  BY DEF HuntInvariant, HuntInv, HuntState
<1>. QED
  BY <1>1 DEF Answer

\* A hunt keeps the clean rounds of a split on account.
LEMMA RoundsOnAccount == Spec => []OnAccount(hunt)
<1>1. Init => OnAccount(hunt)
  BY DEF Init, Begin, OnAccount
<1>2. HuntInvariant /\ OnAccount(hunt) /\ [Next]_vars => OnAccount(hunt)'
  <2>. SUFFICES ASSUME HuntInvariant, OnAccount(hunt), [Next]_vars PROVE OnAccount(hunt)'
    OBVIOUS
  <2>1. CASE Dispatch
    BY <2>1, NextLiveSetBudget DEF Dispatch, HuntInvariant
  <2>2. ASSUME NEW reproduced \in BOOLEAN, Answer(reproduced) PROVE OnAccount(hunt)'
    BY <2>2, AnswerEvidence, RecordBudget, ZenonT(60) DEF Answer, HuntInvariant
  <2>3. CASE UNCHANGED vars
    BY <2>3 DEF vars
  <2>. QED
    BY <2>1, <2>2, <2>3 DEF Next
<1>. QED
  BY <1>1, <1>2, HuntIsInvariant, PTL DEF Spec

\* Every answer brings the hunt a probe closer to its verdict and no dispatch
\* takes it back, for every finite set of cores and whatever the answers, so a
\* hunt over n cores asks at most 1 + (n - 1) * SplitCost probes.
THEOREM BudgetShrinks == Spec => ProbeBudgetShrinks
<1>1. ASSUME HuntInvariant, OnAccount(hunt), HuntInvariant', OnAccount(hunt)', [Next]_vars
      PROVE  [/\ ProbesLeft(hunt') >= 0
              /\ ProbesLeft(hunt') + (IF hunt.inFlight # {} THEN 1 ELSE 0)
                   <= ProbesLeft(hunt)]_vars
  <2>1. ProbesLeft(hunt) \in Nat /\ ProbesLeft(hunt') \in Nat
    <3>1. ProbesLeft(hunt) \in Nat
      BY <1>1, BudgetNatural DEF HuntInvariant
    <3>2. HuntInv(hunt', clean', failed') /\ OnAccount(hunt')
      BY <1>1 DEF HuntInvariant
    <3>3. ProbesLeft(hunt') \in Nat
      BY <3>2, BudgetNatural
    <3>. QED
      BY <3>1, <3>3
  <2>2. CASE Dispatch
    <3>1. hunt.inFlight = {} /\ ProbesLeft(hunt') <= ProbesLeft(hunt)
      BY <1>1, <2>2, NextLiveSetBudget DEF Dispatch, HuntInvariant
    <3>. QED
      BY <2>1, <3>1
  <2>3. ASSUME NEW reproduced \in BOOLEAN, Answer(reproduced)
        PROVE  hunt.inFlight # {} /\ ProbesLeft(hunt') + 1 <= ProbesLeft(hunt)
    BY <1>1, <2>3, AnswerEvidence, RecordBudget, ZenonT(60) DEF Answer, HuntInvariant
  <2>4. CASE UNCHANGED vars
    BY <2>4
  <2>. QED
    BY <1>1, <2>1, <2>2, <2>3, <2>4 DEF Next
<1>. QED
  BY <1>1, HuntIsInvariant, RoundsOnAccount, PTL DEF Spec, ProbeBudgetShrinks

-----------------------------------------------------------------------------
(* What a probe and its answer do to suspicion.  The fault and the         *)
(* refinement only look at the sets that wait, the set that is being split *)
(* and the convicted.                                                      *)

\* Nothing that the caller can see moves.
Still(h, g) ==
  /\ g.pending = h.pending /\ g.parent = h.parent /\ g.found = h.found

\* next_live_set: the next probe of what is open; or every waiting core is alone
\* and convicted; or the lone heads are and a set behind them is split.
Moved(h, g) ==
  /\ g.candidates = h.candidates /\ g.loaded = h.loaded
  /\ \/ g.stage = h.stage /\ Still(h, g)
     \/ /\ h.stage = "probe" /\ h.parent = {} /\ h.pending # <<>>
        /\ \A W \in Waiting(h) : Cardinality(W) = 1
        /\ g.pending = <<>> /\ g.parent = {} /\ g.found = h.found \cup UNION Waiting(h)
        /\ g.stage = IF g.found # {} THEN "culprit" ELSE "exhausted"
     \/ \E t \in Waiting(h), D \in SUBSET Waiting(h) :
          /\ h.stage = "probe" /\ g.stage = "probe" /\ h.parent = {}
          /\ \A W \in D : Cardinality(W) = 1
          /\ g.parent = t /\ g.found = h.found \cup UNION D
          /\ Waiting(g) \cup {t} \cup D = Waiting(h)

\* record on the lead: it convicts the loaded core or opens the bisection.
LeadAnswered(h, g, r, C) ==
  /\ h.stage = "lead" /\ h.pending = <<h.candidates>> /\ h.parent = {} /\ h.found = {}
  /\ h.inFlight = LeadProbe(h.candidates, h.loaded)
  /\ IF r
       THEN g.stage = "culprit" /\ g.pending = <<>> /\ g.parent = {} /\ g.found = h.inFlight
       ELSE g.stage = "probe" /\ Still(h, g) /\ h.inFlight \in C

\* record on a whole set whose halves ran clean.
WholeAnswered(h, g, r, C) ==
  /\ h.inFlight = h.parent /\ LowerHalf(h.parent) \in C /\ UpperHalf(h.parent) \in C
  /\ g.parent = {}
  /\ IF r
       THEN /\ g.pending = h.pending /\ g.found = h.found \cup h.parent
            /\ g.stage = IF h.pending = <<>> THEN "culprit" ELSE "probe"
       ELSE /\ g.pending = <<>> /\ g.found = h.found
            /\ g.stage = IF h.found # {} THEN "culprit" ELSE "exhausted"

\* record on a half: the guilty halves wait in place of their parent, or the
\* parent waits again, or it stays open.
HalfAnswered(h, g, C, F) ==
  /\ g.stage = "probe" /\ g.found = h.found
  /\ \/ Still(h, g)
     \/ g.parent = {} /\ Waiting(g) = Waiting(h) \cup {h.parent}
     \/ \E G \in SUBSET {LowerHalf(h.parent), UpperHalf(h.parent)} :
          /\ G # {} /\ G \subseteq F
          /\ {LowerHalf(h.parent), UpperHalf(h.parent)} \ G \subseteq C
          /\ g.parent = {} /\ Waiting(g) = Waiting(h) \cup G

Answered(h, g, r, C, F) ==
  /\ g.candidates = h.candidates /\ g.loaded = h.loaded
  /\ \/ LeadAnswered(h, g, r, C)
     \/ /\ h.stage = "probe" /\ h.parent # {}
        /\ LowerHalf(h.parent) \cup UpperHalf(h.parent) = h.parent
        /\ WholeAnswered(h, g, r, C) \/ HalfAnswered(h, g, C, F)

\* next_live_set moves suspicion in one of three ways.
LEMMA NextLiveSetMoves ==
  ASSUME NEW h, NEW C, NEW F, HuntInv(h, C, F), ~Terminal(h), h.inFlight = {}
  PROVE  Moved(h, NextLiveSet(h))
<1>. DEFINE g == NextLiveSet(h)
            p == h.pending
            k == FirstSplittable(p)
            f == h.found \cup LoneHead(p)
<1>1. /\ h \in HuntState /\ h.stage \in {"lead", "probe"} /\ p \in Seq(CoreSets)
      /\ Len(p) \in Nat
  BY DEF HuntInv, HuntState, Stage, Terminal
<1>2. CASE h.stage = "lead"
  <2>1. g = [h EXCEPT !.inFlight = LeadProbe(h.candidates, h.loaded)]
    BY <1>2 DEF NextLiveSet, Terminal
  <2>. HIDE DEF g
  <2>2. /\ g.candidates = h.candidates /\ g.loaded = h.loaded /\ g.stage = h.stage
        /\ g.pending = h.pending /\ g.parent = h.parent /\ g.found = h.found
    BY <2>1, <1>1 DEF HuntState
  <2>. QED
    BY <2>2, Zenon DEF Moved, Still, g
<1>3. CASE h.stage = "probe" /\ h.queue # <<>>
  <2>1. g = [h EXCEPT !.inFlight = Head(h.queue), !.queue = Tail(h.queue)]
    BY <1>3 DEF NextLiveSet, Terminal
  <2>. HIDE DEF g
  <2>2. /\ g.candidates = h.candidates /\ g.loaded = h.loaded /\ g.stage = h.stage
        /\ g.pending = h.pending /\ g.parent = h.parent /\ g.found = h.found
    BY <2>1, <1>1 DEF HuntState
  <2>. QED
    BY <2>2, Zenon DEF Moved, Still, g
<1>4. CASE h.stage = "probe" /\ h.queue = <<>>
  <2>1. IdleOK(h)
    <3>1. SUFFICES ASSUME SplitOK(h, C, F) PROVE FALSE
      BY <1>4 DEF HuntInv
    <3>2. h.parent \in CoreSets /\ Cardinality(h.parent) >= 2
      BY <3>1, <1>1 DEF SplitOK, HuntState
    <3>3. /\ LowerHalf(h.parent) # {} /\ UpperHalf(h.parent) # {} /\ h.parent # {}
      BY <3>2, HalvesProper
    <3>. QED
      BY <3>1, <3>3, <1>4 DEF SplitOK, HalfOK, WholeOK
  <2>2. h.parent = {} /\ p # <<>> /\ g = SplitNext(h)
    BY <2>1, <1>4 DEF IdleOK, NextLiveSet, Terminal
  <2>3. /\ k \in 1..(Len(p) + 1)
        /\ \A j \in 1..(k - 1) : j \in 1..Len(p) /\ Cardinality(p[j]) = 1
    BY <1>1, FirstSplittableFirst
  <2>. DEFINE D == {p[j] : j \in 1..(k - 1)}
  <2>4. LoneHead(p) = UNION D
    BY Zenon DEF LoneHead
  <2>5. D \in SUBSET Waiting(h) /\ \A W \in D : Cardinality(W) = 1
    BY <2>3 DEF Waiting
  <2>6. CASE k > Len(p)
    <3>1. g = [h EXCEPT !.pending = <<>>, !.found = f,
                        !.stage = IF f # {} THEN "culprit" ELSE "exhausted"]
      BY <2>2, <2>6 DEF SplitNext, f, k
    <3>2. D = Waiting(h)
      <4>1. k = Len(p) + 1 /\ k - 1 = Len(p)
        BY <1>1, <2>3, <2>6, SMTT(60)
      <4>. QED
        BY <4>1, Zenon DEF Waiting
    <3>. HIDE DEF g, f, D
    <3>3. /\ g.candidates = h.candidates /\ g.loaded = h.loaded /\ g.pending = <<>>
          /\ g.parent = {} /\ g.found = f
          /\ g.stage = IF f # {} THEN "culprit" ELSE "exhausted"
      BY <3>1, <2>2, <1>1 DEF HuntState
    <3>4. f = h.found \cup UNION Waiting(h)
      BY <3>2, <2>4, Zenon DEF f
    <3>. QED
      BY <1>4, <2>2, <2>5, <3>2, <3>3, <3>4, Zenon DEF Moved, g
  <2>7. CASE k <= Len(p)
    <3>. DEFINE t == p[k]
                rest == SubSeq(p, k + 1, Len(p))
    <3>1. g = [h EXCEPT !.pending = rest, !.found = f, !.parent = t, !.guilty = <<>>,
                        !.level = SplitLevel(h, t),
                        !.queue = <<UpperHalf(t)>>, !.inFlight = LowerHalf(t)]
      BY <2>2, <2>3, <2>7, <1>1 DEF SplitNext, f, k
    <3>2. /\ Len(rest) = Len(p) - k
          /\ \A i \in 1..Len(rest) : i + k \in 1..Len(p) /\ rest[i] = p[i + k]
      <4>1. k \in 1..Len(p)
        BY <1>1, <2>3, <2>7
      <4>. HIDE DEF k, p
      <4>. QED
        BY <4>1, <1>1, RestOfSequence, SMTT(60)
    <3>3. t \in Waiting(h)
      BY <1>1, <2>3, <2>7 DEF Waiting
    <3>. HIDE DEF g, f
    <3>4. /\ g.candidates = h.candidates /\ g.loaded = h.loaded /\ g.pending = rest
          /\ g.parent = t /\ g.found = f /\ g.stage = h.stage
      <4>. HIDE DEF rest, t
      <4>. QED
        BY <3>1, <1>1 DEF HuntState
    <3>5. {rest[i] : i \in 1..Len(rest)} \cup {t} \cup D = Waiting(h)
      <4>1. \A j \in 1..Len(p) : j \in 1..(k - 1) \/ j = k \/ (j - k \in 1..Len(rest) /\ rest[j - k] = p[j])
        <5>1. \A j \in 1..Len(p) : j > k => j - k \in 1..Len(rest) /\ (j - k) + k = j
          BY <3>2, <2>3, <1>1, SMTT(60)
        <5>2. \A j \in 1..Len(p) : j > k \/ j = k \/ j \in 1..(k - 1)
          BY <2>3, <1>1
        <5>. HIDE DEF rest
        <5>. QED
          BY <5>1, <5>2, <3>2
      <4>2. \A j \in 1..Len(p) : p[j] \in {rest[i] : i \in 1..Len(rest)} \cup {t} \cup D
        <5>. HIDE DEF rest
        <5>. QED
          BY <4>1, Zenon
      <4>3. \A i \in 1..Len(rest) : rest[i] \in Waiting(h)
        <5>. HIDE DEF rest
        <5>. QED
          BY <3>2, Zenon DEF Waiting
      <4>4. Waiting(h) \subseteq {rest[i] : i \in 1..Len(rest)} \cup {t} \cup D
        BY <4>2, Zenon DEF Waiting
      <4>5. {rest[i] : i \in 1..Len(rest)} \subseteq Waiting(h)
        <5>. HIDE DEF rest
        <5>. QED
          BY <4>3, Zenon
      <4>. HIDE DEF rest, D, t
      <4>. QED
        BY <4>4, <4>5, <3>3, <2>5
    <3>6. Waiting(g) = {rest[i] : i \in 1..Len(rest)}
      BY <3>4, Zenon DEF Waiting
    <3>7. f = h.found \cup UNION D
      BY <2>4, Zenon DEF f
    <3>. HIDE DEF D, t, rest
    <3>8. \E u \in Waiting(h), E \in SUBSET Waiting(h) :
            /\ h.stage = "probe" /\ g.stage = "probe" /\ h.parent = {}
            /\ \A W \in E : Cardinality(W) = 1
            /\ g.parent = u /\ g.found = h.found \cup UNION E
            /\ Waiting(g) \cup {u} \cup E = Waiting(h)
      BY <1>4, <2>2, <2>5, <3>3, <3>4, <3>5, <3>6, <3>7, ZenonT(60)
    <3>. QED
      BY <3>4, <3>8, Zenon DEF Moved, g
  <2>8. k > Len(p) \/ k <= Len(p)
    <3>1. k \in Nat
      BY <1>1, <2>3
    <3>. HIDE DEF k, p
    <3>. QED
      BY <3>1, <1>1
  <2>. QED
    BY <2>6, <2>7, <2>8, Zenon
<1>. QED
  BY <1>1, <1>2, <1>3, <1>4

\* An answer to the lead.
LEMMA LeadAnswers ==
  ASSUME NEW h, NEW C, NEW F, NEW r \in BOOLEAN, NEW C2, ~r => h.inFlight \in C2,
         HuntInv(h, C, F), h.stage = "lead", h.inFlight # {}
  PROVE  LeadAnswered(h, RecordLead(h, r), r, C2)
<1>. DEFINE g == RecordLead(h, r)
<1>1. h \in HuntState /\ ValidLead(h)
  BY DEF HuntInv
<1>2. /\ h.pending = <<h.candidates>> /\ h.parent = {} /\ h.found = {}
      /\ h.inFlight = LeadProbe(h.candidates, h.loaded)
  BY <1>1 DEF ValidLead
<1>3. CASE r
  <2>1. g = [h EXCEPT !.stage = "culprit", !.pending = <<>>, !.found = h.inFlight,
                      !.inFlight = {}, !.launchesDone = 0]
    BY <1>3 DEF RecordLead
  <2>. HIDE DEF g
  <2>2. g.stage = "culprit" /\ g.pending = <<>> /\ g.parent = {} /\ g.found = h.inFlight
    BY <2>1, <1>1, <1>2 DEF HuntState
  <2>. QED
    BY <2>2, <1>2, <1>3, Zenon DEF LeadAnswered, g
<1>4. CASE ~r
  <2>1. g = [h EXCEPT !.stage = "probe", !.inFlight = {}, !.launchesDone = 0]
    BY <1>4 DEF RecordLead
  <2>. HIDE DEF g
  <2>2. g.stage = "probe" /\ g.pending = h.pending /\ g.parent = h.parent /\ g.found = h.found
    BY <2>1, <1>1 DEF HuntState
  <2>. QED
    BY <2>2, <1>2, <1>4, Zenon DEF LeadAnswered, Still, g
<1>. QED
  BY <1>3, <1>4

\* An answer about a whole set.
LEMMA WholeAnswers ==
  ASSUME NEW h, NEW C, NEW F, NEW r \in BOOLEAN, NEW C2, C \subseteq C2,
         HuntInv(h, C, F), h.stage = "probe", h.inFlight # {}, h.inFlight = h.parent
  PROVE  WholeAnswered(h, RecordWholeSet(h, r), r, C2)
<1>. DEFINE g == RecordWholeSet(h, r)
<1>1. SplitOK(h, C, F) /\ h \in HuntState
  BY SplitFacts
<1>2. WholeOK(h, C)
  BY <1>1, SplitFacts DEF SplitOK, HalfOK, WholeOK
<1>3. LowerHalf(h.parent) \in C2 /\ UpperHalf(h.parent) \in C2
  BY <1>2 DEF WholeOK
<1>4. CASE r
  <2>1. g = [h EXCEPT !.parent = {}, !.level = 0, !.inFlight = {}, !.launchesDone = 0,
                      !.found = h.found \cup h.parent, !.noReproduce = 0,
                      !.stage = IF h.pending = <<>> THEN "culprit" ELSE "probe"]
    BY <1>4 DEF RecordWholeSet
  <2>. HIDE DEF g
  <2>2. /\ g.pending = h.pending /\ g.parent = {} /\ g.found = h.found \cup h.parent
        /\ g.stage = IF h.pending = <<>> THEN "culprit" ELSE "probe"
    BY <2>1, <1>1 DEF HuntState
  <2>. QED
    BY <2>2, <1>3, <1>4, Zenon DEF WholeAnswered, g
<1>5. CASE ~r
  <2>1. g = [h EXCEPT !.parent = {}, !.level = 0, !.inFlight = {}, !.launchesDone = 0,
                      !.pending = <<>>,
                      !.stage = IF h.found # {} THEN "culprit" ELSE "exhausted"]
    BY <1>5 DEF RecordWholeSet
  <2>. HIDE DEF g
  <2>2. /\ g.pending = <<>> /\ g.parent = {} /\ g.found = h.found
        /\ g.stage = IF h.found # {} THEN "culprit" ELSE "exhausted"
    BY <2>1, <1>1 DEF HuntState
  <2>. QED
    BY <2>2, <1>3, <1>5, Zenon DEF WholeAnswered, g
<1>. QED
  BY <1>4, <1>5

\* The second half has answered.
LEMMA FoldAnswers ==
  ASSUME NEW h, NEW C, NEW F, NEW guilty \in Seq(CoreSets),
         h \in HuntState, h.stage = "probe",
         \/ guilty = <<>>
         \/ guilty = <<LowerHalf(h.parent)>> /\ LowerHalf(h.parent) \in F
            /\ UpperHalf(h.parent) \in C
         \/ guilty = <<UpperHalf(h.parent)>> /\ UpperHalf(h.parent) \in F
            /\ LowerHalf(h.parent) \in C
         \/ /\ guilty = <<LowerHalf(h.parent), UpperHalf(h.parent)>>
            /\ LowerHalf(h.parent) \in F /\ UpperHalf(h.parent) \in F
  PROVE  /\ HalfAnswered(h, FoldSplit(h, guilty), C, F)
         /\ FoldSplit(h, guilty).candidates = h.candidates
         /\ FoldSplit(h, guilty).loaded = h.loaded
<1>. DEFINE g == FoldSplit(h, guilty)
            p == h.pending
            lower == LowerHalf(h.parent)
            upper == UpperHalf(h.parent)
<1>1. p \in Seq(CoreSets) /\ Len(p) \in Nat /\ h.parent \in CoreSets /\ h.noReproduce \in Int
  BY MaxNoReproduceAssumption DEF HuntState
<1>2. \A q \in Seq(CoreSets) :
        /\ Len(q) \in Nat /\ Len(q \o p) = Len(q) + Len(p)
        /\ \A i \in 1..Len(q) : (q \o p)[i] = q[i]
        /\ \A i \in 1..Len(p) : (q \o p)[i + Len(q)] = p[i]
  BY <1>1
<1>3. ASSUME NEW q \in Seq(CoreSets)
      PROVE  {(q \o p)[i] : i \in 1..Len(q \o p)} = Waiting(h) \cup {q[i] : i \in 1..Len(q)}
  <2>. DEFINE s == q \o p
  <2>1. /\ Len(q) \in Nat /\ Len(s) = Len(q) + Len(p)
        /\ \A i \in 1..Len(q) : s[i] = q[i]
        /\ \A i \in 1..Len(p) : s[i + Len(q)] = p[i]
    BY <1>2
  <2>. HIDE DEF s, p
  <2>2. \A i \in 1..Len(s) : i \in 1..Len(q) \/ (i - Len(q) \in 1..Len(p) /\ (i - Len(q)) + Len(q) = i)
    BY <2>1, <1>1
  <2>3. /\ \A i \in 1..Len(q) : i \in 1..Len(s)
        /\ \A i \in 1..Len(p) : i + Len(q) \in 1..Len(s)
    BY <2>1, <1>1
  <2>4. {s[i] : i \in 1..Len(s)} = {p[i] : i \in 1..Len(p)} \cup {q[i] : i \in 1..Len(q)}
    <3>1. \A i \in 1..Len(s) : s[i] \in {p[j] : j \in 1..Len(p)} \cup {q[j] : j \in 1..Len(q)}
      BY <2>1, <2>2, ZenonT(60)
    <3>2. \A i \in 1..Len(q) : q[i] \in {s[j] : j \in 1..Len(s)}
      BY <2>1, <2>3
    <3>3. \A i \in 1..Len(p) : p[i] \in {s[j] : j \in 1..Len(s)}
      BY <2>1, <2>3
    <3>. QED
      BY <3>1, <3>2, <3>3
  <2>. QED
    BY <2>4, Zenon DEF Waiting, s, p
<1>4. CASE guilty # <<>>
  <2>. DEFINE q == guilty \o p
              G == {guilty[i] : i \in 1..Len(guilty)}
  <2>1. g = [h EXCEPT !.parent = {}, !.level = 0, !.inFlight = {},
                      !.launchesDone = 0, !.guilty = <<>>, !.pending = q]
    BY <1>4 DEF FoldSplit
  <2>2. {q[i] : i \in 1..Len(q)} = Waiting(h) \cup G
    BY <1>3
  <2>3. G \in {{lower}, {upper}, {lower, upper}} /\ G \subseteq F /\ {lower, upper} \ G \subseteq C
    <3>1. CASE guilty = <<lower>> /\ lower \in F /\ upper \in C
      <4>1. G = {lower}
        <5>1. Len(guilty) = 1 /\ guilty[1] = lower /\ 1..1 = {1}
          BY <3>1
        <5>. HIDE DEF lower, upper
        <5>. QED
          BY <5>1
      <4>. QED
        BY <4>1, <3>1
    <3>2. CASE guilty = <<upper>> /\ upper \in F /\ lower \in C
      <4>1. G = {upper}
        <5>1. Len(guilty) = 1 /\ guilty[1] = upper /\ 1..1 = {1}
          BY <3>2
        <5>. HIDE DEF lower, upper
        <5>. QED
          BY <5>1
      <4>. QED
        BY <4>1, <3>2
    <3>3. CASE guilty = <<lower, upper>> /\ lower \in F /\ upper \in F
      <4>1. G = {lower, upper}
        <5>1. Len(guilty) = 2 /\ guilty[1] = lower /\ guilty[2] = upper /\ 1..2 = {1, 2}
          BY <3>3
        <5>. HIDE DEF lower, upper
        <5>. QED
          BY <5>1
      <4>. QED
        BY <4>1, <3>3
    <3>. QED
      BY <1>4, <3>1, <3>2, <3>3
  <2>. HIDE DEF g, q, G
  <2>4. /\ g.pending = q /\ g.parent = {} /\ g.found = h.found /\ g.stage = "probe"
        /\ g.candidates = h.candidates /\ g.loaded = h.loaded
    BY <2>1 DEF HuntState
  <2>5. Waiting(g) = Waiting(h) \cup G
    BY <2>2, <2>4, Zenon DEF Waiting
  <2>6. G \in SUBSET {lower, upper} /\ G # {}
    BY <2>3
  <2>. QED
    BY <2>3, <2>4, <2>5, <2>6, Zenon DEF HalfAnswered, g
<1>5. CASE guilty = <<>> /\ h.noReproduce + 1 >= MaxNoReproduce
  <2>1. g = [h EXCEPT !.parent = {}, !.level = 0, !.inFlight = {},
                      !.launchesDone = 0, !.guilty = <<>>, !.noReproduce = h.noReproduce + 1,
                      !.parent = h.parent, !.level = h.level, !.queue = <<h.parent>>]
    BY <1>1, <1>5, MaxNoReproduceAssumption DEF FoldSplit
  <2>. HIDE DEF g
  <2>2. /\ g.pending = h.pending /\ g.parent = h.parent /\ g.found = h.found /\ g.stage = "probe"
        /\ g.candidates = h.candidates /\ g.loaded = h.loaded
    BY <2>1 DEF HuntState
  <2>. QED
    BY <2>2, Zenon DEF HalfAnswered, Still, g
<1>6. CASE guilty = <<>> /\ h.noReproduce + 1 < MaxNoReproduce
  <2>. DEFINE q == <<h.parent>> \o p
  <2>1. g = [h EXCEPT !.parent = {}, !.level = 0, !.inFlight = {}, !.launchesDone = 0,
                      !.guilty = <<>>, !.noReproduce = h.noReproduce + 1, !.pending = q]
    BY <1>1, <1>6, MaxNoReproduceAssumption DEF FoldSplit
  <2>2. <<h.parent>> \in Seq(CoreSets)
    BY <1>1
  <2>3. {q[i] : i \in 1..Len(q)} = Waiting(h) \cup {<<h.parent>>[i] : i \in 1..Len(<<h.parent>>)}
    BY <1>3, <2>2, Zenon
  <2>4. {<<h.parent>>[i] : i \in 1..Len(<<h.parent>>)} = {h.parent}
    OBVIOUS
  <2>. HIDE DEF g, q
  <2>5. /\ g.pending = q /\ g.parent = {} /\ g.found = h.found /\ g.stage = "probe"
        /\ g.candidates = h.candidates /\ g.loaded = h.loaded
    BY <2>1 DEF HuntState
  <2>6. Waiting(g) = Waiting(h) \cup {h.parent}
    BY <2>3, <2>4, <2>5, ZenonT(60) DEF Waiting
  <2>. QED
    BY <2>5, <2>6, Zenon DEF HalfAnswered, g
<1>. QED
  BY <1>1, <1>4, <1>5, <1>6, MaxNoReproduceAssumption

\* record moves suspicion in one of the ways named above.
LEMMA RecordAnswers ==
  ASSUME NEW h, NEW C, NEW F, NEW r \in BOOLEAN, NEW C2, NEW F2,
         C \subseteq C2, F \subseteq F2, r => h.inFlight \in F2, ~r => h.inFlight \in C2,
         HuntInv(h, C, F), h.inFlight # {}
  PROVE  Answered(h, Record(h, r), r, C2, F2)
<1>1. h.stage \in {"lead", "probe"} /\ h \in HuntState
  BY DEF HuntInv, HuntState, Stage, Terminal, ValidTerminal
<1>2. CASE h.stage = "lead"
  <2>1. Record(h, r) = RecordLead(h, r)
    BY <1>2 DEF Record
  <2>2. LeadAnswered(h, Record(h, r), r, C2)
    BY <2>1, <1>2, LeadAnswers
  <2>3. RecordLead(h, r).candidates = h.candidates /\ RecordLead(h, r).loaded = h.loaded
    BY <1>1 DEF RecordLead, HuntState
  <2>. QED
    BY <2>1, <2>2, <2>3, Zenon DEF Answered
<1>3. CASE h.stage = "probe"
  <2>. DEFINE lower == LowerHalf(h.parent)
              upper == UpperHalf(h.parent)
  <2>1. /\ lower \in CoreSets /\ upper \in CoreSets /\ lower # {} /\ upper # {} /\ lower # upper
        /\ SplitOK(h, C, F) /\ h.parent \in CoreSets /\ h.parent # {} /\ lower \cup upper = h.parent
    BY <1>3, SplitFacts
  <2>2. CASE h.inFlight = h.parent
    <3>1. Record(h, r) = RecordWholeSet(h, r)
      BY <1>3, <2>2 DEF Record
    <3>2. WholeAnswered(h, Record(h, r), r, C2)
      BY <3>1, <1>3, <2>2, WholeAnswers
    <3>3. RecordWholeSet(h, r).candidates = h.candidates /\ RecordWholeSet(h, r).loaded = h.loaded
      BY <1>1 DEF RecordWholeSet, HuntState
    <3>. QED
      BY <3>1, <3>2, <3>3, <1>3, <2>1, Zenon DEF Answered
  <2>3. CASE h.inFlight # h.parent
    <3>. DEFINE guilty == IF r THEN Append(h.guilty, h.inFlight) ELSE h.guilty
                counted == IF r THEN [h EXCEPT !.noReproduce = 0] ELSE h
    <3>1. Record(h, r) = RecordHalf(h, r)
      BY <1>3, <2>3 DEF Record
    <3>2. HalfOK(h, C, F)
      BY <2>1, <2>3 DEF SplitOK, HalfOK, WholeOK
    <3>3. /\ counted \in HuntState /\ counted.stage = "probe"
          /\ counted.candidates = h.candidates /\ counted.loaded = h.loaded
          /\ counted.pending = h.pending /\ counted.parent = h.parent /\ counted.found = h.found
      <4>1. 0 \in 0..MaxNoReproduce
        BY MaxNoReproduceAssumption
      <4>. QED
        BY <4>1, <1>1, <1>3 DEF HuntState
    <3>4. CASE h.queue # <<>>
      <4>. DEFINE g == [counted EXCEPT !.guilty = guilty, !.inFlight = {}, !.launchesDone = 0]
      <4>1. RecordHalf(h, r) = g
        BY <3>4 DEF RecordHalf
      <4>. HIDE DEF guilty, counted
      <4>2. /\ g.stage = "probe" /\ g.candidates = h.candidates /\ g.loaded = h.loaded
            /\ g.pending = h.pending /\ g.parent = h.parent /\ g.found = h.found
        BY <3>3 DEF HuntState
      <4>. HIDE DEF g
      <4>3. HalfAnswered(h, g, C2, F2)
        BY <4>2, Zenon DEF HalfAnswered, Still
      <4>. QED
        BY <4>1, <4>2, <4>3, <3>1, <1>3, <2>1, Zenon DEF Answered
    <3>5. CASE h.queue = <<>>
      <4>1. RecordHalf(h, r) = FoldSplit(counted, guilty)
        BY <3>5 DEF RecordHalf
      <4>2. h.inFlight = upper /\ HalfDone(h, C, F)
        BY <2>1, <3>2, <3>5 DEF HalfOK
      <4>3. /\ guilty \in Seq(CoreSets)
            /\ \/ guilty = <<>>
               \/ guilty = <<lower>> /\ lower \in F2 /\ upper \in C2
               \/ guilty = <<upper>> /\ upper \in F2 /\ lower \in C2
               \/ guilty = <<lower, upper>> /\ lower \in F2 /\ upper \in F2
        <5>1. CASE h.guilty = <<>> /\ lower \in C
          <6>1. Append(<<>>, upper) = <<upper>>
            OBVIOUS
          <6>. QED
            BY <5>1, <6>1, <4>2, <2>1
        <5>2. CASE h.guilty = <<lower>> /\ lower \in F
          <6>1. Append(<<lower>>, upper) = <<lower, upper>>
            BY <2>1, PairSequence, ZenonT(60)
          <6>. QED
            BY <5>2, <6>1, <4>2, <2>1
        <5>. QED
          BY <4>2, <5>1, <5>2 DEF HalfDone
      <4>. DEFINE g == FoldSplit(counted, guilty)
      <4>. HIDE DEF guilty, counted
      <4>4. /\ HalfAnswered(counted, g, C2, F2)
            /\ g.candidates = counted.candidates /\ g.loaded = counted.loaded
        <5>1. LowerHalf(counted.parent) = lower /\ UpperHalf(counted.parent) = upper
          BY <3>3
        <5>. HIDE DEF lower, upper, g
        <5>2. \/ guilty = <<>>
              \/ /\ guilty = <<LowerHalf(counted.parent)>>
                 /\ LowerHalf(counted.parent) \in F2 /\ UpperHalf(counted.parent) \in C2
              \/ /\ guilty = <<UpperHalf(counted.parent)>>
                 /\ UpperHalf(counted.parent) \in F2 /\ LowerHalf(counted.parent) \in C2
              \/ /\ guilty = <<LowerHalf(counted.parent), UpperHalf(counted.parent)>>
                 /\ LowerHalf(counted.parent) \in F2 /\ UpperHalf(counted.parent) \in F2
          BY <4>3, <5>1, Zenon
        <5>3. guilty \in Seq(CoreSets) /\ counted \in HuntState /\ counted.stage = "probe"
          BY <3>3, <4>3, Zenon
        <5>. QED
          BY <5>2, <5>3, FoldAnswers DEF g
      <4>5. HalfAnswered(h, g, C2, F2)
        <5>. HIDE DEF g
        <5>1. Waiting(counted) = Waiting(h)
          BY <3>3, Zenon DEF Waiting
        <5>. QED
          BY <4>4, <5>1, <3>3 DEF HalfAnswered, Still
      <4>6. g.candidates = h.candidates /\ g.loaded = h.loaded
        BY <3>3, <4>4, Zenon
      <4>. HIDE DEF g
      <4>. QED
        BY <4>1, <4>5, <4>6, <3>1, <1>3, <2>1, Zenon DEF Answered, g
    <3>. QED
      BY <3>4, <3>5
  <2>. QED
    BY <2>2, <2>3
<1>. QED
  BY <1>1, <1>2, <1>3

-----------------------------------------------------------------------------
(* The refinement of Attribution *)

\* Open in terms of the sets that wait.
LEMMA OpenIsWaiting ==
  ASSUME NEW h
  PROVE  Open(h) = (UNION Waiting(h)) \cup h.parent
<1>1. Members(h.pending) = UNION Waiting(h)
  BY DEF Members, Waiting
<1>. QED
  BY <1>1 DEF Open

\* A smaller collection of sets has a smaller union, and each of them is in it.
LEMMA UnionGrows ==
  ASSUME NEW A, NEW B, A \subseteq B
  PROVE  UNION A \subseteq UNION B /\ \A S \in B : S \subseteq UNION B
OBVIOUS

\* An empty list of sets leaves nobody waiting.
LEMMA NobodyWaits ==
  ASSUME NEW h, h.pending = <<>>
  PROVE  Waiting(h) = {}
<1>1. 1..Len(<<>>) = {}
  OBVIOUS
<1>. QED
  BY <1>1 DEF Waiting

\* Nobody is both convicted and under suspicion.
LEMMA FoundApart ==
  ASSUME NEW h, NEW C, NEW F, HuntInv(h, C, F)
  PROVE  h.found \cap Open(h) = {}
<1>1. \A i \in 1..Len(h.pending) : h.pending[i] \cap h.found = {}
  BY DEF HuntInv, PendingOK
<1>2. h.found \cap Members(h.pending) = {}
  BY <1>1 DEF Members
<1>3. h.stage \in Stage
  BY DEF HuntInv, HuntState
<1>4. h.parent \cap h.found = {}
  BY <1>3 DEF HuntInv, ValidLead, IdleOK, SplitOK, ValidTerminal, Terminal, Stage
<1>. QED
  BY <1>2, <1>4 DEF Open

\* A hunt that is over suspects nobody.
LEMMA OverIsClosed ==
  ASSUME NEW h, Terminal(h) => ValidTerminal(h), Terminal(h)
  PROVE  Open(h) = {} /\ h.inFlight = {}
<1>1. h.pending = <<>> /\ h.parent = {} /\ h.inFlight = {}
  BY DEF ValidTerminal
<1>. QED
  BY <1>1, NobodyWaits, OpenIsWaiting

\* What a caller sees of a step that is not the last, and of the last.
Narrows(h, g) ==
  /\ ~Terminal(g) /\ Open(g) \subseteq Open(h)
  /\ h.found \subseteq g.found /\ g.found \ h.found \subseteq Open(h) \ Open(g)

Concludes(h, g) ==
  /\ Terminal(g) /\ Open(g) = {}
  /\ h.found \subseteq g.found /\ g.found \ h.found \subseteq Open(h)
  /\ g.stage = IF g.found # {} THEN "culprit" ELSE "exhausted"

\* A dispatch narrows suspicion or concludes the hunt.
LEMMA MoveNarrows ==
  ASSUME NEW h, NEW g, Moved(h, g), ~Terminal(h), g.found \cap Open(g) = {}
  PROVE  Narrows(h, g) \/ Concludes(h, g)
<1>1. /\ Open(h) = (UNION Waiting(h)) \cup h.parent
      /\ Open(g) = (UNION Waiting(g)) \cup g.parent
  BY OpenIsWaiting
<1>2. CASE g.stage = h.stage /\ Still(h, g)
  <2>1. Open(g) = Open(h) /\ g.found = h.found
    BY <1>2 DEF Still, Open
  <2>2. ~Terminal(g)
    BY <1>2 DEF Terminal
  <2>. QED
    BY <2>1, <2>2 DEF Narrows
<1>3. CASE /\ h.stage = "probe" /\ h.parent = {} /\ h.pending # <<>>
           /\ \A W \in Waiting(h) : Cardinality(W) = 1
           /\ g.pending = <<>> /\ g.parent = {} /\ g.found = h.found \cup UNION Waiting(h)
           /\ g.stage = IF g.found # {} THEN "culprit" ELSE "exhausted"
  <2>1. Open(g) = {}
    BY <1>1, <1>3, NobodyWaits
  <2>2. h.found \subseteq g.found /\ g.found \ h.found \subseteq Open(h)
    BY <1>1, <1>3
  <2>3. Terminal(g)
    BY <1>3 DEF Terminal
  <2>. QED
    BY <2>1, <2>2, <2>3, <1>3 DEF Concludes
<1>4. ASSUME NEW t \in Waiting(h), NEW D \in SUBSET Waiting(h),
             g.stage = "probe", h.parent = {}, g.parent = t, g.found = h.found \cup UNION D,
             Waiting(g) \cup {t} \cup D = Waiting(h)
      PROVE  Narrows(h, g)
  <2>0. /\ UNION Waiting(g) \subseteq UNION Waiting(h) /\ t \subseteq UNION Waiting(h)
        /\ UNION D \subseteq UNION Waiting(h)
    <3>1. Waiting(g) \subseteq Waiting(h) /\ D \subseteq Waiting(h)
      BY <1>4
    <3>. QED
      BY <3>1, UnionGrows
  <2>1. Open(g) \subseteq Open(h)
    BY <1>1, <1>4, <2>0
  <2>2. h.found \subseteq g.found /\ g.found \ h.found \subseteq Open(h)
    BY <1>1, <1>4, <2>0
  <2>3. ~Terminal(g)
    BY <1>4 DEF Terminal
  <2>. QED
    BY <2>1, <2>2, <2>3 DEF Narrows
<1>. QED
  BY <1>2, <1>3, <1>4, Zenon DEF Moved

\* So does an answer.
LEMMA AnswerNarrows ==
  ASSUME NEW h, NEW g, NEW r \in BOOLEAN, NEW C, NEW F, Answered(h, g, r, C, F),
         g.found \cap Open(g) = {}, h.inFlight # {}
  PROVE  Narrows(h, g) \/ Concludes(h, g)
<1>1. /\ Open(h) = (UNION Waiting(h)) \cup h.parent
      /\ Open(g) = (UNION Waiting(g)) \cup g.parent
  BY OpenIsWaiting
<1>2. CASE LeadAnswered(h, g, r, C)
  <2>1. Open(h) = h.candidates /\ h.found = {}
    <3>1. h.pending = <<h.candidates>> /\ h.parent = {} /\ h.found = {}
      BY <1>2 DEF LeadAnswered
    <3>2. UNION {<<h.candidates>>[i] : i \in 1..Len(<<h.candidates>>)} = h.candidates
      OBVIOUS
    <3>. QED
      BY <3>1, <3>2 DEF Open, Members
  <2>2. CASE r
    <3>1. /\ g.stage = "culprit" /\ g.pending = <<>> /\ g.parent = {} /\ g.found = h.inFlight
          /\ h.inFlight = LeadProbe(h.candidates, h.loaded)
      BY <1>2, <2>2 DEF LeadAnswered
    <3>2. Open(g) = {}
      BY <1>1, <3>1, NobodyWaits
    <3>3. g.found \subseteq h.candidates
      BY <3>1 DEF LeadProbe
    <3>. QED
      BY <2>1, <3>1, <3>2, <3>3 DEF Concludes, Terminal
  <2>3. CASE ~r
    <3>1. g.stage = "probe" /\ Still(h, g)
      BY <1>2, <2>3 DEF LeadAnswered
    <3>2. Open(g) = Open(h) /\ g.found = h.found
      BY <3>1 DEF Still, Open
    <3>. QED
      BY <3>1, <3>2 DEF Narrows, Terminal
  <2>. QED
    BY <2>2, <2>3
<1>3. CASE WholeAnswered(h, g, r, C)
  <2>1. g.parent = {}
    BY <1>3 DEF WholeAnswered
  <2>2. CASE r
    <3>1. /\ g.pending = h.pending /\ g.found = h.found \cup h.parent
          /\ g.stage = IF h.pending = <<>> THEN "culprit" ELSE "probe"
          /\ h.parent # {}
      BY <1>3, <2>2 DEF WholeAnswered
    <3>2. Waiting(g) = Waiting(h)
      BY <3>1, Zenon DEF Waiting
    <3>3. Open(g) \subseteq Open(h) /\ h.found \subseteq g.found /\ g.found \ h.found \subseteq Open(h)
      <4>1. UNION Waiting(g) = UNION Waiting(h)
        BY <3>2
      <4>. QED
        BY <1>1, <2>1, <3>1, <4>1, Zenon
    <3>4. CASE h.pending = <<>>
      <4>1. Open(g) = {}
        BY <1>1, <2>1, <3>1, <3>4, NobodyWaits
      <4>. QED
        BY <3>1, <3>3, <3>4, <4>1 DEF Concludes, Terminal
    <3>5. CASE h.pending # <<>>
      BY <3>1, <3>3, <3>5 DEF Narrows, Terminal
    <3>. QED
      BY <3>4, <3>5
  <2>3. CASE ~r
    <3>1. /\ g.pending = <<>> /\ g.found = h.found
          /\ g.stage = IF h.found # {} THEN "culprit" ELSE "exhausted"
      BY <1>3, <2>3 DEF WholeAnswered
    <3>2. Open(g) = {}
      BY <1>1, <2>1, <3>1, NobodyWaits
    <3>. QED
      BY <3>1, <3>2 DEF Concludes, Terminal
  <2>. QED
    BY <2>2, <2>3
<1>4. ASSUME HalfAnswered(h, g, C, F), LowerHalf(h.parent) \cup UpperHalf(h.parent) = h.parent
      PROVE  Narrows(h, g)
  <2>1. g.found = h.found /\ ~Terminal(g)
    BY <1>4 DEF HalfAnswered, Terminal
  <2>2. Open(g) \subseteq Open(h)
    <3>1. CASE Still(h, g)
      BY <3>1 DEF Still, Open
    <3>2. CASE g.parent = {} /\ Waiting(g) = Waiting(h) \cup {h.parent}
      <4>1. UNION Waiting(g) = (UNION Waiting(h)) \cup h.parent
        BY <3>2
      <4>. QED
        BY <3>2, <4>1, <1>1, Zenon
    <3>3. ASSUME NEW G \in SUBSET {LowerHalf(h.parent), UpperHalf(h.parent)},
                 g.parent = {}, Waiting(g) = Waiting(h) \cup G
          PROVE  Open(g) \subseteq Open(h)
      <4>1. UNION G \subseteq h.parent
        BY <1>4
      <4>2. UNION Waiting(g) = (UNION Waiting(h)) \cup UNION G
        BY <3>3
      <4>. QED
        BY <3>3, <4>1, <4>2, <1>1, Zenon
    <3>. QED
      BY <1>4, <3>1, <3>2, <3>3, Zenon DEF HalfAnswered
  <2>. QED
    BY <2>1, <2>2 DEF Narrows
<1>. QED
  BY <1>2, <1>3, <1>4, Zenon DEF Answered

\* A step of a hunt on a machine is a step of the hunt.
LEMMA FaultSpecIsSpec == FaultSpec => Spec
<1>1. FaultInit => Init
  BY DEF FaultInit
<1>2. [FaultNext]_fvars => [Next]_vars
  BY DEF FaultNext, fvars, Next, vars
<1>. QED
  BY <1>1, <1>2, PTL DEF FaultSpec, Spec

\* What the two kinds of step do to a state that satisfies the invariant.
LEMMA StepsNarrow ==
  ASSUME HuntInvariant, HuntInvariant', [Next]_vars
  PROVE  \/ UNCHANGED hunt
         \/ ~Terminal(hunt) /\ (Narrows(hunt, hunt') \/ Concludes(hunt, hunt'))
<1>1. hunt'.found \cap Open(hunt') = {}
  BY FoundApart DEF HuntInvariant
<1>2. CASE Dispatch
  <2>1. ~Terminal(hunt) /\ hunt.inFlight = {} /\ hunt' = NextLiveSet(hunt)
    BY <1>2 DEF Dispatch
  <2>2. Moved(hunt, hunt')
    BY <2>1, NextLiveSetMoves DEF HuntInvariant
  <2>. QED
    BY <1>1, <2>1, <2>2, MoveNarrows
<1>3. ASSUME NEW reproduced \in BOOLEAN, Answer(reproduced)
      PROVE  ~Terminal(hunt) /\ (Narrows(hunt, hunt') \/ Concludes(hunt, hunt'))
  <2>1. /\ hunt.inFlight # {} /\ hunt' = Record(hunt, reproduced)
        /\ clean \subseteq clean' /\ failed \subseteq failed'
        /\ reproduced => hunt.inFlight \in failed'
        /\ ~reproduced => hunt.inFlight \in clean'
    BY <1>3 DEF Answer
  <2>2. Answered(hunt, hunt', reproduced, clean', failed')
    BY <2>1, RecordAnswers DEF HuntInvariant
  <2>3. ~Terminal(hunt)
    BY <2>1, OverIsClosed DEF HuntInvariant, HuntInv
  <2>. QED
    BY <1>1, <2>1, <2>2, <2>3, AnswerNarrows
<1>. QED
  BY <1>2, <1>3 DEF Next, vars

\* The automaton of bisect.py keeps what an attribution promises the engine:
\* suspicion only shrinks, nobody is convicted who was not suspected or is ever
\* acquitted, and the one verdict tells whether anyone was convicted.
THEOREM HuntImplementsAttribution == FaultSpec => ImplementsAttribution
<1>1. Init => Caller!AInit
  <2>. SUFFICES ASSUME Init PROVE Caller!AInit
    OBVIOUS
  <2>1. PICK candidates \in CoreSets \ {{}}, loaded \in CoreSets \ {{}} :
          hunt = Begin(candidates, loaded)
    BY DEF Init
  <2>2. /\ hunt.pending = <<candidates>> /\ hunt.parent = {} /\ hunt.found = {}
        /\ hunt.stage \in {"lead", "probe"}
    BY <2>1 DEF Begin
  <2>3. Open(hunt) = candidates
    <3>1. UNION {<<candidates>>[i] : i \in 1..Len(<<candidates>>)} = candidates
      OBVIOUS
    <3>. QED
      BY <2>2, <3>1 DEF Open, Members
  <2>. QED
    <3>1. Open(hunt) \in (SUBSET Cores) \ {{}}
      BY <2>3 DEF CoreSets
    <3>2. ~Terminal(hunt)
      BY <2>2 DEF Terminal
    <3>. QED
      BY <2>2, <3>1, <3>2, Zenon DEF Caller!AInit
<1>2. HuntInvariant /\ HuntInvariant' /\ [Next]_vars => [Caller!ANext]_(Caller!avars)
  <2>. SUFFICES ASSUME HuntInvariant, HuntInvariant', [Next]_vars
                PROVE  [Caller!ANext]_(Caller!avars)
    OBVIOUS
  <2>1. CASE UNCHANGED hunt
    BY <2>1 DEF Caller!avars
  <2>2. CASE ~Terminal(hunt) /\ Narrows(hunt, hunt')
    BY <2>2 DEF Narrows, Caller!ANext, Caller!Narrow
  <2>3. CASE ~Terminal(hunt) /\ Concludes(hunt, hunt')
    BY <2>3 DEF Concludes, Caller!ANext, Caller!Conclude
  <2>. QED
    BY <2>1, <2>2, <2>3, StepsNarrow
<1>. QED
  BY <1>1, <1>2, HuntIsInvariant, FaultSpecIsSpec, PTL
     DEF Spec, ImplementsAttribution, Caller!ASpec

-----------------------------------------------------------------------------
(* A steady fault, T being its minimal sets *)

Fails(T, M) == \E X \in T : X \subseteq M

\* FaultTold and LoneKept of given values.
Told(h, C, F, T) ==
  /\ \A M \in C : ~Fails(T, M)
  /\ \A M \in F : Fails(T, M)
  /\ \A W \in Waiting(h) : Fails(T, W)
  /\ h.parent # {} => Fails(T, h.parent)
  /\ h.found # {} => Fails(T, h.found)
  /\ Terminal(h) => h.found # {}

LoneOf(h, T) == {c \in h.candidates : {c} \in T}

Kept(h, T) ==
  LET lead == LeadProbe(h.candidates, h.loaded)
  IN  \/ h.stage = "lead"
      \/ Terminal(h) /\ lead # {} /\ lead \subseteq LoneOf(h, T) /\ h.found = lead
      \/ /\ lead = {} \/ ~(lead \subseteq LoneOf(h, T))
         /\ h.found \subseteq LoneOf(h, T)
         /\ LoneOf(h, T) \subseteq h.found \cup Open(h)

\* A mask that holds a failing mask fails.
LEMMA FailsGrows ==
  ASSUME NEW T, NEW M, NEW N, M \subseteq N, Fails(T, M)
  PROVE  Fails(T, N)
BY DEF Fails

\* A waiting list that is not empty holds a set.
LEMMA SomeoneWaits ==
  ASSUME NEW h, h.pending \in Seq(CoreSets), h.pending # <<>>
  PROVE  Waiting(h) # {}
<1>1. 1 \in 1..Len(h.pending)
  BY EmptySeq
<1>. QED
  BY <1>1 DEF Waiting

\* A dispatch tells nothing false of a steady fault.
LEMMA ToldAfterMove ==
  ASSUME NEW h, NEW g, NEW C, NEW F, NEW T, Told(h, C, F, T), Moved(h, g), ~Terminal(h),
         h.pending \in Seq(CoreSets)
  PROVE  Told(g, C, F, T)
<1>1. \A M \in C : ~Fails(T, M)
  BY Zenon DEF Told
<1>2. \A M \in F : Fails(T, M)
  BY Zenon DEF Told
<1>3. /\ \A W \in Waiting(h) : Fails(T, W)
      /\ h.found # {} => Fails(T, h.found)
      /\ h.parent # {} => Fails(T, h.parent)
  BY Zenon DEF Told
<1>4. ASSUME NEW D \in SUBSET Waiting(h), NEW N, N = h.found \cup UNION D, N # {}
      PROVE  Fails(T, N)
  <2>1. CASE h.found # {}
    <3>1. h.found \subseteq N
      BY <1>4
    <3>. QED
      BY <3>1, <2>1, <1>3, FailsGrows
  <2>2. CASE h.found = {}
    <3>1. PICK W \in D : TRUE
      BY <1>4, <2>2
    <3>2. W \in Waiting(h) /\ W \subseteq N
      BY <3>1, <1>4
    <3>. QED
      BY <3>2, <1>3, FailsGrows
  <2>. QED
    BY <2>1, <2>2
<1>5. CASE g.stage = h.stage /\ Still(h, g)
  <2>1. Waiting(g) = Waiting(h) /\ g.found = h.found /\ g.parent = h.parent
    BY <1>5, Zenon DEF Still, Waiting
  <2>2. ~Terminal(g)
    BY <1>5 DEF Terminal
  <2>. QED
    BY <1>1, <1>2, <1>3, <2>1, <2>2, Zenon DEF Told
<1>6. CASE /\ h.stage = "probe" /\ h.parent = {} /\ h.pending # <<>>
           /\ \A W \in Waiting(h) : Cardinality(W) = 1
           /\ g.pending = <<>> /\ g.parent = {} /\ g.found = h.found \cup UNION Waiting(h)
           /\ g.stage = IF g.found # {} THEN "culprit" ELSE "exhausted"
  <2>1. Waiting(g) = {}
    BY <1>6, NobodyWaits
  <2>2. PICK W \in Waiting(h) : TRUE
    BY <1>6, SomeoneWaits
  <2>3. W # {}
    <3>. SUFFICES ASSUME W = {} PROVE FALSE
      OBVIOUS
    <3>1. Cardinality({}) = 1
      BY <1>6, <2>2, Zenon
    <3>2. Cardinality({}) = 0
      BY FS_EmptySet
    <3>. QED
      BY <3>1, <3>2
  <2>4. g.found # {}
    <3>1. g.found = h.found \cup UNION Waiting(h)
      BY <1>6
    <3>. QED
      BY <3>1, <2>2, <2>3
  <2>5. Fails(T, g.found)
    BY <1>4, <1>6, <2>4
  <2>6. g.parent = {}
    BY <1>6
  <2>. QED
    BY <1>1, <1>2, <2>1, <2>4, <2>5, <2>6 DEF Told
<1>7. ASSUME NEW t \in Waiting(h), NEW D \in SUBSET Waiting(h),
             g.stage = "probe", g.parent = t, g.found = h.found \cup UNION D,
             Waiting(g) \cup {t} \cup D = Waiting(h)
      PROVE  Told(g, C, F, T)
  <2>1. g.found # {} => Fails(T, g.found)
    BY <1>4, <1>7
  <2>2. Fails(T, g.parent) /\ \A W \in Waiting(g) : Fails(T, W)
    BY <1>3, <1>7
  <2>3. ~Terminal(g)
    BY <1>7 DEF Terminal
  <2>. QED
    BY <1>1, <1>2, <2>1, <2>2, <2>3, Zenon DEF Told
<1>. QED
  BY <1>5, <1>6, <1>7, Zenon DEF Moved

\* Nor does a true answer.
LEMMA ToldAfterAnswer ==
  ASSUME NEW h, NEW g, NEW C, NEW F, NEW T, NEW C2, NEW F2, NEW r \in BOOLEAN,
         Told(h, C, F, T), Answered(h, g, r, C2, F2),
         r <=> Fails(T, h.inFlight), h.inFlight # {},
         \A M \in C2 : M \in C \/ (~r /\ M = h.inFlight),
         \A M \in F2 : M \in F \/ (r /\ M = h.inFlight)
  PROVE  Told(g, C2, F2, T)
<1>1. \A M \in C2 : ~Fails(T, M)
  BY Zenon DEF Told
<1>2. \A M \in F2 : Fails(T, M)
  BY Zenon DEF Told
<1>3. /\ \A W \in Waiting(h) : Fails(T, W)
      /\ h.found # {} => Fails(T, h.found)
      /\ h.parent # {} => Fails(T, h.parent)
  BY Zenon DEF Told
<1>4. ASSUME Still(h, g), g.stage = "probe" PROVE Told(g, C2, F2, T)
  <2>1. Waiting(g) = Waiting(h) /\ g.found = h.found /\ g.parent = h.parent
    BY <1>4, Zenon DEF Still, Waiting
  <2>2. ~Terminal(g)
    BY <1>4 DEF Terminal
  <2>. QED
    BY <1>1, <1>2, <1>3, <2>1, <2>2, Zenon DEF Told
<1>5. CASE LeadAnswered(h, g, r, C2)
  <2>1. CASE r
    <3>1. g.pending = <<>> /\ g.parent = {} /\ g.found = h.inFlight
      BY <1>5, <2>1 DEF LeadAnswered
    <3>2. Waiting(g) = {}
      BY <3>1, NobodyWaits
    <3>. QED
      BY <1>1, <1>2, <2>1, <3>1, <3>2 DEF Told
  <2>2. CASE ~r
    BY <1>4, <1>5, <2>2 DEF LeadAnswered
  <2>. QED
    BY <2>1, <2>2
<1>6. CASE WholeAnswered(h, g, r, C2) /\ h.parent # {}
  <2>1. r
    BY <1>3, <1>6, Zenon DEF WholeAnswered
  <2>2. /\ g.parent = {} /\ g.pending = h.pending /\ g.found = h.found \cup h.parent
    BY <1>6, <2>1, Zenon DEF WholeAnswered
  <2>3. Waiting(g) = Waiting(h)
    BY <2>2, Zenon DEF Waiting
  <2>4. g.found # {} /\ h.parent \subseteq g.found
    BY <1>6, <2>2
  <2>5. Fails(T, g.found)
    BY <1>3, <1>6, <2>4, FailsGrows
  <2>. QED
    BY <1>1, <1>2, <1>3, <2>2, <2>3, <2>4, <2>5 DEF Told
<1>7. CASE HalfAnswered(h, g, C2, F2) /\ h.parent # {}
  <2>1. g.stage = "probe" /\ g.found = h.found
    BY <1>7, Zenon DEF HalfAnswered
  <2>2. ~Terminal(g)
    BY <2>1 DEF Terminal
  <2>3. CASE g.parent = {} /\ Waiting(g) = Waiting(h) \cup {h.parent}
    <3>1. \A W \in Waiting(g) : Fails(T, W)
      BY <1>3, <1>7, <2>3
    <3>. QED
      BY <1>1, <1>2, <1>3, <2>1, <2>2, <2>3, <3>1, Zenon DEF Told
  <2>4. ASSUME NEW G \in SUBSET {LowerHalf(h.parent), UpperHalf(h.parent)},
               G \subseteq F2, g.parent = {}, Waiting(g) = Waiting(h) \cup G
        PROVE  Told(g, C2, F2, T)
    <3>1. \A W \in Waiting(g) : Fails(T, W)
      BY <1>2, <1>3, <2>4
    <3>. QED
      BY <1>1, <1>2, <1>3, <2>1, <2>2, <2>4, <3>1, Zenon DEF Told
  <2>. QED
    BY <1>4, <1>7, <2>1, <2>3, <2>4, Zenon DEF HalfAnswered
<1>. QED
  BY <1>5, <1>6, <1>7, Zenon DEF Answered

\* Of single faults, a mask fails exactly when it holds one.
LEMMA LoneFails ==
  ASSUME NEW T \in SUBSET CoreSets, \A X \in T : Cardinality(X) = 1, NEW M
  PROVE  Fails(T, M) <=> \E c \in M : {c} \in T
<1>1. \A X \in T : \E c : X = {c}
  <2>. SUFFICES ASSUME NEW X \in T PROVE \E c : X = {c}
    OBVIOUS
  <2>1. IsFiniteSet(X) /\ Cardinality(X) = 1
    BY CoreSetFinite
  <2>. QED
    BY <2>1, FS_Singleton
<1>. QED
  BY <1>1 DEF Fails

\* A dispatch drops no lone fault and convicts nobody else.
LEMMA KeptAfterMove ==
  ASSUME NEW h, NEW g, NEW C, NEW F, NEW T \in SUBSET CoreSets,
         \A X \in T : Cardinality(X) = 1,
         Told(h, C, F, T), Kept(h, T), Moved(h, g), ~Terminal(h),
         h.pending \in Seq(CoreSets), \A W \in Waiting(h) : W \in CoreSets /\ W \subseteq h.candidates
  PROVE  Kept(g, T)
<1>. DEFINE lead == LeadProbe(h.candidates, h.loaded)
            lone == LoneOf(h, T)
<1>1. /\ g.candidates = h.candidates /\ g.loaded = h.loaded
      /\ LeadProbe(g.candidates, g.loaded) = lead /\ LoneOf(g, T) = lone
  BY Zenon DEF Moved, LoneOf
<1>2. /\ Open(h) = (UNION Waiting(h)) \cup h.parent
      /\ Open(g) = (UNION Waiting(g)) \cup g.parent
  BY OpenIsWaiting
<1>3. \A W \in Waiting(h) : Cardinality(W) = 1 => W \subseteq lone
  <2>. SUFFICES ASSUME NEW W \in Waiting(h), Cardinality(W) = 1 PROVE W \subseteq lone
    OBVIOUS
  <2>1. IsFiniteSet(W)
    BY CoreSetFinite
  <2>2. PICK x : W = {x}
    BY <2>1, FS_Singleton
  <2>3. Fails(T, W)
    BY Zenon DEF Told
  <2>4. x \in h.candidates /\ {x} \in T
    BY <2>2, <2>3, LoneFails
  <2>. QED
    BY <2>2, <2>4 DEF LoneOf
<1>4. h.stage = "probe" => /\ lead = {} \/ ~(lead \subseteq lone)
                           /\ h.found \subseteq lone /\ lone \subseteq h.found \cup Open(h)
  BY DEF Kept, Terminal
<1>. HIDE DEF lead, lone
<1>5. CASE g.stage = h.stage /\ Still(h, g)
  <2>1. g.found = h.found /\ Open(g) = Open(h)
    BY <1>5 DEF Still, Open
  <2>. QED
    BY <1>1, <1>4, <1>5, <2>1 DEF Kept, Terminal, lead, lone
<1>6. CASE /\ h.stage = "probe" /\ h.parent = {} /\ h.pending # <<>>
           /\ \A W \in Waiting(h) : Cardinality(W) = 1
           /\ g.pending = <<>> /\ g.parent = {} /\ g.found = h.found \cup UNION Waiting(h)
           /\ g.stage = IF g.found # {} THEN "culprit" ELSE "exhausted"
  <2>1. UNION Waiting(h) \subseteq lone
    BY <1>3, <1>6
  <2>2. g.found \subseteq lone /\ lone \subseteq g.found
    BY <1>2, <1>4, <1>6, <2>1
  <2>. QED
    BY <1>1, <1>4, <1>6, <2>2, Zenon DEF Kept
<1>7. ASSUME NEW t \in Waiting(h), NEW D \in SUBSET Waiting(h),
             h.stage = "probe", h.parent = {}, \A W \in D : Cardinality(W) = 1,
             g.stage = "probe", g.parent = t, g.found = h.found \cup UNION D,
             Waiting(g) \cup {t} \cup D = Waiting(h)
      PROVE  Kept(g, T)
  <2>1. UNION D \subseteq lone
    BY <1>3, <1>7
  <2>2. UNION Waiting(h) \subseteq (UNION Waiting(g)) \cup t \cup UNION D
    BY <1>7
  <2>3. g.found \subseteq lone
    BY <1>4, <1>7, <2>1
  <2>4. lone \subseteq g.found \cup Open(g)
    <3>1. lone \subseteq h.found \cup UNION Waiting(h)
      BY <1>2, <1>4, <1>7
    <3>2. g.parent = t /\ g.found = h.found \cup UNION D
      BY <1>7
    <3>. QED
      BY <1>2, <2>2, <3>1, <3>2
  <2>. QED
    BY <1>1, <1>4, <1>7, <2>3, <2>4, Zenon DEF Kept
<1>. QED
  BY <1>5, <1>6, <1>7, Zenon DEF Moved

\* Nor does a true answer drop one.
LEMMA KeptAfterAnswer ==
  ASSUME NEW h, NEW g, NEW C2, NEW F2, NEW T \in SUBSET CoreSets, NEW r \in BOOLEAN,
         \A X \in T : Cardinality(X) = 1,
         Told(g, C2, F2, T), Kept(h, T), Answered(h, g, r, C2, F2),
         h.parent # {} => Fails(T, h.parent),
         r <=> Fails(T, h.inFlight), h.inFlight # {}, h.candidates \in CoreSets
  PROVE  Kept(g, T)
<1>. DEFINE lead == LeadProbe(h.candidates, h.loaded)
            lone == LoneOf(h, T)
<1>1. /\ g.candidates = h.candidates /\ g.loaded = h.loaded
      /\ LeadProbe(g.candidates, g.loaded) = lead /\ LoneOf(g, T) = lone
  BY Zenon DEF Answered, LoneOf
<1>2. /\ Open(h) = (UNION Waiting(h)) \cup h.parent
      /\ Open(g) = (UNION Waiting(g)) \cup g.parent
  BY OpenIsWaiting
<1>3. h.stage = "probe" => /\ lead = {} \/ ~(lead \subseteq lone)
                           /\ h.found \subseteq lone /\ lone \subseteq h.found \cup Open(h)
  BY DEF Kept, Terminal
<1>4. \A M \in C2 : M \cap lone = {}
  <2>. SUFFICES ASSUME NEW M \in C2, NEW c \in M, c \in lone PROVE FALSE
    OBVIOUS
  <2>1. {c} \in T
    BY DEF LoneOf
  <2>2. ~Fails(T, M)
    BY Zenon DEF Told
  <2>. QED
    BY <2>1, <2>2, LoneFails
<1>5. CASE LeadAnswered(h, g, r, C2)
  <2>1. /\ h.pending = <<h.candidates>> /\ h.parent = {} /\ h.found = {} /\ h.inFlight = lead
    BY <1>5, Zenon DEF LeadAnswered
  <2>2. lead \subseteq h.candidates /\ Cardinality(lead) = 1
    <3>1. LeadProbe(h.candidates, h.loaded) # {}
      BY <2>1
    <3>. QED
      BY <3>1 DEF LeadProbe
  <2>3. PICK x : lead = {x}
    <3>1. IsFiniteSet(lead)
      <4>1. lead \in CoreSets
        BY <2>2 DEF CoreSets
      <4>. QED
        BY <4>1, CoreSetFinite
    <3>. QED
      BY <2>2, <3>1, FS_Singleton
  <2>4. CASE r
    <3>1. g.stage = "culprit" /\ g.found = lead
      BY <1>5, <2>1, <2>4 DEF LeadAnswered
    <3>2. {x} \in T
      <4>1. Fails(T, lead)
        BY <2>1, <2>4
      <4>. HIDE DEF lead
      <4>2. \E c \in lead : {c} \in T
        BY <4>1, LoneFails
      <4>. QED
        BY <4>2, <2>3
    <3>3. lead \subseteq lone /\ lead # {}
      BY <2>2, <2>3, <3>2 DEF LoneOf
    <3>4. Terminal(g)
      BY <3>1 DEF Terminal
    <3>. QED
      BY <1>1, <3>1, <3>3, <3>4, Zenon DEF Kept
  <2>5. CASE ~r
    <3>1. g.stage = "probe" /\ Still(h, g) /\ h.inFlight \in C2
      BY <1>5, <2>5 DEF LeadAnswered
    <3>2. ~(lead \subseteq lone)
      BY <1>4, <2>1, <2>3, <3>1
    <3>3. g.found = {} /\ Open(g) = h.candidates
      <4>1. g.pending = <<h.candidates>> /\ g.parent = {} /\ g.found = {}
        BY <2>1, <3>1 DEF Still
      <4>2. UNION {<<h.candidates>>[i] : i \in 1..Len(<<h.candidates>>)} = h.candidates
        OBVIOUS
      <4>. QED
        BY <4>1, <4>2 DEF Open, Members
    <3>4. lone \subseteq h.candidates
      BY DEF LoneOf
    <3>5. g.found \subseteq lone /\ lone \subseteq g.found \cup Open(g)
      BY <3>3, <3>4
    <3>. QED
      BY <1>1, <3>2, <3>5, Zenon DEF Kept
  <2>. QED
    BY <2>4, <2>5
<1>. HIDE DEF lead, lone
<1>6. CASE /\ WholeAnswered(h, g, r, C2) /\ h.parent # {}
           /\ LowerHalf(h.parent) \cup UpperHalf(h.parent) = h.parent
  <2>1. LowerHalf(h.parent) \in C2 /\ UpperHalf(h.parent) \in C2
    BY <1>6, Zenon DEF WholeAnswered
  <2>2. Fails(T, h.parent)
    BY <1>6
  <2>3. PICK c \in h.parent : {c} \in T
    BY <2>2, LoneFails
  <2>4. c \in LowerHalf(h.parent) \/ c \in UpperHalf(h.parent)
    BY <1>6, <2>3
  <2>5. ~Fails(T, LowerHalf(h.parent)) /\ ~Fails(T, UpperHalf(h.parent))
    BY <2>1, Zenon DEF Told
  <2>. QED
    BY <2>3, <2>4, <2>5, LoneFails
<1>7. CASE /\ h.stage = "probe" /\ HalfAnswered(h, g, C2, F2)
           /\ LowerHalf(h.parent) \cup UpperHalf(h.parent) = h.parent
  <2>1. g.found = h.found
    BY <1>7, Zenon DEF HalfAnswered
  <2>2. Open(h) \cap lone \subseteq Open(g)
    <3>1. CASE Still(h, g)
      BY <3>1 DEF Still, Open
    <3>2. CASE g.parent = {} /\ Waiting(g) = Waiting(h) \cup {h.parent}
      <4>1. UNION Waiting(g) = (UNION Waiting(h)) \cup h.parent
        BY <3>2
      <4>. QED
        BY <4>1, <1>2
    <3>3. ASSUME NEW G \in SUBSET {LowerHalf(h.parent), UpperHalf(h.parent)},
                 {LowerHalf(h.parent), UpperHalf(h.parent)} \ G \subseteq C2,
                 g.parent = {}, Waiting(g) = Waiting(h) \cup G
          PROVE  Open(h) \cap lone \subseteq Open(g)
      <4>1. UNION Waiting(g) = (UNION Waiting(h)) \cup UNION G
        BY <3>3
      <4>2. h.parent \cap lone \subseteq UNION G
        <5>. SUFFICES ASSUME NEW c \in h.parent, c \in lone PROVE c \in UNION G
          OBVIOUS
        <5>1. PICK H \in {LowerHalf(h.parent), UpperHalf(h.parent)} : c \in H
          BY <1>7
        <5>2. H \notin C2
          BY <5>1, <1>4
        <5>. QED
          BY <5>1, <5>2, <3>3
      <4>. QED
        BY <4>1, <4>2, <1>2
    <3>. QED
      BY <1>7, <3>1, <3>2, <3>3, Zenon DEF HalfAnswered
  <2>3. g.found \subseteq lone /\ lone \subseteq g.found \cup Open(g)
    BY <1>3, <1>7, <2>1, <2>2
  <2>. QED
    BY <1>1, <1>3, <1>7, <2>3, Zenon DEF Kept
<1>. QED
  BY <1>5, <1>6, <1>7, Zenon DEF Answered

\* The named parts of the invariant, of the values of the variables.
LEMMA FaultParts ==
  ASSUME fault # {}
  PROVE  /\ FaultTold <=> Told(hunt, clean, failed, fault)
         /\ (\A T \in fault : Cardinality(T) = 1) => (LoneKept <=> Kept(hunt, fault))
<1>1. \A M : Reproduces(M) <=> Fails(fault, M)
  BY Zenon DEF Reproduces, Fails
<1>2. FaultTold <=> Told(hunt, clean, failed, fault)
  <2>1. (\A W \in Waiting(hunt) \cup ({hunt.parent, hunt.found} \ {{}}) : Reproduces(W))
          <=> /\ \A W \in Waiting(hunt) : Fails(fault, W)
              /\ hunt.parent # {} => Fails(fault, hunt.parent)
              /\ hunt.found # {} => Fails(fault, hunt.found)
    BY <1>1
  <2>2. (\A M \in clean : ~Reproduces(M)) <=> (\A M \in clean : ~Fails(fault, M))
    BY <1>1
  <2>3. (\A M \in failed : Reproduces(M)) <=> (\A M \in failed : Fails(fault, M))
    BY <1>1
  <2>. QED
    BY <2>1, <2>2, <2>3, Zenon DEF FaultTold, Told
<1>3. Lone = LoneOf(hunt, fault)
  BY Zenon DEF Lone, LoneOf
<1>4. (\A T \in fault : Cardinality(T) = 1) => (LoneKept <=> Kept(hunt, fault))
  BY <1>3 DEF LoneKept, Kept
<1>. QED
  BY <1>2, <1>4

\* Every reachable state of a hunt on a machine satisfies the invariant.
THEOREM FaultIsInvariant == FaultSpec => []FaultInvariant
<1>1. FaultInit => FaultInvariant
  <2>. SUFFICES ASSUME FaultInit PROVE FaultInvariant
    OBVIOUS
  <2>1. Init /\ clean = {} /\ failed = {}
    BY DEF FaultInit, Init
  <2>2. HuntInvariant
    BY <2>1, BeginInv DEF Init, Begin, HuntInvariant
  <2>3. fault \subseteq CoreSets /\ (fault # {} => Reproduces(hunt.candidates))
    BY DEF FaultInit
  <2>4. PICK candidates \in CoreSets \ {{}}, loaded \in CoreSets \ {{}} :
          hunt = Begin(candidates, loaded)
    BY <2>1 DEF Init
  <2>5. /\ hunt.candidates = candidates /\ hunt.pending = <<candidates>> /\ hunt.parent = {}
        /\ hunt.found = {} /\ hunt.loaded = loaded
        /\ hunt.stage = IF LeadProbe(candidates, loaded) # {} THEN "lead" ELSE "probe"
    BY <2>4 DEF Begin
  <2>6. Waiting(hunt) = {candidates} /\ Open(hunt) = candidates
    <3>1. {<<candidates>>[i] : i \in 1..Len(<<candidates>>)} = {candidates}
      OBVIOUS
    <3>2. Waiting(hunt) = {candidates}
      BY <2>5, <3>1 DEF Waiting
    <3>. QED
      BY <2>5, <3>2, OpenIsWaiting
  <2>7. ASSUME fault # {} PROVE FaultTold /\ LoneKept
    <3>1. Fails(fault, candidates)
      BY <2>3, <2>5, <2>7 DEF Reproduces, Fails
    <3>2. ~Terminal(hunt)
      BY <2>5 DEF Terminal
    <3>3. Told(hunt, clean, failed, fault)
      BY <2>1, <2>5, <2>6, <3>1, <3>2 DEF Told
    <3>4. Kept(hunt, fault)
      <4>1. LoneOf(hunt, fault) \subseteq candidates
        BY <2>5 DEF LoneOf
      <4>. QED
        BY <2>5, <2>6, <4>1 DEF Kept
    <3>. QED
      BY <2>7, <3>3, <3>4, FaultParts DEF LoneKept
  <2>8. fault = {} => FaultTold /\ LoneKept
    BY DEF FaultTold, LoneKept
  <2>. QED
    BY <2>2, <2>3, <2>7, <2>8 DEF FaultInvariant
<1>2. FaultInvariant /\ HuntInvariant' /\ [FaultNext]_fvars => FaultInvariant'
  <2>. SUFFICES ASSUME FaultInvariant, HuntInvariant', [FaultNext]_fvars PROVE FaultInvariant'
    OBVIOUS
  <2>1. fault' = fault /\ fault \subseteq CoreSets /\ fault \in SUBSET CoreSets
    BY DEF FaultNext, fvars, FaultInvariant
  <2>2. CASE fault = {}
    <3>1. (FaultTold /\ LoneKept)'
      BY <2>1, <2>2 DEF FaultTold, LoneKept
    <3>. QED
      BY <2>1, <3>1 DEF FaultInvariant
  <2>3. CASE UNCHANGED fvars
    BY <2>3 DEF fvars, FaultInvariant, HuntInvariant, FaultTold, LoneKept, Reproduces, Lone
  <2>4. CASE fault # {} /\ FaultNext
    <3>1. HuntInv(hunt, clean, failed) /\ Told(hunt, clean, failed, fault)
      BY <2>4, FaultParts DEF FaultInvariant, HuntInvariant
    <3>2. /\ hunt.pending \in Seq(CoreSets) /\ hunt.candidates \in CoreSets
          /\ \A W \in Waiting(hunt) : W \in CoreSets /\ W \subseteq hunt.candidates
      BY <3>1 DEF HuntInv, HuntState, PendingOK, Waiting
    <3>3. ASSUME \A T \in fault : Cardinality(T) = 1
          PROVE  Kept(hunt, fault)
      BY <2>4, <3>3, FaultParts DEF FaultInvariant
    <3>4. /\ Told(hunt', clean', failed', fault)
          /\ (\A T \in fault : Cardinality(T) = 1) => Kept(hunt', fault)
      <4>1. CASE Dispatch
        <5>1. /\ ~Terminal(hunt) /\ hunt.inFlight = {} /\ hunt' = NextLiveSet(hunt)
              /\ clean' = clean /\ failed' = failed
          BY <4>1 DEF Dispatch
        <5>2. Moved(hunt, hunt')
          BY <3>1, <5>1, NextLiveSetMoves
        <5>3. Told(hunt', clean', failed', fault)
          BY <3>1, <3>2, <5>1, <5>2, ToldAfterMove
        <5>4. ASSUME \A T \in fault : Cardinality(T) = 1 PROVE Kept(hunt', fault)
          <6>1. Kept(hunt, fault)
            BY <3>3, <5>4
          <6>. QED
            BY <2>1, <3>1, <3>2, <5>1, <5>2, <5>4, <6>1, KeptAfterMove
        <5>. QED
          BY <5>3, <5>4
      <4>2. ASSUME NEW reproduced \in BOOLEAN, Answer(reproduced),
                   reproduced = Reproduces(hunt.inFlight)
            PROVE  /\ Told(hunt', clean', failed', fault)
                   /\ (\A T \in fault : Cardinality(T) = 1) => Kept(hunt', fault)
        <5>1. /\ hunt.inFlight # {} /\ hunt' = Record(hunt, reproduced)
              /\ clean \subseteq clean' /\ failed \subseteq failed'
              /\ reproduced => hunt.inFlight \in failed'
              /\ ~reproduced => hunt.inFlight \in clean'
          BY <4>2 DEF Answer
        <5>2. /\ \A M \in clean' : M \in clean \/ (~reproduced /\ M = hunt.inFlight)
              /\ \A M \in failed' : M \in failed \/ (reproduced /\ M = hunt.inFlight)
          BY <4>2 DEF Answer
        <5>3. reproduced <=> Fails(fault, hunt.inFlight)
          BY <4>2 DEF Reproduces, Fails
        <5>4. Answered(hunt, hunt', reproduced, clean', failed')
          BY <3>1, <5>1, RecordAnswers
        <5>5. Told(hunt', clean', failed', fault)
          BY <3>1, <5>1, <5>2, <5>3, <5>4, ToldAfterAnswer
        <5>6. ASSUME \A T \in fault : Cardinality(T) = 1 PROVE Kept(hunt', fault)
          <6>1. Kept(hunt, fault)
            BY <3>3, <5>6
          <6>2. hunt.parent # {} => Fails(fault, hunt.parent)
            BY <3>1 DEF Told
          <6>. QED
            BY <2>1, <3>2, <5>1, <5>3, <5>4, <5>5, <5>6, <6>1, <6>2, KeptAfterAnswer
        <5>. QED
          BY <5>5, <5>6
      <4>. QED
        BY <2>4, <4>1, <4>2 DEF FaultNext
    <3>5. FaultTold'
      <4>1. \A M : Reproduces(M)' <=> Fails(fault, M)
        BY <2>1 DEF Reproduces, Fails
      <4>2. Waiting(hunt)' = Waiting(hunt')
        OBVIOUS
      <4>. QED
        BY <3>4, <4>1 DEF FaultTold, Told
    <3>6. LoneKept'
      <4>1. Lone' = LoneOf(hunt', fault)
        BY <2>1 DEF Lone, LoneOf
      <4>. QED
        BY <2>1, <3>4, <4>1 DEF LoneKept, Kept
    <3>. QED
      BY <2>1, <3>5, <3>6 DEF FaultInvariant
  <2>. QED
    BY <2>2, <2>3, <2>4
<1>. QED
  BY <1>1, <1>2, HuntIsInvariant, FaultSpecIsSpec, PTL DEF FaultSpec

\* A steady fault is always attributed: the cores that a hunt convicts fail
\* together, so its verdict explains the crash it was opened for.
THEOREM FailuresAreExplained == FaultSpec => []VerdictExplainsFailure
<1>1. FaultInvariant => VerdictExplainsFailure
  BY DEF FaultInvariant, FaultTold, VerdictExplainsFailure
<1>. QED
  BY <1>1, FaultIsInvariant, PTL

\* When every fault is a single core, a hunt convicts all of them and nobody
\* else, or the one loaded core that already explains the crash.
THEOREM LoneFaultsAreConvicted == FaultSpec => []LoneFaultsConvictedExactly
<1>1. ASSUME FaultInvariant PROVE LoneFaultsConvictedExactly
  <2>. SUFFICES ASSUME fault # {}, Terminal(hunt), \A T \in fault : Cardinality(T) = 1
                PROVE  hunt.found = (IF LeadProbe(hunt.candidates, hunt.loaded) \subseteq Lone
                                        /\ LeadProbe(hunt.candidates, hunt.loaded) # {}
                                       THEN LeadProbe(hunt.candidates, hunt.loaded)
                                       ELSE Lone)
    BY DEF LoneFaultsConvictedExactly
  <2>1. Open(hunt) = {}
    BY <1>1, OverIsClosed DEF FaultInvariant, HuntInvariant, HuntInv
  <2>2. LoneKept /\ hunt.stage # "lead"
    BY <1>1 DEF FaultInvariant, Terminal
  <2>. QED
    BY <2>1, <2>2 DEF LoneKept
<1>. QED
  BY <1>1, FaultIsInvariant, PTL


-----------------------------------------------------------------------------
(* The hunt: what the engine may do to it and keep it sound *)

\* NoHunt is no hunt.
LEMMA NoHuntApart == NoHunt \notin HuntState
<1>1. NoHunt.stage = "none" /\ "none" \notin Stage
  BY DEF NoHunt, Stage
<1>. QED
  BY <1>1 DEF HuntState

\* More evidence takes nothing back.
LEMMA SoundGrows ==
  ASSUME NEW h, NEW C, NEW F, NEW L, Sound(h, C, F, L),
         NEW C2 \in SUBSET CoreSets, NEW F2 \in SUBSET CoreSets, C \subseteq C2, F \subseteq F2
  PROVE  Sound(h, C2, F2, L)
<1>1. HuntInv(h, C2, F2)
  <2>0. HuntInv(h, C, F)
    BY DEF Sound
  <2>1. PendingOK(h, F2)
    BY <2>0 DEF HuntInv, PendingOK
  <2>2. \A c \in h.found : ConvictedBy(h, c, C2, F2)
    BY <2>0 DEF HuntInv, ConvictedBy
  <2>3. SplitOK(h, C, F) => SplitOK(h, C2, F2)
    <3>1. HalfDone(h, C, F) => HalfDone(h, C2, F2)
      BY DEF HalfDone
    <3>2. HalfOK(h, C, F) => HalfOK(h, C2, F2)
      BY <3>1 DEF HalfOK
    <3>3. WholeOK(h, C) => WholeOK(h, C2)
      BY DEF WholeOK
    <3>. QED
      BY <3>2, <3>3 DEF SplitOK
  <2>. QED
    BY <2>0, <2>1, <2>2, <2>3 DEF HuntInv
<1>2. ~Terminal(h) => Cleared(h, C2)
  BY DEF Sound, Cleared
<1>. QED
  BY <1>1, <1>2 DEF Sound

\* Hunts that differ in the launches of the mask in flight only.
SameQuestion(h, g) ==
  /\ g.stage = h.stage /\ g.candidates = h.candidates /\ g.loaded = h.loaded
  /\ g.pending = h.pending /\ g.queue = h.queue /\ g.inFlight = h.inFlight
  /\ g.parent = h.parent /\ g.guilty = h.guilty /\ g.level = h.level
  /\ g.found = h.found /\ g.noReproduce = h.noReproduce

\* The launches are no part of what a hunt has learnt.
LEMMA QuestionStays ==
  ASSUME NEW h, NEW g \in HuntState, NEW C, NEW F, HuntInv(h, C, F), SameQuestion(h, g)
  PROVE  /\ HuntInv(g, C, F) /\ (Terminal(g) <=> Terminal(h)) /\ (Cleared(g, C) <=> Cleared(h, C))
<1>1. Terminal(g) <=> Terminal(h)
  BY DEF Terminal, SameQuestion
<1>2. Cleared(g, C) <=> Cleared(h, C)
  BY DEF Cleared, Open, SameQuestion
<1>3. PendingOK(g, F) /\ \A c \in g.found : ConvictedBy(g, c, C, F)
  BY DEF HuntInv, PendingOK, ConvictedBy, SameQuestion
<1>4. IdleOK(h) => IdleOK(g)
  BY DEF IdleOK, SameQuestion
<1>5. SplitOK(h, C, F) => SplitOK(g, C, F)
  <2>1. HalfOK(h, C, F) => HalfOK(g, C, F)
    BY DEF HalfOK, HalfDone, SameQuestion
  <2>2. WholeOK(h, C) => WholeOK(g, C)
    BY DEF WholeOK, SameQuestion
  <2>. QED
    BY <2>1, <2>2 DEF SplitOK, SameQuestion
<1>6. (ValidLead(h) => ValidLead(g)) /\ (ValidTerminal(h) => ValidTerminal(g))
  BY DEF ValidLead, ValidTerminal, SameQuestion
<1>7. HuntInv(g, C, F)
  <2>1. g.stage = h.stage /\ g.candidates = h.candidates /\ g.loaded = h.loaded
        /\ g.found = h.found /\ g.level = h.level
    BY DEF SameQuestion
  <2>. QED
    BY <1>1, <1>3, <1>4, <1>5, <1>6, <2>1 DEF HuntInv
<1>. QED
  BY <1>1, <1>2, <1>7

\* The probe is put back, or its answer is in: nothing is armed any more.
LEMMA DisarmedIsSound ==
  ASSUME NEW h, NEW C, NEW F, NEW L, Sound(h, C, F, L)
  PROVE  /\ Sound(Disarmed(h), C, F, L) /\ SameQuestion(h, Disarmed(h))
         /\ Disarmed(h).armed = FALSE /\ Disarmed(h).launchesDone = h.launchesDone
         /\ Disarmed(h).inFlight = h.inFlight /\ (Terminal(Disarmed(h)) <=> Terminal(h))
         /\ Disarmed(h) \in HuntState
<1>. DEFINE g == Disarmed(h)
<1>1. h \in HuntState /\ HuntInv(h, C, F)
  BY DEF Sound, HuntInv
<1>2. g \in HuntState /\ SameQuestion(h, g) /\ g.armed = FALSE /\ g.launchesDone = h.launchesDone
  BY <1>1 DEF HuntState, Disarmed, SameQuestion
<1>. HIDE DEF g
<1>3. HuntInv(g, C, F) /\ (Terminal(g) <=> Terminal(h)) /\ (Cleared(g, C) <=> Cleared(h, C))
  BY <1>1, <1>2, QuestionStays
<1>4. g.inFlight = h.inFlight
  BY <1>2 DEF SameQuestion
<1>. QED
  BY <1>2, <1>3, <1>4 DEF Sound, g

\* The probe is armed.
LEMMA ArmedIsSound ==
  ASSUME NEW h, NEW C, NEW F, NEW L, Sound(h, C, F, L), h.inFlight # {}
  PROVE  LET g == [h EXCEPT !.armed = TRUE]
         IN  /\ Sound(g, C, F, L) /\ SameQuestion(h, g) /\ g.armed
             /\ g.launchesDone = h.launchesDone /\ (Terminal(g) <=> Terminal(h))
             /\ g \in HuntState
<1>. DEFINE g == [h EXCEPT !.armed = TRUE]
<1>1. h \in HuntState /\ HuntInv(h, C, F)
  BY DEF Sound, HuntInv
<1>2. g \in HuntState /\ SameQuestion(h, g) /\ g.armed /\ g.launchesDone = h.launchesDone
  BY <1>1 DEF HuntState, SameQuestion
<1>. HIDE DEF g
<1>3. HuntInv(g, C, F) /\ (Terminal(g) <=> Terminal(h)) /\ (Cleared(g, C) <=> Cleared(h, C))
  BY <1>1, <1>2, QuestionStays
<1>4. g.inFlight = h.inFlight
  BY <1>2 DEF SameQuestion
<1>5. Sound(g, C, F, L)
  BY <1>2, <1>3, <1>4 DEF Sound
<1>. QED
  BY <1>2, <1>3, <1>5 DEF g

\* One more launch is counted.
LEMMA CountedIsSound ==
  ASSUME NEW h, NEW C, NEW F, NEW L, NEW L2, Sound(h, C, F, L), h.inFlight # {},
         L2.mask = h.inFlight, h.launchesDone + 1 <= L2.launches
  PROVE  LET g == [h EXCEPT !.launchesDone = @ + 1]
         IN  /\ Sound(g, C, F, L2) /\ SameQuestion(h, g) /\ g.armed = h.armed
             /\ g.launchesDone = h.launchesDone + 1 /\ (Terminal(g) <=> Terminal(h))
             /\ g \in HuntState
<1>. DEFINE g == [h EXCEPT !.launchesDone = @ + 1]
<1>1. h \in HuntState /\ HuntInv(h, C, F)
  BY DEF Sound, HuntInv
<1>2. /\ g \in HuntState /\ SameQuestion(h, g) /\ g.armed = h.armed
      /\ g.launchesDone = h.launchesDone + 1
  <2>1. h \in HuntState
    BY <1>1
  <2>2. SameQuestion(h, g) /\ g.armed = h.armed
    BY <2>1, SMTT(60) DEF HuntState, SameQuestion
  <2>3. g \in HuntState /\ g.launchesDone = h.launchesDone + 1
    BY <2>1, SMTT(60) DEF HuntState
  <2> QED
    BY <2>2, <2>3
<1>. HIDE DEF g
<1>3. HuntInv(g, C, F) /\ (Terminal(g) <=> Terminal(h)) /\ (Cleared(g, C) <=> Cleared(h, C))
  BY <1>1, <1>2, QuestionStays
<1>4. g.inFlight = h.inFlight
  BY <1>2 DEF SameQuestion
<1>5. Sound(g, C, F, L2)
  BY <1>2, <1>3, <1>4 DEF Sound
<1>. QED
  BY <1>2, <1>3, <1>5 DEF g

\* A hunt that is not over asks a question.
LEMMA NextLiveSetAsks ==
  ASSUME NEW h, NEW C, NEW F, HuntInv(h, C, F), ~Terminal(NextLiveSet(h))
  PROVE  NextLiveSet(h).inFlight # {}
<1>. DEFINE g == NextLiveSet(h)
<1>1. h \in HuntState /\ h.stage \in {"lead", "probe", "culprit", "exhausted"}
  BY DEF HuntInv, HuntState, Stage
<1>2. CASE h.inFlight # {}
  BY <1>2, NextLiveSetSeries
<1>3. CASE Terminal(h)
  <2>1. g = h
    BY <1>3 DEF NextLiveSet, Terminal
  <2>. QED
    BY <2>1, <1>3
<1>4. CASE ~Terminal(h) /\ h.inFlight = {} /\ h.stage = "lead"
  <2>1. g = [h EXCEPT !.inFlight = LeadProbe(h.candidates, h.loaded)]
    BY <1>4 DEF NextLiveSet
  <2>2. LeadProbe(h.candidates, h.loaded) # {}
    BY <1>4 DEF HuntInv, ValidLead
  <2>. QED
    BY <2>1, <2>2, <1>1 DEF HuntState
<1>5. CASE ~Terminal(h) /\ h.inFlight = {} /\ h.stage = "probe" /\ h.queue # <<>>
  <2>1. g = [h EXCEPT !.inFlight = Head(h.queue), !.queue = Tail(h.queue)]
    BY <1>5 DEF NextLiveSet
  <2>2. SplitOK(h, C, F)
    BY <1>5 DEF HuntInv, IdleOK
  <2>3. h.parent \in CoreSets /\ Cardinality(h.parent) >= 2
    BY <2>2, <1>1 DEF SplitOK, HuntState
  <2>4. UpperHalf(h.parent) # {} /\ h.parent # {}
    BY <2>3, HalvesProper
  <2>5. h.queue = <<UpperHalf(h.parent)>> \/ h.queue = <<h.parent>>
    BY <2>2, <1>5 DEF SplitOK, HalfOK, WholeOK
  <2>6. Head(h.queue) # {}
    BY <2>4, <2>5
  <2>7. g.inFlight = Head(h.queue)
    BY <2>1, <1>1 DEF HuntState
  <2>. QED
    BY <2>6, <2>7
<1>6. CASE ~Terminal(h) /\ h.inFlight = {} /\ h.stage = "probe" /\ h.queue = <<>>
  <2>1. g = SplitNext(h)
    BY <1>6 DEF NextLiveSet
  <2>. DEFINE k == FirstSplittable(h.pending)
  <2>2. h.pending \in Seq(CoreSets) /\ Len(h.pending) \in Nat
    BY <1>1 DEF HuntState
  <2>3. /\ k \in 1..(Len(h.pending) + 1)
        /\ k <= Len(h.pending) => Cardinality(h.pending[k]) # 1
    BY <2>2, FirstSplittableFirst
  <2>4. CASE k > Len(h.pending)
    <3>1. g.stage \in {"culprit", "exhausted"}
      BY <2>1, <2>4, <1>1 DEF SplitNext, HuntState
    <3>. QED
      BY <3>1 DEF Terminal
  <2>5. CASE ~(k > Len(h.pending))
    <3>1. g.inFlight = LowerHalf(h.pending[k])
      BY <2>1, <2>5, <1>1 DEF SplitNext, HuntState
    <3>2. k \in 1..Len(h.pending)
      BY <2>2, <2>3, <2>5
    <3>3. h.pending[k] \in CoreSets /\ h.pending[k] # {}
      BY <2>2, <3>2 DEF HuntInv, PendingOK
    <3>4. Cardinality(h.pending[k]) >= 2
      <4>1. Cardinality(h.pending[k]) \in Nat /\ Cardinality(h.pending[k]) # 0
        BY <3>3, CoreSetFinite, FS_EmptySet
      <4>2. Cardinality(h.pending[k]) # 1
        BY <2>3, <3>2
      <4>. QED
        BY <4>1, <4>2
    <3>. QED
      BY <3>1, <3>3, <3>4, HalvesProper
  <2>. QED
    BY <2>4, <2>5
<1>. QED
  BY <1>1, <1>2, <1>3, <1>4, <1>5, <1>6 DEF Terminal

\* A dispatch clears nobody: what is not open any more is convicted.
LEMMA ClearedAfterMove ==
  ASSUME NEW h, NEW g, NEW C, Moved(h, g), Cleared(h, C)
  PROVE  Cleared(g, C)
<1>1. /\ Open(h) = (UNION Waiting(h)) \cup h.parent
      /\ Open(g) = (UNION Waiting(g)) \cup g.parent
  BY OpenIsWaiting
<1>2. g.candidates = h.candidates
  BY DEF Moved
<1>3. h.found \cup Open(h) \subseteq g.found \cup Open(g)
  <2>1. CASE Still(h, g)
    BY <2>1 DEF Still, Open
  <2>2. CASE h.parent = {} /\ g.found = h.found \cup UNION Waiting(h)
    BY <2>2, <1>1
  <2>3. ASSUME NEW t, NEW D, h.parent = {}, g.parent = t, g.found = h.found \cup UNION D,
               Waiting(g) \cup {t} \cup D = Waiting(h)
        PROVE  h.found \cup Open(h) \subseteq g.found \cup Open(g)
    <3>1. \A W \in Waiting(h) : W \in Waiting(g) \/ W = t \/ W \in D
      BY <2>3
    <3>. QED
      BY <3>1, <2>3, <1>1
  <2>. QED
    BY <2>1, <2>2, <2>3 DEF Moved
<1>. QED
  BY <1>2, <1>3 DEF Cleared

\* An answer clears only who ran in a mask that was clean.
LEMMA ClearedAfterAnswer ==
  ASSUME NEW h, NEW g, NEW r \in BOOLEAN, NEW C, NEW C2, NEW F, C \subseteq C2,
         Answered(h, g, r, C2, F), Cleared(h, C), ~Terminal(g)
  PROVE  Cleared(g, C2)
<1>1. /\ Open(h) = (UNION Waiting(h)) \cup h.parent
      /\ Open(g) = (UNION Waiting(g)) \cup g.parent
  BY OpenIsWaiting
<1>2. g.candidates = h.candidates
  BY DEF Answered
<1>3. \A c \in h.found \cup Open(h) : c \in g.found \cup Open(g) \/ \E M \in C2 : c \in M
  <2>1. CASE Still(h, g)
    BY <2>1 DEF Still, Open
  <2>2. CASE g.parent = {} /\ g.pending = h.pending /\ g.found = h.found \cup h.parent
    BY <2>2 DEF Open
  <2>3. CASE g.parent = {} /\ g.found = h.found /\ Waiting(g) = Waiting(h) \cup {h.parent}
    BY <2>3, <1>1
  <2>4. ASSUME NEW G \in SUBSET {LowerHalf(h.parent), UpperHalf(h.parent)},
               {LowerHalf(h.parent), UpperHalf(h.parent)} \ G \subseteq C2,
               LowerHalf(h.parent) \cup UpperHalf(h.parent) = h.parent,
               g.parent = {}, g.found = h.found, Waiting(g) = Waiting(h) \cup G
        PROVE  \A c \in h.found \cup Open(h) : c \in g.found \cup Open(g) \/ \E M \in C2 : c \in M
    <3>. SUFFICES ASSUME NEW c \in h.parent
                  PROVE  c \in UNION Waiting(g) \/ \E M \in C2 : c \in M
      BY <2>4, <1>1
    <3>1. PICK H \in {LowerHalf(h.parent), UpperHalf(h.parent)} : c \in H
      BY <2>4
    <3>2. H \in Waiting(g) \/ H \in C2
      BY <2>4
    <3>. QED
      BY <3>1, <3>2
  <2>5. CASE LeadAnswered(h, g, r, C2)
    BY <2>1, <2>5 DEF LeadAnswered, Terminal
  <2>6. CASE /\ LowerHalf(h.parent) \cup UpperHalf(h.parent) = h.parent
             /\ WholeAnswered(h, g, r, C2)
    BY <2>2, <2>6 DEF WholeAnswered, Terminal
  <2>7. CASE /\ LowerHalf(h.parent) \cup UpperHalf(h.parent) = h.parent
             /\ HalfAnswered(h, g, C2, F)
    BY <2>1, <2>3, <2>4, <2>7 DEF HalfAnswered
  <2>. QED
    BY <2>5, <2>6, <2>7 DEF Answered
<1>. QED
  BY <1>2, <1>3 DEF Cleared

\* next_live_set keeps a hunt sound.
LEMMA NextIsSound ==
  ASSUME NEW h, NEW C, NEW F, NEW L, Sound(h, C, F, L)
  PROVE  LET g == NextLiveSet(h)
         IN  /\ Sound(g, C, F, L)
             /\ g.launchesDone = h.launchesDone /\ (h.inFlight # {} => g = h)
             /\ ~Terminal(g) => g.inFlight # {}
<1>. DEFINE g == NextLiveSet(h)
<1>0. HuntInv(h, C, F)
  BY DEF Sound
<1>1. /\ g.armed = h.armed /\ g.launchesDone = h.launchesDone /\ (h.inFlight # {} => g = h)
      /\ Terminal(h) => g = h
  <2>1. Terminal(h) => g = h
    BY DEF NextLiveSet, Terminal
  <2>. HIDE DEF g
  <2>. QED
    BY <1>0, <2>1, NextLiveSetSeries DEF g
<1>2. ~Terminal(g) => g.inFlight # {}
  BY <1>0, NextLiveSetAsks
<1>3. CASE g = h
  BY <1>1, <1>2, <1>3, Zenon
<1>4. CASE g # h
  <2>1. ~Terminal(h) /\ h.inFlight = {}
    BY <1>1, <1>4
  <2>2. HuntInv(g, C, F)
    BY <1>0, <2>1, NextLiveSetInv
  <2>3. Cleared(g, C)
    <3>1. Moved(h, g)
      BY <1>0, <2>1, NextLiveSetMoves
    <3>2. Cleared(h, C)
      BY <2>1 DEF Sound
    <3>. QED
      BY <3>1, <3>2, ClearedAfterMove
  <2>4. ~h.armed /\ ~(h.launchesDone > 0)
    BY <2>1 DEF Sound
  <2>. HIDE DEF g
  <2>5. Sound(g, C, F, L)
    BY <1>1, <2>2, <2>3, <2>4 DEF Sound
  <2>. QED
    BY <2>5, <1>1, <1>2 DEF g
<1>. QED
  BY <1>3, <1>4

\* record keeps a hunt sound, whatever ran last.
LEMMA RecordedIsSound ==
  ASSUME NEW h, NEW r \in BOOLEAN, NEW C, NEW F, NEW L, NEW L2, Sound(h, C, F, L),
         h.inFlight # {}, h.armed = FALSE,
         NEW C2 \in SUBSET CoreSets, NEW F2 \in SUBSET CoreSets, C \subseteq C2, F \subseteq F2,
         r => h.inFlight \in F2, ~r => h.inFlight \in C2
  PROVE  /\ Sound(Record(h, r), C2, F2, L2)
         /\ Record(h, r).armed = FALSE /\ Record(h, r).launchesDone = 0
<1>. DEFINE g == Record(h, r)
<1>0. HuntInv(h, C, F) /\ h \in HuntState
  BY DEF Sound, HuntInv
<1>1. HuntInv(g, C2, F2)
  BY <1>0, RecordInv
<1>2. g.armed = FALSE /\ g.launchesDone = 0
  BY <1>0, RecordEndsSeries
<1>3. ~Terminal(g) => Cleared(g, C2)
  <2>1. Answered(h, g, r, C2, F2)
    BY <1>0, RecordAnswers
  <2>2. ~Terminal(h)
    BY <1>0, OverIsClosed DEF HuntInv
  <2>. QED
    BY <2>1, <2>2, ClearedAfterAnswer DEF Sound
<1>. HIDE DEF g
<1>4. Sound(g, C2, F2, L2)
  BY <1>1, <1>2, <1>3 DEF Sound
<1>. QED
  BY <1>2, <1>4 DEF g

\* A new hunt is sound.
LEMMA BegunIsSound ==
  ASSUME NEW candidates \in CoreSets \ {{}}, NEW loaded \in CoreSets \ {{}}, NEW L
  PROVE  LET g == Begin(candidates, loaded)
         IN  Sound(g, {}, {}, L) /\ g.armed = FALSE /\ g.launchesDone = 0
<1>. DEFINE g == Begin(candidates, loaded)
<1>1. HuntInv(g, {}, {})
  BY BeginInv
<1>2. /\ g.candidates = candidates /\ g.pending = <<candidates>>
      /\ g.armed = FALSE /\ g.launchesDone = 0
  BY DEF Begin
<1>. HIDE DEF g
<1>3. Cleared(g, {})
  <2>1. Len(g.pending) = 1 /\ g.pending[1] = candidates
    BY <1>2
  <2>2. candidates \subseteq Open(g)
    BY <2>1 DEF Open, Members
  <2>. QED
    BY <1>2, <2>2 DEF Cleared
<1>4. Sound(g, {}, {}, L)
  BY <1>1, <1>2, <1>3 DEF Sound
<1>. QED
  BY <1>2, <1>4 DEF g

-----------------------------------------------------------------------------
(* The hunts that are held and saved stay sound *)

RowsSound == \A row \in durable : row.hunt # NoHunt => Sound(row.hunt, clean, Evidence, lastRun)

HeldSound == hunt # NoHunt => Sound(hunt, clean, Evidence, lastRun)

\* A row names a hunt, or none, and the cores charged so far.
LEMMA RowFields ==
  ASSUME NEW row \in Rows
  PROVE  row.hunt \in HuntState \cup {NoHunt} /\ row.blamed \in SUBSET Cores
  BY DEF Rows

\* A row with another hunt.
LEMMA RowWithHunt ==
  ASSUME NEW row \in Rows, NEW h \in HuntState \cup {NoHunt}
  PROVE  [row EXCEPT !.hunt = h] \in Rows /\ [row EXCEPT !.hunt = h].hunt = h
  BY DEF Rows

\* A row whose session is quarantined.
LEMMA RowQuarantined ==
  ASSUME NEW row \in Rows
  PROVE  /\ [row EXCEPT !.quarantined = TRUE] \in Rows
         /\ [row EXCEPT !.quarantined = TRUE].hunt = row.hunt
  BY DEF Rows

\* A row with more charges.
LEMMA RowCharged ==
  ASSUME NEW row \in Rows, NEW B \in SUBSET Cores
  PROVE  /\ [row EXCEPT !.blamed = @ \cup B] \in Rows
         /\ [row EXCEPT !.blamed = @ \cup B].hunt = row.hunt
         /\ [row EXCEPT !.hunt = NoHunt, !.blamed = @ \cup B] \in Rows
         /\ [row EXCEPT !.hunt = NoHunt, !.blamed = @ \cup B].hunt = NoHunt
  BY DEF Rows

\* What the invariant says of the hunt and of the last row.
LEMMA EngineFacts ==
  ASSUME EngineInvariant
  PROVE  /\ db \in durable /\ db \in Rows /\ durable \subseteq Rows
         /\ RowsSound /\ HeldSound
         /\ hunt # NoHunt => hunt \in HuntState
         /\ hunt \in HuntState \cup {NoHunt} /\ db.hunt \in HuntState \cup {NoHunt}
         /\ db.hunt # NoHunt => Sound(db.hunt, clean, Evidence, lastRun)
         /\ clean \in SUBSET CoreSets /\ failed \in SUBSET CoreSets
         /\ Evidence \in SUBSET CoreSets
<1>1. /\ db \in durable /\ durable \subseteq Rows /\ clean \in SUBSET CoreSets
      /\ failed \in SUBSET CoreSets /\ hunt \in HuntState \cup {NoHunt}
  BY DEF EngineInvariant, EngineTypeOK, CoreSets
<1>2. RowsSound /\ HeldSound
  BY DEF EngineInvariant, RowsSound, HeldSound
<1>3. Evidence \in SUBSET CoreSets
  BY <1>1 DEF Evidence, CoreSets
<1>4. db \in Rows /\ db.hunt \in HuntState \cup {NoHunt}
  BY <1>1, RowFields
<1>5. db.hunt # NoHunt => Sound(db.hunt, clean, Evidence, lastRun)
  BY <1>1, <1>2 DEF RowsSound
<1>. QED
  BY <1>1, <1>2, <1>3, <1>4, <1>5

\* While nothing is learnt, rows stay sound that hold a hunt already known.
LEMMA KnownRowsAreSound ==
  ASSUME EngineInvariant, UNCHANGED <<clean, failed, mistaken, lastRun>>, HeldSound',
         \A row \in durable' :
           \/ row \in durable \/ row.hunt = db.hunt \/ row.hunt = NoHunt \/ row.hunt = hunt'
           \/ hunt # NoHunt /\ row.hunt = Disarmed(hunt)
  PROVE  RowsSound'
<1>1. clean' = clean /\ Evidence' = Evidence /\ lastRun' = lastRun
  BY DEF Evidence
<1>2. SUFFICES ASSUME NEW row \in durable', row.hunt # NoHunt
               PROVE  Sound(row.hunt, clean, Evidence, lastRun)
  BY <1>1 DEF RowsSound
<1>3. CASE row \in durable
  BY <1>2, <1>3, EngineFacts DEF RowsSound
<1>4. CASE row.hunt = db.hunt
  BY <1>2, <1>4, EngineFacts
<1>5. CASE row.hunt = hunt'
  BY <1>1, <1>2, <1>5 DEF HeldSound
<1>6. CASE hunt # NoHunt /\ row.hunt = Disarmed(hunt)
  BY <1>6, EngineFacts, DisarmedIsSound DEF HeldSound
<1>. QED
  BY <1>2, <1>3, <1>4, <1>5, <1>6

\* The slot asks the next question, stops, or drops a hunt that is over.
LEMMA SlotKeepsSound ==
  ASSUME EngineInvariant, Slot
  PROVE  RowsSound' /\ HeldSound'
<1>0. /\ UNCHANGED <<clean, failed, mistaken, lastRun>>
      /\ hunt # NoHunt /\ Sound(hunt, clean, Evidence, lastRun)
  <2>1. at = "slot" /\ UNCHANGED history
    BY DEF Slot, SlotStops, SlotProbes, SlotResolves
  <2>2. hunt # NoHunt
    BY <2>1 DEF EngineInvariant, Standing
  <2>. QED
    BY <2>1, <2>2, EngineFacts DEF history, HeldSound
<1>1. clean' = clean /\ Evidence' = Evidence /\ lastRun' = lastRun
  BY <1>0 DEF Evidence
<1>2. HeldSound'
  <2>1. CASE SlotStops
    <3>1. hunt' = hunt \/ hunt' = Disarmed(hunt)
      BY <2>1 DEF SlotStops, Requeued
    <3>. QED
      BY <3>1, <1>0, <1>1, DisarmedIsSound DEF HeldSound
  <2>2. CASE SlotProbes
    <3>1. hunt' = Disarmed(hunt) \/ hunt' = Disarmed(NextLiveSet(hunt))
      BY <2>2 DEF SlotProbes
    <3>2. Sound(NextLiveSet(hunt), clean, Evidence, lastRun)
      BY <1>0, NextIsSound
    <3>. QED
      BY <3>1, <3>2, <1>0, <1>1, DisarmedIsSound DEF HeldSound
  <2>3. CASE SlotResolves
    BY <2>3 DEF SlotResolves, HeldSound
  <2>. QED
    BY <2>1, <2>2, <2>3 DEF Slot
<1>3. hunt' \in HuntState \cup {NoHunt}
  BY <1>2 DEF HeldSound, Sound, HuntInv
<1>4. \A row \in durable' : row \in durable \/ row.hunt = hunt'
  <2>1. (durable' = durable) \/ (durable' = durable \cup {WithHunt(hunt')})
    BY DEF Slot, SlotStops, SlotProbes, SlotResolves, Save
  <2>2. WithHunt(hunt').hunt = hunt'
    BY <1>3, EngineFacts, RowWithHunt, RowQuarantined DEF WithHunt
  <2>. QED
    BY <2>1, <2>2
<1>. QED
  BY <1>0, <1>2, <1>4, KnownRowsAreSound

\* A verdict charges cores and restores stock; it knows no hunt any more.
LEMMA VerdictKeepsSound ==
  ASSUME EngineInvariant, Verdict
  PROVE  RowsSound' /\ HeldSound'
<1>0. UNCHANGED <<clean, failed, mistaken, lastRun>> /\ hunt' = hunt
  BY DEF Verdict, Blame, AfterHunt, history
<1>1. clean' = clean /\ Evidence' = Evidence /\ lastRun' = lastRun
  BY <1>0 DEF Evidence
<1>2. HeldSound'
  BY <1>0, <1>1, EngineFacts DEF HeldSound
<1>3. \A row \in durable' : row \in durable \/ row.hunt = db.hunt
  <2>1. CASE Blame
    <3>1. PICK c \in toBlame : durable' = durable \cup {[db EXCEPT !.blamed = @ \cup {c}]}
      BY <2>1 DEF Blame, Save
    <3>2. {c} \in SUBSET Cores
      BY DEF EngineInvariant, EngineTypeOK
    <3>3. [db EXCEPT !.blamed = @ \cup {c}].hunt = db.hunt
      <4>1. db \in Rows
        BY EngineFacts
      <4>. QED
        BY <3>2, <4>1, RowCharged, Zenon
    <3>. QED
      BY <3>1, <3>3
  <2>2. CASE AfterHunt
    <3>1. durable' = {db} \/ durable' = {db, [db EXCEPT !.quarantined = TRUE]}
      BY <2>2 DEF AfterHunt, WriteAll, Quarantine
    <3>2. [db EXCEPT !.quarantined = TRUE].hunt = db.hunt
      BY EngineFacts, RowQuarantined
    <3>. QED
      BY <3>1, <3>2
  <2>. QED
    BY <2>1, <2>2 DEF Verdict
<1>. QED
  BY <1>0, <1>2, <1>3, KnownRowsAreSound

\* The mask is written, refused, or live when the armed question is saved.
LEMMA WriteMaskKeepsSound ==
  ASSUME EngineInvariant, WriteMask
  PROVE  RowsSound' /\ HeldSound'
<1>0. /\ UNCHANGED <<clean, failed, mistaken, lastRun>>
      /\ hunt # NoHunt /\ hunt.inFlight # {} /\ Sound(hunt, clean, Evidence, lastRun)
  <2>1. at \in {"mask", "write"} /\ UNCHANGED <<clean, failed, mistaken, lastRun>>
    BY DEF WriteMask, MaskIntent, MaskWrite, MaskRefused, Launch, history
  <2>2. hunt # NoHunt /\ hunt.inFlight # {}
    BY <2>1 DEF EngineInvariant, Standing
  <2>. QED
    BY <2>1, <2>2, EngineFacts DEF HeldSound
<1>1. clean' = clean /\ Evidence' = Evidence /\ lastRun' = lastRun
  BY <1>0 DEF Evidence
<1>2. HeldSound'
  <2>1. hunt' = hunt \/ hunt' = [hunt EXCEPT !.armed = TRUE]
    BY DEF WriteMask, MaskIntent, MaskWrite, MaskRefused, Launch
  <2>2. Sound([hunt EXCEPT !.armed = TRUE], clean, Evidence, lastRun)
    BY <1>0, ArmedIsSound
  <2>. QED
    BY <2>1, <2>2, <1>0, <1>1 DEF HeldSound
<1>3. hunt' \in HuntState \cup {NoHunt}
  BY <1>2 DEF HeldSound, Sound, HuntInv
<1>4. \A row \in durable' : row \in durable \/ row.hunt = db.hunt \/ row.hunt = hunt'
  <2>1. \/ durable' = {db} \/ durable' = durable
        \/ durable' = {db, [db EXCEPT !.quarantined = TRUE]} \/ durable' = {WithHunt(hunt')}
    BY DEF WriteMask, MaskIntent, MaskWrite, MaskRefused, Launch, WriteAll, Quarantine,
           SaveDurably, rows
  <2>2. [db EXCEPT !.quarantined = TRUE].hunt = db.hunt /\ WithHunt(hunt').hunt = hunt'
    BY <1>3, EngineFacts, RowWithHunt, RowQuarantined DEF WithHunt
  <2>. QED
    BY <2>1, <2>2
<1>. QED
  BY <1>0, <1>2, <1>4, KnownRowsAreSound

\* What the invariant says while a load runs.
LEMMA RunningFacts ==
  ASSUME EngineInvariant, at = "running"
  PROVE  /\ hunt # NoHunt /\ hunt \in HuntState /\ Sound(hunt, clean, Evidence, lastRun)
         /\ InFlight # {} /\ InFlight \in CoreSets /\ ~Terminal(hunt)
         /\ hunt.armed /\ durable = {db} /\ db.hunt = hunt /\ applied = hw /\ MachineRuns(InFlight)
         /\ hunt.launchesDone \in Nat /\ left \in Nat /\ hunt.launchesDone + left >= Launches - 1
         /\ lastRun.launches \in Nat /\ Launches \in Nat \ {0} /\ InFlight = hunt.inFlight
<1>1. /\ hunt # NoHunt /\ InFlight # {} /\ ~Terminal(hunt) /\ applied = hw
      /\ hunt.launchesDone + left >= Launches - 1 /\ InFlight = hunt.inFlight
  BY DEF EngineInvariant, Standing, InFlight
<1>2. hunt.armed /\ durable = {db} /\ db.hunt = hunt /\ MachineRuns(InFlight)
  BY DEF EngineInvariant, ProbeRunsItsMask
<1>3. hunt \in HuntState /\ Sound(hunt, clean, Evidence, lastRun)
  BY <1>1, EngineFacts DEF HeldSound
<1>4. InFlight \in CoreSets /\ hunt.launchesDone \in Nat
  BY <1>1, <1>3 DEF HuntState
<1>5. left \in Nat /\ Launches \in Nat \ {0} /\ lastRun.launches \in Nat
  BY LaunchesAssumption DEF EngineInvariant, EngineTypeOK
<1>. QED
  BY <1>1, <1>2, <1>3, <1>4, <1>5

\* The rows an answer may leave: the armed probe, the disarmed one, what became of it.
LEMMA AnswerRows ==
  ASSUME EngineInvariant, at = "running", SaveAnswer(hunt'), hunt' \in HuntState
  PROVE  \A row \in durable' : row.hunt \in {hunt, Disarmed(hunt), hunt'}
<1>1. durable' = {db, WithHunt(Disarmed(hunt)), WithHunt(hunt')}
  BY RunningFacts DEF SaveAnswer
<1>2. Disarmed(hunt) \in HuntState
  BY RunningFacts, DisarmedIsSound
<1>3. db.hunt = hunt /\ WithHunt(Disarmed(hunt)).hunt = Disarmed(hunt) /\ WithHunt(hunt').hunt = hunt'
  BY <1>2, EngineFacts, RunningFacts, RowWithHunt DEF WithHunt
<1>. QED
  BY <1>1, <1>3

\* A clean launch: it is counted, and the last one of the series answers.
LEMMA FinishCleanKeepsSound ==
  ASSUME EngineInvariant, FinishClean
  PROVE  RowsSound' /\ HeldSound' /\ hunt' \in HuntState
         /\ (left > 0 => /\ hunt'.inFlight = InFlight /\ ~Terminal(hunt')
                         /\ hunt'.launchesDone = hunt.launchesDone + 1)
<1>. DEFINE d == Disarmed(hunt)
<1>0. at = "running" /\ UNCHANGED <<failed, mistaken>> /\ UNCHANGED left
  BY DEF FinishClean
<1>1. Evidence' = Evidence /\ Evidence \in SUBSET CoreSets
  BY <1>0, EngineFacts DEF Evidence
<1>2. /\ lastRun'.mask = InFlight /\ lastRun'.launches \in Nat
      /\ hunt.launchesDone + 1 <= lastRun'.launches
  <2>1. lastRun' = [mask |-> InFlight,
                    launches |-> 1 + (IF lastRun.mask = InFlight THEN lastRun.launches ELSE 0)]
    BY DEF FinishClean, CleanLaunch
  <2>2. hunt.launchesDone > 0 => lastRun.mask = InFlight /\ hunt.launchesDone <= lastRun.launches
    BY <1>0, RunningFacts DEF Sound
  <2>. QED
    BY <2>1, <2>2, <1>0, RunningFacts
<1>3. /\ clean' \in SUBSET CoreSets /\ clean \subseteq clean'
      /\ lastRun'.launches >= Launches => InFlight \in clean'
  BY <1>0, EngineFacts, RunningFacts DEF FinishClean, CleanLaunch
<1>4. /\ Sound(d, clean, Evidence, lastRun) /\ d.inFlight = InFlight /\ d.armed = FALSE
      /\ d.launchesDone = hunt.launchesDone /\ ~Terminal(d) /\ d \in HuntState
  BY <1>0, RunningFacts, DisarmedIsSound
<1>5. ASSUME NEW h \in {hunt, d} PROVE Sound(h, clean', Evidence', lastRun')
  <2>1. Sound(h, clean, Evidence, lastRun) /\ h.inFlight = InFlight /\ InFlight # {}
        /\ h.launchesDone = hunt.launchesDone
    BY <1>0, <1>4, <1>5, RunningFacts
  <2>2. Sound(h, clean', Evidence', lastRun)
    BY <1>1, <1>3, <2>1, SoundGrows
  <2>3. h.launchesDone <= lastRun'.launches
    BY <1>0, <1>2, <2>1, RunningFacts
  <2>. QED
    BY <2>1, <2>2, <2>3, <1>2 DEF Sound
<1>. HIDE DEF d
<1>6. hunt' = AfterClean(d) /\ SaveAnswer(hunt')
  BY DEF FinishClean, d
<1>7. CASE left > 0
  <2>1. hunt' = [d EXCEPT !.launchesDone = @ + 1]
    BY <1>6, <1>7 DEF AfterClean
  <2>2. Sound(d, clean', Evidence', lastRun')
    BY <1>5
  <2>3. d.inFlight # {} /\ lastRun'.mask = d.inFlight /\ d.launchesDone + 1 <= lastRun'.launches
    BY <1>0, <1>2, <1>4, RunningFacts
  <2>4. /\ Sound(hunt', clean', Evidence', lastRun') /\ SameQuestion(d, hunt')
        /\ hunt'.launchesDone = d.launchesDone + 1 /\ (Terminal(hunt') <=> Terminal(d))
        /\ hunt' \in HuntState
    BY <2>1, <2>2, <2>3, CountedIsSound
  <2>5. hunt'.inFlight = d.inFlight
    BY <2>4 DEF SameQuestion
  <2>. QED
    BY <2>4, <2>5, <1>0, <1>4, <1>5, <1>6, <1>7, AnswerRows DEF RowsSound, HeldSound, d
<1>8. CASE ~(left > 0)
  <2>1. hunt' = Record(d, FALSE)
    BY <1>6, <1>8 DEF AfterClean
  <2>2. InFlight \in clean'
    BY <1>0, <1>2, <1>3, <1>8, RunningFacts
  <2>3. d.inFlight # {} /\ FALSE \in BOOLEAN /\ Evidence \subseteq Evidence' /\ Evidence' \in SUBSET CoreSets
    BY <1>0, <1>1, <1>4, RunningFacts
  <2>4. Sound(hunt', clean', Evidence', lastRun') /\ hunt'.launchesDone = 0
    <3>1. (FALSE => d.inFlight \in Evidence') /\ (~FALSE => d.inFlight \in clean')
      BY <2>2, <1>4
    <3>2. /\ Sound(Record(d, FALSE), clean', Evidence', lastRun')
          /\ Record(d, FALSE).armed = FALSE /\ Record(d, FALSE).launchesDone = 0
      <4>1. /\ Sound(d, clean, Evidence, lastRun) /\ d.inFlight # {} /\ d.armed = FALSE
            /\ FALSE \in BOOLEAN /\ Evidence \subseteq Evidence' /\ Evidence' \in SUBSET CoreSets
            /\ clean' \in SUBSET CoreSets /\ clean \subseteq clean'
        BY <2>3, <1>3, <1>4
      <4>. QED
        BY <3>1, <4>1, RecordedIsSound, ZenonT(60)
    <3>. QED
      BY <3>2, <2>1
  <2>5. hunt' \in HuntState
    BY <2>4 DEF Sound, HuntInv
  <2>. QED
    BY <2>4, <2>5, <1>0, <1>4, <1>5, <1>6, <1>8, AnswerRows DEF RowsSound, HeldSound, d
<1>. QED
  BY <1>7, <1>8

\* A failed launch answers at once.
LEMMA FinishFailedKeepsSound ==
  ASSUME EngineInvariant, FinishFailed
  PROVE  RowsSound' /\ HeldSound' /\ hunt' \in HuntState
<1>. DEFINE d == Disarmed(hunt)
<1>0. /\ at = "running" /\ UNCHANGED <<clean, mistaken, lastRun>>
      /\ failed' = failed \cup {InFlight} /\ hunt' = Record(d, TRUE) /\ SaveAnswer(hunt')
  BY DEF FinishFailed
<1>1. /\ Evidence \subseteq Evidence' /\ Evidence' \in SUBSET CoreSets /\ InFlight \in Evidence'
      /\ clean' \in SUBSET CoreSets /\ clean \subseteq clean'
  BY <1>0, EngineFacts, RunningFacts DEF Evidence, CoreSets
<1>2. /\ Sound(d, clean, Evidence, lastRun) /\ d.inFlight = InFlight /\ d.armed = FALSE
      /\ d.inFlight # {}
  BY <1>0, RunningFacts, DisarmedIsSound
<1>3. ASSUME NEW h \in {hunt, d} PROVE Sound(h, clean', Evidence', lastRun')
  <2>1. Sound(h, clean, Evidence, lastRun)
    BY <1>0, <1>2, <1>3, RunningFacts
  <2>2. Sound(h, clean', Evidence', lastRun)
    BY <1>1, <2>1, SoundGrows
  <2>. QED
    BY <2>2, <1>0
<1>. HIDE DEF d
<1>4. Sound(hunt', clean', Evidence', lastRun')
  <2>1. TRUE \in BOOLEAN
    OBVIOUS
  <2>. QED
    BY <2>1, <1>0, <1>1, <1>2, RecordedIsSound
<1>5. hunt' \in HuntState
  BY <1>4 DEF Sound, HuntInv
<1>. QED
  BY <1>0, <1>3, <1>4, <1>5, AnswerRows DEF RowsSound, HeldSound, d

\* A launch without an answer puts the probe back, disarmed.
LEMMA FinishUnansweredKeepsSound ==
  ASSUME EngineInvariant,
         FinishInconsistent \/ FinishStartup \/ FinishThermal \/ FinishApparatus
  PROVE  RowsSound' /\ HeldSound' /\ hunt' = Disarmed(hunt)
<1>0. at = "running" /\ UNCHANGED <<clean, failed, mistaken, lastRun>> /\ hunt' = Disarmed(hunt)
  BY DEF FinishInconsistent, FinishStartup, FinishThermal, FinishApparatus, Retry, Requeued, history
<1>1. /\ hunt # NoHunt /\ Sound(Disarmed(hunt), clean, Evidence, lastRun)
      /\ hunt' \in HuntState
  BY <1>0, RunningFacts, DisarmedIsSound
<1>2. HeldSound'
  BY <1>0, <1>1 DEF HeldSound, Evidence
<1>3. \A row \in durable' : row \in durable \/ row.hunt = hunt'
  <2>1. \/ durable' = durable \cup {WithHunt(hunt')}
        \/ durable' = durable \cup {WithHunt(Disarmed(hunt)), WithHunt(hunt')}
        \/ durable' = {WithHunt(hunt')}
        \/ durable' = {WithHunt(hunt'), [WithHunt(hunt') EXCEPT !.quarantined = TRUE]}
    BY DEF FinishInconsistent, FinishStartup, FinishThermal, FinishApparatus, Retry, SaveAnswer,
           Save, SaveDurably, Quarantine
  <2>2. WithHunt(hunt') \in Rows /\ WithHunt(hunt').hunt = hunt'
    BY <1>1, EngineFacts, RowWithHunt DEF WithHunt
  <2>3. [WithHunt(hunt') EXCEPT !.quarantined = TRUE].hunt = hunt'
    BY <2>2, RowQuarantined
  <2>. QED
    BY <2>1, <2>2, <2>3, <1>0
<1>. QED
  BY <1>0, <1>2, <1>3, KnownRowsAreSound

\* The worker has ended, one way or another.
LEMMA FinishKeepsSound ==
  ASSUME EngineInvariant, Finish
  PROVE  RowsSound' /\ HeldSound'
<1>1. CASE FinishClean
  BY <1>1, FinishCleanKeepsSound
<1>2. CASE FinishFailed
  BY <1>2, FinishFailedKeepsSound
<1>3. CASE FinishInconsistent \/ FinishStartup \/ FinishThermal \/ FinishApparatus
  BY <1>3, FinishUnansweredKeepsSound
<1>. QED
  BY <1>1, <1>2, <1>3 DEF Finish

\* A pause or an abort leaves the probe as it is, and a restored abort puts it back.
LEMMA OperatorKeepsSound ==
  ASSUME EngineInvariant, Pause \/ Abort \/ Aborting
  PROVE  RowsSound' /\ HeldSound'
<1>0. /\ UNCHANGED <<clean, failed, mistaken, lastRun>>
      /\ hunt' = hunt \/ (hunt' = Disarmed(hunt) /\ at = "requeue")
  BY DEF Pause, Abort, Aborting, AbortRestores, AbortRequeues, Requeued, history
<1>1. Evidence' = Evidence
  BY <1>0 DEF Evidence
<1>2. at = "requeue" => hunt # NoHunt
  BY DEF EngineInvariant, Standing
<1>3. HeldSound'
  BY <1>0, <1>1, <1>2, EngineFacts, DisarmedIsSound DEF HeldSound
<1>4. hunt' \in HuntState \cup {NoHunt}
  BY <1>3 DEF HeldSound, Sound, HuntInv
<1>5. \A row \in durable' : row \in durable \/ row.hunt = db.hunt \/ row.hunt = hunt'
  <2>1. \/ durable' = durable \/ durable' = {db} \/ durable' = durable \cup {WithHunt(hunt')}
        \/ durable' = {db, [db EXCEPT !.quarantined = TRUE]}
    BY DEF Pause, Abort, Aborting, AbortRestores, AbortRequeues, WriteAll, Quarantine, Save, rows
  <2>2. [db EXCEPT !.quarantined = TRUE].hunt = db.hunt /\ WithHunt(hunt').hunt = hunt'
    BY <1>4, EngineFacts, RowWithHunt, RowQuarantined DEF WithHunt
  <2>. QED
    BY <2>1, <2>2
<1>. QED
  BY <1>0, <1>3, <1>5, KnownRowsAreSound

\* The process or the machine is gone: the hunt is in the rows that are left.
LEMMA PowerKeepsSound ==
  ASSUME EngineInvariant, Kill \/ CleanReboot \/ Crash
  PROVE  RowsSound' /\ HeldSound'
<1>1. hunt' = NoHunt /\ UNCHANGED <<clean, mistaken, lastRun>>
  BY DEF Kill, CleanReboot, Crash, ProcessGone, history
<1>2. failed \subseteq failed' /\ failed' \subseteq CoreSets
  <2>1. failed' = failed \/ failed' = failed \cup {live \in (SUBSET Cores) \ {{}} : MachineRuns(live)}
    BY DEF Kill, CleanReboot, Crash, history
  <2>. QED
    BY <2>1, EngineFacts DEF CoreSets
<1>3. Evidence \subseteq Evidence' /\ Evidence' \in SUBSET CoreSets /\ clean' = clean
  BY <1>1, <1>2 DEF Evidence, CoreSets
<1>4. \A row \in durable' : row \in durable
  <2>1. CASE Kill
    BY <2>1 DEF Kill, rows
  <2>2. CASE CleanReboot
    BY <2>2, EngineFacts DEF CleanReboot
  <2>3. CASE Crash
    BY <2>3 DEF Crash
  <2>. QED
    BY <2>1, <2>2, <2>3
<1>5. RowsSound'
  <2>. SUFFICES ASSUME NEW row \in durable', row.hunt # NoHunt
                PROVE  Sound(row.hunt, clean', Evidence', lastRun')
    BY DEF RowsSound
  <2>1. Sound(row.hunt, clean, Evidence, lastRun)
    BY <1>4, EngineFacts DEF RowsSound
  <2>2. clean \in SUBSET CoreSets
    BY EngineFacts
  <2>3. Sound(row.hunt, clean, Evidence', lastRun)
    BY <1>3, <2>1, <2>2, SoundGrows
  <2>. QED
    BY <2>3, <1>1
<1>. QED
  BY <1>1, <1>5 DEF HeldSound

\* The hunt a resume goes on with is the saved one, disarmed or as it was, or none.
LEMMA ResumedHunt ==
  ASSUME EngineInvariant, Resume
  PROVE  /\ hunt' \in {NoHunt, db.hunt} \/ (db.hunt # NoHunt /\ hunt' = Disarmed(db.hunt))
         /\ left' = 0 /\ at' \in {"restore", "idle"} /\ UNCHANGED history
         /\ \A row \in durable' : row \in durable \/ row.hunt = hunt'
         /\ db' \in durable' /\ durable' \subseteq Rows
<1>0. /\ db \in Rows /\ db \in durable /\ durable \subseteq Rows
      /\ db.hunt \in HuntState \cup {NoHunt}
  BY EngineFacts
<1>1. CASE ResumeRequeues
  <2>. DEFINE row == [hunt |-> Requeued(db.hunt), blamed |-> db.blamed, quarantined |-> FALSE]
  <2>1. /\ db.hunt # NoHunt /\ hunt' = row.hunt /\ left' = 0 /\ at' = "restore"
        /\ UNCHANGED history /\ db' = row /\ durable' = {row}
    BY <1>1 DEF ResumeRequeues, Loaded, Stamp, SaveDurably
  <2>2. Disarmed(db.hunt) \in HuntState
    BY <2>1, EngineFacts, DisarmedIsSound
  <2>3. row \in Rows
    BY <2>2, <1>0, RowFields DEF Requeued, Rows
  <2>4. row.hunt = Disarmed(db.hunt)
    BY DEF Requeued
  <2>. QED
    BY <2>1, <2>3, <2>4
<1>2. CASE ResumeAfterProbe \/ ResumeAfterCrash \/ ResumeWithoutHunt
  <2>1. /\ hunt' = db.hunt /\ left' = 0 /\ at' = "restore"
        /\ UNCHANGED history /\ db' = db /\ durable' = {db}
    BY <1>2 DEF ResumeAfterProbe, ResumeAfterCrash, ResumeWithoutHunt, Loaded, Stamp, SaveDurably
  <2>. QED
    BY <2>1, <1>0
<1>3. CASE ResumeBlames
  <2>1. PICK named \in (SUBSET LiveInJournal) \ {{}} :
          LET row == [db EXCEPT !.hunt = NoHunt, !.blamed = @ \cup named]
          IN  Loaded(row) /\ Stamp(row)
    BY <1>3, Zenon DEF ResumeBlames
  <2>. DEFINE row == [db EXCEPT !.hunt = NoHunt, !.blamed = @ \cup named]
  <2>2. named \in SUBSET Cores
    BY DEF LiveInJournal
  <2>3. row \in Rows /\ row.hunt = NoHunt
    BY <1>0, <2>2, RowCharged, Zenon
  <2>4. /\ hunt' = row.hunt /\ left' = 0 /\ at' = "restore" /\ db' = row /\ durable' = {row}
    BY <2>1 DEF Loaded, Stamp, SaveDurably
  <2>5. UNCHANGED history
    BY <1>3 DEF ResumeBlames
  <2>. HIDE DEF row
  <2>. QED
    BY <2>3, <2>4, <2>5
<1>4. CASE ResumePauses
  <2>1. /\ hunt' = db.hunt /\ left' = 0 /\ at' = "idle"
        /\ UNCHANGED history /\ db' = db /\ durable' = durable
    BY <1>4 DEF ResumePauses, rows
  <2>. QED
    BY <2>1, <1>0
<1>. QED
  BY <1>1, <1>2, <1>3, <1>4 DEF Resume

\* A resume adds nothing to what is known.
LEMMA ResumeKeepsSound ==
  ASSUME EngineInvariant, Resume
  PROVE  RowsSound' /\ HeldSound'
<1>0. UNCHANGED <<clean, failed, mistaken, lastRun>>
  BY ResumedHunt DEF history
<1>1. Evidence' = Evidence
  BY <1>0 DEF Evidence
<1>2. HeldSound'
  <2>1. CASE hunt' = db.hunt
    BY <2>1, <1>0, <1>1, EngineFacts DEF HeldSound
  <2>2. CASE db.hunt # NoHunt /\ hunt' = Disarmed(db.hunt)
    BY <2>2, <1>0, <1>1, EngineFacts, DisarmedIsSound DEF HeldSound
  <2>3. CASE hunt' = NoHunt
    BY <2>3 DEF HeldSound
  <2>. QED
    BY <2>1, <2>2, <2>3, ResumedHunt
<1>3. \A row \in durable' : row \in durable \/ row.hunt = hunt'
  BY ResumedHunt
<1>. QED
  BY <1>0, <1>2, <1>3, KnownRowsAreSound

\* The reproduction a crash owes is recorded on its mask; if the machine never
\* failed under that mask, everything counts as evidence from here on.
LEMMA RestoreKeepsSound ==
  ASSUME EngineInvariant, Restoring
  PROVE  RowsSound' /\ HeldSound' /\ hunt' \in HuntState \cup {NoHunt}
<1>1. CASE RestoreRefused \/ (Restore /\ ~(hunt # NoHunt /\ hunt.armed))
  <2>1. UNCHANGED <<clean, failed, mistaken, lastRun>> /\ hunt' = hunt /\ durable' = {db}
    BY <1>1 DEF RestoreRefused, Restore, history
  <2>2. HeldSound'
    BY <2>1, EngineFacts DEF HeldSound, Evidence
  <2>3. \A row \in durable' : row \in durable
    BY <2>1, EngineFacts
  <2>. QED
    BY <2>1, <2>2, <2>3, EngineFacts, KnownRowsAreSound
<1>2. CASE Restore /\ hunt # NoHunt /\ hunt.armed
  <2>. DEFINE d == Disarmed(hunt)
  <2>1. /\ hunt' = Record(d, TRUE) /\ durable' = {db, WithHunt(hunt')}
        /\ mistaken' = (mistaken \/ hunt.inFlight \notin failed)
        /\ UNCHANGED <<clean, failed, lastRun>>
    BY <1>2 DEF Restore, Reproduced
  <2>2. Sound(hunt, clean, Evidence, lastRun) /\ hunt.inFlight # {} /\ hunt.inFlight \in CoreSets
    <3>1. Sound(hunt, clean, Evidence, lastRun) /\ hunt \in HuntState
      BY <1>2, EngineFacts DEF HeldSound
    <3>. QED
      BY <1>2, <3>1 DEF Sound, HuntState
  <2>3. /\ Evidence \subseteq Evidence' /\ Evidence' \in SUBSET CoreSets /\ hunt.inFlight \in Evidence'
        /\ clean' \in SUBSET CoreSets /\ clean \subseteq clean'
    BY <2>1, <2>2, EngineFacts DEF Evidence, CoreSets
  <2>4. /\ Sound(d, clean, Evidence, lastRun) /\ d.inFlight = hunt.inFlight /\ d.armed = FALSE
        /\ d.inFlight # {}
    BY <2>2, DisarmedIsSound
  <2>. HIDE DEF d
  <2>5. Sound(hunt', clean', Evidence', lastRun')
    <3>1. TRUE \in BOOLEAN
      OBVIOUS
    <3>. QED
      BY <3>1, <2>1, <2>3, <2>4, RecordedIsSound
  <2>6. hunt' \in HuntState
    BY <2>5 DEF Sound, HuntInv
  <2>7. RowsSound'
    <3>1. \A row \in durable' : row.hunt = db.hunt \/ row.hunt = hunt'
      <4>1. WithHunt(hunt').hunt = hunt'
        BY <2>6, EngineFacts, RowWithHunt DEF WithHunt
      <4>. QED
        BY <4>1, <2>1
    <3>2. db.hunt # NoHunt => Sound(db.hunt, clean', Evidence', lastRun')
      BY <2>1, <2>3, EngineFacts, SoundGrows
    <3>. QED
      BY <3>1, <3>2, <2>5 DEF RowsSound
  <2>. QED
    BY <2>5, <2>6, <2>7 DEF HeldSound
<1>. QED
  BY <1>1, <1>2 DEF Restoring

-----------------------------------------------------------------------------
(* Where the engine stands, and what the machine runs there *)

\* Nothing is asked of the places where no probe is under way.
LEMMA AwayStands ==
  ASSUME at' \in {"idle", "off", "done", "verdict", "unresolved"}
  PROVE  Standing' /\ ProbeRunsItsMask'
  BY DEF Standing, ProbeRunsItsMask

\* The slot sends the engine off with a question, and the launches it takes.
LEMMA SlotStands ==
  ASSUME EngineInvariant, Slot
  PROVE  Standing' /\ ProbeRunsItsMask'
<1>1. CASE SlotStops \/ SlotResolves
  <2>1. at' \in {"idle", "verdict", "unresolved"}
    BY <1>1 DEF SlotStops, SlotResolves
  <2>. QED
    BY <2>1, AwayStands
<1>2. CASE SlotProbes
  <2>. DEFINE g == NextLiveSet(hunt)
  <2>1. /\ at = "slot" /\ at' = "mask" /\ ~Terminal(g) /\ hw' = hw /\ applied' = applied
        /\ IF left > 0
             THEN left' = left - 1 /\ hunt' = Disarmed(hunt)
             ELSE hunt' = Disarmed(g) /\ left' = LaunchesDue(hunt')
    BY <1>2 DEF SlotProbes, machine
  <2>2. hunt # NoHunt /\ applied = hw /\ (left > 0 => hunt.inFlight # {} /\ hunt.launchesDone + left >= Launches)
    BY <2>1 DEF EngineInvariant, Standing
  <2>3. Sound(hunt, clean, Evidence, lastRun) /\ hunt \in HuntState
    BY <2>2, EngineFacts DEF HeldSound
  <2>4. /\ Sound(g, clean, Evidence, lastRun) /\ g.launchesDone = hunt.launchesDone
        /\ (hunt.inFlight # {} => g = hunt) /\ g.inFlight # {}
    BY <2>1, <2>3, NextIsSound
  <2>5. left \in Nat /\ Launches \in Nat /\ hunt.launchesDone \in Nat
    BY <2>3, LaunchesAssumption DEF EngineInvariant, EngineTypeOK, HuntState
  <2>. HIDE DEF g
  <2>6. CASE left > 0
    <3>1. g = hunt /\ hunt' = Disarmed(hunt) /\ left' = left - 1
      BY <2>1, <2>2, <2>4, <2>6
    <3>2. /\ hunt' \in HuntState /\ hunt'.inFlight = hunt.inFlight /\ ~Terminal(hunt')
          /\ hunt'.launchesDone = hunt.launchesDone
      BY <3>1, <2>1, <2>3, DisarmedIsSound
    <3>3. hunt'.launchesDone + left' >= Launches - 1
      BY <3>1, <3>2, <2>2, <2>5, <2>6
    <3>. QED
      BY <3>2, <3>3, <2>1, <2>2, <2>6, NoHuntApart DEF Standing, ProbeRunsItsMask
  <2>7. CASE ~(left > 0)
    <3>1. hunt' = Disarmed(g) /\ left' = LaunchesDue(hunt')
      BY <2>1, <2>7
    <3>2. /\ hunt' \in HuntState /\ hunt'.inFlight = g.inFlight /\ ~Terminal(hunt')
          /\ hunt'.launchesDone = g.launchesDone
      BY <3>1, <2>1, <2>4, DisarmedIsSound
    <3>3. hunt'.launchesDone + left' >= Launches - 1
      BY <3>1, <3>2, <2>4, <2>5 DEF LaunchesDue
    <3>. QED
      BY <3>2, <3>3, <2>1, <2>2, <2>4, NoHuntApart DEF Standing, ProbeRunsItsMask
  <2>. QED
    BY <2>6, <2>7
<1>. QED
  BY <1>1, <1>2 DEF Slot

\* The load starts only when no core is left to write: the machine then runs the
\* mask, and nothing but the armed question is on disk.
LEMMA WriteMaskStands ==
  ASSUME EngineInvariant, WriteMask
  PROVE  Standing' /\ ProbeRunsItsMask'
<1>0. /\ at \in {"mask", "write"} /\ hunt # NoHunt /\ applied = hw /\ hunt \in HuntState
      /\ ~Terminal(hunt) /\ hunt.inFlight # {} /\ hunt.launchesDone + left >= Launches - 1
  <2>1. at \in {"mask", "write"}
    BY DEF WriteMask, MaskIntent, MaskWrite, MaskRefused, Launch
  <2>. QED
    BY <2>1, EngineFacts DEF EngineInvariant, Standing
<1>1. CASE MaskIntent
  <2>1. at' = "write" /\ hunt' = hunt /\ applied' = applied /\ hw' = hw /\ left' = left
    BY <1>1 DEF MaskIntent, machine
  <2>. QED
    BY <2>1, <1>0 DEF Standing, ProbeRunsItsMask
<1>2. CASE MaskWrite
  <2>1. at' = "mask" /\ hunt' = hunt /\ applied' = hw' /\ left' = left
    BY <1>0, <1>2 DEF MaskWrite
  <2>. QED
    BY <2>1, <1>0 DEF Standing, ProbeRunsItsMask
<1>3. CASE MaskRefused
  <2>1. at' = "idle"
    BY <1>3 DEF MaskRefused, Quarantine
  <2>. QED
    BY <2>1, AwayStands
<1>4. CASE Launch
  <2>1. /\ at' = "running" /\ hunt' = [hunt EXCEPT !.armed = TRUE] /\ applied' = applied
        /\ hw' = hw /\ left' = left /\ db' = WithHunt(hunt') /\ durable' = {db'} /\ Stale = {}
    BY <1>4 DEF Launch, SaveDurably, machine
  <2>2. /\ hunt' \in HuntState /\ SameQuestion(hunt, hunt') /\ hunt'.armed
        /\ hunt'.launchesDone = hunt.launchesDone /\ (Terminal(hunt') <=> Terminal(hunt))
    <3>1. Sound(hunt, clean, Evidence, lastRun)
      BY <1>0, EngineFacts DEF HeldSound
    <3>. QED
      BY <3>1, <2>1, <1>0, ArmedIsSound
  <2>3. hunt'.inFlight = hunt.inFlight
    BY <2>2 DEF SameQuestion
  <2>4. MachineRuns(InFlight)'
    <3>1. ASSUME NEW c \in Cores
          PROVE  hw[c] = (IF c \in hunt.inFlight THEN "trial" ELSE "stock")
      <4>1. applied[c] = Mask(hunt.inFlight)[c]
        BY <2>1 DEF Stale
      <4>. QED
        BY <4>1, <1>0 DEF Mask
    <3>. QED
      BY <3>1, <2>1, <2>3 DEF MachineRuns, InFlight
  <2>5. db'.hunt = hunt'
    BY <2>1, <2>2, EngineFacts, RowWithHunt DEF WithHunt
  <2>6. ProbeRunsItsMask'
    BY <2>1, <2>2, <2>4, <2>5 DEF ProbeRunsItsMask
  <2>7. Standing'
    BY <2>1, <2>2, <2>3, <1>0, NoHuntApart DEF Standing
  <2>. QED
    BY <2>6, <2>7
<1>. QED
  BY <1>1, <1>2, <1>3, <1>4 DEF WriteMask

\* A finished launch leaves the mask live and the rest of its series due.
LEMMA FinishStands ==
  ASSUME EngineInvariant, Finish
  PROVE  Standing' /\ ProbeRunsItsMask'
<1>0. at = "running"
  BY DEF Finish, FinishClean, FinishFailed, FinishInconsistent, FinishStartup, FinishThermal,
         FinishApparatus
<1>1. CASE FinishClean
  <2>1. at' = "slot" /\ left' = left /\ hw' = hw /\ applied' = applied
    BY <1>1 DEF FinishClean, machine
  <2>2. hunt' \in HuntState
    BY <1>1, FinishCleanKeepsSound
  <2>3. left > 0 => hunt'.inFlight = InFlight /\ hunt'.launchesDone = hunt.launchesDone + 1
    BY <1>1, FinishCleanKeepsSound
  <2>4. left > 0 => hunt'.inFlight # {} /\ hunt'.launchesDone + left >= Launches
    BY <1>0, <2>3, RunningFacts
  <2>5. applied = hw
    BY <1>0, RunningFacts
  <2>. QED
    BY <2>1, <2>2, <2>4, <2>5, NoHuntApart DEF Standing, ProbeRunsItsMask
<1>2. CASE FinishFailed
  <2>1. at' = "slot" /\ left' = 0 /\ hw' = hw /\ applied' = applied
    BY <1>2 DEF FinishFailed, machine
  <2>2. hunt' \in HuntState
    BY <1>2, FinishFailedKeepsSound
  <2>3. applied = hw
    BY <1>0, RunningFacts
  <2>. QED
    BY <2>1, <2>2, <2>3, NoHuntApart DEF Standing, ProbeRunsItsMask
<1>3. CASE FinishInconsistent \/ FinishStartup
  <2>1. at' = "idle"
    BY <1>3 DEF FinishInconsistent, FinishStartup, Quarantine
  <2>. QED
    BY <2>1, AwayStands
<1>4. CASE FinishThermal \/ FinishApparatus
  <2>1. /\ at' = "abort" \/ (at' = "slot" /\ left' = 0)
        /\ hw' = hw /\ applied' = applied /\ hunt' = Disarmed(hunt)
    BY <1>4 DEF FinishThermal, FinishApparatus, Retry, Requeued, machine
  <2>2. hunt' \in HuntState
    BY <1>0, <2>1, RunningFacts, DisarmedIsSound
  <2>3. applied = hw
    BY <1>0, RunningFacts
  <2>. QED
    BY <2>1, <2>2, <2>3, NoHuntApart DEF Standing, ProbeRunsItsMask
<1>. QED
  BY <1>1, <1>2, <1>3, <1>4 DEF Finish

\* A pause changes no offset and no row.
LEMMA PauseStands ==
  ASSUME EngineInvariant, Pause
  PROVE  Standing' /\ ProbeRunsItsMask'
<1>1. /\ at' = at /\ hunt' = hunt /\ left' = left /\ hw' = hw /\ applied' = applied
      /\ durable' = durable /\ db' = db
  BY DEF Pause, machine, rows
<1>2. Standing /\ ProbeRunsItsMask
  BY DEF EngineInvariant
<1>. QED
  BY <1>1, <1>2 DEF Standing, ProbeRunsItsMask, MachineRuns, InFlight

\* After a restore the slot finds the baselines live and no series begun.
LEMMA RestoreStands ==
  ASSUME EngineInvariant, Restoring
  PROVE  Standing' /\ ProbeRunsItsMask'
<1>1. CASE RestoreRefused
  <2>1. at' = "idle"
    BY <1>1 DEF RestoreRefused
  <2>. QED
    BY <2>1, AwayStands
<1>2. CASE Restore
  <2>1. /\ at = "restore" /\ hw' = Baseline /\ applied' = Baseline /\ left' = left
        /\ at' = (IF hunt = NoHunt THEN "done" ELSE "slot")
        /\ hunt = NoHunt => hunt' = NoHunt
        /\ hunt # NoHunt => hunt' = hunt \/ (hunt.armed /\ hunt' = Reproduced(hunt))
    BY <1>2 DEF Restore
  <2>2. left = 0
    BY <2>1 DEF EngineInvariant, Standing
  <2>3. hunt # NoHunt => hunt' # NoHunt
    <3>. SUFFICES ASSUME hunt # NoHunt, hunt.armed, hunt' = Reproduced(hunt) PROVE hunt' # NoHunt
      BY <2>1
    <3>1. Sound(hunt, clean, Evidence, lastRun) /\ hunt.inFlight # {} /\ hunt.inFlight \in CoreSets
      BY EngineFacts DEF HeldSound, Sound, HuntState
    <3>2. /\ Sound(Disarmed(hunt), clean, Evidence, lastRun) /\ Disarmed(hunt).armed = FALSE
          /\ Disarmed(hunt).inFlight = hunt.inFlight
      BY <3>1, DisarmedIsSound
    <3>3. /\ clean \in SUBSET CoreSets /\ SUBSET Cores \in SUBSET CoreSets
          /\ Evidence \subseteq SUBSET Cores /\ hunt.inFlight \in SUBSET Cores /\ TRUE \in BOOLEAN
      BY <3>1, EngineFacts DEF CoreSets
    <3>4. Sound(Record(Disarmed(hunt), TRUE), clean, SUBSET Cores, lastRun)
      BY <3>1, <3>2, <3>3, RecordedIsSound
    <3>. QED
      BY <3>4, NoHuntApart DEF Reproduced, Sound, HuntInv
  <2>. QED
    BY <2>1, <2>2, <2>3 DEF Standing, ProbeRunsItsMask
<1>. QED
  BY <1>1, <1>2 DEF Restoring

\* Every step leaves the engine where its hunt, its mask and its rows belong together.
LEMMA StepsStand ==
  ASSUME EngineInvariant, EngineNext
  PROVE  Standing' /\ ProbeRunsItsMask'
<1>1. CASE Slot
  BY <1>1, SlotStands
<1>2. CASE Verdict
  <2>1. at' \in {"idle", "done", "verdict"}
    BY <1>2 DEF Verdict, Blame, AfterHunt, Quarantine
  <2>. QED
    BY <2>1, AwayStands
<1>3. CASE WriteMask
  BY <1>3, WriteMaskStands
<1>4. CASE Finish
  BY <1>4, FinishStands
<1>5. CASE Pause
  BY <1>5, PauseStands
<1>6. CASE Abort
  <2>1. at' = "abort" /\ hunt' = hunt /\ hunt # NoHunt
    BY <1>6 DEF Abort, EngineInvariant, Standing
  <2>. QED
    BY <2>1 DEF Standing, ProbeRunsItsMask
<1>7. CASE Aborting
  <2>1. at' \in {"requeue", "idle"} /\ (at' = "requeue" => at = "abort" /\ hunt' = hunt)
    BY <1>7 DEF Aborting, AbortRestores, AbortRequeues, Quarantine
  <2>2. at = "abort" => hunt # NoHunt
    BY DEF EngineInvariant, Standing
  <2>. QED
    BY <2>1, <2>2 DEF Standing, ProbeRunsItsMask
<1>8. CASE Kill \/ CleanReboot \/ Crash
  <2>1. at' = "off"
    BY <1>8 DEF Kill, CleanReboot, Crash, ProcessGone
  <2>. QED
    BY <2>1, AwayStands
<1>9. CASE Resume
  <2>1. at' \in {"restore", "idle"} /\ left' = 0
    BY <1>9, ResumedHunt
  <2>. QED
    BY <2>1 DEF Standing, ProbeRunsItsMask
<1>10. CASE Restoring
  BY <1>10, RestoreStands
<1>. QED
  BY <1>1, <1>2, <1>3, <1>4, <1>5, <1>6, <1>7, <1>8, <1>9, <1>10 DEF EngineNext

-----------------------------------------------------------------------------
(* Types *)

MachineTyped ==
  /\ hw \in [Cores -> Offset] /\ boot \in {"same", "crashed", "clean"}
  /\ journal \in [Cores -> Offset] /\ applied \in [Cores -> Offset \cup {"unknown"}]

RowsTyped == db \in durable /\ durable \subseteq Rows

PlaceTyped ==
  at \in Place /\ left \in 0..(Launches - 1) /\ paused \in BOOLEAN /\ toBlame \subseteq Cores

CountsTyped ==
  /\ thermals \in Nat /\ faults \in Nat /\ disruptions \in 0..MaxDisruptions
  /\ thermals <= disruptions /\ faults <= disruptions

HistoryTyped ==
  /\ failed \subseteq SUBSET Cores /\ clean \subseteq SUBSET Cores
  /\ lastRun \in [mask : SUBSET Cores, launches : Nat]
  /\ owed \subseteq Cores /\ abortedLive \in BOOLEAN /\ mistaken \in BOOLEAN

\* The parts of the type invariant.
LEMMA EngineParts ==
  EngineInvariant <=>
    /\ MachineTyped /\ RowsTyped /\ PlaceTyped /\ CountsTyped /\ HistoryTyped
    /\ hunt \in HuntState \cup {NoHunt}
    /\ RowsSound /\ HeldSound /\ Standing /\ ProbeRunsItsMask
<1>1. CountsTyped <=> /\ thermals \in 0..MaxDisruptions /\ faults \in 0..MaxDisruptions
                      /\ disruptions \in 0..MaxDisruptions
                      /\ thermals <= disruptions /\ faults <= disruptions
  BY MaxDisruptionsAssumption DEF CountsTyped
<1>. QED
  BY <1>1 DEF EngineInvariant, EngineTypeOK, MachineTyped, RowsTyped, PlaceTyped, HistoryTyped,
              RowsSound, HeldSound

\* The vectors the engine writes.
LEMMA VectorsTyped ==
  /\ Stock \in [Cores -> Offset] /\ Baseline \in [Cores -> Offset]
  /\ Unknown \in [Cores -> Offset \cup {"unknown"}]
  /\ \A live : Mask(live) \in [Cores -> Offset]
  BY DEF Stock, Baseline, Unknown, Mask, Offset

\* A write that some cores refuse leaves offsets everywhere.
LEMMA RefusedTyped ==
  ASSUME MachineTyped, NEW resident \in [Cores -> Offset], NEW vector \in [Cores -> Offset],
         NEW refused, WriteRefused(resident, vector, refused)
  PROVE  /\ hw' \in [Cores -> Offset] /\ journal' \in [Cores -> Offset]
         /\ applied' \in [Cores -> Offset \cup {"unknown"}]
  BY DEF WriteRefused, MachineTyped

\* The machine, the journal and what the engine believes stay offsets.
LEMMA MachineStaysTyped ==
  ASSUME EngineInvariant, EngineNext
  PROVE  MachineTyped'
<1>0. MachineTyped
  BY EngineParts
<1>. DEFINE kept == hw' = hw /\ boot' = boot /\ journal' = journal /\ applied' = applied
            written(v) == hw' = v /\ boot' = boot /\ journal' = v /\ applied' = v
            booted == boot' \in {"same", "crashed", "clean"}
<1>1. ASSUME kept PROVE MachineTyped'
  BY <1>0, <1>1 DEF MachineTyped
<1>2. ASSUME NEW v \in [Cores -> Offset], written(v) PROVE MachineTyped'
  BY <1>0, <1>2 DEF MachineTyped
<1>3. ASSUME NEW v \in [Cores -> Offset], NEW resident \in [Cores -> Offset], NEW refused,
             WriteRefused(resident, v, refused), boot' = boot
      PROVE  MachineTyped'
  BY <1>0, <1>3, RefusedTyped DEF MachineTyped
<1>4. CASE Slot \/ Blame \/ Launch
  <2>1. kept
    BY <1>4 DEF Slot, SlotStops, SlotProbes, SlotResolves, Blame, Launch, machine
  <2>. QED
    BY <1>1, <2>1
<1>5. CASE AfterHunt
  <2>1. boot' = boot
    BY <1>5 DEF AfterHunt
  <2>2. WriteAll(Stock) \/ \E c \in Cores : WriteRefused(hw, Stock, {c})
    BY <1>5 DEF AfterHunt, Quarantine
  <2>3. CASE WriteAll(Stock)
    BY <2>1, <2>3, <1>2, VectorsTyped DEF WriteAll
  <2>. QED
    BY <2>1, <2>2, <2>3, <1>0, <1>3, VectorsTyped DEF MachineTyped
<1>6. CASE MaskIntent
  <2>1. /\ hw' = hw /\ boot' = boot /\ applied' = applied
        /\ journal' = [journal EXCEPT ![NextCore] = Mask(hunt.inFlight)[NextCore]]
    BY <1>6 DEF MaskIntent, machine
  <2>2. journal' \in [Cores -> Offset]
    BY <2>1, <1>0, VectorsTyped DEF MachineTyped
  <2>. QED
    BY <2>1, <2>2, <1>0 DEF MachineTyped
<1>7. CASE MaskWrite
  <2>1. /\ boot' = boot /\ journal' = journal
        /\ hw' = [hw EXCEPT ![NextCore] = Mask(hunt.inFlight)[NextCore]]
        /\ applied' = [applied EXCEPT ![NextCore] = Mask(hunt.inFlight)[NextCore]]
    BY <1>7 DEF MaskWrite, rows
  <2>2. hw' \in [Cores -> Offset]
    BY <2>1, <1>0, VectorsTyped DEF MachineTyped
  <2>3. applied' \in [Cores -> Offset \cup {"unknown"}]
    BY <2>1, <1>0, VectorsTyped DEF MachineTyped
  <2>. QED
    BY <2>1, <2>2, <2>3, <1>0 DEF MachineTyped
<1>8. CASE MaskRefused
  <2>1. boot' = boot
    BY <1>8 DEF MaskRefused
  <2>2. CASE WriteAll(Stock)
    BY <2>1, <2>2, <1>2, VectorsTyped DEF WriteAll
  <2>3. CASE \E c \in Cores, resident \in {hw, [hw EXCEPT ![NextCore] = Mask(hunt.inFlight)[NextCore]]} :
               Quarantine(resident, {c}, db)
    <3>1. PICK c \in Cores, resident \in {hw, [hw EXCEPT ![NextCore] = Mask(hunt.inFlight)[NextCore]]} :
             WriteRefused(resident, Stock, {c})
      BY <2>3 DEF Quarantine
    <3>2. resident \in [Cores -> Offset]
      BY <1>0, VectorsTyped DEF MachineTyped
    <3>. QED
      BY <2>1, <3>1, <3>2, <1>3, VectorsTyped
  <2>. QED
    BY <1>8, <2>2, <2>3 DEF MaskRefused
<1>9. CASE FinishStartup
  <2>1. boot' = boot
    BY <1>9 DEF FinishStartup
  <2>2. CASE hw' = Stock /\ applied' = Stock /\ journal' = Stock
    BY <2>1, <2>2, <1>2, VectorsTyped
  <2>3. CASE \E c \in Cores : Quarantine(hw, {c}, WithHunt(hunt'))
    BY <2>1, <2>3, <1>0, <1>3, VectorsTyped DEF Quarantine, MachineTyped
  <2>. QED
    BY <1>9, <2>2, <2>3 DEF FinishStartup
<1>10. CASE FinishClean \/ FinishFailed \/ FinishInconsistent \/ FinishThermal \/ FinishApparatus
  <2>1. kept
    BY <1>10 DEF FinishClean, FinishFailed, FinishInconsistent, FinishThermal, FinishApparatus, machine
  <2>. QED
    BY <1>1, <2>1
<1>11. CASE Pause \/ Abort \/ AbortRequeues
  <2>1. kept
    BY <1>11 DEF Pause, Abort, AbortRequeues, machine, rows
  <2>. QED
    BY <1>1, <2>1
<1>12. CASE AbortRestores
  <2>1. boot' = boot
    BY <1>12 DEF AbortRestores
  <2>2. CASE WriteAll(Baseline)
    BY <2>1, <2>2, <1>2, VectorsTyped DEF WriteAll
  <2>3. CASE hw' = Stock /\ applied' = Stock /\ journal' = Stock
    BY <2>1, <2>3, <1>2, VectorsTyped
  <2>4. CASE \E c \in Cores : Quarantine(hw, {c}, db)
    BY <2>1, <2>4, <1>0, <1>3, VectorsTyped DEF Quarantine, MachineTyped
  <2>. QED
    BY <1>12, <2>2, <2>3, <2>4 DEF AbortRestores
<1>13. CASE Kill \/ CleanReboot \/ Crash
  <2>1. /\ applied' = Unknown /\ journal' = journal /\ hw' \in {hw, Stock}
        /\ boot' \in {boot, "clean", "crashed"}
    BY <1>13 DEF Kill, CleanReboot, Crash, ProcessGone, machine, rows
  <2>. QED
    BY <2>1, <1>0, VectorsTyped DEF MachineTyped
<1>14. CASE Resume
  <2>1. hw' = hw /\ journal' = journal /\ applied' = applied /\ boot' \in {"same", boot}
    <3>1. CASE ResumeRequeues
      BY <3>1 DEF ResumeRequeues, Stamp
    <3>2. CASE ResumeBlames
      <4>1. \E row : Stamp(row)
        BY <3>2, Zenon DEF ResumeBlames
      <4>. QED
        BY <3>2, <4>1 DEF ResumeBlames, Stamp
    <3>3. CASE ResumePauses
      BY <3>3 DEF ResumePauses, machine, rows
    <3>4. CASE ResumeAfterProbe \/ ResumeAfterCrash \/ ResumeWithoutHunt
      BY <3>4 DEF ResumeAfterProbe, ResumeAfterCrash, ResumeWithoutHunt, Stamp
    <3>. QED
      BY <1>14, <3>1, <3>2, <3>3, <3>4 DEF Resume
  <2>. QED
    BY <2>1, <1>0 DEF MachineTyped
<1>15. CASE Restore
  BY <1>15, <1>2, VectorsTyped DEF Restore
<1>16. CASE RestoreRefused
  <2>1. PICK c \in Cores : \E resident \in {hw, [hw EXCEPT ![c] = Baseline[c]]} :
           WriteRefused(resident, Baseline, {c})
    BY <1>16 DEF RestoreRefused
  <2>2. PICK resident \in {hw, [hw EXCEPT ![c] = Baseline[c]]} : WriteRefused(resident, Baseline, {c})
    BY <2>1
  <2>3. resident \in [Cores -> Offset] /\ boot' = boot
    BY <1>0, <1>16, VectorsTyped DEF MachineTyped, RestoreRefused
  <2>. QED
    BY <2>2, <2>3, <1>3, VectorsTyped
<1>. QED
  BY <1>4, <1>5, <1>6, <1>7, <1>8, <1>9, <1>10, <1>11, <1>12, <1>13, <1>14, <1>15, <1>16
     DEF EngineNext, Verdict, WriteMask, Finish, Aborting, Restoring

\* Every row the disk may hold is a row, and the committed one is among them.
LEMMA RowsStayTyped ==
  ASSUME EngineInvariant, EngineNext, HeldSound'
  PROVE  RowsTyped'
<1>0. /\ db \in durable /\ db \in Rows /\ durable \subseteq Rows
      /\ hunt' \in HuntState \cup {NoHunt}
  BY EngineFacts DEF HeldSound, Sound, HuntInv
<1>. DEFINE held == WithHunt(hunt')
            shut == [db EXCEPT !.quarantined = TRUE]
<1>1. held \in Rows /\ shut \in Rows /\ [held EXCEPT !.quarantined = TRUE] \in Rows
  <2>1. held \in Rows
    BY <1>0, RowWithHunt DEF WithHunt
  <2>. QED
    BY <2>1, <1>0, RowQuarantined
<1>2. hunt # NoHunt => WithHunt(Disarmed(hunt)) \in Rows
  <2>1. hunt # NoHunt => Disarmed(hunt) \in HuntState
    BY EngineFacts, DisarmedIsSound DEF HeldSound
  <2>. QED
    BY <2>1, <1>0, RowWithHunt DEF WithHunt
<1>. HIDE DEF held, shut
<1>3. ASSUME db' = db, durable' = durable \/ durable' = {db} PROVE RowsTyped'
  BY <1>0, <1>3 DEF RowsTyped
<1>4. ASSUME db' = held, durable' = durable \cup {held} \/ durable' = {held}
                            \/ durable' = {db, held}
      PROVE  RowsTyped'
  BY <1>0, <1>1, <1>4 DEF RowsTyped
<1>5. ASSUME db' = shut, durable' = {db, shut} PROVE RowsTyped'
  BY <1>0, <1>1, <1>5 DEF RowsTyped
<1>6. ASSUME hunt # NoHunt, db' = held, durable' = durable \cup {WithHunt(Disarmed(hunt)), db'}
      PROVE  RowsTyped'
  BY <1>0, <1>1, <1>2, <1>6 DEF RowsTyped
<1>7. CASE Slot
  <2>1. CASE db' = db /\ durable' = durable
    BY <2>1, <1>3
  <2>2. CASE Save(held)
    BY <2>2, <1>4 DEF Save
  <2>3. (db' = db /\ durable' = durable) \/ Save(held)
    BY <1>7 DEF Slot, SlotStops, SlotProbes, SlotResolves, held
  <2>. QED
    BY <2>1, <2>2, <2>3
<1>8. CASE Blame
  <2>1. PICK c \in toBlame : Save([db EXCEPT !.blamed = @ \cup {c}])
    BY <1>8 DEF Blame
  <2>2. {c} \in SUBSET Cores
    BY DEF EngineInvariant, EngineTypeOK
  <2>3. [db EXCEPT !.blamed = @ \cup {c}] \in Rows
    BY <2>2, <1>0, RowCharged, Zenon
  <2>. QED
    BY <2>1, <2>3, <1>0 DEF Save, RowsTyped
<1>9. CASE AfterHunt \/ MaskRefused \/ AbortRestores
  <2>1. \/ db' = db /\ durable' = {db}
        \/ db' = shut /\ durable' = {db, shut}
    BY <1>9 DEF AfterHunt, MaskRefused, AbortRestores, WriteAll, Quarantine, shut
  <2>. QED
    BY <2>1, <1>3, <1>5
<1>10. CASE MaskIntent \/ MaskWrite \/ Pause \/ Abort \/ Kill \/ CleanReboot \/ RestoreRefused
  <2>1. db' = db /\ (durable' = durable \/ durable' = {db})
    BY <1>10 DEF MaskIntent, MaskWrite, Pause, Abort, Kill, CleanReboot, RestoreRefused, rows
  <2>. QED
    BY <2>1, <1>3
<1>11. CASE Launch \/ AbortRequeues
  <2>1. db' = held /\ (durable' = {held} \/ durable' = durable \cup {held})
    BY <1>11 DEF Launch, AbortRequeues, Save, SaveDurably, held
  <2>. QED
    BY <2>1, <1>4
<1>12. CASE Finish
  <2>1. hunt # NoHunt
    BY <1>12, RunningFacts DEF Finish, FinishClean, FinishFailed, FinishInconsistent, FinishStartup,
         FinishThermal, FinishApparatus
  <2>2. CASE SaveAnswer(hunt')
    BY <2>1, <2>2, <1>6 DEF SaveAnswer, held
  <2>3. CASE Save(held) \/ SaveDurably(held)
    BY <2>3, <1>4 DEF Save, SaveDurably
  <2>4. CASE \E c \in Cores : Quarantine(hw, {c}, held)
    BY <2>4, <1>1 DEF Quarantine, RowsTyped
  <2>5. SaveAnswer(hunt') \/ Save(held) \/ SaveDurably(held) \/ \E c \in Cores : Quarantine(hw, {c}, held)
    BY <1>12 DEF Finish, FinishClean, FinishFailed, FinishInconsistent, FinishStartup,
         FinishThermal, FinishApparatus, Retry, held
  <2>. QED
    BY <2>2, <2>3, <2>4, <2>5
<1>13. CASE Crash
  BY <1>13, <1>0 DEF Crash, RowsTyped
<1>14. CASE Resume
  BY <1>14, ResumedHunt DEF RowsTyped
<1>15. CASE Restore
  <2>1. (db' = db /\ durable' = {db}) \/ (db' = held /\ durable' = {db, held})
    BY <1>15 DEF Restore, held
  <2>. QED
    BY <2>1, <1>3, <1>4
<1>. QED
  BY <1>7, <1>8, <1>9, <1>10, <1>11, <1>12, <1>13, <1>14, <1>15
     DEF EngineNext, Verdict, WriteMask, Aborting, Restoring

\* The cores a verdict charges are cores.
LEMMA ChargedTyped ==
  ASSUME NEW found \in SUBSET Cores, NEW S \in Charged(found)
  PROVE  S \subseteq Cores
  BY DEF Charged

\* The place, the launches that follow, the pause and the charges stay typed.
LEMMA PlaceStaysTyped ==
  ASSUME EngineInvariant, EngineNext
  PROVE  PlaceTyped'
<1>0. PlaceTyped /\ Launches \in Nat \ {0} /\ 0 \in 0..(Launches - 1) /\ {} \subseteq Cores
  BY EngineParts, LaunchesAssumption
<1>1. ASSUME at' \in Place, left' \in {0, left}, paused' \in {TRUE, FALSE, paused},
             toBlame' \in {toBlame, {}}
      PROVE  PlaceTyped'
  BY <1>0, <1>1 DEF PlaceTyped
<1>2. CASE SlotStops \/ Launch \/ MaskIntent \/ MaskWrite
  BY <1>1, <1>2 DEF SlotStops, Launch, MaskIntent, MaskWrite, Place
<1>3. CASE SlotProbes
  <2>1. /\ at' = "mask" /\ paused' = paused /\ toBlame' = toBlame
        /\ IF left > 0 THEN left' = left - 1
           ELSE hunt' = Disarmed(NextLiveSet(hunt)) /\ left' = LaunchesDue(hunt')
    BY <1>3 DEF SlotProbes
  <2>2. hunt # NoHunt
    BY <1>3 DEF SlotProbes, EngineInvariant, Standing
  <2>3. ~(left > 0) => hunt'.launchesDone \in Nat
    <3>1. Sound(NextLiveSet(hunt), clean, Evidence, lastRun)
      BY <2>2, EngineFacts, NextIsSound DEF HeldSound
    <3>2. Disarmed(NextLiveSet(hunt)) \in HuntState
      BY <3>1, DisarmedIsSound
    <3>. QED
      BY <3>2, <2>1 DEF HuntState
  <2>4. left' \in 0..(Launches - 1)
    BY <2>1, <2>3, <1>0 DEF LaunchesDue, PlaceTyped
  <2>. QED
    BY <2>1, <2>4, <1>0 DEF PlaceTyped, Place
<1>4. CASE SlotResolves
  <2>1. /\ at' \in {"unresolved", "verdict"} /\ left' = left /\ paused' = paused
        /\ toBlame' \in Charged(NextLiveSet(hunt).found)
    BY <1>4 DEF SlotResolves
  <2>2. NextLiveSet(hunt).found \in SUBSET Cores
    <3>1. hunt # NoHunt
      BY <1>4 DEF SlotResolves, EngineInvariant, Standing
    <3>2. Sound(NextLiveSet(hunt), clean, Evidence, lastRun)
      BY <3>1, EngineFacts, NextIsSound DEF HeldSound
    <3>. QED
      BY <3>2 DEF Sound, HuntInv, HuntState, CoreSets
  <2>. QED
    BY <2>1, <2>2, <1>0, ChargedTyped DEF PlaceTyped, Place
<1>5. CASE Blame
  BY <1>0, <1>5 DEF Blame, PlaceTyped
<1>6. CASE AfterHunt \/ MaskRefused \/ FinishStartup \/ AbortRestores
  BY <1>1, <1>6 DEF AfterHunt, MaskRefused, FinishStartup, AbortRestores, Quarantine, Place
<1>7. CASE FinishClean \/ FinishFailed \/ FinishInconsistent \/ FinishThermal \/ FinishApparatus
  BY <1>1, <1>7 DEF FinishClean, FinishFailed, FinishInconsistent, FinishThermal, FinishApparatus,
       Retry, Place
<1>8. CASE Pause \/ Abort \/ AbortRequeues
  <2>1. at' \in {at, "abort", "idle"}
    BY <1>8 DEF Pause, Abort, AbortRequeues
  <2>2. at' \in Place
    BY <2>1, <1>0 DEF PlaceTyped, Place
  <2>. QED
    BY <2>2, <1>1, <1>8 DEF Pause, Abort, AbortRequeues
<1>9. CASE Kill \/ CleanReboot \/ Crash
  BY <1>1, <1>9 DEF Kill, CleanReboot, Crash, ProcessGone, Place
<1>10. CASE Resume
  <2>1. left' = 0 /\ at' \in Place
    BY <1>10, ResumedHunt DEF Place
  <2>2. paused' \in {TRUE, FALSE} /\ toBlame' = {}
    <3>1. CASE ResumeRequeues
      BY <3>1 DEF ResumeRequeues, Loaded
    <3>2. CASE ResumeBlames
      <4>1. \E row : Loaded(row)
        BY <3>2, Zenon DEF ResumeBlames
      <4>. QED
        BY <4>1 DEF Loaded
    <3>3. CASE ResumePauses
      BY <3>3 DEF ResumePauses
    <3>4. CASE ResumeAfterProbe \/ ResumeAfterCrash \/ ResumeWithoutHunt
      BY <3>4 DEF ResumeAfterProbe, ResumeAfterCrash, ResumeWithoutHunt, Loaded
    <3>. QED
      BY <1>10, <3>1, <3>2, <3>3, <3>4 DEF Resume
  <2>. QED
    BY <2>1, <2>2, <1>1
<1>11. CASE Restoring
  BY <1>1, <1>11 DEF Restoring, Restore, RestoreRefused, Place
<1>. QED
  BY <1>2, <1>3, <1>4, <1>5, <1>6, <1>7, <1>8, <1>9, <1>10, <1>11
     DEF EngineNext, Slot, Verdict, WriteMask, Finish, Aborting

\* Every retry is counted by a disruption.
LEMMA CountsStayTyped ==
  ASSUME EngineInvariant, EngineNext
  PROVE  CountsTyped'
<1>0. CountsTyped /\ MaxDisruptions \in Nat
  BY EngineParts, MaxDisruptionsAssumption
<1>. DEFINE same == thermals' = thermals /\ faults' = faults
            fewer == thermals' \in {0, thermals} /\ faults' \in {0, faults}
            counted == disruptions' = disruptions \/ Disrupt
<1>1. ASSUME fewer, counted PROVE CountsTyped'
  BY <1>0, <1>1 DEF CountsTyped, Disrupt
<1>2. CASE Slot \/ Verdict \/ WriteMask \/ Pause \/ Abort \/ Aborting
  BY <1>1, <1>2 DEF Slot, SlotStops, SlotProbes, SlotResolves, Verdict, Blame, AfterHunt, WriteMask,
       MaskIntent, MaskWrite, MaskRefused, Launch, Pause, Abort, Aborting, AbortRestores, AbortRequeues
<1>3. CASE FinishClean \/ FinishFailed \/ FinishInconsistent \/ FinishStartup
  BY <1>1, <1>3 DEF FinishClean, FinishFailed, FinishInconsistent, FinishStartup
<1>4. CASE FinishThermal \/ FinishApparatus
  BY <1>0, <1>4 DEF FinishThermal, FinishApparatus, CountsTyped, Disrupt
<1>5. CASE Kill \/ CleanReboot \/ Crash
  BY <1>1, <1>5 DEF Kill, CleanReboot, Crash, ProcessGone
<1>6. CASE Resume \/ Restoring
  <2>1. CASE ResumeRequeues \/ ResumeBlames
    BY <1>1, <2>1, Zenon DEF ResumeRequeues, ResumeBlames
  <2>2. CASE ResumeAfterProbe \/ ResumeAfterCrash \/ ResumePauses \/ ResumeWithoutHunt
    BY <1>1, <2>2 DEF ResumeAfterProbe, ResumeAfterCrash, ResumePauses, ResumeWithoutHunt
  <2>3. CASE Restoring
    BY <1>1, <2>3 DEF Restoring, Restore, RestoreRefused
  <2>. QED
    BY <1>6, <2>1, <2>2, <2>3 DEF Resume
<1>. QED
  BY <1>2, <1>3, <1>4, <1>5, <1>6 DEF EngineNext, Finish

\* The history only names masks and cores.
LEMMA HistoryStaysTyped ==
  ASSUME EngineInvariant, EngineNext
  PROVE  HistoryTyped'
<1>0. HistoryTyped
  BY EngineParts
<1>1. ASSUME UNCHANGED history PROVE HistoryTyped'
  BY <1>0, <1>1 DEF history, HistoryTyped
<1>2. CASE Slot \/ Verdict \/ MaskIntent \/ MaskWrite \/ MaskRefused \/ Pause \/ Abort \/ AbortRequeues
  BY <1>1, <1>2 DEF Slot, SlotStops, SlotProbes, SlotResolves, Verdict, Blame, AfterHunt,
       MaskIntent, MaskWrite, MaskRefused, Pause, Abort, AbortRequeues
<1>3. CASE FinishInconsistent \/ FinishStartup \/ FinishThermal \/ FinishApparatus \/ Kill
           \/ CleanReboot \/ RestoreRefused
  BY <1>1, <1>3 DEF FinishInconsistent, FinishStartup, FinishThermal, FinishApparatus, Kill,
       CleanReboot, RestoreRefused
<1>4. CASE Resume
  BY <1>1, <1>4, ResumedHunt
<1>5. CASE Launch
  BY <1>0, <1>5 DEF Launch, HistoryTyped
<1>6. CASE FinishClean \/ FinishFailed
  <2>1. InFlight \in SUBSET Cores
    BY <1>6, RunningFacts DEF FinishClean, FinishFailed, CoreSets
  <2>2. CASE FinishFailed
    BY <2>1, <2>2, <1>0 DEF FinishFailed, HistoryTyped
  <2>3. CASE FinishClean
    <3>1. /\ lastRun' \in [mask : SUBSET Cores, launches : Nat]
          /\ clean' \subseteq SUBSET Cores
      BY <2>1, <2>3, <1>0 DEF FinishClean, CleanLaunch, HistoryTyped
    <3>. QED
      BY <2>3, <3>1, <1>0 DEF FinishClean, HistoryTyped
  <2>. QED
    BY <1>6, <2>2, <2>3
<1>7. CASE AbortRestores
  <2>1. abortedLive' \in BOOLEAN
    <3>1. hunt # NoHunt
      BY <1>7 DEF AbortRestores, EngineInvariant, Standing
    <3>2. hunt.armed \in BOOLEAN
      BY <3>1, EngineFacts DEF HuntState
    <3>. QED
      BY <3>2, <1>0, <1>7 DEF AbortRestores, HistoryTyped
  <2>. QED
    BY <2>1, <1>0, <1>7 DEF AbortRestores, HistoryTyped
<1>8. CASE Crash
  <2>1. owed' \subseteq Cores
    <3>1. PICK row \in durable :
            owed' = IF row.hunt # NoHunt /\ row.hunt.armed /\ boot = "same"
                      THEN row.hunt.inFlight ELSE owed
      BY <1>8 DEF Crash
    <3>2. row.hunt # NoHunt => row.hunt.inFlight \subseteq Cores
      BY EngineFacts, RowFields DEF HuntState, CoreSets
    <3>. QED
      BY <3>1, <3>2, <1>0 DEF HistoryTyped
  <2>2. failed' \subseteq SUBSET Cores
    BY <1>8, <1>0 DEF Crash, HistoryTyped
  <2>. QED
    BY <2>1, <2>2, <1>0, <1>8 DEF Crash, HistoryTyped
<1>9. CASE Restore
  <2>1. owed' \in {owed, {}}
    BY <1>9 DEF Restore
  <2>2. mistaken' = mistaken \/ mistaken' = (mistaken \/ hunt.inFlight \notin failed)
    BY <1>9 DEF Restore
  <2>. QED
    BY <2>1, <2>2, <1>0, <1>9 DEF Restore, HistoryTyped
<1>. QED
  BY <1>2, <1>3, <1>4, <1>5, <1>6, <1>7, <1>8, <1>9
     DEF EngineNext, WriteMask, Finish, Aborting, Restoring

-----------------------------------------------------------------------------
(* The theorems *)

\* Whatever interrupts the engine, its invariant holds.
THEOREM EngineIsInvariant == EngineSpec => []EngineInvariant
<1>1. EngineInit => EngineInvariant
  <2>. SUFFICES ASSUME EngineInit PROVE EngineInvariant
    OBVIOUS
  <2>1. PICK candidates \in CoreSets \ {{}}, loaded \in CoreSets \ {{}} :
          hunt = Begin(candidates, loaded) /\ hw \in {Baseline, Mask(candidates)}
    BY DEF EngineInit, CoreSets
  <2>2. Sound(hunt, {}, {}, lastRun) /\ hunt.armed = FALSE /\ hunt.launchesDone = 0
    BY <2>1, BegunIsSound
  <2>3. hunt \in HuntState /\ hunt # NoHunt
    BY <2>2, NoHuntApart DEF Sound, HuntInv
  <2>4. clean = {} /\ Evidence = {}
    BY DEF EngineInit, Evidence
  <2>5. MachineTyped
    BY <2>1, VectorsTyped DEF EngineInit, MachineTyped
  <2>6. /\ db = [hunt |-> hunt, blamed |-> {}, quarantined |-> FALSE]
        /\ durable = {db, [db EXCEPT !.hunt = NoHunt]}
    BY DEF EngineInit
  <2>7. db \in Rows /\ db.hunt = hunt
    BY <2>3, <2>6 DEF Rows
  <2>8. [db EXCEPT !.hunt = NoHunt] \in Rows /\ [db EXCEPT !.hunt = NoHunt].hunt = NoHunt
    BY <2>7, RowWithHunt
  <2>9. RowsTyped /\ RowsSound /\ HeldSound
    BY <2>2, <2>4, <2>6, <2>7, <2>8 DEF RowsTyped, RowsSound, HeldSound
  <2>10. PlaceTyped /\ CountsTyped /\ HistoryTyped
    <3>1. PlaceTyped
      <4>1. at = "slot" /\ left = 0 /\ paused = FALSE /\ toBlame = {}
        BY DEF EngineInit
      <4>2. 0 \in 0..(Launches - 1)
        BY LaunchesAssumption
      <4>. QED
        BY <4>1, <4>2 DEF PlaceTyped, Place
    <3>2. CountsTyped
      BY MaxDisruptionsAssumption DEF EngineInit, CountsTyped
    <3>3. HistoryTyped
      BY DEF EngineInit, HistoryTyped
    <3>. QED
      BY <3>1, <3>2, <3>3
  <2>11. Standing /\ ProbeRunsItsMask
    BY <2>3 DEF EngineInit, Standing, ProbeRunsItsMask
  <2>. QED
    BY <2>3, <2>5, <2>9, <2>10, <2>11, EngineParts
<1>2. EngineInvariant /\ [EngineNext]_evars => EngineInvariant'
  <2>. SUFFICES ASSUME EngineInvariant, [EngineNext]_evars PROVE EngineInvariant'
    OBVIOUS
  <2>1. CASE EngineNext
    <3>1. RowsSound' /\ HeldSound'
      BY <2>1, SlotKeepsSound, VerdictKeepsSound, WriteMaskKeepsSound, FinishKeepsSound,
         OperatorKeepsSound, PowerKeepsSound, ResumeKeepsSound, RestoreKeepsSound DEF EngineNext
    <3>2. hunt' \in HuntState \cup {NoHunt}
      BY <3>1 DEF HeldSound, Sound, HuntInv
    <3>3. MachineTyped' /\ RowsTyped' /\ PlaceTyped' /\ CountsTyped' /\ HistoryTyped'
      BY <2>1, <3>1, MachineStaysTyped, RowsStayTyped, PlaceStaysTyped, CountsStayTyped,
         HistoryStaysTyped
    <3>4. Standing' /\ ProbeRunsItsMask'
      BY <2>1, StepsStand
    <3>5. /\ thermals' \in 0..MaxDisruptions /\ faults' \in 0..MaxDisruptions
          /\ disruptions' \in 0..MaxDisruptions
          /\ thermals' <= disruptions' /\ faults' <= disruptions'
      BY <3>3, MaxDisruptionsAssumption DEF CountsTyped
    <3>6. EngineTypeOK'
      BY <3>2, <3>3, <3>5 DEF EngineTypeOK, MachineTyped, RowsTyped, PlaceTyped, HistoryTyped
    <3>. QED
      BY <3>1, <3>4, <3>5, <3>6 DEF EngineInvariant, RowsSound, HeldSound
  <2>2. CASE UNCHANGED evars
    BY <2>2, ZenonT(60) DEF evars, machine, rows, engine, history, EngineInvariant, EngineTypeOK, Evidence,
         Standing, ProbeRunsItsMask, MachineRuns, InFlight
  <2>. QED
    BY <2>1, <2>2
<1>. QED
  BY <1>1, <1>2, PTL DEF EngineSpec

\* The fields of the engine, of every row and of the machine keep their types.
THEOREM EngineTypeCorrect == EngineSpec => []EngineTypeOK
<1>1. EngineInvariant => EngineTypeOK
  BY DEF EngineInvariant
<1>. QED
  BY <1>1, EngineIsInvariant, PTL

\* While a load runs, the machine runs exactly the mask of the probe, and the
\* armed question is all a crash can find on disk.
THEOREM ProbesRunTheirMasks == EngineSpec => []ProbeRunsItsMask
<1>1. EngineInvariant => ProbeRunsItsMask
  BY DEF EngineInvariant
<1>. QED
  BY <1>1, EngineIsInvariant, PTL

\* No interruption makes a saved hunt convict a core without the evidence a
\* conviction takes, unless a crash was charged to a mask that never failed.
THEOREM ConvictionsAreReal == EngineSpec => []ConvictionReal
<1>1. EngineInvariant => ConvictionReal
  <2>. SUFFICES ASSUME EngineInvariant, ~mistaken, NEW row \in durable, row.hunt # NoHunt,
                       NEW c \in row.hunt.found
                PROVE  ConvictedBy(row.hunt, c, clean, failed)
    BY DEF ConvictionReal
  <2>1. HuntInv(row.hunt, clean, failed)
    BY DEF EngineInvariant, Sound, Evidence
  <2>. QED
    BY <2>1 DEF HuntInv
<1>. QED
  BY <1>1, EngineIsInvariant, PTL

\* No interruption makes a saved hunt clear a core that never ran a full series
\* of launches clean.
THEOREM ExonerationsAreReal == EngineSpec => []ExonerationReal
<1>1. EngineInvariant => ExonerationReal
  BY DEF EngineInvariant, ExonerationReal, Sound
<1>. QED
  BY <1>1, EngineIsInvariant, PTL

-----------------------------------------------------------------------------
(* Armed rows are evidence *)

\* A row that a crash would read as the answer of its probe.
ArmedRow(row) == row.hunt # NoHunt /\ row.hunt.armed

\* What backs that answer.
Backed(live) == MachineRuns(live) \/ live \in failed \/ boot = "clean" \/ abortedLive

LEMMA ArmedRowsAreBacked ==
  ArmedIsEvidence <=> \A row \in durable : ArmedRow(row) => Backed(row.hunt.inFlight)
  BY DEF ArmedIsEvidence, ArmedRow, Backed

\* Offsets that stay, and failures that are only added to, back what they backed.
LEMMA BackingStays ==
  ASSUME ArmedIsEvidence, hw' = hw, boot' = boot, failed \subseteq failed',
         abortedLive => abortedLive',
         \A row \in durable' : row \in durable \/ ~ArmedRow(row)
  PROVE  ArmedIsEvidence'
<1>1. SUFFICES ASSUME NEW row \in durable', ArmedRow(row) PROVE Backed(row.hunt.inFlight)'
  BY DEF ArmedIsEvidence, ArmedRow, Backed
<1>2. row \in durable
  BY <1>1
<1>3. Backed(row.hunt.inFlight)
  BY <1>1, <1>2, ArmedRowsAreBacked
<1>. QED
  BY <1>3 DEF Backed, MachineRuns

\* Without an armed row there is nothing to back.
LEMMA NothingArmed ==
  ASSUME \A row \in durable' : ~ArmedRow(row)
  PROVE  ArmedIsEvidence'
  BY DEF ArmedIsEvidence, ArmedRow

\* A row of an unarmed hunt.
LEMMA UnarmedRow ==
  ASSUME NEW row \in Rows, NEW h \in HuntState, h.armed = FALSE
  PROVE  ~ArmedRow([row EXCEPT !.hunt = h])
<1>1. [row EXCEPT !.hunt = h].hunt = h
  BY RowWithHunt
<1>. QED
  BY <1>1 DEF ArmedRow

\* What the invariants say where a step begins.
LEMMA EvidentFacts ==
  ASSUME EngineInvariant, Evident
  PROVE  /\ ArmedIsEvidence
         /\ at \notin {"off", "idle"} => boot = "same"
         /\ boot # "same" => hw = Stock
         /\ at \in {"slot", "mask", "write"} => hunt.armed = FALSE
         /\ at \in {"slot", "mask", "write", "running", "abort", "requeue"} =>
              hunt \in HuntState /\ hunt # NoHunt /\ db.hunt = hunt
         /\ at = "restore" => db.hunt = hunt
         /\ at = "write" => durable = {db}
         /\ at \in {"verdict", "unresolved"} => db.hunt = NoHunt
<1>1. ArmedIsEvidence /\ Followed
  BY DEF Evident
<1>2. at \in {"slot", "mask", "write", "running", "abort", "requeue"} => hunt \in HuntState /\ hunt # NoHunt
  BY EngineFacts DEF EngineInvariant, Standing
<1>3. at \in {"slot", "mask", "write"} => hunt.armed = FALSE
  BY <1>1, <1>2 DEF Followed, HuntState
<1>. QED
  BY <1>1, <1>2, <1>3 DEF Followed

\* A slot saves unarmed hunts only.
LEMMA SlotStaysEvident ==
  ASSUME EngineInvariant, Evident, Slot
  PROVE  Evident'
<1>0. /\ at = "slot" /\ boot = "same" /\ hunt \in HuntState /\ hunt # NoHunt /\ db.hunt = hunt
      /\ hunt.armed = FALSE /\ db \in Rows /\ ArmedIsEvidence
      /\ Sound(hunt, clean, Evidence, lastRun) /\ HuntInv(hunt, clean, Evidence)
  <2>1. at = "slot"
    BY DEF Slot, SlotStops, SlotProbes, SlotResolves
  <2>2. hunt # NoHunt
    BY <2>1, EvidentFacts
  <2>3. Sound(hunt, clean, Evidence, lastRun)
    BY <2>2, EngineFacts DEF HeldSound
  <2>. QED
    BY <2>1, <2>2, <2>3, EvidentFacts, EngineFacts DEF Sound
<1>1. hw' = hw /\ boot' = boot /\ failed' = failed /\ abortedLive' = abortedLive
  BY DEF Slot, SlotStops, SlotProbes, SlotResolves, machine, history
<1>2. CASE SlotStops \/ SlotProbes
  <2>1. at' \in {"idle", "mask"}
    BY <1>2 DEF SlotStops, SlotProbes
  <2>2. \/ UNCHANGED <<hunt, db, durable>>
        \/ \E g \in HuntState : hunt' = Disarmed(g) /\ Save(WithHunt(hunt'))
    <3>1. NextLiveSet(hunt) \in HuntState
      <4>1. Sound(hunt, clean, Evidence, lastRun)
        BY <1>0
      <4>2. Sound(NextLiveSet(hunt), clean, Evidence, lastRun)
        BY <4>1, NextIsSound
      <4>. QED
        BY <4>2 DEF Sound, HuntInv
    <3>. QED
      BY <1>0, <1>2, <3>1 DEF SlotStops, SlotProbes, Requeued
  <2>3. CASE UNCHANGED <<hunt, db, durable>>
    <3>1. ArmedIsEvidence'
      BY <1>0, <1>1, <2>3, BackingStays
    <3>. QED
      BY <3>1, <1>0, <1>1, <2>1, <2>3 DEF Evident, Followed
  <2>4. ASSUME NEW g \in HuntState, hunt' = Disarmed(g), Save(WithHunt(hunt')) PROVE Evident'
    <3>1. hunt' \in HuntState /\ hunt'.armed = FALSE
      BY <2>4 DEF Disarmed, HuntState
    <3>2. db' = [db EXCEPT !.hunt = hunt'] /\ durable' = durable \cup {db'}
      BY <2>4 DEF Save, WithHunt
    <3>3. db'.hunt = hunt' /\ ~ArmedRow(db')
      <4>1. db'.hunt = hunt'
        BY <1>0, <3>1, <3>2, RowWithHunt
      <4>. QED
        BY <4>1, <3>1 DEF ArmedRow
    <3>4. ArmedIsEvidence'
      BY <1>0, <1>1, <3>2, <3>3, BackingStays
    <3>. QED
      BY <1>0, <1>1, <2>1, <3>1, <3>3, <3>4 DEF Evident, Followed
  <2>. QED
    BY <2>2, <2>3, <2>4
<1>3. CASE SlotResolves
  <2>1. at' \in {"verdict", "unresolved"} /\ hunt' = NoHunt
        /\ db' = [db EXCEPT !.hunt = NoHunt] /\ durable' = durable \cup {db'}
    BY <1>3 DEF SlotResolves, Save, WithHunt
  <2>2. db'.hunt = NoHunt
    BY <1>0, <2>1, RowWithHunt
  <2>3. ArmedIsEvidence'
    BY <1>0, <1>1, <2>1, <2>2, BackingStays DEF ArmedRow
  <2>. QED
    BY <1>0, <1>1, <2>1, <2>2, <2>3 DEF Evident, Followed
<1>. QED
  BY <1>2, <1>3 DEF Slot

\* A verdict is acted on after the hunt was dropped from the last row.
LEMMA VerdictStaysEvident ==
  ASSUME EngineInvariant, Evident, Verdict
  PROVE  Evident'
<1>0. /\ at \in {"verdict", "unresolved"} /\ boot = "same" /\ db.hunt = NoHunt /\ db \in Rows
      /\ ArmedIsEvidence
  <2>1. at \in {"verdict", "unresolved"}
    BY DEF Verdict, Blame, AfterHunt
  <2>. QED
    BY <2>1, EvidentFacts, EngineFacts
<1>1. boot' = boot /\ failed' = failed /\ abortedLive' = abortedLive
  BY DEF Verdict, Blame, AfterHunt, machine, history
<1>2. CASE Blame
  <2>1. PICK c \in toBlame : Save([db EXCEPT !.blamed = @ \cup {c}])
    BY <1>2 DEF Blame
  <2>2. c \in Cores
    BY DEF EngineInvariant, EngineTypeOK
  <2>3. db'.hunt = NoHunt /\ durable' = durable \cup {db'}
    <3>1. {c} \in SUBSET Cores
      BY <2>2
    <3>2. [db EXCEPT !.blamed = @ \cup {c}].hunt = db.hunt
      BY <1>0, <3>1, RowCharged, Zenon
    <3>. QED
      BY <1>0, <2>1, <3>2 DEF Save
  <2>4. at' = "verdict" /\ hw' = hw
    BY <1>2 DEF Blame, machine
  <2>5. ArmedIsEvidence'
    BY <1>0, <1>1, <2>3, <2>4, BackingStays DEF ArmedRow
  <2>. QED
    BY <1>0, <1>1, <2>3, <2>4, <2>5 DEF Evident, Followed
<1>3. CASE AfterHunt
  <2>1. at' \in {"done", "idle"}
    BY <1>3 DEF AfterHunt, Quarantine
  <2>2. \A row \in durable' : row.hunt = NoHunt
    <3>1. durable' = {db} \/ durable' = {db, [db EXCEPT !.quarantined = TRUE]}
      BY <1>3 DEF AfterHunt, WriteAll, Quarantine
    <3>. QED
      BY <1>0, <3>1, RowQuarantined
  <2>3. ArmedIsEvidence'
    BY <2>2, NothingArmed DEF ArmedRow
  <2>. QED
    BY <1>0, <1>1, <2>1, <2>3 DEF Evident, Followed
<1>. QED
  BY <1>2, <1>3 DEF Verdict

\* The mask is written while no row is armed, and the launch arms it once the
\* machine runs it.
LEMMA WriteMaskStaysEvident ==
  ASSUME EngineInvariant, Evident, WriteMask
  PROVE  Evident'
<1>0. /\ at \in {"mask", "write"} /\ boot = "same" /\ hunt \in HuntState /\ hunt # NoHunt
      /\ db.hunt = hunt /\ hunt.armed = FALSE /\ db \in Rows /\ ArmedIsEvidence
  <2>1. at \in {"mask", "write"}
    BY DEF WriteMask, MaskIntent, MaskWrite, MaskRefused, Launch
  <2>. QED
    BY <2>1, EvidentFacts, EngineFacts
<1>1. boot' = boot /\ failed' = failed
  BY DEF WriteMask, MaskIntent, MaskWrite, MaskRefused, Launch, machine, history
<1>2. ~ArmedRow(db)
  BY <1>0 DEF ArmedRow
<1>3. CASE MaskIntent
  <2>1. at' = "write" /\ hunt' = hunt /\ db' = db /\ durable' = {db}
    BY <1>3 DEF MaskIntent
  <2>2. ArmedIsEvidence'
    BY <1>2, <2>1, NothingArmed
  <2>. QED
    BY <1>0, <1>1, <2>1, <2>2 DEF Evident, Followed
<1>4. CASE MaskWrite
  <2>1. at = "write" /\ at' = "mask" /\ hunt' = hunt /\ db' = db /\ durable' = durable
    BY <1>4 DEF MaskWrite, rows
  <2>2. durable' = {db}
    BY <2>1, EvidentFacts
  <2>3. ArmedIsEvidence'
    BY <1>2, <2>2, NothingArmed
  <2>. QED
    BY <1>0, <1>1, <2>1, <2>3 DEF Evident, Followed
<1>5. CASE MaskRefused
  <2>1. at' = "idle"
    BY <1>5 DEF MaskRefused, Quarantine
  <2>2. durable' = {db} \/ durable' = {db, [db EXCEPT !.quarantined = TRUE]}
    BY <1>5 DEF MaskRefused, WriteAll, Quarantine
  <2>3. ArmedIsEvidence'
    BY <1>0, <1>2, <2>2, RowQuarantined, NothingArmed DEF ArmedRow
  <2>. QED
    BY <1>0, <1>1, <2>1, <2>3 DEF Evident, Followed
<1>6. CASE Launch
  <2>1. at' = "running"
    BY <1>6 DEF Launch
  <2>2. MachineRuns(hunt.inFlight)' /\ durable' = {db'} /\ db'.hunt = hunt'
    BY <2>1, WriteMaskStands DEF ProbeRunsItsMask, InFlight
  <2>3. ArmedIsEvidence'
    BY <2>2 DEF ArmedIsEvidence
  <2>. QED
    BY <1>0, <1>1, <2>1, <2>2, <2>3 DEF Evident, Followed
<1>. QED
  BY <1>3, <1>4, <1>5, <1>6 DEF WriteMask

\* An answer disarms the probe; only its row of before the answer stays armed,
\* and the mask of that one is still live.
LEMMA FinishStaysEvident ==
  ASSUME EngineInvariant, Evident, Finish
  PROVE  Evident'
<1>0. /\ at = "running" /\ boot = "same" /\ hunt \in HuntState /\ db.hunt = hunt /\ db \in Rows
      /\ durable = {db} /\ ArmedIsEvidence
      /\ Sound(hunt, clean, Evidence, lastRun) /\ hunt.inFlight # {}
  <2>1. at = "running"
    BY DEF Finish, FinishClean, FinishFailed, FinishInconsistent, FinishStartup, FinishThermal,
           FinishApparatus
  <2>. QED
    BY <2>1, EvidentFacts, EngineFacts, RunningFacts
<1>1. boot' = boot /\ failed \subseteq failed' /\ abortedLive' = abortedLive
  BY DEF Finish, FinishClean, FinishFailed, FinishInconsistent, FinishStartup, FinishThermal,
         FinishApparatus, machine, history
<1>2. /\ Disarmed(hunt) \in HuntState /\ Disarmed(hunt).armed = FALSE
      /\ Disarmed(hunt).inFlight = hunt.inFlight
  BY <1>0 DEF Disarmed, HuntState
<1>3. hunt' \in HuntState /\ hunt'.armed = FALSE
  <2>1. CASE FinishClean
    <3>1. hunt' = AfterClean(Disarmed(hunt))
      BY <2>1 DEF FinishClean
    <3>2. hunt' \in HuntState
      BY <2>1, FinishCleanKeepsSound
    <3>3. Record(Disarmed(hunt), FALSE).armed = Disarmed(hunt).armed
      BY <1>2, RecordEndsSeries
    <3>4. [Disarmed(hunt) EXCEPT !.launchesDone = @ + 1].armed = Disarmed(hunt).armed
      BY <1>2 DEF HuntState
    <3>. QED
      BY <1>2, <3>1, <3>2, <3>3, <3>4 DEF AfterClean
  <2>2. CASE FinishFailed
    <3>1. hunt' = Record(Disarmed(hunt), TRUE)
      BY <2>2 DEF FinishFailed
    <3>2. hunt' \in HuntState
      BY <2>2, FinishFailedKeepsSound
    <3>3. Record(Disarmed(hunt), TRUE).armed = Disarmed(hunt).armed
      BY <1>2, RecordEndsSeries
    <3>. QED
      BY <1>2, <3>1, <3>2, <3>3
  <2>3. CASE FinishInconsistent \/ FinishStartup \/ FinishThermal \/ FinishApparatus
    <3>1. hunt' = Disarmed(hunt)
      BY <2>3 DEF FinishInconsistent, FinishStartup, FinishThermal, FinishApparatus, Retry, Requeued
    <3>. QED
      BY <3>1, <1>2
  <2>. QED
    BY <2>1, <2>2, <2>3 DEF Finish
<1>4. CASE FinishStartup
  <2>1. at' = "idle"
    BY <1>4 DEF FinishStartup, Quarantine
  <2>. DEFINE row == [db EXCEPT !.hunt = hunt']
  <2>2. durable' = {row} \/ durable' = {row, [row EXCEPT !.quarantined = TRUE]}
    BY <1>4 DEF FinishStartup, SaveDurably, WithHunt, Quarantine
  <2>3. ~ArmedRow(row) /\ ~ArmedRow([row EXCEPT !.quarantined = TRUE])
    <3>1. row \in Rows /\ row.hunt = hunt'
      BY <1>0, <1>3, RowWithHunt
    <3>. HIDE DEF row
    <3>2. [row EXCEPT !.quarantined = TRUE].hunt = hunt'
      BY <3>1, RowQuarantined
    <3>. QED
      BY <1>3, <3>1, <3>2 DEF ArmedRow
  <2>. HIDE DEF row
  <2>4. ArmedIsEvidence'
    BY <2>2, <2>3, NothingArmed
  <2>. QED
    BY <1>0, <1>1, <2>1, <2>4 DEF Evident, Followed
<1>5. CASE FinishClean \/ FinishFailed \/ FinishInconsistent \/ FinishThermal \/ FinishApparatus
  <2>1. at' \in {"slot", "idle", "abort"} /\ hw' = hw
    BY <1>5 DEF FinishClean, FinishFailed, FinishInconsistent, FinishThermal, FinishApparatus, Retry,
           machine
  <2>2. SaveAnswer(hunt') \/ Save(WithHunt(hunt'))
    BY <1>5 DEF FinishClean, FinishFailed, FinishInconsistent, FinishThermal, FinishApparatus, Retry
  <2>3. /\ db' = [db EXCEPT !.hunt = hunt']
        /\ \A row \in durable' : row \in durable \/ row = db' \/ row = [db EXCEPT !.hunt = Disarmed(hunt)]
    BY <2>2 DEF SaveAnswer, Save, WithHunt
  <2>4. ~ArmedRow(db') /\ ~ArmedRow([db EXCEPT !.hunt = Disarmed(hunt)])
    BY <1>0, <1>2, <1>3, <2>3, UnarmedRow
  <2>5. db'.hunt = hunt'
    BY <1>0, <1>3, <2>3, RowWithHunt
  <2>6. ArmedIsEvidence'
    <3>1. \A row \in durable' : row \in durable \/ ~ArmedRow(row)
      BY <2>3, <2>4
    <3>. QED
      BY <1>0, <1>1, <2>1, <3>1, BackingStays
  <2>. QED
    BY <1>0, <1>1, <1>3, <2>1, <2>5, <2>6 DEF Evident, Followed
<1>. QED
  BY <1>4, <1>5 DEF Finish

\* The operator may stop an armed probe: its row outlives the mask, and the stop
\* is what remains to say so.
LEMMA OperatorStaysEvident ==
  ASSUME EngineInvariant, Evident, Pause \/ Abort \/ Aborting \/ Kill
  PROVE  Evident'
<1>0. ArmedIsEvidence /\ db \in Rows
  BY EvidentFacts, EngineFacts
<1>1. CASE Pause \/ Abort
  <2>1. /\ at \in {"slot", "running"} /\ at' \in {at, "abort"} /\ hunt' = hunt /\ db' = db
        /\ durable' = durable /\ hw' = hw /\ boot' = boot /\ failed' = failed /\ abortedLive' = abortedLive
    BY <1>1 DEF Pause, Abort, machine, rows, history
  <2>2. ArmedIsEvidence'
    BY <1>0, <2>1, BackingStays
  <2>3. boot = "same" /\ db.hunt = hunt /\ (at = "slot" => hunt.armed = FALSE)
    BY <2>1, EvidentFacts
  <2>. QED
    BY <2>1, <2>2, <2>3 DEF Evident, Followed
<1>2. CASE AbortRestores
  <2>1. /\ at = "abort" /\ at' \in {"requeue", "idle"} /\ hunt' = hunt /\ boot' = boot
        /\ abortedLive' = (abortedLive \/ hunt.armed)
    BY <1>2 DEF AbortRestores, Quarantine
  <2>2. db.hunt = hunt /\ boot = "same"
    BY <2>1, EvidentFacts
  <2>3. /\ durable' = {db} \/ durable' = {db, [db EXCEPT !.quarantined = TRUE]}
        /\ at' = "requeue" => db' = db
    BY <1>2 DEF AbortRestores, WriteAll, Quarantine
  <2>4. \A row \in durable' : row.hunt = hunt
    BY <1>0, <2>2, <2>3, RowQuarantined
  <2>5. ArmedIsEvidence'
    BY <2>1, <2>4 DEF ArmedIsEvidence
  <2>. QED
    BY <2>1, <2>2, <2>3, <2>5 DEF Evident, Followed
<1>3. CASE AbortRequeues
  <2>1. /\ at = "requeue" /\ at' = "idle" /\ hunt' = Disarmed(hunt) /\ hw' = hw /\ boot' = boot
        /\ failed' = failed /\ abortedLive' = abortedLive
        /\ db' = [db EXCEPT !.hunt = hunt'] /\ durable' = durable \cup {db'}
    BY <1>3 DEF AbortRequeues, Requeued, Save, WithHunt, machine, history
  <2>2. hunt' \in HuntState /\ hunt'.armed = FALSE /\ boot = "same"
    BY <2>1, EvidentFacts DEF Disarmed, HuntState
  <2>3. ~ArmedRow(db')
    BY <1>0, <2>1, <2>2, UnarmedRow
  <2>4. ArmedIsEvidence'
    BY <1>0, <2>1, <2>3, BackingStays
  <2>. QED
    BY <2>1, <2>2, <2>4 DEF Evident, Followed
<1>4. CASE Kill
  <2>1. /\ at' = "off" /\ at # "off" /\ at # "done" /\ hw' = hw /\ boot' = boot /\ db' = db
        /\ durable' = durable /\ failed' = failed /\ abortedLive' = abortedLive
    BY <1>4 DEF Kill, ProcessGone, machine, rows, history
  <2>2. ArmedIsEvidence'
    BY <1>0, <2>1, BackingStays
  <2>3. boot # "same" => hw = Stock
    BY EvidentFacts
  <2>. QED
    BY <2>1, <2>2, <2>3 DEF Evident, Followed
<1>. QED
  BY <1>1, <1>2, <1>3, <1>4 DEF Aborting

\* A machine that dies dies under the mask it runs.
LEMMA PowerStaysEvident ==
  ASSUME EngineInvariant, Evident, CleanReboot \/ Crash
  PROVE  Evident'
<1>0. ArmedIsEvidence /\ db \in durable /\ durable \subseteq Rows /\ RowsSound
      /\ (boot # "same" => hw = Stock) /\ boot \in {"same", "crashed", "clean"}
  BY EvidentFacts, EngineFacts DEF EngineInvariant, EngineTypeOK
<1>1. at' = "off" /\ hw' = Stock /\ boot' \in {boot, "clean", "crashed"}
  BY DEF CleanReboot, Crash, ProcessGone
<1>2. Followed'
  BY <1>1 DEF Followed
<1>3. CASE CleanReboot
  <2>1. /\ durable' = {db} /\ boot' = (IF boot = "same" THEN "clean" ELSE boot)
        /\ failed' = failed /\ abortedLive' = abortedLive
    BY <1>3 DEF CleanReboot, history
  <2>2. CASE boot = "same"
    BY <2>1, <2>2, <1>2 DEF Evident, ArmedIsEvidence
  <2>3. CASE boot # "same"
    <3>1. hw' = hw /\ boot' = boot
      BY <1>0, <1>1, <2>1, <2>3
    <3>2. \A row \in durable' : row \in durable \/ ~ArmedRow(row)
      BY <1>0, <2>1
    <3>3. ArmedIsEvidence'
      BY <1>0, <2>1, <3>1, <3>2, BackingStays
    <3>. QED
      BY <3>3, <1>2 DEF Evident
  <2>. QED
    BY <2>2, <2>3
<1>4. CASE Crash
  <2>1. PICK row \in durable : durable' = {row}
    BY <1>4 DEF Crash
  <2>2. /\ failed' = failed \cup {live \in (SUBSET Cores) \ {{}} : MachineRuns(live)}
        /\ boot' = (IF boot = "same" THEN "crashed" ELSE boot) /\ abortedLive' = abortedLive
    BY <1>4 DEF Crash
  <2>3. ASSUME ArmedRow(row) PROVE Backed(row.hunt.inFlight)'
    <3>1. Backed(row.hunt.inFlight)
      BY <1>0, <2>1, <2>3, ArmedRowsAreBacked
    <3>2. row.hunt # NoHunt /\ row.hunt \in HuntState /\ row.hunt.inFlight # {}
      BY <1>0, <2>1, <2>3, RowFields DEF ArmedRow, RowsSound, Sound
    <3>3. row.hunt.inFlight \in (SUBSET Cores) \ {{}}
      BY <3>2 DEF HuntState, CoreSets
    <3>4. CASE MachineRuns(row.hunt.inFlight)
      BY <2>2, <3>3, <3>4 DEF Backed
    <3>5. CASE row.hunt.inFlight \in failed \/ boot = "clean" \/ abortedLive
      BY <2>2, <3>5 DEF Backed
    <3>. QED
      BY <3>1, <3>4, <3>5 DEF Backed
  <2>4. ArmedIsEvidence'
    BY <2>1, <2>3 DEF ArmedIsEvidence, ArmedRow, Backed
  <2>. QED
    BY <2>4, <1>2 DEF Evident
<1>. QED
  BY <1>3, <1>4

\* A machine at stock runs no mask.
LEMMA StockRunsNothing ==
  ASSUME hw = Stock, NEW live \in SUBSET Cores, live # {}
  PROVE  ~MachineRuns(live)
  BY DEF Stock, MachineRuns

\* A resume takes an armed row for an answer only after the machine died under
\* its mask, unless the operator had stopped the probe.
LEMMA ResumeStaysEvident ==
  ASSUME EngineInvariant, Evident, Resume
  PROVE  Evident'
<1>0. /\ ArmedIsEvidence /\ db \in durable /\ db \in Rows /\ (boot # "same" => hw = Stock)
      /\ db.hunt \in HuntState \cup {NoHunt}
      /\ db.hunt # NoHunt => Sound(db.hunt, clean, Evidence, lastRun)
  BY EvidentFacts, EngineFacts
<1>1. hw' = hw /\ failed' = failed /\ abortedLive' = abortedLive
  <2>1. failed' = failed /\ abortedLive' = abortedLive
    BY ResumedHunt DEF history
  <2>2. hw' = hw
    <3>1. CASE ResumeBlames
      BY <3>1 DEF ResumeBlames
    <3>2. CASE Resume /\ ~ResumeBlames
      BY <3>2 DEF Resume, ResumeRequeues, ResumeAfterProbe, ResumeAfterCrash, ResumePauses,
                  ResumeWithoutHunt, machine
    <3>. QED
      BY <3>1, <3>2
  <2>. QED
    BY <2>1, <2>2
<1>2. CASE ResumePauses
  <2>1. at' = "idle" /\ boot' = boot /\ durable' = durable
    BY <1>2 DEF ResumePauses, machine, rows
  <2>2. ArmedIsEvidence'
    BY <1>0, <1>1, <2>1, BackingStays
  <2>. QED
    BY <1>0, <1>1, <2>1, <2>2 DEF Evident, Followed
<1>3. CASE ResumeAfterProbe
  <2>1. /\ at' = "restore" /\ boot' = "same" /\ db' = db /\ durable' = {db} /\ hunt' = db.hunt
        /\ Rebooted = "crashed" /\ ArmedRow(db)
    BY <1>3 DEF ResumeAfterProbe, Loaded, Stamp, SaveDurably, ArmedRow
  <2>2. boot = "crashed" /\ hw = Stock
    BY <1>0, <2>1 DEF Rebooted
  <2>3. db.hunt.inFlight # {} /\ db.hunt.inFlight \in SUBSET Cores
    BY <1>0, <2>1 DEF ArmedRow, Sound, HuntState, CoreSets
  <2>4. db.hunt.inFlight \in failed \/ abortedLive
    BY <1>0, <2>1, <2>2, <2>3, ArmedRowsAreBacked, StockRunsNothing DEF Backed
  <2>5. ArmedIsEvidence'
    BY <1>1, <2>1, <2>4 DEF ArmedIsEvidence
  <2>. QED
    BY <1>1, <2>1, <2>4, <2>5 DEF Evident, Followed
<1>4. CASE ResumeRequeues \/ ResumeAfterCrash \/ ResumeBlames \/ ResumeWithoutHunt
  <2>1. at' = "restore" /\ boot' = "same" /\ durable' = {db'} /\ db'.hunt = hunt'
        /\ ~ArmedRow(db')
    <3>1. CASE ResumeRequeues
      <4>1. /\ db.hunt # NoHunt /\ hunt' = db'.hunt /\ at' = "restore" /\ boot' = "same"
            /\ durable' = {db'} /\ db'.hunt = Disarmed(db.hunt)
        BY <3>1 DEF ResumeRequeues, Loaded, Stamp, SaveDurably, Requeued
      <4>2. Disarmed(db.hunt).armed = FALSE
        BY <1>0, <4>1 DEF Disarmed, HuntState
      <4>. QED
        BY <4>1, <4>2 DEF ArmedRow
    <3>2. CASE ResumeAfterCrash \/ ResumeWithoutHunt
      BY <3>2 DEF ResumeAfterCrash, ResumeWithoutHunt, Loaded, Stamp, SaveDurably, ArmedRow
    <3>3. CASE ResumeBlames
      <4>1. PICK named \in (SUBSET LiveInJournal) \ {{}} :
              LET row == [db EXCEPT !.hunt = NoHunt, !.blamed = @ \cup named]
              IN  Loaded(row) /\ Stamp(row)
        BY <3>3, Zenon DEF ResumeBlames
      <4>. DEFINE row == [db EXCEPT !.hunt = NoHunt, !.blamed = @ \cup named]
      <4>2. named \in SUBSET Cores
        BY DEF LiveInJournal
      <4>3. row.hunt = NoHunt
        BY <1>0, <4>2, RowCharged, Zenon
      <4>4. hunt' = row.hunt /\ at' = "restore" /\ boot' = "same" /\ db' = row /\ durable' = {row}
        BY <4>1 DEF Loaded, Stamp, SaveDurably
      <4>. HIDE DEF row
      <4>. QED
        BY <4>3, <4>4 DEF ArmedRow
    <3>. QED
      BY <1>4, <3>1, <3>2, <3>3
  <2>2. ArmedIsEvidence'
    BY <2>1, NothingArmed
  <2>. QED
    BY <2>1, <2>2 DEF Evident, Followed, ArmedRow
<1>. QED
  BY <1>2, <1>3, <1>4 DEF Resume

\* The reproduction of an armed probe is recorded while its row is still armed.
LEMMA RestoreStaysEvident ==
  ASSUME EngineInvariant, Evident, Restoring
  PROVE  Evident' /\ (mistaken' => mistaken \/ abortedLive)
<1>0. /\ at = "restore" /\ db.hunt = hunt /\ boot = "same" /\ db \in Rows
      /\ hunt \in HuntState \cup {NoHunt}
      /\ hunt # NoHunt => Sound(hunt, clean, Evidence, lastRun)
      /\ hunt # NoHunt /\ hunt.armed => hunt.inFlight \in failed \/ abortedLive
  <2>1. at = "restore"
    BY DEF Restoring, Restore, RestoreRefused
  <2>. QED
    BY <2>1, EvidentFacts, EngineFacts DEF Evident, Followed, HeldSound
<1>1. boot' = boot /\ failed' = failed /\ abortedLive' = abortedLive
  BY DEF Restoring, Restore, RestoreRefused, history
<1>2. CASE RestoreRefused
  <2>1. at' = "idle" /\ durable' = {db} /\ mistaken' = mistaken
    BY <1>2 DEF RestoreRefused, history
  <2>2. ArmedIsEvidence'
    BY <1>0, <1>1, <2>1 DEF ArmedIsEvidence
  <2>. QED
    BY <1>0, <1>1, <2>1, <2>2 DEF Evident, Followed
<1>3. CASE Restore /\ hunt # NoHunt /\ hunt.armed
  <2>1. /\ at' = "slot" /\ hunt' = Reproduced(hunt) /\ db' = [db EXCEPT !.hunt = hunt']
        /\ durable' = {db, db'} /\ mistaken' = (mistaken \/ hunt.inFlight \notin failed)
    BY <1>3 DEF Restore, WithHunt
  <2>2. hunt' \in HuntState /\ hunt'.armed = FALSE
    <3>1. hunt \in HuntState /\ hunt.inFlight # {} /\ hunt.inFlight \in SUBSET Cores
      BY <1>0, <1>3 DEF Sound, HuntState, CoreSets
    <3>2. /\ Sound(Disarmed(hunt), clean, Evidence, lastRun) /\ Disarmed(hunt).armed = FALSE
          /\ Disarmed(hunt).inFlight = hunt.inFlight
      BY <1>0, <1>3, <3>1, DisarmedIsSound
    <3>3. /\ clean \in SUBSET CoreSets /\ SUBSET Cores \in SUBSET CoreSets
          /\ Evidence \subseteq SUBSET Cores /\ TRUE \in BOOLEAN
      BY EngineFacts DEF CoreSets
    <3>4. Sound(Record(Disarmed(hunt), TRUE), clean, SUBSET Cores, lastRun)
      BY <3>1, <3>2, <3>3, RecordedIsSound
    <3>5. Disarmed(hunt) \in HuntState
      BY <3>2 DEF Sound, HuntInv
    <3>6. Record(Disarmed(hunt), TRUE).armed = Disarmed(hunt).armed
      BY <3>5, RecordEndsSeries
    <3>. QED
      BY <2>1, <3>2, <3>4, <3>6 DEF Reproduced, Sound, HuntInv
  <2>3. db'.hunt = hunt' /\ ~ArmedRow(db')
    <3>1. db'.hunt = hunt'
      BY <1>0, <2>1, <2>2, RowWithHunt
    <3>. QED
      BY <2>2, <3>1 DEF ArmedRow
  <2>4. ArmedIsEvidence'
    <3>1. ASSUME NEW row \in durable', ArmedRow(row) PROVE Backed(row.hunt.inFlight)'
      <4>1. row = db
        BY <2>1, <2>3, <3>1
      <4>. QED
        BY <4>1, <1>0, <1>1, <1>3 DEF Backed
    <3>. QED
      BY <3>1 DEF ArmedIsEvidence, ArmedRow, Backed
  <2>5. Followed'
    BY <1>0, <1>1, <2>1, <2>2, <2>3 DEF Followed
  <2>6. mistaken' => mistaken \/ abortedLive
    BY <1>0, <1>3, <2>1
  <2>. QED
    BY <2>4, <2>5, <2>6 DEF Evident
<1>4. CASE Restore /\ ~(hunt # NoHunt /\ hunt.armed)
  <2>1. /\ at' = (IF hunt = NoHunt THEN "done" ELSE "slot") /\ hunt' = hunt /\ db' = db
        /\ durable' = {db} /\ mistaken' = mistaken
    BY <1>4 DEF Restore
  <2>2. ArmedIsEvidence'
    BY <1>0, <1>4, <2>1, NothingArmed DEF ArmedRow
  <2>. QED
    BY <1>0, <1>1, <1>4, <2>1, <2>2 DEF Evident, Followed
<1>. QED
  BY <1>2, <1>3, <1>4 DEF Restoring

\* Every step keeps armed rows evident, and only a probe the operator stopped
\* misleads.
LEMMA StepsStayEvident ==
  ASSUME EngineInvariant, Evident, [EngineNext]_evars
  PROVE  Evident' /\ (mistaken' => mistaken \/ abortedLive)
<1>1. CASE Restoring
  BY <1>1, RestoreStaysEvident
<1>2. CASE EngineNext /\ ~Restoring
  <2>1. Evident'
    BY <1>2, SlotStaysEvident, VerdictStaysEvident, WriteMaskStaysEvident, FinishStaysEvident,
       OperatorStaysEvident, PowerStaysEvident, ResumeStaysEvident DEF EngineNext
  <2>2. mistaken' = mistaken
    <3>1. CASE Slot \/ Verdict \/ WriteMask
      BY <3>1 DEF Slot, SlotStops, SlotProbes, SlotResolves, Verdict, Blame, AfterHunt, WriteMask,
                  MaskIntent, MaskWrite, MaskRefused, Launch, history
    <3>2. CASE Finish
      BY <3>2 DEF Finish, FinishClean, FinishFailed, FinishInconsistent, FinishStartup, FinishThermal,
                  FinishApparatus, history
    <3>3. CASE Pause \/ Abort \/ Aborting \/ Kill \/ CleanReboot \/ Crash
      BY <3>3 DEF Pause, Abort, Aborting, AbortRestores, AbortRequeues, Kill, CleanReboot, Crash, history
    <3>4. CASE Resume
      BY <3>4, ResumedHunt DEF history
    <3>. QED
      BY <1>2, <3>1, <3>2, <3>3, <3>4 DEF EngineNext
  <2>. QED
    BY <2>1, <2>2
<1>3. CASE UNCHANGED evars
  BY <1>3 DEF evars, machine, rows, engine, history, Evident, Followed, ArmedIsEvidence, MachineRuns
<1>. QED
  BY <1>1, <1>2, <1>3

\* Whatever interrupts the engine, the rows that are armed are backed.
THEOREM EngineIsEvident == EngineSpec => []Evident
<1>1. EngineInit => Evident
  <2>. SUFFICES ASSUME EngineInit PROVE Evident
    OBVIOUS
  <2>1. PICK candidates \in CoreSets \ {{}}, loaded \in CoreSets \ {{}} : hunt = Begin(candidates, loaded)
    BY DEF EngineInit, CoreSets
  <2>2. Sound(hunt, {}, {}, lastRun) /\ hunt.armed = FALSE
    BY <2>1, BegunIsSound
  <2>3. hunt \in HuntState
    BY <2>2 DEF Sound, HuntInv
  <2>4. /\ db = [hunt |-> hunt, blamed |-> {}, quarantined |-> FALSE]
        /\ durable = {db, [db EXCEPT !.hunt = NoHunt]} /\ at = "slot" /\ boot = "same"
    BY DEF EngineInit
  <2>5. db \in Rows /\ db.hunt = hunt
    BY <2>3, <2>4 DEF Rows
  <2>6. [db EXCEPT !.hunt = NoHunt].hunt = NoHunt
    BY <2>5, RowWithHunt
  <2>. QED
    BY <2>2, <2>4, <2>5, <2>6 DEF Evident, Followed, ArmedIsEvidence
<1>2. EngineInvariant /\ Evident /\ [EngineNext]_evars => Evident'
  BY StepsStayEvident
<1>. QED
  BY <1>1, <1>2, EngineIsInvariant, PTL DEF EngineSpec

\* A saved question that is armed is evidence: the machine runs its mask, or has
\* died under it, unless the machine was shut down in order or the operator
\* stopped the probe.
THEOREM ArmedRowsAreEvidence == EngineSpec => []ArmedIsEvidence
<1>1. Evident => ArmedIsEvidence
  BY DEF Evident
<1>. QED
  BY <1>1, EngineIsEvident, PTL

\* No reproduction is recorded for a mask the machine never failed under, except
\* for a probe the operator stopped while it was armed.
THEOREM AbortsAloneMislead == EngineSpec => OnlyAbortsMislead
<1>1. EngineInvariant /\ Evident /\ [EngineNext]_evars => [mistaken' => mistaken \/ abortedLive]_evars
  BY StepsStayEvident
<1>. QED
  BY <1>1, EngineIsInvariant, EngineIsEvident, PTL DEF EngineSpec, OnlyAbortsMislead
=============================================================================
