------------------------------- MODULE Bisect -------------------------------
(***************************************************************************)
(* The attribution hunt of src/corecycler/tuner/bisect.py: which cores of  *)
(* a live Curve Optimizer vector made the machine fail.  A probe keeps the *)
(* offsets of one set of cores and parks every other core at stock; its    *)
(* answer is "reproduced" or "clean".  The state machine is pure: the      *)
(* engine asks NextLiveSet for a mask and folds the answer with Record.    *)
(*                                                                         *)
(* The code keeps sorted lists of core ids; a set of core ids is the same  *)
(* thing, and the lower half of a set is the first half of its list.       *)
(***************************************************************************)
EXTENDS Integers, Sequences, FiniteSets

CONSTANTS
  Cores,           \* the physical core ids of the topology
  MaxNoReproduce   \* max_unattributed_crash_hunts: clean rounds before a whole-set probe

ASSUME CoresAssumption == Cores \subseteq Nat /\ IsFiniteSet(Cores)
ASSUME MaxNoReproduceAssumption == MaxNoReproduce \in Nat \ {0}

VARIABLES
  hunt,            \* the HuntState
  clean,           \* history: masks that answered clean at least once
  failed           \* history: masks that reproduced the failure at least once

vars == <<hunt, clean, failed>>

-----------------------------------------------------------------------------
(* Sets of cores *)

Stage == {"lead", "probe", "culprit", "exhausted"}

CoreSets == SUBSET Cores

\* How many members of S come before c in the sorted list of S.
Rank(S, c) == Cardinality({d \in S : d < c})

\* split: the first (n + 1) \div 2 members, and the others.
LowerHalf(S) == {c \in S : 2 * Rank(S, c) < Cardinality(S)}
UpperHalf(S) == S \ LowerHalf(S)

\* Python's int.bit_length for the sizes a topology can have.
BitLength(n) == Cardinality({d \in 0..30 : 2^d <= n})

SplitDepth(S) == BitLength(Cardinality(S) - 1)

\* lead_probe: the one live core that was under load, when it has peers.
LeadProbe(candidates, loaded) ==
  IF Cardinality(loaded \cap candidates) = 1 /\ Cardinality(candidates) > 1
    THEN loaded \cap candidates
    ELSE {}

-----------------------------------------------------------------------------
(* HuntState *)

HuntState ==
  [stage : Stage, candidates : CoreSets, loaded : CoreSets,
   pending : Seq(CoreSets), queue : Seq(CoreSets), inFlight : CoreSets,
   parent : CoreSets, guilty : Seq(CoreSets), level : Nat, found : CoreSets,
   noReproduce : 0..MaxNoReproduce, launchesDone : Nat, armed : BOOLEAN]

\* begin: a hunt over the cores that carried a live offset.
Begin(candidates, loaded) ==
  [stage |-> IF LeadProbe(candidates, loaded) # {} THEN "lead" ELSE "probe",
   candidates |-> candidates, loaded |-> loaded,
   pending |-> <<candidates>>, queue |-> <<>>, inFlight |-> {},
   parent |-> {}, guilty |-> <<>>, level |-> 0, found |-> {},
   noReproduce |-> 0, launchesDone |-> 0, armed |-> FALSE]

\* HuntState.started: FALSE while the state is only the crash context of a slot.
Started(h) ==
  IF h.stage = "lead"
    THEN h.inFlight # {}
    ELSE \/ h.stage # "probe"
         \/ h.pending # <<h.candidates>>
         \/ h.inFlight # {} \/ h.queue # <<>> \/ h.parent # {}
         \/ h.found # {} \/ h.noReproduce # 0
         \/ LeadProbe(h.candidates, h.loaded) # {}

Terminal(h) == h.stage \in {"culprit", "exhausted"}

-----------------------------------------------------------------------------
(* next_live_set *)

\* The loop that convicts the lone cores at the head of pending stops at the
\* first set that can still be split, or at the end.
FirstSplittable(p) ==
  IF \E i \in 1..Len(p) : Cardinality(p[i]) # 1
    THEN CHOOSE i \in 1..Len(p) :
           /\ Cardinality(p[i]) # 1
           /\ \A j \in 1..(i - 1) : Cardinality(p[j]) = 1
    ELSE Len(p) + 1

LoneHead(p) == UNION {p[i] : i \in 1..(FirstSplittable(p) - 1)}

SplitLevel(h, target) ==
  LET depth == SplitDepth(h.candidates)
      wanted == depth - SplitDepth(target) + 1
      least == IF wanted > 1 THEN wanted ELSE 1
  IN  IF least < depth THEN least ELSE depth

SplitNext(h) ==
  LET k == FirstSplittable(h.pending)
      nowFound == h.found \cup LoneHead(h.pending)
  IN  IF k > Len(h.pending)
        THEN [h EXCEPT !.pending = <<>>, !.found = nowFound,
                       !.stage = IF nowFound # {} THEN "culprit" ELSE "exhausted"]
        ELSE LET target == h.pending[k]
             IN  [h EXCEPT !.pending = SubSeq(h.pending, k + 1, Len(h.pending)),
                           !.found = nowFound,
                           !.parent = target,
                           !.guilty = <<>>,
                           !.level = SplitLevel(h, target),
                           !.queue = <<UpperHalf(target)>>,
                           !.inFlight = LowerHalf(target)]

\* The state after next_live_set; its answer is the new inFlight, or None
\* when the stage became terminal.  An unanswered mask is replayed.
NextLiveSet(h) ==
  CASE Terminal(h) -> h
    [] ~Terminal(h) /\ h.inFlight # {} -> h
    [] h.stage = "lead" /\ h.inFlight = {} ->
         [h EXCEPT !.inFlight = LeadProbe(h.candidates, h.loaded)]
    [] h.stage = "probe" /\ h.inFlight = {} /\ h.queue # <<>> ->
         [h EXCEPT !.inFlight = Head(h.queue), !.queue = Tail(h.queue)]
    [] h.stage = "probe" /\ h.inFlight = {} /\ h.queue = <<>> -> SplitNext(h)

-----------------------------------------------------------------------------
(* record *)

RecordLead(h, reproduced) ==
  IF reproduced
    THEN [h EXCEPT !.stage = "culprit", !.pending = <<>>, !.found = h.inFlight,
                   !.inFlight = {}, !.launchesDone = 0]
    ELSE [h EXCEPT !.stage = "probe", !.inFlight = {}, !.launchesDone = 0]

\* _record_whole_set: the last question about a set whose halves ran clean.
RecordWholeSet(h, reproduced) ==
  LET base == [h EXCEPT !.parent = {}, !.level = 0, !.inFlight = {}, !.launchesDone = 0]
  IN  IF reproduced
        THEN [base EXCEPT !.found = h.found \cup h.parent,
                          !.noReproduce = 0,
                          !.stage = IF h.pending = <<>> THEN "culprit" ELSE "probe"]
        ELSE [base EXCEPT !.pending = <<>>,
                          !.stage = IF h.found # {} THEN "culprit" ELSE "exhausted"]

\* Mutated forms of FoldSplit: the retry is never counted; only the first guilty
\* half is pursued; a retry restarts from every candidate; a clean round ends
\* the hunt.
FoldUncounted(h, guilty) ==
  LET base == [h EXCEPT !.parent = {}, !.level = 0, !.inFlight = {},
                        !.launchesDone = 0, !.guilty = <<>>]
  IN  [base EXCEPT !.pending = (IF guilty # <<>> THEN guilty ELSE <<h.parent>>) \o h.pending]
FoldFirstGuilty(h, guilty) ==
  LET base == [h EXCEPT !.parent = {}, !.level = 0, !.inFlight = {},
                        !.launchesDone = 0, !.guilty = <<>>]
  IN  CASE guilty # <<>> -> [base EXCEPT !.pending = <<Head(guilty)>> \o h.pending]
        [] guilty = <<>> /\ h.noReproduce + 1 >= MaxNoReproduce ->
             [base EXCEPT !.noReproduce = h.noReproduce + 1,
                          !.parent = h.parent, !.level = h.level, !.queue = <<h.parent>>]
        [] guilty = <<>> /\ h.noReproduce + 1 < MaxNoReproduce ->
             [base EXCEPT !.noReproduce = h.noReproduce + 1,
                          !.pending = <<h.parent>> \o h.pending]
FoldRestart(h, guilty) ==
  LET base == [h EXCEPT !.parent = {}, !.level = 0, !.inFlight = {},
                        !.launchesDone = 0, !.guilty = <<>>]
  IN  IF guilty # <<>>
        THEN [base EXCEPT !.pending = guilty \o h.pending]
        ELSE [base EXCEPT !.pending = <<h.candidates \ h.found>>]
FoldExhausted(h, guilty) ==
  LET base == [h EXCEPT !.parent = {}, !.level = 0, !.inFlight = {},
                        !.launchesDone = 0, !.guilty = <<>>]
  IN  IF guilty # <<>>
        THEN [base EXCEPT !.pending = guilty \o h.pending]
        ELSE [base EXCEPT !.pending = <<>>,
                          !.stage = IF h.found # {} THEN "culprit" ELSE "exhausted"]

\* Both halves of the parent have answered.
FoldSplit(h, guilty) ==
  LET base == [h EXCEPT !.parent = {}, !.level = 0, !.inFlight = {},
                        !.launchesDone = 0, !.guilty = <<>>]
  IN  CASE guilty # <<>> ->
             [base EXCEPT !.pending = guilty \o h.pending]
        [] guilty = <<>> /\ h.noReproduce + 1 >= MaxNoReproduce ->
             [base EXCEPT !.noReproduce = h.noReproduce + 1,
                          !.parent = h.parent, !.level = h.level, !.queue = <<h.parent>>]
        [] guilty = <<>> /\ h.noReproduce + 1 < MaxNoReproduce ->
             [base EXCEPT !.noReproduce = h.noReproduce + 1,
                          !.pending = <<h.parent>> \o h.pending]

\* A mutated form of RecordHalf: the first half is held guilty whatever it answered.
RecordHalfUnasked(h, reproduced) ==
  IF h.queue # <<>>
    THEN [h EXCEPT !.guilty = Append(h.guilty, h.inFlight), !.inFlight = {}, !.launchesDone = 0]
    ELSE FoldSplit(h, IF reproduced THEN Append(h.guilty, h.inFlight) ELSE h.guilty)

RecordHalf(h, reproduced) ==
  LET guilty == IF reproduced THEN Append(h.guilty, h.inFlight) ELSE h.guilty
      counted == IF reproduced THEN [h EXCEPT !.noReproduce = 0] ELSE h
  IN  IF h.queue # <<>>
        THEN [counted EXCEPT !.guilty = guilty, !.inFlight = {}, !.launchesDone = 0]
        ELSE FoldSplit(counted, guilty)

Record(h, reproduced) ==
  CASE h.stage = "lead" -> RecordLead(h, reproduced)
    [] h.stage # "lead" /\ h.inFlight = h.parent -> RecordWholeSet(h, reproduced)
    [] h.stage # "lead" /\ h.inFlight # h.parent -> RecordHalf(h, reproduced)

-----------------------------------------------------------------------------
(* The hunt, driven by the engine: a mask is chosen, then answered. *)

Init ==
  /\ \E candidates \in CoreSets \ {{}}, loaded \in CoreSets \ {{}} :
        hunt = Begin(candidates, loaded)
  /\ clean = {}
  /\ failed = {}

Dispatch ==
  /\ ~Terminal(hunt)
  /\ hunt.inFlight = {}
  /\ hunt' = NextLiveSet(hunt)
  /\ UNCHANGED <<clean, failed>>

Answer(reproduced) ==
  /\ hunt.inFlight # {}
  /\ hunt' = Record(hunt, reproduced)
  /\ IF reproduced
       THEN failed' = failed \cup {hunt.inFlight} /\ UNCHANGED clean
       ELSE clean' = clean \cup {hunt.inFlight} /\ UNCHANGED failed

Next == Dispatch \/ \E reproduced \in BOOLEAN : Answer(reproduced)

Spec == Init /\ [][Next]_vars

\* The engine always dispatches the next probe and every probe is answered,
\* by its result or by the reboot it caused.
FairSpec == Spec /\ WF_vars(Next)

-----------------------------------------------------------------------------
(* Well-formedness: what _validate_state demands of every state that is    *)
(* persisted.                                                              *)

Disjoint(s) == \A i, j \in 1..Len(s) : i # j => s[i] \cap s[j] = {}

Members(s) == UNION {s[i] : i \in 1..Len(s)}

NonEmptySets(s) == \A i \in 1..Len(s) : s[i] # {}

ActiveHalves(h) ==
  h.queue \o h.guilty \o (IF h.inFlight # {} THEN <<h.inFlight>> ELSE <<>>)

ValidLead(h) ==
  /\ LeadProbe(h.candidates, h.loaded) # {}
  /\ h.pending = <<h.candidates>>
  /\ h.inFlight \in {{}, LeadProbe(h.candidates, h.loaded)}
  /\ h.queue = <<>> /\ h.guilty = <<>> /\ h.parent = {} /\ h.found = {}
  /\ h.level = 0 /\ h.noReproduce = 0

ValidProbe(h) ==
  /\ Len(h.queue) <= 2 /\ Len(h.guilty) <= 2
  /\ IF h.parent # {}
       THEN /\ Cardinality(h.parent) >= 2 /\ h.level >= 1
            /\ Members(ActiveHalves(h)) \subseteq h.parent
            /\ Disjoint(ActiveHalves(h))
            /\ Members(h.pending) \cap h.parent = {}
            /\ Len(h.queue) = 2 => Members(h.queue) = h.parent
       ELSE h.queue = <<>> /\ h.guilty = <<>> /\ h.inFlight = {} /\ h.level = 0
  /\ h.pending # <<>> \/ h.queue # <<>> \/ h.inFlight # {}

ValidTerminal(h) ==
  /\ h.pending = <<>> /\ h.queue = <<>> /\ h.inFlight = {} /\ h.parent = {} /\ h.guilty = <<>>
  /\ h.stage = "culprit" => h.found # {}

\* Whether to_json accepts h; FALSE is the InvalidHuntState exception.
ValidState(h) ==
  /\ h.candidates # {} /\ h.loaded # {}
  /\ NonEmptySets(h.pending) /\ NonEmptySets(h.queue) /\ NonEmptySets(h.guilty)
  /\ h.armed => h.inFlight # {}
  /\ Disjoint(h.pending) /\ Disjoint(h.queue) /\ Disjoint(h.guilty)
  /\ Members(h.pending) \cup Members(h.queue) \cup Members(h.guilty)
       \cup h.inFlight \cup h.parent \cup h.found \subseteq h.candidates
  /\ h.found \cap (Members(h.pending) \cup Members(h.queue) \cup Members(h.guilty)
                     \cup h.inFlight \cup h.parent) = {}
  /\ h.level <= SplitDepth(h.candidates)
  /\ h.launchesDone > 0 => h.inFlight # {}
  /\ h.stage = "lead" => ValidLead(h)
  /\ h.stage = "probe" => ValidProbe(h)
  /\ Terminal(h) => ValidTerminal(h)

-----------------------------------------------------------------------------
(* Properties *)

\* The fields stay within their ranges: in particular the clean rounds of a
\* split never pass max_unattributed_crash_hunts (bisect.py:452-462).
TypeOK ==
  /\ hunt \in HuntState
  /\ clean \subseteq CoreSets
  /\ failed \subseteq CoreSets

\* No answer, in any order, leads to a state that to_json refuses to persist:
\* InvalidHuntState raised there would lose the hunt (bisect.py:273-371).
WellFormed == ValidState(hunt)

\* The cores still under suspicion.
Open(h) == Members(h.pending) \cup h.parent

\* The evidence a conviction takes, C being the masks that ran clean and F those
\* that failed: the core was the whole live vector, or failed alone, or belongs
\* to a set that failed although each of its halves had run clean.
ConvictedBy(h, c, C, F) ==
  \/ h.candidates = {c}
  \/ {c} \in F
  \/ \E W \in F : c \in W /\ LowerHalf(W) \in C /\ UpperHalf(W) \in C

\* A core is convicted on such evidence only, however intermittent the failure
\* is (bisect.py:23-26, 405-408, 465-477).
ConvictionSound == \A c \in hunt.found : ConvictedBy(hunt, c, clean, failed)

\* The cores that are not under suspicion any more have each run clean in some mask.
Cleared(h, C) ==
  \A c \in h.candidates \ (h.found \cup Open(h)) : \E M \in C : c \in M

\* While the hunt runs, a core is dropped from suspicion only if some mask it
\* was live in has run clean: both subtrees of a split that failed twice are
\* pursued (bisect.py:443-462).
ExonerationSound == ~Terminal(hunt) => Cleared(hunt, clean)

\* The inductive invariant behind them: the sets waiting in pending are apart
\* and the lone ones among them have failed, and an open split stands at one of
\* six positions with the answers its position tells of.
PendingOK(h, F) ==
  /\ \A i \in 1..Len(h.pending) :
       /\ h.pending[i] # {} /\ h.pending[i] \subseteq h.candidates
       /\ h.pending[i] \cap h.found = {} /\ h.pending[i] \cap h.parent = {}
       /\ Cardinality(h.pending[i]) = 1 => h.pending[i] = h.candidates \/ h.pending[i] \in F
  /\ Disjoint(h.pending)

IdleOK(h) ==
  /\ h.parent = {} /\ h.queue = <<>> /\ h.inFlight = {} /\ h.guilty = <<>> /\ h.level = 0
  /\ h.pending # <<>> /\ h.noReproduce < MaxNoReproduce

\* The first half has answered.
HalfDone(h, C, F) ==
  \/ h.guilty = <<>> /\ LowerHalf(h.parent) \in C
  \/ h.guilty = <<LowerHalf(h.parent)>> /\ LowerHalf(h.parent) \in F

HalfOK(h, C, F) ==
  /\ h.noReproduce < MaxNoReproduce
  /\ \/ /\ h.inFlight = LowerHalf(h.parent) /\ h.queue = <<UpperHalf(h.parent)>>
        /\ h.guilty = <<>>
     \/ /\ h.inFlight = {} /\ h.queue = <<UpperHalf(h.parent)>> /\ HalfDone(h, C, F)
     \/ /\ h.inFlight = UpperHalf(h.parent) /\ h.queue = <<>> /\ HalfDone(h, C, F)

WholeOK(h, C) ==
  /\ h.guilty = <<>>
  /\ LowerHalf(h.parent) \in C /\ UpperHalf(h.parent) \in C
  /\ \/ h.inFlight = {} /\ h.queue = <<h.parent>>
     \/ h.inFlight = h.parent /\ h.queue = <<>>

SplitOK(h, C, F) ==
  /\ Cardinality(h.parent) >= 2 /\ h.parent \subseteq h.candidates
  /\ h.parent \cap h.found = {}
  /\ h.level >= 1 /\ h.level <= SplitDepth(h.candidates)
  /\ HalfOK(h, C, F) \/ WholeOK(h, C)

HuntInv(h, C, F) ==
  /\ h \in HuntState /\ C \subseteq CoreSets /\ F \subseteq CoreSets
  /\ h.candidates # {} /\ h.loaded # {}
  /\ PendingOK(h, F)
  /\ h.found \subseteq h.candidates
  /\ \A c \in h.found : ConvictedBy(h, c, C, F)
  /\ h.stage = "lead" => ValidLead(h)
  /\ h.stage = "probe" => IdleOK(h) \/ SplitOK(h, C, F)
  /\ Terminal(h) => ValidTerminal(h) /\ h.level = 0

HuntInvariant ==
  HuntInv(hunt, clean, failed) /\ hunt.armed = FALSE /\ hunt.launchesDone = 0

\* What docs/tuner-state-spec.md:162-164 says of the verdict: a core that
\* reproduced with every other core at stock is a culprit.
LoneReproducerConvicted ==
  Terminal(hunt) => \A c \in Cores : {c} \in failed => c \in hunt.found

\* An upper bound on the probes a hunt still asks: a set of n cores is worth
\* n - 1 splits, each at most MaxNoReproduce rounds of two halves and one
\* whole-set probe.
SplitCost == 2 * MaxNoReproduce + 1

SetCost(S) == SplitCost * (Cardinality(S) - 1)

\* The probes the open split can still cost, its halves' own splits included.
\* Between two rounds the clean rounds are on account of the head of pending.
SplitLeft(h) ==
  CASE h.parent = {} -> -(2 * h.noReproduce)
    [] h.parent # {} /\ h.parent \in {h.inFlight} \cup {h.queue[i] : i \in 1..Len(h.queue)} -> 1
    [] h.parent \notin {{}, h.inFlight} /\ h.queue # <<h.parent>> /\ h.guilty # <<>> ->
         1 + SetCost(LowerHalf(h.parent)) + SetCost(UpperHalf(h.parent))
    [] OTHER ->
         SetCost(h.parent) - 2 * h.noReproduce
           - (IF h.queue # <<>> /\ h.inFlight # {} THEN 0 ELSE 1)

\* The probes that the splits of the sets in p can cost.
CostOf(p) ==
  LET upTo[i \in 0..Len(p)] == IF i = 0 THEN 0 ELSE upTo[i - 1] + SetCost(p[i])
  IN  upTo[Len(p)]

ProbesLeft(h) ==
  IF Terminal(h) THEN 0
  ELSE CostOf(h.pending) + SplitLeft(h) + (IF h.stage = "lead" THEN 1 ELSE 0)

\* Every answer brings the hunt closer to its verdict by at least one probe
\* and no dispatch takes it back, so a hunt ends whatever the answers, and costs
\* at most 1 + (n - 1) * SplitCost machine crashes (bisect.py:389-477).
ProbeBudgetShrinks ==
  [][/\ ProbesLeft(hunt') >= 0
     /\ ProbesLeft(hunt') + (IF hunt.inFlight # {} THEN 1 ELSE 0) <= ProbesLeft(hunt)]_vars
=============================================================================
