------------------------------ MODULE CoreOrder ------------------------------
(***************************************************************************)
(* Which core the tuner tests next (tuner/engine.py, _run_next and the five *)
(* test orders): rotation over the cores, alternation over the two CCDs,    *)
(* cooldowns of cores that crashed, and the cursors of the rotation, which   *)
(* a restart rebuilds from the tests that finished.                          *)
(***************************************************************************)
EXTENDS Naturals, FiniteSets

CONSTANTS
  Cores,      \* the cores under test
  FirstCcd,   \* those of the first CCD
  Orders      \* the test orders a run explores

OrderNames == {"sequential", "round_robin", "weakest_first", "ccd_alternating", "ccd_round_robin"}
NoCore == 0

ASSUME OrderAssumption ==
  /\ Cores \subseteq Nat \ {NoCore} /\ IsFiniteSet(Cores) /\ Cores # {}
  /\ FirstCcd \subseteq Cores /\ Orders \subseteq OrderNames

VARIABLES
  order,    \* config.test_order
  phase,    \* of each core: new, search, settled, confirm, backoff or confirmed
  crashes,  \* crash_count of each core
  cool,     \* crash_cooldown of each core
  last,     \* _last_tested_core
  lastIn,   \* _ccd_last_tested
  finished, \* the test log: the last core, and the last of each CCD, that finished a test
  skipped   \* for the properties: tests of others that finished while a core was available
            \* in this round

ordering == <<order, phase, crashes, cool, last, lastIn, finished, skipped>>

Phases == {"new", "search", "settled", "confirm", "backoff", "confirmed"}
Lowest(S) == CHOOSE x \in S : \A y \in S : x <= y
CcdOf(c) == IF c \in FirstCcd THEN 0 ELSE 1
CcdsOf(S) == {CcdOf(c) : c \in S}
On(S, d) == {c \in S : CcdOf(c) = d}

Unfinished == {c \in Cores : phase[c] # "confirmed"}
Available(cooling) == {c \in Unfinished : cooling[c] = 0}

\* The first of S after core c, by number and not by membership, else the first.
After(S, c) == LET later == {x \in S : x > c} IN Lowest(IF later # {} THEN later ELSE S)

\* The pickers, over the available cores S.
PickSequential(S) == Lowest(S)

PickRoundRobin(S) == IF last = NoCore THEN Lowest(S) ELSE After(S, last)

\* A smaller score comes first; crashes push a core back.
Score(c) ==
  2 * crashes[c] + CASE phase[c] = "backoff" -> 0
                     [] phase[c] = "confirm" -> 1
                     [] phase[c] = "search" -> 2
                     [] phase[c] = "settled" -> 3
                     [] OTHER -> 4
PickWeakest(S) ==
  CHOOSE c \in S : \A d \in S \ {c} : Score(c) < Score(d) \/ (Score(c) = Score(d) /\ c < d)

\* The CCDs with work other than that of the last test, if there are any.
Elsewhere(S) ==
  LET others == {d \in CcdsOf(S) : last # NoCore /\ d # CcdOf(last)}
  IN IF others # {} THEN others ELSE CcdsOf(S)

PickCcdAlternating(S) ==
  LET done(d) == Cardinality(On(Cores \ Unfinished, d))
      best == CHOOSE d \in Elsewhere(S) :
                \A e \in Elsewhere(S) \ {d} : done(d) < done(e) \/ (done(d) = done(e) /\ d < e)
  IN Lowest(On(S, best))

PickCcdRoundRobin(S) ==
  IF Cardinality(CcdsOf(S)) < 2 THEN PickRoundRobin(S)
  ELSE LET d == Lowest(Elsewhere(S))
       IN IF lastIn[d] = NoCore THEN Lowest(On(S, d)) ELSE After(On(S, d), lastIn[d])

Pick(S) ==
  CASE order = "round_robin" -> PickRoundRobin(S)
    [] order = "weakest_first" -> PickWeakest(S)
    [] order = "ccd_alternating" -> PickCcdAlternating(S)
    [] order = "ccd_round_robin" -> PickCcdRoundRobin(S)
    [] OTHER -> PickSequential(S)

Less(n, k) == IF n > k THEN n - k ELSE 0

\* Every cooldown is drained by one until a core is available.
Drained ==
  LET k == IF Available(cool) # {} THEN 0 ELSE Lowest({cool[c] : c \in Unfinished})
  IN [c \in Cores |-> Less(cool[c], k)]

\* A new round: after a hunt, whose probes move the cursor, or, with the two CCDs in
\* turn, when that of the last test has no core left.
Fresh == [c \in Cores |-> 0]
RunDry(S) == last # NoCore /\ CcdOf(last) \notin CcdsOf(S)

\* The picked core starts a slot; the cooldowns of the others go down by one.
\* The mutated form always takes the lowest core.
PickNextBy(Picker(_)) ==
  LET S == Available(Drained)
      c == Picker(S)
  IN /\ Unfinished # {}
     /\ skipped' = IF order = "ccd_round_robin" /\ RunDry(S) THEN Fresh ELSE skipped
     /\ last' = c /\ lastIn' = [lastIn EXCEPT ![CcdOf(c)] = c]
     /\ cool' = [d \in Cores |-> IF d = c THEN Drained[d] ELSE Less(Drained[d], 1)]
     /\ phase' = [phase EXCEPT ![c] = CASE @ = "new" -> "search"
                                        [] @ = "settled" -> "confirm" [] OTHER -> @]
     /\ UNCHANGED <<order, crashes, finished>>
PickLowest == PickNextBy(PickSequential)
PickNext == PickNextBy(Pick)

\* A finished test is in the log with its duration; a crash leaves no such row.
Logged(c) == finished' = [core |-> c, on |-> [finished.on EXCEPT ![CcdOf(c)] = c]]
Finished(c) ==
  /\ Logged(c)
  /\ skipped' = [d \in Cores |-> IF d \in Available(cool) \ {c} THEN skipped[d] + 1 ELSE 0]

\* _reconstruct_scheduling_position: a cursor without a finished test stays.
Rebuilt(logged, cursor) == IF logged = NoCore THEN cursor ELSE logged
Reconstructed ==
  /\ last' = Rebuilt(finished.core, last)
  /\ lastIn' = [d \in {0, 1} |-> Rebuilt(finished.on[d], lastIn[d])]

OrderInit ==
  /\ order \in Orders
  /\ crashes = [c \in Cores |-> 0] /\ cool = [c \in Cores |-> 0]
  /\ last = NoCore /\ lastIn = [d \in {0, 1} |-> NoCore]
  /\ finished = [core |-> NoCore, on |-> [d \in {0, 1} |-> NoCore]]
  /\ skipped = Fresh

\* The rotations give every available core its turn, whatever crashes, restarts and
\* cooldowns come between: while one waits, each other core finishes at most one
\* test, or one in turn with a core of the other CCD ("one test per core before
\* moving to the next", "alternating CCDs").
Largest == LET a == Cardinality(FirstCcd) b == Cardinality(Cores \ FirstCcd) IN IF a > b THEN a ELSE b
RoundIsFair ==
  /\ order = "round_robin" => \A c \in Cores : skipped[c] < Cardinality(Cores)
  /\ order = "ccd_round_robin" => \A c \in Cores : skipped[c] < 2 * Largest
=============================================================================
