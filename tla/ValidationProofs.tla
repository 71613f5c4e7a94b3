-------------------------- MODULE ValidationProofs --------------------------
(***************************************************************************)
(* Theorems about the multi-core validation, for any number of cores, any  *)
(* halves, workloads and retry limits.                                     *)
(***************************************************************************)
EXTENDS Validation, FiniteSetTheorems, SequenceTheorems, WellFoundedInduction, TLAPS

-----------------------------------------------------------------------------
(* Cores in ascending order *)

\* A nonempty set of naturals has a least member.
LEMMA LeastOf ==
  ASSUME NEW T \in SUBSET Nat, T # {}
  PROVE  \E x \in T : \A y \in T : x <= y
<1>1. PICK x \in T : \A y \in T : <<y, x>> \notin OpToRel(<, Nat)
  BY NatLessThanWellFounded, WFMin, Zenon
<1>2. \A y \in T : <<y, x>> \in Nat \X Nat /\ <<y, x>>[1] = y /\ <<y, x>>[2] = x
  OBVIOUS
<1>3. \A y \in T : ~(y < x)
  BY <1>1, <1>2, Zenon DEF OpToRel
<1> QED
  BY <1>3

Ascending(s) == \A i, j \in DOMAIN s : i < j => s[i] < s[j]

\* A set of numbers up to n is finite.
LEMMA FiniteUpTo ==
  ASSUME NEW n \in Nat, NEW S \in SUBSET (1..n)
  PROVE  IsFiniteSet(S) /\ Cardinality(S) \in Nat
<1>1. IsFiniteSet(1..n)
  BY FS_Interval
<1>2. IsFiniteSet(S)
  BY <1>1, FS_Subset, Zenon
<1> QED
  BY <1>2, FS_CardinalityType

\* A listing of S without n, all of it below n, goes on with n.
LEMMA ListingGrows ==
  ASSUME NEW n \in Nat, NEW S \in SUBSET (1..n), n \in S,
         NEW s \in [1..Cardinality(S \ {n}) -> S \ {n}], Ascending(s)
  PROVE  \E t \in [1..Cardinality(S) -> S] : Ascending(t)
<1>1. IsFiniteSet(S) /\ Cardinality(S) \in Nat
  BY FiniteUpTo
<1> DEFINE k == Cardinality(S \ {n})
           t == [i \in 1..k + 1 |-> IF i \in 1..k THEN s[i] ELSE n]
<1>2. Cardinality(S) = k + 1 /\ k \in Nat
  <2>1. k = Cardinality(S) - 1
    BY <1>1, FS_RemoveElement, Zenon
  <2>2. k \in Nat
    BY FiniteUpTo
  <2> HIDE DEF k
  <2> QED
    BY <1>1, <2>1, <2>2
<1>3. s \in [1..k -> S \ {n}] /\ \A i, j \in 1..k : i < j => s[i] < s[j]
  BY DEF Ascending
<1> HIDE DEF k
<1>4. t \in [1..k + 1 -> S]
  BY <1>2, <1>3
<1>5. \A i, j \in 1..k + 1 : i < j => t[i] < t[j]
  <2> SUFFICES ASSUME NEW i \in 1..k + 1, NEW j \in 1..k + 1, i < j PROVE t[i] < t[j]
    OBVIOUS
  <2>0. i \in 1..k
    BY <1>2
  <2>1. t[i] = s[i] /\ s[i] \in S \ {n}
    BY <1>3, <2>0
  <2>2. CASE j \in 1..k
    BY <1>3, <2>0, <2>1, <2>2
  <2>3. CASE j \notin 1..k
    <3>1. s[i] \in 1..n /\ s[i] # n /\ t[j] = n
      BY <2>1, <2>3
    <3> QED
      BY <2>1, <3>1
  <2> QED
    BY <2>2, <2>3
<1>6. Ascending(t)
  BY <1>4, <1>5 DEF Ascending
<1> QED
  BY <1>2, <1>4, <1>6

\* The cores of any set can be listed in ascending order: the list of owed
\* re-tests that an entry into validation appends exists.
LEMMA ListingExists ==
  ASSUME NEW S \in SUBSET Cores
  PROVE  \E s \in [1..Cardinality(S) -> S] : Ascending(s)
<1> DEFINE Listed(T) == \E s \in [1..Cardinality(T) -> T] : Ascending(s)
           Bad == {n \in Nat : \E T \in SUBSET (1..n) : ~Listed(T)}
<1>1. CASE Bad = {}
  BY <1>1, SizeAssumption DEF Cores
<1>2. CASE Bad # {}
  <2>1. PICK n \in Bad : \A m \in Bad : n <= m
    BY <1>2, LeastOf
  <2>2. PICK T \in SUBSET (1..n) : ~Listed(T)
    BY <2>1
  <2>3. T # {}
    <3>1. [x \in {} |-> x] \in [1..0 -> {}] /\ Ascending([x \in {} |-> x])
      BY DEF Ascending
    <3> QED
      BY <2>2, <3>1, FS_EmptySet
  <2>4. n # 0 /\ n - 1 \in Nat /\ n - 1 \notin Bad
    <3>1. n = 0 => T = {}
      BY <2>2
    <3>2. n \in Nat
      BY <2>1
    <3>3. n # 0
      BY <2>3, <3>1
    <3>4. \A m \in Bad : n <= m
      BY <2>1
    <3> HIDE DEF Bad
    <3> QED
      BY <3>2, <3>3, <3>4
  <2>5. \A R \in SUBSET (1..n - 1) : Listed(R)
    BY <2>4
  <2>6. T \ {n} \in SUBSET (1..n - 1)
    BY <2>1
  <2>7. n \in T
    BY <2>2, <2>5, <2>6
  <2> QED
    BY <2>1, <2>2, <2>5, <2>6, <2>7, ListingGrows
<1> QED
  BY <1>1, <1>2

\* ... and has every one of them in it.
LEMMA ListingIsWhole ==
  ASSUME NEW S \in SUBSET Cores, NEW s \in [1..Cardinality(S) -> S], Ascending(s)
  PROVE  Range(s) = S
<1>1. IsFiniteSet(S) /\ Cardinality(S) \in Nat
  BY SizeAssumption, FiniteUpTo DEF Cores
<1> DEFINE k == Cardinality(S)
<1>2. IsFiniteSet(1..k) /\ Cardinality(1..k) = k
  BY <1>1, FS_Interval
<1> HIDE DEF k
<1>3. s \in Injection(1..k, S)
  <2>1. \A i, j \in 1..k : i # j => s[i] # s[j]
    <3> SUFFICES ASSUME NEW i \in 1..k, NEW j \in 1..k, i < j PROVE s[i] # s[j]
      BY <1>1 DEF k
    <3>1. s[i] < s[j]
      BY DEF Ascending, k
    <3>2. s[i] \in S /\ s[j] \in S
      BY DEF k
    <3>3. S \subseteq Nat
      BY SizeAssumption DEF Cores
    <3>4. s[i] \in Nat /\ s[j] \in Nat
      BY <3>2, <3>3
    <3> QED
      BY <3>1, <3>4
  <2> QED
    BY <2>1 DEF Injection, IsInjective, k
<1>4. s \in Surjection(1..k, S)
  BY <1>1, <1>2, <1>3, FS_Injection DEF k
<1> QED
  BY <1>4 DEF Surjection, Range, k

-----------------------------------------------------------------------------
(* The invariant of the dispatcher: one thing at a time is on its way, a     *)
(* worker or a pending call, and the cursor waits for it.                    *)

Pending == {k \in Kinds : calls[k] > 0}

\* A worker runs alone, with no call pending; a call waits alone; nothing of
\* either is left when the machine is down.
Token ==
  /\ calls \in [Kinds -> {0, 1}]
  /\ \A j, k \in Pending : j = k
  /\ workers = <<>> \/ (workers = <<workers[1]>> /\ Pending = {})
  /\ ~Up => workers = <<>> /\ Pending = {} /\ pos.stage = 0

\* Until validation is left, the cursor in memory is the saved one.
Saved == pos.stage > 0 => row = pos

\* The soak is on only at its stage, and never inside a re-test.
Soaks == run.soaking => pos.stage = 7 /\ config.soak /\ ~pos.dirty /\ ~run.solo

\* While the search goes on only its own call is pending, and a re-test that
\* was left behind is still owed.
Searching ==
  status = "running" =>
    /\ workers = <<>> /\ ~run.soaking /\ Pending \subseteq {"search"} /\ pos.stage = 0
    /\ run.solo => row.stage > 0 /\ row.requeue # <<>>

\* While validation goes on, the next slot is due only when no re-test is owed.
Validating ==
  Up /\ status = "validating" =>
    /\ pos.stage > 0 /\ "search" \notin Pending /\ AllConfirmed /\ Soaks
    /\ "next" \in Pending \/ "next_later" \in Pending => ~run.solo /\ pos.requeue = <<>>
    /\ "requeue" \in Pending \/ "requeue_later" \in Pending => ~run.soaking

\* The slot a worker runs is the one the cursor names.
Working ==
  workers # <<>> =>
    /\ status # "running" /\ pos.stage > 0 /\ AllConfirmed /\ Soaks
    /\ run.solo => pos.requeue # <<>> /\ workers[1] = Retest(pos)
    /\ ~run.solo => pos.requeue = <<>> /\ workers[1] = SlotAt(pos) /\ SlotAt(pos) # Nothing

Flow == Saved /\ Searching /\ Validating /\ Working
Inv == TypeOK /\ Token /\ Flow

-----------------------------------------------------------------------------
(* What the parts of the actions do *)

\* A call that fires was the only thing on its way; what it makes is then.
LEMMA FireMakes ==
  ASSUME Token, NEW k \in Kinds, NEW made \in SUBSET Kinds, Fire(k, made)
  PROVE  /\ Up /\ workers = <<>> /\ Pending = {k}
         /\ calls' \in [Kinds -> {0, 1}] /\ Pending' = made
<1>1. Up /\ k \in Pending /\ Pending = {k}
  BY DEF Fire, Token, Pending
<1>2. workers = <<>>
  BY <1>1 DEF Token
<1>3. \A j \in Kinds : calls'[j] = IF j \in made THEN 1 ELSE 0
  <2> SUFFICES ASSUME NEW j \in Kinds PROVE calls'[j] = IF j \in made THEN 1 ELSE 0
    OBVIOUS
  <2>1. calls[j] \in {0, 1} /\ (calls[j] > 0 => j = k) /\ calls[k] > 0
    BY <1>1 DEF Token, Pending
  <2>2. calls'[j] = (calls[j] - (IF j = k THEN 1 ELSE 0)) + (IF j \in made THEN 1 ELSE 0)
    BY DEF Fire
  <2> QED
    BY <2>1, <2>2
<1>4. calls' \in [Kinds -> {0, 1}]
  <2>1. calls' = [j \in Kinds |-> calls'[j]]
    BY DEF Fire
  <2> QED
    BY <1>3, <2>1
<1>5. Pending' = made
  BY <1>3 DEF Pending
<1> QED
  BY <1>1, <1>2, <1>4, <1>5

\* A call scheduled while nothing is pending is then the only one.
LEMMA ScheduleMakes ==
  ASSUME Token, Pending = {}, NEW k \in Kinds, Schedule(k)
  PROVE  calls' \in [Kinds -> {0, 1}] /\ Pending' = {k}
<1>1. \A j \in Kinds : calls[j] = 0
  BY DEF Token, Pending
<1>2. \A j \in Kinds : calls'[j] = IF j = k THEN 1 ELSE 0
  BY <1>1 DEF Schedule, Token
<1>3. calls' \in [Kinds -> {0, 1}]
  BY <1>2 DEF Schedule, Token
<1> QED
  BY <1>2, <1>3 DEF Pending

\* The worker that answers was the only one, and nothing was pending.
LEMMA AnswerTakes ==
  ASSUME Token, NEW i \in DOMAIN workers, Answer(i)
  PROVE  /\ i = 1 /\ workers = <<workers[1]>> /\ workers # <<>> /\ workers' = <<>>
         /\ Up /\ Up' /\ Pending = {} /\ config' = config
<1>1. workers # <<>> /\ workers = <<workers[1]>> /\ Pending = {}
  BY DEF Token
<1>2. i = 1 /\ Len(workers) = 1
  BY <1>1
<1>3. workers' = <<>>
  <2> DEFINE w == workers[1]
  <2>1. SubSeq(<<w>>, 1, 0) \o SubSeq(<<w>>, 2, 1) = <<>>
    OBVIOUS
  <2> QED
    BY <1>1, <1>2, <2>1 DEF Answer, RemoveAt
<1> QED
  BY <1>1, <1>2, <1>3 DEF Answer, Up

\* Calls that stay as they are stay pending.
LEMMA PendingStays ==
  ASSUME UNCHANGED calls
  PROVE  Pending' = Pending
BY DEF Pending

\* The fields of a cursor.
LEMMA CursorParts ==
  ASSUME NEW p \in Cursor
  PROVE  /\ p.stage \in 0..9 /\ p.index \in 0..N /\ p.half \in 0..Len(Halves)
         /\ p.dirty \in BOOLEAN /\ p.requeue \in Seq(Cores)
         /\ p.work \in 0..Len(Workloads) /\ p.lane \in 0..N + 1
BY DEF Cursor

\* A new sequence starts from a cursor.
LEMMA BlankIsCursor == Blank \in Cursor /\ [Blank EXCEPT !.stage = 1] \in Cursor
<1>1. <<>> \in Seq(Cores) /\ Len(Halves) \in Nat /\ Len(Workloads) \in Nat /\ N \in Nat
  BY SizeAssumption, HalvesAssumption, WorkloadAssumption
<1>2. Blank \in Cursor
  BY <1>1 DEF Blank, Cursor
<1> QED
  BY <1>2 DEF Cursor

\* A sequence and what is appended to it.
LEMMA RangeOfBoth ==
  ASSUME NEW S, NEW a \in Seq(S), NEW b \in Seq(S)
  PROVE  /\ a \o b \in Seq(S) /\ (a # <<>> => a \o b # <<>>)
         /\ Range(a \o b) = Range(a) \union Range(b)
<1>1. a \o b \in Seq(S) /\ Len(a \o b) = Len(a) + Len(b) /\ Len(a) \in Nat /\ Len(b) \in Nat
  OBVIOUS
<1>2. /\ \A i \in 1..Len(a) : (a \o b)[i] = a[i]
      /\ \A i \in 1..Len(b) : (a \o b)[Len(a) + i] = b[i]
  OBVIOUS
<1>3. \A i \in 1..Len(a \o b) : i \in 1..Len(a) \/ i - Len(a) \in 1..Len(b)
  BY <1>1
<1>4. Range(a \o b) \subseteq Range(a) \union Range(b)
  <2> SUFFICES ASSUME NEW i \in 1..Len(a \o b)
               PROVE  (a \o b)[i] \in Range(a) \union Range(b)
    BY <1>1 DEF Range
  <2>1. CASE i \in 1..Len(a)
    BY <1>2, <2>1 DEF Range
  <2>2. CASE i - Len(a) \in 1..Len(b)
    <3>1. (a \o b)[i] = b[i - Len(a)]
      BY <1>1, <1>2, <2>2
    <3> QED
      BY <2>2, <3>1 DEF Range
  <2> QED
    BY <1>3, <2>1, <2>2
<1>5. Range(a) \subseteq Range(a \o b)
  <2> SUFFICES ASSUME NEW i \in 1..Len(a) PROVE a[i] \in Range(a \o b)
    BY DEF Range
  <2>1. i \in 1..Len(a \o b) /\ (a \o b)[i] = a[i]
    BY <1>1, <1>2
  <2> QED
    BY <1>1, <2>1 DEF Range
<1>6. Range(b) \subseteq Range(a \o b)
  <2> SUFFICES ASSUME NEW i \in 1..Len(b) PROVE b[i] \in Range(a \o b)
    BY SMTT(60) DEF Range
  <2>1. Len(a) + i \in 1..Len(a \o b) /\ (a \o b)[Len(a) + i] = b[i]
    BY <1>1, <1>2
  <2> QED
    BY <1>1, <2>1 DEF Range
<1>7. a # <<>> => a \o b # <<>>
  BY <1>1
<1> QED
  BY <1>1, <1>4, <1>5, <1>6, <1>7

\* The slot of a cursor: alone, or all the cores, or a half.
LEMMA SlotsOf ==
  ASSUME NEW p \in Cursor, SlotAt(p) # Nothing
  PROVE  \/ p.stage \in {1, 5} /\ p.index < N /\ SlotAt(p) = Solo(p.stage, p.index + 1)
            /\ (p.stage = 5 => config.spectrum)
         \/ p.stage = 3 /\ p.half < Len(Halves)
            /\ SlotAt(p) = [key |-> <<3, p.half + 1>>, cores |-> Halves[p.half + 1]]
         \/ p.stage \in {2, 4, 6, 7} /\ SlotAt(p) = Together(p.stage)
            /\ (p.stage = 4 => config.transitions) /\ (p.stage = 6 => config.memory)
            /\ (p.stage = 7 => config.soak /\ ~p.dirty)
         \/ p.stage = 9 /\ p.work < Len(Workloads) /\ p.lane < N /\ SlotAt(p) = Solo(9, p.lane + 1)
         \/ p.stage = 9 /\ p.work < Len(Workloads) /\ p.lane = N /\ SlotAt(p) = Together(9)
BY CursorParts DEF SlotAt

\* The cursor that validation is entered at.
LEMMA EntryFacts ==
  ASSUME pos \in Cursor, row \in Cursor
  PROVE  /\ EntryCursor \in Cursor /\ EntryCursor.stage \in (1..6) \union {9}
         /\ row.stage = 0 => EntryCursor = [Blank EXCEPT !.stage = 1]
         /\ row.stage > 0 =>
              /\ EntryCursor.stage = (IF row.stage = 9 THEN 9 ELSE IF row.stage > 6 THEN 6 ELSE row.stage)
              /\ EntryCursor.index = row.index /\ EntryCursor.half = row.half
              /\ EntryCursor.work = row.work /\ EntryCursor.lane = row.lane
              /\ EntryCursor.dirty = (pos.dirty \/ row.dirty)
              /\ row.requeue # <<>> => EntryCursor.requeue # <<>>
              /\ Range(row.requeue) \subseteq Range(EntryCursor.requeue)
              /\ EntryCursor.stage >= 2 =>
                   \A c \in Cores : c \in Range(EntryCursor.requeue) \/ depth[c] \in soloLog[c]
<1> DEFINE entered == IF row.stage = 9 THEN 9 ELSE IF row.stage > 6 THEN 6 ELSE row.stage
           queued == Range(row.requeue)
           owing == {c \in Cores \ queued : entered >= 2 /\ depth[c] \notin soloLog[c]}
           inOrder == CHOOSE s \in [1..Cardinality(owing) -> owing] :
                        \A i, j \in DOMAIN s : i < j => s[i] < s[j]
<1>0. /\ row.stage \in 0..9 /\ row.requeue \in Seq(Cores)
      /\ pos.dirty \in BOOLEAN /\ row.dirty \in BOOLEAN
  BY CursorParts
<1>1. CASE row.stage = 0
  <2>1. EntryCursor = [Blank EXCEPT !.stage = 1]
    BY <1>1 DEF EntryCursor
  <2> QED
    BY <1>1, <2>1, BlankIsCursor DEF Blank
<1>2. CASE row.stage > 0
  <2>1. EntryCursor = [row EXCEPT !.stage = entered, !.dirty = pos.dirty \/ row.dirty,
                                  !.requeue = row.requeue \o inOrder]
    <3>1. row.stage # 0
      BY <1>2
    <3> QED
      BY <3>1, Zenon DEF EntryCursor
  <2>2. inOrder \in [1..Cardinality(owing) -> owing] /\ Ascending(inOrder)
    <3>1. \E s \in [1..Cardinality(owing) -> owing] : Ascending(s)
      <4>1. owing \in SUBSET Cores
        OBVIOUS
      <4> HIDE DEF owing
      <4> QED
        BY <4>1, ListingExists
    <3> HIDE DEF owing
    <3> QED
      BY <3>1 DEF Ascending
  <2>3. Range(inOrder) = owing
    <3>1. owing \in SUBSET Cores
      OBVIOUS
    <3> HIDE DEF owing, inOrder
    <3> QED
      BY <2>2, <3>1, ListingIsWhole
  <2>4. Cardinality(owing) \in Nat /\ owing \subseteq Cores
    BY FiniteUpTo, SizeAssumption DEF Cores
  <2> HIDE DEF owing, inOrder
  <2>5. inOrder \in Seq(Cores) /\ row.requeue \in Seq(Cores)
    BY <1>0, <2>2, <2>4
  <2> DEFINE q == row.requeue \o inOrder
  <2>6. /\ q \in Seq(Cores) /\ (row.requeue # <<>> => q # <<>>)
        /\ Range(row.requeue) \subseteq Range(q) /\ Range(inOrder) \subseteq Range(q)
    BY <2>5, RangeOfBoth
  <2>7. entered \in (1..6) \union {9} /\ (pos.dirty \/ row.dirty) \in BOOLEAN
    BY <1>0, <1>2
  <2> HIDE DEF q, entered
  <2>8. /\ EntryCursor \in Cursor /\ EntryCursor.stage = entered /\ EntryCursor.requeue = q
        /\ EntryCursor.dirty = (pos.dirty \/ row.dirty)
        /\ EntryCursor.index = row.index /\ EntryCursor.half = row.half
        /\ EntryCursor.work = row.work /\ EntryCursor.lane = row.lane
    <3>1. EntryCursor = [row EXCEPT !.stage = entered, !.dirty = pos.dirty \/ row.dirty,
                                    !.requeue = q]
      BY <2>1 DEF q
    <3>2. entered \in 0..9
      BY <2>7
    <3> QED
      BY <2>6, <2>7, <3>1, <3>2 DEF Cursor
  <2>9. entered >= 2 => \A c \in Cores : c \in Range(q) \/ depth[c] \in soloLog[c]
    BY <2>3, <2>6 DEF owing
  <2> QED
    BY <1>2, <2>6, <2>7, <2>8, <2>9 DEF entered
<1>3. row.stage = 0 \/ row.stage > 0
  BY <1>0
<1> QED
  BY <1>1, <1>2, <1>3

-----------------------------------------------------------------------------
(* Layer one: the dispatcher *)

RunType == [solo : BOOLEAN, soaking : BOOLEAN, owned : BOOLEAN,
            thermals : 0..MaxThermals, faults : 0..MaxFaults]
Statuses == {"validating", "running"} \union Dormant

\* The type invariant, but for what an action leaves alone.
LEMMA TypesStay ==
  ASSUME TypeOK, Token', config' = config,
         depth' \in [Cores -> Depths], search' \in [Cores -> {"confirmed", "demoted", "annealing"}],
         pos' \in Cursor, row' \in Cursor, run' \in RunType, incidents' \in 0..MaxIncidents,
         soloLog' \in [Cores -> SUBSET Depths], proven' \in [Cores -> SUBSET Depths],
         status' \in Statuses, machine' \in {"up", "killed", "loaded", "idle"},
         disruptions' \in 0..MaxDisruptions,
         taint' \subseteq {"backoff", "demotion", "event", "torn"}, early' \subseteq Cores
  PROVE  TypeOK'
<1>1. calls' \in [Kinds -> 0..2]
  BY DEF Token
<1>2. config' \in Options
  BY DEF TypeOK
<1> QED
  BY <1>1, <1>2, Zenon DEF TypeOK, RunType, Statuses

\* The types, as the lemmas above ask for them.
LEMMA TypesAre ==
  ASSUME TypeOK
  PROVE  /\ config \in Options
         /\ depth \in [Cores -> Depths] /\ search \in [Cores -> {"confirmed", "demoted", "annealing"}]
         /\ pos \in Cursor /\ row \in Cursor /\ run \in RunType /\ incidents \in 0..MaxIncidents
         /\ soloLog \in [Cores -> SUBSET Depths] /\ proven \in [Cores -> SUBSET Depths]
         /\ status \in Statuses /\ machine \in {"up", "killed", "loaded", "idle"}
         /\ disruptions \in 0..MaxDisruptions
         /\ taint \subseteq {"backoff", "demotion", "event", "torn"} /\ early \subseteq Cores
BY Zenon DEF TypeOK, RunType, Statuses

\* A slot or a re-test is launched, or a refused write pauses the session.
LEMMA LaunchKeeps ==
  ASSUME Inv, NEW k \in Kinds, NEW slot, NEW solo \in BOOLEAN, Launch(k, slot, solo),
         solo => pos.requeue # <<>> /\ slot = Retest(pos) /\ ~run.soaking,
         ~solo => pos.requeue = <<>> /\ slot = SlotAt(pos) /\ slot # Nothing,
         slot.key[1] = 7 => pos.stage = 7 /\ config.soak /\ ~pos.dirty /\ ~solo
  PROVE  Inv'
<1>1. TypeOK /\ Token /\ Saved /\ Validating
  BY DEF Inv, Flow
<1>2. /\ status = "validating" /\ Fire(k, {}) /\ config' = config /\ pos' = pos /\ row' = row
      /\ depth' = depth /\ search' = search /\ machine' = machine /\ soloLog' = soloLog
      /\ proven' = proven /\ taint' = taint /\ early' = early /\ incidents' = incidents
  BY DEF Launch, database, history
<1>3. Up /\ Up' /\ workers = <<>> /\ calls' \in [Kinds -> {0, 1}] /\ Pending' = {}
  <2>1. Up /\ workers = <<>> /\ calls' \in [Kinds -> {0, 1}] /\ Pending' = {}
    BY <1>1, <1>2, FireMakes
  <2> QED
    BY <1>2, <2>1 DEF Up
<1>4. pos.stage > 0 /\ AllConfirmed /\ Soaks
  BY <1>1, <1>2, <1>3 DEF Validating
<1>5. run \in RunType /\ run.soaking \in BOOLEAN /\ disruptions \in 0..MaxDisruptions
  BY <1>1, TypesAre DEF RunType
<1>6. Saved'
  BY <1>1, <1>2 DEF Saved
<1>7. CASE /\ workers' = Append(workers, slot)
           /\ run' = [run EXCEPT !.solo = solo, !.owned = TRUE, !.soaking = @ \/ slot.key[1] = 7]
           /\ UNCHANGED <<status, disruptions>>
  <2>1. workers' = <<slot>> /\ workers'[1] = slot /\ workers' # <<>>
    BY <1>3, <1>7
  <2>2. /\ run' \in RunType /\ run'.solo = solo
        /\ run'.soaking = (run.soaking \/ slot.key[1] = 7)
    <3>1. (run.soaking \/ slot.key[1] = 7) \in BOOLEAN
      OBVIOUS
    <3> QED
      BY <1>5, <1>7, <3>1 DEF RunType
  <2>3. Token'
    BY <1>3, <2>1 DEF Token
  <2>4. TypeOK'
    <3>1. status' \in Statuses /\ disruptions' \in 0..MaxDisruptions
      BY <1>1, <1>7, TypesAre
    <3> QED
      BY <1>1, <1>2, <2>2, <2>3, <3>1, TypesAre, TypesStay, Zenon
  <2>5. Soaks'
    BY <1>2, <1>4, <2>2 DEF Soaks
  <2>6. AllConfirmed' /\ pos'.stage > 0 /\ status' = "validating"
    BY <1>2, <1>4, <1>7 DEF AllConfirmed
  <2>7. Searching' /\ Validating'
    BY <1>3, <2>5, <2>6 DEF Searching, Validating
  <2>8. /\ solo => pos'.requeue # <<>> /\ slot = Retest(pos')
        /\ ~solo => pos'.requeue = <<>> /\ slot = SlotAt(pos)' /\ slot # Nothing
    BY <1>2 DEF SlotAt
  <2>9. Working'
    <3>1. /\ run'.solo => pos'.requeue # <<>> /\ workers'[1] = Retest(pos')
          /\ ~run'.solo => pos'.requeue = <<>> /\ workers'[1] = SlotAt(pos)' /\ SlotAt(pos)' # Nothing
      BY <2>1, <2>2, <2>8
    <3>2. status' # "running"
      BY <2>6
    <3> QED
      BY <2>5, <2>6, <3>1, <3>2, Zenon DEF Working, Retest
  <2> QED
    BY <1>6, <2>3, <2>4, <2>7, <2>9 DEF Inv, Flow
<1>8. CASE /\ Disrupt /\ status' = "paused" /\ run' = [run EXCEPT !.solo = solo]
           /\ UNCHANGED workers
  <2>1. workers' = <<>> /\ run' \in RunType /\ disruptions' \in 0..MaxDisruptions
    <3>1. run' \in RunType
      BY <1>5, <1>8 DEF RunType
    <3>2. disruptions' \in 0..MaxDisruptions
      BY <1>5, <1>8, SizeAssumption DEF Disrupt
    <3> QED
      BY <1>3, <1>8, <3>1, <3>2
  <2>2. Token'
    BY <1>3, <2>1 DEF Token
  <2>3. TypeOK'
    <3>1. status' \in Statuses
      BY <1>8 DEF Statuses, Dormant
    <3> QED
      BY <1>1, <1>2, <2>1, <2>2, <3>1, TypesAre, TypesStay, Zenon
  <2>4. Searching' /\ Validating' /\ Working'
    BY <1>8, <2>1 DEF Searching, Validating, Working
  <2> QED
    BY <1>6, <2>2, <2>3, <2>4 DEF Inv, Flow
<1> QED
  BY <1>7, <1>8, Zenon DEF Launch

\* The next slot starts.
LEMMA StartSlotKeeps == ASSUME Inv, StartSlot PROVE Inv'
<1>1. Launch("next", SlotAt(pos), run.solo) /\ SlotAt(pos) # Nothing
  BY DEF StartSlot
<1>2. "next" \in Kinds /\ "next" \in Pending /\ Up /\ status = "validating"
  BY <1>1 DEF Launch, Fire, Pending, Kinds
<1>3. ~run.solo /\ pos.requeue = <<>> /\ pos \in Cursor /\ run.solo = FALSE
  <2>1. run \in RunType /\ pos \in Cursor
    BY TypesAre DEF Inv
  <2> QED
    BY <1>2, <2>1 DEF Inv, Flow, Validating, RunType
<1>4. SlotAt(pos).key[1] = 7 => pos.stage = 7 /\ config.soak /\ ~pos.dirty
  BY <1>1, <1>3, SlotsOf DEF Solo, Together
<1> QED
  BY <1>1, <1>2, <1>3, <1>4, LaunchKeeps

\* The re-test of the head of the requeue starts.
LEMMA StartRetestKeeps == ASSUME Inv, StartRetest PROVE Inv'
<1>1. Launch("requeue", Retest(pos), TRUE) /\ pos.requeue # <<>>
  BY DEF StartRetest
<1>2. "requeue" \in Kinds /\ "requeue" \in Pending /\ Up /\ status = "validating"
  BY <1>1 DEF Launch, Fire, Pending, Kinds
<1>3. ~run.soaking
  BY <1>2 DEF Inv, Flow, Validating
<1>4. Retest(pos).key[1] # 7
  BY DEF Retest, Solo
<1> QED
  BY <1>1, <1>2, <1>3, <1>4, LaunchKeeps

\* No worker is out, and the session has stopped.
LEMMA StopKeeps ==
  ASSUME TypeOK', Token', Saved', workers' = <<>>, status' \in Dormant
  PROVE  Inv'
<1>1. status' # "running" /\ status' # "validating"
  BY DEF Dormant
<1> QED
  BY <1>1 DEF Inv, Flow, Searching, Validating, Working

\* No worker is out, and the search goes on.
LEMMA SearchKeeps ==
  ASSUME TypeOK', Token', Saved', workers' = <<>>, status' = "running", pos'.stage = 0,
         Pending' \subseteq {"search"}, ~run'.soaking,
         run'.solo => row'.stage > 0 /\ row'.requeue # <<>>
  PROVE  Inv'
BY DEF Inv, Flow, Searching, Validating, Working

\* No worker is out, and the dispatcher is due.
LEMMA DueKeeps ==
  ASSUME TypeOK', Token', Saved', workers' = <<>>, status' = "validating",
         pos'.stage > 0, AllConfirmed', Soaks', "search" \notin Pending',
         "next" \in Pending' \/ "next_later" \in Pending' => ~run'.solo /\ pos'.requeue = <<>>,
         "requeue" \in Pending' \/ "requeue_later" \in Pending' => ~run'.soaking
  PROVE  Inv'
<1>1. status' # "running"
  OBVIOUS
<1> QED
  BY <1>1 DEF Inv, Flow, Searching, Validating, Working

\* A dispatcher call leaves the next one due.
LEMMA NextKeeps ==
  ASSUME Inv, NEW k \in Kinds, Fire(k, {"next"}),
         status' = "validating", pos' \in Cursor, pos'.stage > 0, pos'.requeue = <<>>, row' = pos',
         run' \in RunType, ~run'.solo, ~run'.soaking, AllConfirmed,
         incidents' \in 0..MaxIncidents, taint' \subseteq {"backoff", "demotion", "event", "torn"},
         UNCHANGED <<config, depth, search, soloLog, workers, machine, disruptions, proven, early>>
  PROVE  Inv'
<1>1. TypeOK /\ Token
  BY DEF Inv
<1>2. workers = <<>> /\ calls' \in [Kinds -> {0, 1}] /\ Pending' = {"next"} /\ Up
  <2>1. {"next"} \in SUBSET Kinds
    BY DEF Kinds
  <2> QED
    BY <1>1, <2>1, FireMakes
<1>3. Token' /\ workers' = <<>>
  <2>1. Up' /\ workers' = <<>>
    BY <1>2 DEF Up
  <2> QED
    BY <1>2, <2>1 DEF Token
<1>4. TypeOK'
  <2>1. status' \in Statuses
    BY DEF Statuses
  <2> QED
    BY <1>1, <1>3, <2>1, TypesAre, TypesStay, Zenon
<1>5. Saved' /\ AllConfirmed' /\ Soaks'
  BY DEF Saved, AllConfirmed, Soaks
<1> QED
  BY <1>2, <1>3, <1>4, <1>5, DueKeeps

\* What holds when a call of the dispatcher fires while validation goes on.
LEMMA DueMeans ==
  ASSUME Inv, NEW k \in Kinds, NEW made \in SUBSET Kinds, Fire(k, made)
  PROVE  /\ Up /\ Token /\ k \in Pending
         /\ status = "validating" => pos.stage > 0 /\ AllConfirmed /\ Soaks /\ k # "search"
         /\ status = "running" => k = "search" /\ ~run.soaking
         /\ status = "validating" /\ k \in {"next", "next_later"} => ~run.solo /\ pos.requeue = <<>>
         /\ status = "validating" /\ k \in {"requeue", "requeue_later"} => ~run.soaking
<1>1. Up /\ k \in Pending /\ Token
  BY DEF Inv, Fire, Pending
<1> QED
  BY <1>1 DEF Inv, Flow, Searching, Validating

\* The requeue is empty: the re-tests are over.
LEMMA RequeueDrainedKeeps == ASSUME Inv, RequeueDrained PROVE Inv'
<1>1. /\ Fire("requeue", {"next"}) /\ status = "validating" /\ pos.requeue = <<>>
      /\ run' = [run EXCEPT !.solo = FALSE] /\ row' = pos /\ pos' = pos /\ status' = status
      /\ incidents' = incidents /\ taint' = taint
      /\ UNCHANGED <<config, depth, search, soloLog, workers, machine, disruptions, proven, early>>
  BY DEF RequeueDrained, history
<1>2. "requeue" \in Kinds /\ {"next"} \in SUBSET Kinds
  BY DEF Kinds
<1>3. pos.stage > 0 /\ AllConfirmed /\ ~run.soaking
  BY <1>1, <1>2, DueMeans
<1>4. /\ run \in RunType /\ pos \in Cursor /\ incidents \in 0..MaxIncidents
      /\ taint \subseteq {"backoff", "demotion", "event", "torn"}
  BY TypesAre DEF Inv
<1>5. run' \in RunType /\ ~run'.solo /\ ~run'.soaking
  BY <1>1, <1>3, <1>4 DEF RunType
<1> QED
  BY <1>1, <1>2, <1>3, <1>4, <1>5, NextKeeps

\* While the soak is on, its slot is the one at the cursor.
LEMMA SoakHasSlot ==
  ASSUME pos \in Cursor, Soaks, run.soaking
  PROVE  SlotAt(pos) # Nothing
<1>1. pos.stage = 7 /\ config.soak /\ ~pos.dirty
  BY DEF Soaks
<1>2. SlotAt(pos) = Together(7)
  BY <1>1 DEF SlotAt
<1> QED
  BY <1>2 DEF Together, Nothing

\* A cursor that moves to a stage.
LEMMA CursorMoved ==
  ASSUME NEW p \in Cursor, NEW s \in 0..9, NEW i \in 0..N
  PROVE  LET q == [p EXCEPT !.stage = s, !.index = i]
         IN  q \in Cursor /\ q.stage = s /\ q.requeue = p.requeue
BY DEF Cursor

\* A cursor that starts over.
LEMMA CursorRestarted ==
  ASSUME NEW p \in Cursor, NEW s \in 0..9, NEW d \in BOOLEAN
  PROVE  LET q == [p EXCEPT !.stage = s, !.index = 0, !.half = 0, !.dirty = d, !.requeue = <<>>]
         IN  q \in Cursor /\ q.stage = s /\ q.requeue = <<>> /\ q.dirty = d
<1>1. <<>> \in Seq(Cores) /\ 0 \in 0..N /\ 0 \in 0..Len(Halves)
  BY SizeAssumption, HalvesAssumption
<1> QED
  BY <1>1 DEF Cursor

\* A stage without a slot hands over.
LEMMA NextStageKeeps == ASSUME Inv, NextStage PROVE Inv'
<1>1. /\ Fire("next", {"next"}) /\ status = "validating" /\ SlotAt(pos) = Nothing
      /\ run' = run /\ status' = status /\ incidents' = incidents /\ taint' = taint
      /\ UNCHANGED <<config, depth, search, soloLog, workers, machine, disruptions, proven, early>>
  BY DEF NextStage, history
<1>2. "next" \in Kinds /\ {"next"} \in SUBSET Kinds
  BY DEF Kinds
<1>3. pos.stage > 0 /\ AllConfirmed /\ Soaks /\ ~run.solo /\ pos.requeue = <<>>
  BY <1>1, <1>2, DueMeans
<1>4. /\ run \in RunType /\ pos \in Cursor /\ incidents \in 0..MaxIncidents
      /\ taint \subseteq {"backoff", "demotion", "event", "torn"}
  BY TypesAre DEF Inv
<1>5. ~run.soaking
  BY <1>1, <1>3, <1>4, SoakHasSlot
<1>6. pos' \in Cursor /\ pos'.stage > 0 /\ pos'.requeue = <<>> /\ row' = pos'
  <2>0. /\ pos.stage \in 0..9 /\ pos.index \in 0..N /\ pos.work \in 0..Len(Workloads)
        /\ Len(Workloads) \in Nat /\ N \in Nat
    BY <1>4, CursorParts, SizeAssumption, WorkloadAssumption
  <2>1. CASE pos.stage \in {1, 3, 6, 7} /\ MoveTo([pos EXCEPT !.stage = @ + 1])
    <3>1. pos.stage + 1 \in 0..9 /\ pos.stage + 1 > 0
      BY <2>1
    <3> QED
      BY <1>3, <1>4, <2>1, <3>1 DEF MoveTo, Cursor
  <2>2. CASE pos.stage = 4 /\ MoveTo([pos EXCEPT !.stage = 5, !.index = 0])
    <3>1. 5 \in 0..9 /\ 0 \in 0..N
      BY <2>0
    <3> DEFINE q == [pos EXCEPT !.stage = 5, !.index = 0]
    <3>2. q \in Cursor /\ q.stage = 5 /\ q.requeue = pos.requeue
      BY <1>4, <3>1, CursorMoved, ZenonT(60)
    <3>3. pos' = q /\ row' = q
      BY <2>2 DEF MoveTo
    <3> HIDE DEF q
    <3> QED
      BY <1>3, <3>2, <3>3
  <2>3. CASE pos.stage = 5 /\ MoveTo([pos EXCEPT !.stage = 6, !.index = IF config.spectrum THEN 0 ELSE @])
    <3> DEFINE i == IF config.spectrum THEN 0 ELSE pos.index
               q == [pos EXCEPT !.stage = 6, !.index = i]
    <3>1. i \in 0..N /\ 6 \in 0..9
      BY <2>0
    <3> HIDE DEF i
    <3>2. q \in Cursor /\ q.stage = 6 /\ q.requeue = pos.requeue
      BY <1>4, <3>1, CursorMoved, ZenonT(60)
    <3>3. pos' = q /\ row' = q
      BY <2>3 DEF MoveTo, i
    <3> HIDE DEF q
    <3> QED
      BY <1>3, <3>2, <3>3
  <2>4. CASE pos.stage = 9 /\ pos.work < Len(Workloads) /\ MoveTo([pos EXCEPT !.work = @ + 1, !.lane = 0])
    <3>1. pos.work + 1 \in 0..Len(Workloads) /\ 0 \in 0..N + 1
      BY <2>0, <2>4
    <3> QED
      BY <1>3, <1>4, <2>4, <3>1 DEF MoveTo, Cursor
  <2> QED
    BY <2>1, <2>2, <2>3, <2>4, Zenon DEF NextStage
<1> QED
  BY <1>1, <1>2, <1>3, <1>4, <1>5, <1>6, NextKeeps

\* An offset moved: the stages start again.
LEMMA FreshPassKeeps == ASSUME Inv, FreshPass PROVE Inv'
<1>1. /\ Fire("next", {"next"}) /\ status \in {"validating", "running"} /\ pos.stage \in {0, 8}
      /\ MoveTo([pos EXCEPT !.stage = 1, !.index = 0, !.half = 0, !.dirty = FALSE, !.requeue = <<>>])
      /\ NewPass /\ run' = run /\ status' = status /\ incidents' = incidents
      /\ UNCHANGED <<config, depth, search, soloLog, workers, machine, disruptions, proven, early>>
  BY DEF FreshPass
<1>2. "next" \in Kinds /\ {"next"} \in SUBSET Kinds /\ "next" # "search"
  BY DEF Kinds
<1>3. status = "validating" /\ AllConfirmed /\ Soaks /\ ~run.solo
  BY <1>1, <1>2, DueMeans
<1>4. run \in RunType /\ pos \in Cursor /\ incidents \in 0..MaxIncidents
  BY TypesAre DEF Inv
<1>5. ~run.soaking
  BY <1>1, <1>3 DEF Soaks
<1>6. pos' \in Cursor /\ pos'.stage > 0 /\ pos'.requeue = <<>> /\ row' = pos'
  <2>1. 1 \in 0..9 /\ FALSE \in BOOLEAN
    OBVIOUS
  <2> DEFINE q == [pos EXCEPT !.stage = 1, !.index = 0, !.half = 0, !.dirty = FALSE, !.requeue = <<>>]
  <2>2. q \in Cursor /\ q.stage = 1 /\ q.requeue = <<>> /\ q.dirty = FALSE
    BY <1>4, <2>1, CursorRestarted, ZenonT(60)
  <2>3. pos' = q /\ row' = q
    BY <1>1 DEF MoveTo
  <2> HIDE DEF q
  <2> QED
    BY <2>2, <2>3
<1>7. taint' \subseteq {"backoff", "demotion", "event", "torn"} /\ status' = "validating"
  BY <1>1, <1>3 DEF NewPass
<1> QED
  BY <1>1, <1>2, <1>3, <1>4, <1>5, <1>6, <1>7, NextKeeps

\* The pass was clean: endurance starts, or the session is completed.
LEMMA ConcludeKeeps == ASSUME Inv, Conclude PROVE Inv'
<1>1. /\ status \in {"validating", "running"} /\ pos.stage \in {0, 8}
      /\ run' = run
      /\ UNCHANGED <<config, depth, search, soloLog, workers, machine, disruptions, proven, early, taint>>
  BY DEF Conclude, history
<1>2. "next" \in Kinds /\ {"next"} \in SUBSET Kinds /\ {} \in SUBSET Kinds /\ "next" # "search"
  BY DEF Kinds
<1>3. /\ run \in RunType /\ pos \in Cursor /\ incidents \in 0..MaxIncidents
      /\ taint \subseteq {"backoff", "demotion", "event", "torn"} /\ TypeOK /\ 0 \in 0..MaxIncidents
  BY TypesAre, BreakerAssumption DEF Inv
<1>4. CASE /\ Fire("next", {"next"})
           /\ MoveTo([pos EXCEPT !.stage = 9, !.index = 0, !.half = 0, !.work = 0, !.lane = 0])
           /\ incidents' = 0 /\ UNCHANGED status
  <2>1. status = "validating" /\ AllConfirmed /\ Soaks /\ ~run.solo /\ pos.requeue = <<>>
    BY <1>1, <1>2, <1>4, DueMeans
  <2>2. ~run.soaking
    BY <1>1, <2>1 DEF Soaks
  <2> DEFINE q == [pos EXCEPT !.stage = 9, !.index = 0, !.half = 0, !.work = 0, !.lane = 0]
  <2>3. q \in Cursor /\ q.stage = 9 /\ q.requeue = pos.requeue
    <3>1. 9 \in 0..9 /\ 0 \in 0..N /\ 0 \in 0..Len(Halves) /\ 0 \in 0..Len(Workloads) /\ 0 \in 0..N + 1
      BY SizeAssumption, HalvesAssumption, WorkloadAssumption
    <3> QED
      BY <1>3, <3>1 DEF Cursor
  <2>4. pos' = q /\ row' = q
    BY <1>4 DEF MoveTo
  <2> HIDE DEF q
  <2>5. /\ pos' \in Cursor /\ pos'.stage > 0 /\ pos'.requeue = <<>> /\ row' = pos'
        /\ status' = "validating" /\ run' \in RunType /\ ~run'.solo /\ ~run'.soaking
        /\ incidents' \in 0..MaxIncidents /\ taint' \subseteq {"backoff", "demotion", "event", "torn"}
    BY <1>1, <1>3, <1>4, <2>1, <2>2, <2>3, <2>4
  <2> QED
    BY <1>1, <1>2, <1>4, <2>1, <2>5, NextKeeps
<1>5. CASE Fire("next", {}) /\ Finalize
  <2> DEFINE q == [pos EXCEPT !.stage = 0, !.requeue = <<>>, !.index = 0, !.half = 0]
  <2>1. q \in Cursor
    <3>1. 0 \in 0..9 /\ 0 \in 0..N /\ 0 \in 0..Len(Halves) /\ <<>> \in Seq(Cores)
      BY SizeAssumption, HalvesAssumption
    <3> QED
      BY <1>3, <3>1 DEF Cursor
  <2>2. pos' = q /\ row' = q /\ status' = "completed" /\ incidents' = 0
    BY <1>5 DEF Finalize, MoveTo
  <2> HIDE DEF q
  <2>3. Up /\ workers = <<>> /\ calls' \in [Kinds -> {0, 1}] /\ Pending' = {}
    BY <1>2, <1>5, FireMakes DEF Inv
  <2>4. Token' /\ workers' = <<>>
    <3>1. Up' /\ workers' = <<>>
      BY <1>1, <2>3 DEF Up
    <3> QED
      BY <2>3, <3>1 DEF Token
  <2>5. status' \in Statuses /\ status' \in Dormant
    BY <2>2 DEF Statuses, Dormant
  <2>6. TypeOK'
    BY <1>1, <1>3, <2>1, <2>2, <2>4, <2>5, TypesAre, TypesStay, Zenon
  <2>7. Saved'
    BY <2>2 DEF Saved
  <2> QED
    BY <2>4, <2>5, <2>6, <2>7, StopKeeps
<1> QED
  BY <1>4, <1>5, Zenon DEF Conclude

\* An endurance round is over.
LEMMA FinishRoundKeeps == ASSUME Inv, FinishRound PROVE Inv'
<1> DEFINE p == [pos EXCEPT !.dirty = FALSE, !.work = 0, !.lane = 0]
<1>1. /\ status = "validating" /\ pos.stage = 9 /\ row' = p
      /\ incidents' = IF pos.dirty THEN incidents ELSE 0
      /\ run' = run
      /\ UNCHANGED <<config, depth, soloLog, workers, machine, disruptions, proven, early, taint>>
  BY DEF FinishRound, history
<1>2. /\ "next" \in Kinds /\ {"next"} \in SUBSET Kinds /\ {"search"} \in SUBSET Kinds
  BY DEF Kinds
<1>3. /\ run \in RunType /\ pos \in Cursor /\ incidents' \in 0..MaxIncidents
      /\ taint \subseteq {"backoff", "demotion", "event", "torn"} /\ TypeOK
  BY <1>1, TypesAre, BreakerAssumption DEF Inv
<1>4. /\ p \in Cursor /\ p.stage = 9 /\ p.requeue = pos.requeue
      /\ [p EXCEPT !.stage = 0] \in Cursor /\ [p EXCEPT !.stage = 0].stage = 0
  <2>1. 0 \in 0..9 /\ 0 \in 0..Len(Workloads) /\ 0 \in 0..N + 1 /\ FALSE \in BOOLEAN
    BY SizeAssumption, WorkloadAssumption
  <2>2. p \in Cursor /\ p.stage = 9 /\ p.requeue = pos.requeue
    BY <1>1, <1>3, <2>1 DEF Cursor
  <2> HIDE DEF p
  <2> QED
    BY <2>1, <2>2 DEF Cursor
<1> HIDE DEF p
<1>5. CASE pos' = p /\ Fire("next", {"next"}) /\ UNCHANGED <<search, status>>
  <2>1. AllConfirmed /\ Soaks /\ ~run.solo /\ pos.requeue = <<>>
    BY <1>1, <1>2, <1>5, DueMeans
  <2>2. ~run.soaking
    BY <1>1, <2>1 DEF Soaks
  <2>3. /\ pos' \in Cursor /\ pos'.stage > 0 /\ pos'.requeue = <<>> /\ row' = pos'
        /\ status' = "validating" /\ run' \in RunType /\ ~run'.solo /\ ~run'.soaking
        /\ taint' \subseteq {"backoff", "demotion", "event", "torn"}
    BY <1>1, <1>3, <1>4, <1>5, <2>1, <2>2
  <2> QED
    BY <1>1, <1>2, <1>3, <1>5, <2>1, <2>3, NextKeeps
<1>6. CASE \E c \in Cores :
             /\ depth[c] < Depth /\ search[c] = "confirmed"
             /\ search' = [search EXCEPT ![c] = "annealing"]
             /\ pos' = [p EXCEPT !.stage = 0]
             /\ status' = "running"
             /\ Fire("next", {"search"})
  <2>1. /\ pos' = [p EXCEPT !.stage = 0] /\ status' = "running" /\ Fire("next", {"search"})
        /\ search' \in [Cores -> {"confirmed", "demoted", "annealing"}]
    <3>1. search \in [Cores -> {"confirmed", "demoted", "annealing"}]
      BY <1>3, TypesAre
    <3> QED
      BY <1>6, <3>1
  <2>2. Soaks /\ ~run.solo
    BY <1>1, <1>2, <2>1, DueMeans
  <2>3. ~run'.soaking /\ ~run'.solo
    BY <1>1, <2>2 DEF Soaks
  <2>4. workers = <<>> /\ calls' \in [Kinds -> {0, 1}] /\ Pending' = {"search"} /\ Up
    BY <1>2, <2>1, FireMakes DEF Inv
  <2>5. Token' /\ workers' = <<>>
    <3>1. Up' /\ workers' = <<>>
      BY <1>1, <2>4 DEF Up
    <3> QED
      BY <2>4, <3>1 DEF Token
  <2>6. TypeOK'
    <3>1. status' \in Statuses /\ pos' \in Cursor /\ row' \in Cursor
      BY <1>1, <1>4, <2>1 DEF Statuses
    <3> QED
      BY <1>1, <1>3, <2>1, <2>5, <3>1, TypesAre, TypesStay, Zenon
  <2>7. Saved'
    BY <1>4, <2>1 DEF Saved
  <2> QED
    BY <2>1, <2>3, <2>4, <2>5, <2>6, <2>7, SearchKeeps
<1> QED
  BY <1>5, <1>6, Zenon DEF FinishRound, p

\* The search has every confirmation back.
LEMMA ReearnKeeps == ASSUME Inv, Reearn PROVE Inv'
<1>1. /\ status = "running" /\ Fire("search", {"search"})
      /\ depth' \in [Cores -> Depths] /\ search' = [c \in Cores |-> "confirmed"]
      /\ run' = run /\ pos' = pos /\ row' = row /\ status' = status /\ incidents' = incidents
      /\ UNCHANGED <<config, soloLog, workers, machine, disruptions, proven, early, taint>>
  BY DEF Reearn, history
<1>2. "search" \in Kinds /\ {"search"} \in SUBSET Kinds
  BY DEF Kinds
<1>3. TypeOK /\ Saved /\ Searching /\ search' \in [Cores -> {"confirmed", "demoted", "annealing"}]
  BY <1>1 DEF Inv, Flow
<1>4. workers = <<>> /\ calls' \in [Kinds -> {0, 1}] /\ Pending' = {"search"} /\ Up
  BY <1>1, <1>2, FireMakes DEF Inv
<1>5. Token' /\ workers' = <<>>
  <2>1. Up' /\ workers' = <<>>
    BY <1>1, <1>4 DEF Up
  <2> QED
    BY <1>4, <2>1 DEF Token
<1>6. TypeOK'
  BY <1>1, <1>3, <1>5, TypesAre, TypesStay, Zenon
<1>7. Saved' /\ ~run'.soaking /\ (run'.solo => row'.stage > 0 /\ row'.requeue # <<>>) /\ status' = "running"
  BY <1>1, <1>3 DEF Saved, Searching
<1>8. pos'.stage = 0
  BY <1>1, <1>3 DEF Searching
<1> QED
  BY <1>4, <1>5, <1>6, <1>7, <1>8, SearchKeeps

\* What the entry call is.
LEMMA EntryCallIs ==
  ASSUME NEW p \in Cursor
  PROVE  /\ EntryCall(p) \in {"next", "requeue"} /\ EntryCall(p) \in Kinds
         /\ EntryCall(p) = "next" <=> p.requeue = <<>>
BY DEF EntryCall, Kinds

\* Validation is entered.
LEMMA CompleteKeeps == ASSUME Inv, Complete PROVE Inv'
<1>1. /\ status = "running" /\ AllConfirmed /\ Fire("search", {EntryCall(EntryCursor)})
      /\ EnterAt(EntryCursor) /\ run' = [run EXCEPT !.thermals = 0]
      /\ UNCHANGED <<config, depth, search, soloLog, workers, machine, disruptions, proven, early>>
  BY DEF Complete
<1>2. /\ TypeOK /\ Searching /\ pos \in Cursor /\ row \in Cursor /\ run \in RunType
      /\ incidents \in 0..MaxIncidents /\ taint \subseteq {"backoff", "demotion", "event", "torn"}
  BY TypesAre DEF Inv, Flow
<1> DEFINE e == EntryCursor
<1>3. /\ e \in Cursor /\ e.stage \in (1..6) \union {9}
      /\ row.stage > 0 /\ row.requeue # <<>> => e.requeue # <<>>
  <2>1. row.stage > 0 => (row.requeue # <<>> => e.requeue # <<>>)
    BY <1>2, EntryFacts
  <2>2. e \in Cursor /\ e.stage \in (1..6) \union {9}
    BY <1>2, EntryFacts
  <2> QED
    BY <2>1, <2>2
<1>4. /\ pos' = e /\ row' = e /\ status' = "validating" /\ incidents' \in 0..MaxIncidents
      /\ taint' \subseteq {"backoff", "demotion", "event", "torn"}
  <2>1. incidents' \in 0..MaxIncidents
    BY <1>1, <1>2, BreakerAssumption DEF EnterAt
  <2>2. taint' \subseteq {"backoff", "demotion", "event", "torn"}
    BY <1>1, <1>2 DEF EnterAt, NewPass
  <2> QED
    BY <1>1, <2>1, <2>2 DEF EnterAt, MoveTo
<1> HIDE DEF e
<1>5. /\ EntryCall(e) \in {"next", "requeue"} /\ EntryCall(e) \in Kinds
      /\ EntryCall(e) = "next" <=> e.requeue = <<>>
  BY <1>3, EntryCallIs
<1>6. ~run.soaking /\ (run.solo => e.requeue # <<>>)
  BY <1>1, <1>2, <1>3 DEF Searching
<1>7. run' \in RunType /\ run'.solo = run.solo /\ run'.soaking = run.soaking
  <2>1. 0 \in 0..MaxThermals
    BY BreakerAssumption
  <2> QED
    BY <1>1, <1>2, <2>1 DEF RunType
<1>8. workers = <<>> /\ calls' \in [Kinds -> {0, 1}] /\ Pending' = {EntryCall(e)} /\ Up
  <2>1. "search" \in Kinds /\ {EntryCall(e)} \in SUBSET Kinds /\ Fire("search", {EntryCall(e)})
    BY <1>1, <1>5 DEF Kinds, e
  <2> QED
    BY <2>1, FireMakes DEF Inv
<1>9. Token' /\ workers' = <<>>
  <2>1. Up' /\ workers' = <<>>
    BY <1>1, <1>8 DEF Up
  <2> QED
    BY <1>8, <2>1 DEF Token
<1>10. TypeOK'
  <2>1. status' \in Statuses /\ pos' \in Cursor /\ row' \in Cursor
    BY <1>3, <1>4 DEF Statuses
  <2> QED
    BY <1>1, <1>2, <1>4, <1>7, <1>9, <2>1, TypesAre, TypesStay, Zenon
<1>11. Saved' /\ AllConfirmed' /\ Soaks' /\ pos'.stage > 0
  BY <1>1, <1>3, <1>4, <1>6, <1>7 DEF Saved, AllConfirmed, Soaks
<1>12. "search" \notin Pending' /\ "next_later" \notin Pending' /\ "requeue_later" \notin Pending'
  BY <1>5, <1>8
<1>13. "next" \in Pending' => ~run'.solo /\ pos'.requeue = <<>>
  <2>1. "next" \in Pending' => e.requeue = <<>>
    BY <1>5, <1>8
  <2> QED
    BY <1>4, <1>6, <1>7, <2>1
<1> QED
  BY <1>4, <1>6, <1>7, <1>9, <1>10, <1>11, <1>12, <1>13, DueKeeps

\* A cooldown is over.
LEMMA CooldownOverKeeps == ASSUME Inv, CooldownOver PROVE Inv'
<1>1. /\ status \notin Dormant
      /\ UNCHANGED <<config, database, status, pos, run, workers, machine, disruptions, history>>
  BY DEF CooldownOver
<1>2. PICK k \in {"next", "requeue"}, l \in {"next_later", "requeue_later"} :
        /\ Fire(l, {k}) /\ (k = "next" <=> l = "next_later")
  BY DEF CooldownOver
<1>3. k \in Kinds /\ l \in Kinds /\ {k} \in SUBSET Kinds /\ l # "search"
  BY DEF Kinds, Later
<1>4. workers = <<>> /\ calls' \in [Kinds -> {0, 1}] /\ Pending' = {k} /\ Up
  BY <1>2, <1>3, FireMakes DEF Inv
<1>5. status = "validating" /\ TypeOK /\ Saved
  <2>1. status \in Statuses /\ status # "running" /\ TypeOK /\ Saved
    BY <1>2, <1>3, DueMeans, TypesAre DEF Inv, Flow
  <2> QED
    BY <1>1, <2>1 DEF Statuses
<1>6. /\ pos.stage > 0 /\ AllConfirmed /\ Soaks
      /\ k = "next" => ~run.solo /\ pos.requeue = <<>>
      /\ k = "requeue" => ~run.soaking
  BY <1>2, <1>3, <1>5, DueMeans
<1>7. Token' /\ workers' = <<>> /\ status' = "validating"
  <2>1. Up' /\ workers' = <<>> /\ status' = "validating"
    BY <1>1, <1>4, <1>5 DEF Up
  <2> QED
    BY <1>4, <2>1 DEF Token
<1>8. /\ depth' = depth /\ search' = search /\ row' = row /\ incidents' = incidents /\ soloLog' = soloLog
      /\ taint' = taint /\ early' = early /\ proven' = proven /\ pos' = pos /\ run' = run /\ config' = config
  BY <1>1 DEF database, history
<1>9. TypeOK'
  BY <1>1, <1>5, <1>7, <1>8, TypesAre, TypesStay, Zenon
<1>10. Saved' /\ AllConfirmed' /\ Soaks' /\ pos'.stage > 0
  BY <1>5, <1>6, <1>8 DEF Saved, AllConfirmed, Soaks
<1> QED
  BY <1>4, <1>6, <1>7, <1>8, <1>9, <1>10, DueKeeps

\* A call that finds the session stopped does nothing.
LEMMA DroppedKeeps == ASSUME Inv, Dropped PROVE Inv'
<1>1. /\ status \in Dormant
      /\ UNCHANGED <<config, database, status, pos, run, workers, machine, disruptions, history>>
  BY DEF Dropped
<1>2. PICK k \in Kinds : Fire(k, {})
  BY DEF Dropped
<1>3. workers = <<>> /\ calls' \in [Kinds -> {0, 1}] /\ Pending' = {} /\ Up
  BY <1>2, FireMakes DEF Inv
<1>4. Token' /\ workers' = <<>> /\ status' \in Dormant
  <2>1. workers' = <<>> /\ Up'
    BY <1>1, <1>3 DEF Up
  <2> QED
    BY <1>1, <1>3, <2>1 DEF Token
<1>5. TypeOK /\ Saved
  BY DEF Inv, Flow
<1>6. /\ depth' = depth /\ search' = search /\ row' = row /\ incidents' = incidents /\ soloLog' = soloLog
      /\ taint' = taint /\ early' = early /\ proven' = proven /\ pos' = pos /\ run' = run /\ config' = config
  BY <1>1 DEF database, history
<1>7. TypeOK'
  BY <1>1, <1>4, <1>5, <1>6, TypesAre, TypesStay, Zenon
<1>8. Saved'
  BY <1>5, <1>6 DEF Saved
<1> QED
  BY <1>4, <1>7, <1>8, StopKeeps

-----------------------------------------------------------------------------
(* Layer one: the verdicts *)

\* A penalty on the cores hit only moves depths down, and of a cursor only its
\* dirty flag, if that is due.
Demoted(hit, stage, due) ==
  /\ depth' \in [Cores -> Depths]
  /\ \A c \in Cores : c \notin hit => depth'[c] = depth[c]
  /\ search' \in [Cores -> {"confirmed", "demoted", "annealing"}]
  /\ \A c \in Cores : search'[c] = IF c \in hit THEN "demoted" ELSE search[c]
  /\ row' \in Cursor /\ row' = [row EXCEPT !.dirty = row.dirty \/ due]
  /\ pos' \in Cursor /\ pos'.stage = stage /\ pos'.requeue = pos.requeue
  /\ pos' = [[pos EXCEPT !.dirty = pos.dirty \/ due] EXCEPT !.stage = stage]
  /\ taint' = taint \union (IF hit # {} THEN {"demotion"} ELSE {})
  /\ early' = early \union (IF row.stage = 1 THEN hit ELSE {})

Hit(cores) == cores \intersect Undervolted
Due(cores, mark) == mark \/ (Hit(cores) # {} /\ row.stage > 0)

LEMMA DemoteFacts ==
  ASSUME TypeOK, NEW cores \in SUBSET Cores, NEW stage \in 0..9, NEW mark \in BOOLEAN,
         Demote(cores, stage, mark)
  PROVE  Demoted(Hit(cores), stage, Due(cores, mark))
<1> DEFINE hit == cores \intersect Undervolted
           due == mark \/ (hit # {} /\ row.stage > 0)
<1>1. /\ depth' = [c \in Cores |-> depth[c] - (IF c \in hit THEN 1 ELSE 0)]
      /\ search' = [c \in Cores |-> IF c \in hit THEN "demoted" ELSE search[c]]
      /\ row' = [row EXCEPT !.dirty = @ \/ mark \/ (hit # {} /\ row.stage > 0)]
      /\ pos' = [[pos EXCEPT !.dirty = @ \/ mark \/ (hit # {} /\ row.stage > 0)] EXCEPT !.stage = stage]
      /\ taint' = taint \union (IF hit # {} THEN {"demotion"} ELSE {})
      /\ early' = early \union (IF row.stage = 1 THEN hit ELSE {})
  BY Zenon DEF Demote
<1>2. /\ depth \in [Cores -> Depths] /\ search \in [Cores -> {"confirmed", "demoted", "annealing"}]
      /\ pos \in Cursor /\ row \in Cursor
  BY TypesAre
<1>3. /\ \A c \in Cores : c \in hit => depth[c] > 0
  BY DEF Undervolted
<1>4. due \in BOOLEAN /\ row.dirty \in BOOLEAN /\ pos.dirty \in BOOLEAN
  BY <1>2, CursorParts
<1>5. /\ row' = [row EXCEPT !.dirty = row.dirty \/ due]
      /\ pos' = [[pos EXCEPT !.dirty = pos.dirty \/ due] EXCEPT !.stage = stage]
  BY <1>1, Zenon
<1> HIDE DEF hit, due
<1>6. /\ depth' \in [Cores -> Depths]
      /\ \A c \in Cores : c \notin hit => depth'[c] = depth[c]
  <2>1. \A c \in Cores : depth[c] \in 0..Depth
    BY <1>2 DEF Depths
  <2>2. \A c \in Cores : depth[c] - (IF c \in hit THEN 1 ELSE 0) \in 0..Depth
    BY <1>3, <2>1, SizeAssumption
  <2>3. \A c \in Cores : c \notin hit => depth[c] - 0 = depth[c]
    BY <2>1, SizeAssumption
  <2> QED
    BY <1>1, <2>2, <2>3 DEF Depths
<1>7. /\ search' \in [Cores -> {"confirmed", "demoted", "annealing"}]
      /\ \A c \in Cores : search'[c] = IF c \in hit THEN "demoted" ELSE search[c]
  BY <1>1, <1>2
<1>8. row' \in Cursor
  BY <1>2, <1>4, <1>5 DEF Cursor
<1>9. pos' \in Cursor /\ pos'.stage = stage /\ pos'.requeue = pos.requeue
  BY <1>2, <1>4, <1>5 DEF Cursor
<1>10. taint' = taint \union (IF hit # {} THEN {"demotion"} ELSE {})
  BY <1>1 DEF hit
<1>11. early' = early \union (IF row.stage = 1 THEN hit ELSE {})
  BY <1>1 DEF hit
<1>12. Demoted(hit, stage, due)
  BY <1>5, <1>6, <1>7, <1>8, <1>9, <1>10, <1>11, Zenon DEF Demoted
<1>13. hit = Hit(cores) /\ due = Due(cores, mark)
  BY DEF hit, due, Hit, Due
<1> QED
  BY <1>12, <1>13

\* ... so the types stay, and a penalty that leaves the stage alone leaves the
\* two cursors equal.
LEMMA DemoteKeeps ==
  ASSUME TypeOK, NEW cores \in SUBSET Cores, NEW stage \in 0..9, NEW mark \in BOOLEAN,
         Demote(cores, stage, mark)
  PROVE  /\ depth' \in [Cores -> Depths]
         /\ search' \in [Cores -> {"confirmed", "demoted", "annealing"}]
         /\ row' \in Cursor /\ row'.stage = row.stage /\ row'.requeue = row.requeue
         /\ pos' \in Cursor /\ pos'.stage = stage /\ pos'.requeue = pos.requeue
         /\ row = pos /\ stage = pos.stage => row' = pos'
         /\ taint' \subseteq {"backoff", "demotion", "event", "torn"} /\ early' \subseteq Cores
<1> DEFINE hit == Hit(cores)
           due == Due(cores, mark)
<1>1. Demoted(hit, stage, due)
  BY DemoteFacts, Zenon
<1>2. /\ pos \in Cursor /\ row \in Cursor /\ taint \subseteq {"backoff", "demotion", "event", "torn"}
      /\ early \subseteq Cores
  BY TypesAre
<1>3. early' \subseteq Cores /\ taint' \subseteq {"backoff", "demotion", "event", "torn"}
  BY <1>1, <1>2 DEF Demoted, Hit
<1> HIDE DEF hit, due
<1>4. row'.stage = row.stage /\ row'.requeue = row.requeue
  BY <1>1, <1>2 DEF Demoted, Cursor
<1>5. row = pos /\ stage = pos.stage => row' = pos'
  <2> DEFINE q == [pos EXCEPT !.dirty = pos.dirty \/ due]
  <2>1. q.stage = pos.stage /\ q = [q EXCEPT !.stage = q.stage]
    BY <1>2 DEF Cursor
  <2>2. pos' = [q EXCEPT !.stage = stage]
    BY <1>1 DEF Demoted
  <2>3. row = pos => row' = q
    BY <1>1 DEF Demoted
  <2> HIDE DEF q
  <2> QED
    BY <2>1, <2>2, <2>3
<1> QED
  BY <1>1, <1>3, <1>4, <1>5 DEF Demoted

\* What holds when a worker answers.
LEMMA AnswerMeans ==
  ASSUME Inv, NEW i \in DOMAIN workers, Answer(i)
  PROVE  /\ i = 1 /\ workers' = <<>> /\ Up /\ Up' /\ Pending = {} /\ config' = config /\ machine' = machine
         /\ status \in Statuses /\ status # "running" /\ pos.stage > 0 /\ AllConfirmed /\ Soaks /\ row = pos
         /\ run.solo => pos.requeue # <<>> /\ workers[i] = Retest(pos)
         /\ ~run.solo => pos.requeue = <<>> /\ workers[i] = SlotAt(pos) /\ SlotAt(pos) # Nothing
<1>1. Token /\ Working /\ Saved /\ status \in Statuses
  BY TypesAre DEF Inv, Flow
<1>2. /\ i = 1 /\ workers # <<>> /\ workers' = <<>> /\ Up /\ Up' /\ Pending = {} /\ config' = config
  BY <1>1, AnswerTakes
<1>3. machine' = machine
  BY DEF Answer
<1> QED
  BY <1>1, <1>2, <1>3 DEF Working, Saved

\* After an answer one call is pending, or none.
LEMMA AnswerToken ==
  ASSUME Inv, NEW i \in DOMAIN workers, Answer(i),
         UNCHANGED calls \/ \E k \in Kinds : Schedule(k)
  PROVE  Token'
<1>1. workers' = <<>> /\ Up' /\ Pending = {} /\ Token
  BY AnswerMeans DEF Inv
<1>2. CASE UNCHANGED calls
  <2>1. Pending' = {} /\ calls' \in [Kinds -> {0, 1}]
    BY <1>1, <1>2 DEF Pending, Token
  <2> QED
    BY <1>1, <2>1 DEF Token
<1>3. CASE \E k \in Kinds : Schedule(k)
  <2>1. PICK k \in Kinds : Schedule(k)
    BY <1>3
  <2>2. Pending' = {k} /\ calls' \in [Kinds -> {0, 1}]
    BY <1>1, <2>1, ScheduleMakes
  <2> QED
    BY <1>1, <2>2 DEF Token
<1> QED
  BY <1>2, <1>3

\* Validation goes on after an answer, or would, were it not stopped.
LEMMA GoOnKeeps ==
  ASSUME Inv, NEW i \in DOMAIN workers, Answer(i), NEW k \in Kinds, Schedule(k), k # "search",
         TypeOK', status' = status, search' = search, pos'.stage > 0, row' = pos', Soaks',
         k \in {"next", "next_later"} => ~run'.solo /\ pos'.requeue = <<>>,
         k \in {"requeue", "requeue_later"} => ~run'.soaking
  PROVE  Inv'
<1>1. /\ workers' = <<>> /\ Pending = {} /\ status \in Statuses /\ status # "running" /\ AllConfirmed
      /\ Token
  BY AnswerMeans DEF Inv
<1>2. Token' /\ Saved' /\ AllConfirmed'
  BY <1>1, AnswerToken DEF Saved, AllConfirmed
<1>3. Pending' = {k}
  BY <1>1, ScheduleMakes
<1>4. CASE status = "validating"
  BY <1>1, <1>2, <1>3, <1>4, DueKeeps
<1>5. CASE status \in Dormant
  BY <1>1, <1>2, <1>5, StopKeeps
<1> QED
  BY <1>1, <1>4, <1>5 DEF Statuses

\* The cores of a slot are cores.
LEMMA SlotCores ==
  ASSUME Inv, NEW i \in DOMAIN workers, Answer(i)
  PROVE  workers[i].cores \subseteq Cores
<1>1. /\ run.solo => pos.requeue # <<>> /\ workers[i] = Retest(pos)
      /\ ~run.solo => workers[i] = SlotAt(pos) /\ SlotAt(pos) # Nothing
  BY AnswerMeans
<1>2. pos \in Cursor /\ pos.requeue \in Seq(Cores)
  BY TypesAre, CursorParts DEF Inv
<1>3. CASE run.solo
  <2>1. Head(pos.requeue) \in Cores
    BY <1>1, <1>2, <1>3
  <2> QED
    BY <1>1, <1>3, <2>1 DEF Retest, Solo
<1>4. CASE ~run.solo
  <2>1. Halves \in Seq(SUBSET Cores) /\ N \in Nat
    BY HalvesAssumption, SizeAssumption
  <2>2. pos.half \in 0..Len(Halves) /\ pos.index \in 0..N /\ pos.lane \in 0..N + 1
    BY <1>2, CursorParts
  <2>3. pos.half < Len(Halves) => Halves[pos.half + 1] \subseteq Cores
    BY <2>1, <2>2
  <2>4. /\ pos.index < N => pos.index + 1 \in Cores
        /\ pos.lane < N => pos.lane + 1 \in Cores
    <3>1. N \in Nat /\ pos.index \in 0..N /\ pos.lane \in 0..N + 1
      BY <2>1, <2>2
    <3> QED
      BY <3>1 DEF Cores
  <2> QED
    BY <1>1, <1>2, <1>4, <2>3, <2>4, SlotsOf DEF Solo, Together
<1> QED
  BY <1>3, <1>4

\* The run once a slot has been judged.
LEMMA JudgedIs ==
  ASSUME run \in RunType
  PROVE  /\ Judged \in RunType /\ Judged.solo = run.solo /\ ~Judged.soaking
         /\ Judged.thermals = run.thermals
         /\ Answered \in RunType /\ Answered.solo = run.solo /\ Answered.soaking = run.soaking
<1>1. 0 \in 0..MaxFaults
  BY BreakerAssumption
<1>2. Answered \in RunType /\ Answered.solo = run.solo /\ Answered.soaking = run.soaking
  BY DEF Answered, RunType
<1>3. Judged \in RunType /\ Judged.solo = run.solo /\ ~Judged.soaking /\ Judged.thermals = run.thermals
  BY <1>1 DEF Answered, Judged, RunType
<1> QED
  BY <1>2, <1>3

\* A slot that is not the soak's: the soak is off.
LEMMA NotSoaking ==
  ASSUME Inv, NEW i \in DOMAIN workers, Answer(i), workers[i].key[1] # 7
  PROVE  ~run.soaking
<1> SUFFICES ASSUME run.soaking PROVE FALSE
  OBVIOUS
<1>1. Soaks /\ (~run.solo => workers[i] = SlotAt(pos))
  BY AnswerMeans
<1>2. ~run.solo /\ pos.stage = 7 /\ config.soak /\ ~pos.dirty
  BY <1>1 DEF Soaks
<1>3. workers[i] = Together(7)
  BY <1>1, <1>2 DEF SlotAt
<1> QED
  BY <1>3 DEF Together

\* The search goes on after an answer.
LEMMA BackToSearch ==
  ASSUME Inv, NEW i \in DOMAIN workers, Answer(i), TypeOK', Schedule("search"),
         status' = "running", pos'.stage = 0, ~run'.soaking, run'.solo = run.solo,
         row'.stage = row.stage, row'.requeue = row.requeue
  PROVE  Inv'
<1>1. /\ workers' = <<>> /\ Pending = {} /\ Token /\ row = pos /\ pos.stage > 0
      /\ run.solo => pos.requeue # <<>>
  BY AnswerMeans DEF Inv
<1>2. "search" \in Kinds
  BY DEF Kinds
<1>3. Token' /\ Saved'
  BY <1>2, AnswerToken DEF Saved
<1>4. Pending' = {"search"}
  BY <1>1, <1>2, ScheduleMakes
<1> QED
  BY <1>1, <1>3, <1>4, SearchKeeps

\* Kernel evidence: validation is left, or the session is paused.
LEMMA LeaveForKeeps ==
  ASSUME Inv, NEW i \in DOMAIN workers, Answer(i), NEW cores \in SUBSET Cores, LeaveFor(cores),
         run' \in RunType, run'.solo = run.solo, ~run'.soaking,
         soloLog' \in [Cores -> SUBSET Depths], proven' \in [Cores -> SUBSET Depths]
  PROVE  Inv'
<1> DEFINE stuck == status \in Dormant \/ cores \ Undervolted # {}
           stage == IF stuck THEN pos.stage ELSE 0
<1>1. /\ Demote(cores, stage, FALSE)
      /\ status' = IF stuck THEN "paused" ELSE "running"
      /\ stuck => UNCHANGED calls
      /\ ~stuck => Schedule("search")
      /\ incidents' = incidents /\ disruptions' = disruptions
  BY Zenon DEF LeaveFor
<1>2. /\ TypeOK /\ config' = config /\ machine' = machine /\ workers' = <<>> /\ row = pos /\ pos \in Cursor
  BY AnswerMeans, TypesAre DEF Inv
<1>3. stage \in 0..9 /\ FALSE \in BOOLEAN
  BY <1>2, CursorParts
<1> HIDE DEF stuck, stage
<1>4. /\ depth' \in [Cores -> Depths]
      /\ search' \in [Cores -> {"confirmed", "demoted", "annealing"}]
      /\ row' \in Cursor /\ row'.stage = row.stage /\ row'.requeue = row.requeue
      /\ pos' \in Cursor /\ pos'.stage = stage /\ pos'.requeue = pos.requeue
      /\ row = pos /\ stage = pos.stage => row' = pos'
      /\ taint' \subseteq {"backoff", "demotion", "event", "torn"} /\ early' \subseteq Cores
  BY <1>1, <1>2, <1>3, DemoteKeeps, Zenon
<1>5. Token'
  <2>1. "search" \in Kinds
    BY DEF Kinds
  <2> QED
    BY <1>1, <2>1, AnswerToken
<1>6. TypeOK'
  <2>1. status' \in Statuses
    BY <1>1 DEF Statuses, Dormant
  <2> QED
    BY <1>1, <1>2, <1>4, <1>5, <2>1, TypesAre, TypesStay, Zenon
<1>7. CASE stuck
  <2>1. stage = pos.stage /\ status' \in Dormant
    BY <1>1, <1>7 DEF stage, Dormant
  <2>2. Saved'
    BY <1>2, <1>4, <2>1 DEF Saved
  <2> QED
    BY <1>2, <1>5, <1>6, <2>1, <2>2, StopKeeps
<1>8. CASE ~stuck
  <2>1. stage = 0 /\ status' = "running" /\ Schedule("search")
    BY <1>1, <1>8 DEF stage
  <2> QED
    BY <1>4, <1>6, <2>1, BackToSearch
<1> QED
  BY <1>7, <1>8

\* The slot could not start.
LEMMA StartupFaultKeeps ==
  ASSUME Inv, NEW i \in DOMAIN workers, NEW foreign \in SUBSET Cores, StartupFault(i, foreign)
  PROVE  Inv'
<1>1. /\ Answer(i) /\ Demote(foreign, pos.stage, FALSE) /\ status' = "paused" /\ run' = Answered
      /\ UNCHANGED <<incidents, soloLog, calls, disruptions, passed, proven>>
  BY DEF StartupFault
<1>2. /\ TypeOK /\ config' = config /\ machine' = machine /\ workers' = <<>> /\ row = pos /\ pos \in Cursor
      /\ run \in RunType
  BY <1>1, AnswerMeans, TypesAre DEF Inv
<1>3. pos.stage \in 0..9 /\ FALSE \in BOOLEAN
  BY <1>2, CursorParts
<1>4. /\ depth' \in [Cores -> Depths]
      /\ search' \in [Cores -> {"confirmed", "demoted", "annealing"}]
      /\ row' \in Cursor /\ row'.stage = row.stage /\ row'.requeue = row.requeue
      /\ pos' \in Cursor /\ pos'.stage = pos.stage /\ pos'.requeue = pos.requeue
      /\ row = pos /\ pos.stage = pos.stage => row' = pos'
      /\ taint' \subseteq {"backoff", "demotion", "event", "torn"} /\ early' \subseteq Cores
  BY <1>1, <1>2, <1>3, DemoteKeeps, Zenon
<1>5. Token' /\ Saved'
  BY <1>1, <1>2, <1>4, AnswerToken DEF Saved
<1>6. run' \in RunType /\ status' \in Statuses /\ status' \in Dormant
  BY <1>1, <1>2, JudgedIs DEF Statuses, Dormant
<1>7. TypeOK'
  BY <1>1, <1>2, <1>4, <1>5, <1>6, TypesAre, TypesStay, Zenon
<1> QED
  BY <1>2, <1>5, <1>6, <1>7, StopKeeps

\* No verdict: the evidence, or the same step again after a while.
LEMMA NoVerdictKeeps ==
  ASSUME Inv, NEW i \in DOMAIN workers, NEW tried, NEW limit, NEW again, NEW call \in Kinds,
         NEW foreign \in SUBSET Cores, NoVerdict(i, tried, limit, again, call, foreign),
         again.solo = run.solo, again.soaking => run.soaking,
         foreign # {} \/ tried < limit => again \in RunType, call # "search",
         call \in {"next", "next_later"} <=> ~run.solo,
         call \in {"requeue", "requeue_later"} <=> run.solo
  PROVE  Inv'
<1>1. Answer(i) /\ (workers[i].key[1] = 7 => foreign = {}) /\ run' = again
      /\ UNCHANGED <<soloLog, proven>>
  BY DEF NoVerdict
<1>2. /\ TypeOK /\ config' = config /\ machine' = machine /\ workers' = <<>> /\ row = pos /\ pos \in Cursor
      /\ run \in RunType /\ Soaks /\ pos.stage > 0
      /\ run.solo => pos.requeue # <<>>
      /\ ~run.solo => pos.requeue = <<>>
  BY <1>1, AnswerMeans, TypesAre DEF Inv
<1>3. soloLog' \in [Cores -> SUBSET Depths] /\ proven' \in [Cores -> SUBSET Depths]
  BY <1>1, <1>2, TypesAre
<1>4. CASE foreign # {} /\ LeaveFor(foreign)
  <2>1. ~run.soaking
    BY <1>1, <1>4, NotSoaking
  <2>2. run' \in RunType /\ run'.solo = run.solo /\ ~run'.soaking
    BY <1>1, <1>4, <2>1
  <2> QED
    BY <1>1, <1>3, <1>4, <2>2, LeaveForKeeps
<1>5. CASE /\ foreign = {} /\ tried < limit /\ Schedule(call)
           /\ UNCHANGED <<depth, search, row, incidents, status, pos, disruptions, passed, taint, early>>
  <2>1. Token' /\ run' \in RunType
    BY <1>1, <1>5, AnswerToken
  <2>2. TypeOK'
    BY <1>1, <1>2, <1>5, <2>1, TypesAre, TypesStay, Zenon
  <2>3. run'.solo = run.solo /\ (run'.soaking => run.soaking)
    BY <1>1
  <2>4. /\ call \in {"next", "next_later"} => ~run'.solo /\ pos'.requeue = <<>>
        /\ call \in {"requeue", "requeue_later"} => ~run'.soaking
    BY <1>2, <1>5, <2>3 DEF Soaks
  <2>5. Soaks' /\ pos'.stage > 0 /\ row' = pos' /\ search' = search /\ status' = status
    BY <1>2, <1>5, <2>3 DEF Soaks
  <2> QED
    BY <1>1, <1>5, <2>2, <2>4, <2>5, GoOnKeeps
<1> QED
  BY <1>4, <1>5, Zenon DEF NoVerdict

\* Too hot.
LEMMA ThermalStopKeeps ==
  ASSUME Inv, NEW i \in DOMAIN workers, NEW foreign \in SUBSET Cores, ThermalStop(i, foreign)
  PROVE  Inv'
<1> DEFINE again == [Answered EXCEPT !.thermals = IF foreign = {} THEN @ + 1 ELSE @]
           call == IF run.solo THEN "requeue_later" ELSE "next_later"
<1>1. NoVerdict(i, run.thermals, MaxThermals, again, call, foreign)
  BY DEF ThermalStop
<1>2. run \in RunType
  BY TypesAre DEF Inv
<1>3. /\ again.solo = run.solo /\ (again.soaking => run.soaking)
      /\ foreign # {} \/ run.thermals < MaxThermals => again \in RunType
  <2>1. run.thermals \in 0..MaxThermals /\ MaxThermals \in Nat
    BY <1>2, BreakerAssumption DEF RunType
  <2>2. run.thermals < MaxThermals => run.thermals + 1 \in 0..MaxThermals
    BY <2>1
  <2> QED
    BY <1>2, <2>1, <2>2 DEF Answered, RunType
<1>4. /\ call \in Kinds /\ call # "search"
      /\ call \in {"next", "next_later"} <=> ~run.solo
      /\ call \in {"requeue", "requeue_later"} <=> run.solo
  BY DEF Kinds, Later
<1> HIDE DEF again, call
<1> QED
  BY <1>1, <1>3, <1>4, NoVerdictKeeps

\* The apparatus failed.
LEMMA ApparatusFaultKeeps ==
  ASSUME Inv, NEW i \in DOMAIN workers, NEW foreign \in SUBSET Cores, ApparatusFault(i, foreign)
  PROVE  Inv'
<1> DEFINE again == [Answered EXCEPT !.soaking = FALSE, !.faults = IF foreign = {} THEN @ + 1 ELSE @]
<1>1. NoVerdict(i, run.faults, MaxFaults, again, Retry, foreign)
  BY DEF ApparatusFault
<1>2. run \in RunType
  BY TypesAre DEF Inv
<1>3. /\ again.solo = run.solo /\ (again.soaking => run.soaking)
      /\ foreign # {} \/ run.faults < MaxFaults => again \in RunType
  <2>1. run.faults \in 0..MaxFaults /\ MaxFaults \in Nat
    BY <1>2, BreakerAssumption DEF RunType
  <2>2. run.faults < MaxFaults => run.faults + 1 \in 0..MaxFaults
    BY <2>1
  <2> QED
    BY <1>2, <2>1, <2>2 DEF Answered, RunType
<1>4. /\ Retry \in Kinds /\ Retry # "search"
      /\ Retry \in {"next", "next_later"} <=> ~run.solo
      /\ Retry \in {"requeue", "requeue_later"} <=> run.solo
  BY DEF Kinds, Later, Retry
<1> HIDE DEF again
<1> QED
  BY <1>1, <1>3, <1>4, NoVerdictKeeps

\* Too often: the session is aborted, as the operator aborts it.
LEMMA AbortedKeeps ==
  ASSUME Inv, Aborted, Up, UNCHANGED <<config, database, calls, machine, disruptions, history>>
  PROVE  Inv'
<1>1. /\ status' = "aborted" /\ workers' = <<>> /\ pos' = [pos EXCEPT !.stage = 0]
      /\ run' = [run EXCEPT !.owned = FALSE, !.solo = FALSE, !.soaking = FALSE]
  BY DEF Aborted
<1>2. /\ depth' = depth /\ search' = search /\ row' = row /\ incidents' = incidents /\ soloLog' = soloLog
      /\ taint' = taint /\ early' = early /\ proven' = proven /\ calls' = calls
  BY DEF database, history
<1>3. pos \in Cursor /\ run \in RunType /\ TypeOK /\ Token
  BY TypesAre DEF Inv
<1>4. pos' \in Cursor /\ pos'.stage = 0 /\ run' \in RunType
  <2>1. 0 \in 0..9 /\ FALSE \in BOOLEAN
    OBVIOUS
  <2>2. pos' \in Cursor /\ pos'.stage = 0
    BY <1>1, <1>3, <2>1 DEF Cursor
  <2>3. run' \in RunType
    BY <1>1, <1>3, <2>1 DEF RunType
  <2> QED
    BY <2>2, <2>3
<1>5. Token' /\ Saved'
  <2>1. Pending' = Pending /\ Up'
    BY <1>2 DEF Pending, Up
  <2> QED
    BY <1>1, <1>2, <1>3, <1>4, <2>1 DEF Token, Saved
<1>6. status' \in Statuses /\ status' \in Dormant
  BY <1>1 DEF Statuses, Dormant
<1>7. TypeOK'
  BY <1>2, <1>3, <1>4, <1>5, <1>6, TypesAre, TypesStay, Zenon
<1> QED
  BY <1>1, <1>5, <1>6, <1>7, StopKeeps

\* Taking an element off a sequence leaves every other one in it.
LEMMA RemovedOnce ==
  ASSUME NEW S, NEW s \in Seq(S), NEW e \in S
  PROVE  /\ RemoveFirst(s, e) \in Seq(S)
         /\ \A x \in Range(s) : x # e => x \in Range(RemoveFirst(s, e))
<1> DEFINE I == {i \in 1..Len(s) : s[i] = e}
<1>1. CASE I = {}
  <2>1. RemoveFirst(s, e) = s
    BY <1>1 DEF RemoveFirst
  <2> QED
    BY <2>1
<1>2. CASE I # {}
  <2>1. PICK k \in I : \A j \in I : k <= j
    <3>1. I \in SUBSET Nat
      OBVIOUS
    <3> HIDE DEF I
    <3> QED
      BY <1>2, <3>1, LeastOf
  <2>2. Min(I) \in I
    <3> HIDE DEF I
    <3> QED
      BY <2>1 DEF Min
  <2> DEFINE m == Min(I)
  <2>3. RemoveFirst(s, e) = RemoveAt(s, m)
    BY <1>2 DEF RemoveFirst, SelectInSeq
  <2>4. m \in 1..Len(s) /\ s[m] = e /\ Len(s) \in Nat
    BY <2>2
  <2> HIDE DEF m, I
  <2> DEFINE a == SubSeq(s, 1, m - 1)
             b == SubSeq(s, m + 1, Len(s))
  <2>5. a \in Seq(S) /\ Len(a) = m - 1 /\ \A i \in 1..m - 1 : a[i] = s[i]
    BY <2>4
  <2>6. b \in Seq(S) /\ Len(b) = Len(s) - m /\ \A i \in 1..Len(s) - m : b[i] = s[m + i]
    BY <2>4
  <2>7. RemoveFirst(s, e) = a \o b
    BY <2>3 DEF RemoveAt
  <2> HIDE DEF a, b
  <2>8. a \o b \in Seq(S) /\ Range(a \o b) = Range(a) \union Range(b)
    BY <2>5, <2>6, RangeOfBoth
  <2>9. ASSUME NEW x \in Range(s), x # e PROVE x \in Range(a) \union Range(b)
    <3>1. PICK j \in 1..Len(s) : x = s[j]
      BY DEF Range
    <3>2. j # m
      BY <2>4, <2>9, <3>1
    <3>3. CASE j < m
      <4>1. j \in 1..m - 1 /\ j \in DOMAIN a
        BY <2>4, <2>5, <3>3
      <4>2. a[j] = x
        BY <2>5, <3>1, <4>1
      <4> QED
        BY <4>1, <4>2 DEF Range
    <3>4. CASE j > m
      <4>1. j - m \in 1..Len(s) - m /\ j - m \in DOMAIN b /\ m + (j - m) = j
        BY <2>4, <2>6, <3>4
      <4>2. b[j - m] = x
        BY <2>6, <3>1, <4>1
      <4> QED
        BY <4>1, <4>2 DEF Range
    <3> QED
      BY <2>4, <3>2, <3>3, <3>4
  <2> QED
    BY <2>7, <2>8, <2>9
<1> QED
  BY <1>1, <1>2

\* The core of a re-test.
LEMMA RetestIs ==
  ASSUME NEW p \in Cursor, p.requeue # <<>>
  PROVE  /\ Head(p.requeue) \in Cores /\ Retest(p) = Solo(0, Head(p.requeue))
         /\ Lead(Retest(p)) = Head(p.requeue) /\ Alone(Retest(p))
<1>1. p.requeue \in Seq(Cores) /\ Cores \subseteq Nat /\ 0 \notin Cores
  BY CursorParts, SizeAssumption DEF Cores
<1>2. Head(p.requeue) \in Cores
  BY <1>1
<1> DEFINE h == Head(p.requeue)
<1> HIDE DEF h
<1>3. Lead(Solo(0, h)) = h
  <2>0. h \in Nat
    BY <1>1, <1>2 DEF h
  <2>1. h <= h
    BY <2>0
  <2> QED
    BY <2>1 DEF Lead, Solo
<1>4. Alone(Solo(0, h))
  BY <1>1, <1>2 DEF Alone, Solo, h
<1> QED
  BY <1>2, <1>3, <1>4 DEF Retest, h

\* A pass moves the cursor past the slot that passed.
Beyond(q) ==
  \/ run.soaking /\ q = [pos EXCEPT !.stage = 8]
  \/ ~run.soaking /\ run.solo
     /\ q = [pos EXCEPT !.requeue = RemoveFirst(pos.requeue, Head(pos.requeue))]
  \/ ~run.soaking /\ ~run.solo /\ pos.stage \in {1, 5} /\ pos.index < N
     /\ q = [pos EXCEPT !.index = pos.index + 1]
  \/ ~run.soaking /\ ~run.solo /\ pos.stage = 2 /\ q = [pos EXCEPT !.stage = 3, !.half = 0]
  \/ ~run.soaking /\ ~run.solo /\ pos.stage = 3 /\ pos.half < Len(Halves)
     /\ q = [pos EXCEPT !.half = pos.half + 1]
  \/ ~run.soaking /\ ~run.solo /\ pos.stage = 4 /\ q = [pos EXCEPT !.stage = 5, !.index = 0]
  \/ ~run.soaking /\ ~run.solo /\ pos.stage = 6 /\ q = [pos EXCEPT !.stage = 7]
  \/ ~run.soaking /\ ~run.solo /\ pos.stage = 9 /\ pos.lane <= N
     /\ q = [pos EXCEPT !.lane = pos.lane + 1]
  \/ ~run.soaking /\ ~run.solo /\ pos.stage = 7 /\ q = pos

LEMMA AfterPassIs ==
  ASSUME Inv, NEW i \in DOMAIN workers, Answer(i)
  PROVE  Beyond(AfterPass(workers[i]))
<1>1. /\ run.solo => pos.requeue # <<>> /\ workers[i] = Retest(pos)
      /\ ~run.solo => workers[i] = SlotAt(pos) /\ SlotAt(pos) # Nothing
  BY AnswerMeans
<1>2. pos \in Cursor /\ N \in Nat
  BY TypesAre, SizeAssumption DEF Inv
<1>3. CASE run.soaking
  BY <1>3 DEF AfterPass, Beyond
<1>4. CASE ~run.soaking /\ run.solo
  <2>1. Lead(workers[i]) = Head(pos.requeue)
    BY <1>1, <1>2, <1>4, RetestIs
  <2> QED
    BY <1>4, <2>1 DEF AfterPass, Beyond
<1>5. CASE ~run.soaking /\ ~run.solo
  <2>1. CASE pos.stage \in {1, 5}
    <3>1. pos.index < N
      BY <1>1, <1>2, <1>5, <2>1, SlotsOf
    <3> QED
      BY <1>5, <2>1, <3>1 DEF AfterPass, Beyond
  <2>2. CASE pos.stage = 2
    BY <1>5, <2>2 DEF AfterPass, Beyond
  <2>3. CASE pos.stage = 3
    <3>1. pos.half < Len(Halves)
      BY <1>1, <1>2, <1>5, <2>3, SlotsOf
    <3> QED
      BY <1>5, <2>3, <3>1 DEF AfterPass, Beyond
  <2>4. CASE pos.stage = 4
    BY <1>5, <2>4 DEF AfterPass, Beyond
  <2>5. CASE pos.stage = 6
    BY <1>5, <2>5 DEF AfterPass, Beyond
  <2>6. CASE pos.stage = 9
    <3>1. pos.lane < N \/ pos.lane = N
      BY <1>1, <1>2, <1>5, <2>6, SlotsOf
    <3>2. pos.lane <= N
      BY <1>2, <3>1, CursorParts
    <3> QED
      BY <1>5, <2>6, <3>2 DEF AfterPass, Beyond
  <2>7. CASE pos.stage = 7
    BY <1>5, <2>7 DEF AfterPass, Beyond
  <2>8. pos.stage \in {1, 2, 3, 4, 5, 6, 7, 9}
    BY <1>1, <1>2, <1>5, SlotsOf
  <2> QED
    BY <2>1, <2>2, <2>3, <2>4, <2>5, <2>6, <2>7, <2>8
<1> QED
  BY <1>3, <1>4, <1>5

LEMMA BeyondIsCursor ==
  ASSUME pos \in Cursor, pos.stage > 0, run.solo => pos.requeue # <<>>, NEW q, Beyond(q)
  PROVE  q \in Cursor /\ q.stage > 0 /\ (~run.solo => q.requeue = pos.requeue)
<1>1. /\ pos.stage \in 0..9 /\ pos.index \in 0..N /\ pos.half \in 0..Len(Halves)
      /\ pos.requeue \in Seq(Cores) /\ pos.lane \in 0..N + 1 /\ N \in Nat /\ Len(Halves) \in Nat
  BY CursorParts, SizeAssumption, HalvesAssumption
<1>2. ASSUME NEW s \in 1..9 PROVE LET p == [pos EXCEPT !.stage = s]
                                  IN p \in Cursor /\ p.stage > 0 /\ p.requeue = pos.requeue
  <2>1. s \in 0..9 /\ s > 0
    OBVIOUS
  <2> QED
    BY <2>1 DEF Cursor
<1>3. CASE run.soaking /\ q = [pos EXCEPT !.stage = 8]
  BY <1>2, <1>3
<1>4. CASE run.solo /\ q = [pos EXCEPT !.requeue = RemoveFirst(pos.requeue, Head(pos.requeue))]
  <2>1. Head(pos.requeue) \in Cores
    BY <1>4, RetestIs
  <2>2. RemoveFirst(pos.requeue, Head(pos.requeue)) \in Seq(Cores)
    BY <1>1, <2>1, RemovedOnce
  <2> QED
    BY <1>4, <2>2 DEF Cursor
<1>5. CASE pos.index < N /\ q = [pos EXCEPT !.index = pos.index + 1]
  <2>1. pos.index + 1 \in 0..N
    <3>1. N \in Nat /\ pos.index \in 0..N /\ pos.index < N
      BY <1>1, <1>5
    <3> QED
      BY <3>1
  <2> QED
    BY <1>5, <2>1 DEF Cursor
<1>6. CASE q = [pos EXCEPT !.stage = 3, !.half = 0]
  <2> DEFINE p == [pos EXCEPT !.stage = 3]
  <2>1. p \in Cursor /\ p.stage > 0 /\ p.requeue = pos.requeue
    BY <1>2
  <2>2. q = [p EXCEPT !.half = 0] /\ 0 \in 0..Len(Halves)
    BY <1>1, <1>6
  <2> HIDE DEF p
  <2> QED
    BY <2>1, <2>2 DEF Cursor
<1>7. CASE pos.half < Len(Halves) /\ q = [pos EXCEPT !.half = pos.half + 1]
  <2>1. pos.half + 1 \in 0..Len(Halves)
    BY <1>1, <1>7
  <2> QED
    BY <1>7, <2>1 DEF Cursor
<1>8. CASE q = [pos EXCEPT !.stage = 5, !.index = 0]
  <2> DEFINE p == [pos EXCEPT !.stage = 5]
  <2>1. p \in Cursor /\ p.stage > 0 /\ p.requeue = pos.requeue
    BY <1>2
  <2>2. q = [p EXCEPT !.index = 0] /\ 0 \in 0..N
    BY <1>1, <1>8
  <2> HIDE DEF p
  <2> QED
    BY <2>1, <2>2 DEF Cursor
<1>9. CASE q = [pos EXCEPT !.stage = 7]
  BY <1>2, <1>9
<1>10. CASE pos.lane <= N /\ q = [pos EXCEPT !.lane = pos.lane + 1]
  <2>1. pos.lane + 1 \in 0..N + 1
    BY <1>1, <1>10
  <2> QED
    BY <1>10, <2>1 DEF Cursor
<1>11. CASE q = pos
  BY <1>11
<1> QED
  BY <1>3, <1>4, <1>5, <1>6, <1>7, <1>8, <1>9, <1>10, <1>11, Zenon DEF Beyond

\* The log gains depths that are depths.
LEMMA LogTypes ==
  ASSUME TypeOK, NEW w, LogPass(w)
  PROVE  soloLog' \in [Cores -> SUBSET Depths] /\ proven' \in [Cores -> SUBSET Depths]
<1>1. /\ depth \in [Cores -> Depths] /\ soloLog \in [Cores -> SUBSET Depths]
      /\ proven \in [Cores -> SUBSET Depths]
  BY TypesAre
<1> DEFINE logged == IF status # "validating" \/ run.soaking THEN {}
                     ELSE IF pos.stage = 9 THEN w.cores
                     ELSE IF pos.stage = 1 THEN {Lead(w)} ELSE {}
           solo == IF Alone(w) THEN w.cores ELSE {}
<1>2. /\ soloLog' = [c \in Cores |-> soloLog[c] \union (IF c \in logged THEN {depth[c]} ELSE {})]
      /\ proven' = [c \in Cores |-> proven[c] \union (IF c \in solo THEN {depth[c]} ELSE {})]
  BY Zenon DEF LogPass
<1> HIDE DEF logged, solo
<1>3. soloLog' \in [Cores -> SUBSET Depths]
  BY <1>1, <1>2
<1>4. proven' \in [Cores -> SUBSET Depths]
  BY <1>1, <1>2
<1> QED
  BY <1>3, <1>4

\* What an answer's call is, once the slot has been judged.
LEMMA RetryIs ==
  ASSUME run \in RunType
  PROVE  /\ Retry \in Kinds /\ Retry # "search" /\ "next" \in Kinds /\ "requeue" \in Kinds
         /\ Retry \in {"next", "next_later"} <=> ~run.solo
         /\ Retry \in {"requeue", "requeue_later"} <=> run.solo
BY DEF Retry, Kinds, Later

\* A slot passes.
LEMMA PassKeeps == ASSUME Inv, NEW i \in DOMAIN workers, Pass(i) PROVE Inv'
<1> DEFINE k == IF run.soaking THEN "next" ELSE Retry
<1>1. /\ Answer(i) /\ LogPass(workers[i]) /\ MoveTo(AfterPass(workers[i]))
      /\ early' = (IF Alone(workers[i]) THEN early \ workers[i].cores ELSE early)
      /\ run' = [Judged EXCEPT !.thermals = IF run.soaking THEN @ ELSE 0]
      /\ Schedule(k)
      /\ depth' = depth /\ search' = search /\ incidents' = incidents /\ status' = status
      /\ disruptions' = disruptions /\ taint' = taint
  BY DEF Pass
<1>2. /\ TypeOK /\ config' = config /\ machine' = machine /\ pos \in Cursor /\ pos.stage > 0
      /\ run \in RunType /\ Soaks /\ early \subseteq Cores
      /\ run.solo => pos.requeue # <<>>
      /\ ~run.solo => pos.requeue = <<>>
  BY <1>1, AnswerMeans, TypesAre DEF Inv
<1>3. /\ pos' \in Cursor /\ pos'.stage > 0 /\ row' = pos' /\ row' \in Cursor
      /\ ~run.solo => pos'.requeue = <<>>
  <2>1. Beyond(AfterPass(workers[i]))
    BY <1>1, AfterPassIs
  <2>2. /\ AfterPass(workers[i]) \in Cursor /\ AfterPass(workers[i]).stage > 0
        /\ ~run.solo => AfterPass(workers[i]).requeue = pos.requeue
    BY <1>2, <2>1, BeyondIsCursor
  <2>3. pos' = AfterPass(workers[i]) /\ row' = AfterPass(workers[i])
    BY <1>1 DEF MoveTo
  <2> QED
    BY <1>2, <2>2, <2>3
<1>4. run' \in RunType /\ run'.solo = run.solo /\ ~run'.soaking
  <2>1. Judged \in RunType /\ Judged.solo = run.solo /\ ~Judged.soaking
    BY <1>2, JudgedIs
  <2>2. 0 \in 0..MaxThermals
    BY BreakerAssumption
  <2> QED
    BY <1>1, <2>1, <2>2 DEF RunType
<1>5. /\ k \in Kinds /\ k # "search"
      /\ k \in {"next", "next_later"} => ~run.solo
      /\ k \in {"requeue", "requeue_later"} => run.solo
  <2>1. run.soaking => ~run.solo
    BY <1>2 DEF Soaks
  <2> QED
    BY <1>2, <2>1, RetryIs
<1> HIDE DEF k
<1>6. soloLog' \in [Cores -> SUBSET Depths] /\ proven' \in [Cores -> SUBSET Depths]
  BY <1>1, <1>2, LogTypes
<1>7. Token' /\ early' \subseteq Cores
  BY <1>1, <1>2, <1>5, AnswerToken
<1>8. TypeOK'
  BY <1>1, <1>2, <1>3, <1>4, <1>6, <1>7, TypesAre, TypesStay, Zenon
<1>9. Soaks'
  BY <1>4 DEF Soaks
<1>10. k \in {"next", "next_later"} => ~run'.solo /\ pos'.requeue = <<>>
  BY <1>3, <1>4, <1>5
<1> QED
  BY <1>1, <1>3, <1>4, <1>5, <1>8, <1>9, <1>10, GoOnKeeps

\* A core fails its slot.
LEMMA CoreFailsKeeps ==
  ASSUME Inv, NEW i \in DOMAIN workers, NEW c, CoreFails(i, c)
  PROVE  Inv'
<1> DEFINE again == run.solo \/ pos.stage \in {1, 5} \/ (pos.stage = 9 /\ pos.lane < N)
<1>1. /\ Answer(i) /\ c \in workers[i].cores /\ run' = Judged
      /\ search' = search /\ incidents' = incidents /\ soloLog' = soloLog /\ disruptions' = disruptions
      /\ proven' = proven /\ early' = early
  BY DEF CoreFails
<1>2. /\ TypeOK /\ config' = config /\ machine' = machine /\ pos \in Cursor /\ pos.stage > 0
      /\ run \in RunType /\ c \in Cores /\ workers' = <<>>
      /\ run.solo => pos.requeue # <<>>
      /\ ~run.solo => pos.requeue = <<>>
  BY <1>1, AnswerMeans, SlotCores, TypesAre DEF Inv
<1>3. run' \in RunType /\ run'.solo = run.solo /\ ~run'.soaking
  BY <1>1, <1>2, JudgedIs
<1>4. CASE /\ depth[c] > 0 /\ BackOff(c)
           /\ MoveTo([pos EXCEPT !.dirty = TRUE, !.requeue = IF again THEN @ ELSE <<c>>])
           /\ Schedule(IF again THEN Retry ELSE "requeue")
           /\ UNCHANGED status
  <2> DEFINE q == [pos EXCEPT !.dirty = TRUE, !.requeue = IF again THEN @ ELSE <<c>>]
             k == IF again THEN Retry ELSE "requeue"
  <2>1. pos' = q /\ row' = q /\ Schedule(k) /\ status' = status
    BY <1>4 DEF MoveTo
  <2>2. q \in Cursor /\ q.stage = pos.stage /\ (again => q.requeue = pos.requeue)
    <3>1. <<c>> \in Seq(Cores) /\ pos.requeue \in Seq(Cores)
      BY <1>2, CursorParts
    <3>2. (IF again THEN pos.requeue ELSE <<c>>) \in Seq(Cores) /\ TRUE \in BOOLEAN
      BY <3>1
    <3> HIDE DEF again
    <3> QED
      BY <1>2, <3>2 DEF Cursor
  <2>3. /\ k \in Kinds /\ k # "search"
        /\ k \in {"next", "next_later"} => again /\ ~run.solo
    BY <1>2, RetryIs
  <2> HIDE DEF q, k, again
  <2>4. depth' \in [Cores -> Depths] /\ taint' \subseteq {"backoff", "demotion", "event", "torn"}
    <3>1. depth \in [Cores -> Depths] /\ taint \subseteq {"backoff", "demotion", "event", "torn"}
      BY <1>2, TypesAre
    <3>2. depth[c] - 1 \in Depths
      <4>1. depth[c] \in 0..Depth /\ depth[c] > 0 /\ Depth \in Nat
        BY <1>2, <1>4, <3>1, SizeAssumption DEF Depths
      <4> QED
        BY <4>1 DEF Depths
    <3> QED
      BY <1>4, <3>1, <3>2 DEF BackOff
  <2>5. Token'
    BY <1>1, <2>1, <2>3, AnswerToken
  <2>6. TypeOK'
    <3>1. pos' \in Cursor /\ row' \in Cursor
      BY <2>1, <2>2
    <3> QED
      BY <1>1, <1>2, <1>3, <2>1, <2>4, <2>5, <3>1, TypesAre, TypesStay, Zenon
  <2>7. Soaks' /\ pos'.stage > 0 /\ row' = pos'
    BY <1>2, <1>3, <2>1, <2>2 DEF Soaks
  <2>8. k \in {"next", "next_later"} => ~run'.solo /\ pos'.requeue = <<>>
    BY <1>2, <1>3, <2>1, <2>2, <2>3
  <2> QED
    BY <1>1, <1>3, <2>1, <2>3, <2>6, <2>7, <2>8, GoOnKeeps
<1>5. CASE /\ MoveTo([pos EXCEPT !.dirty = @ \/ run.solo]) /\ status' = "paused"
           /\ UNCHANGED <<depth, calls, taint>>
  <2>1. row' = pos' /\ pos' \in Cursor /\ row' \in Cursor
    <3>1. (pos.dirty \/ run.solo) \in BOOLEAN
      OBVIOUS
    <3> QED
      BY <1>2, <1>5, <3>1 DEF MoveTo, Cursor
  <2>2. Token' /\ Saved'
    BY <1>1, <1>5, <2>1, AnswerToken DEF Saved
  <2>3. status' \in Statuses /\ status' \in Dormant
    BY <1>5 DEF Statuses, Dormant
  <2>4. TypeOK'
    BY <1>1, <1>2, <1>3, <1>5, <2>1, <2>2, <2>3, TypesAre, TypesStay, Zenon
  <2> QED
    BY <1>2, <2>2, <2>3, <2>4, StopKeeps
<1> QED
  BY <1>4, <1>5, Zenon DEF CoreFails

\* Incidents count up to their limit.
LEMMA IncidentsUp ==
  ASSUME incidents \in 0..MaxIncidents
  PROVE  /\ (IF incidents < MaxIncidents THEN incidents + 1 ELSE incidents) \in 0..MaxIncidents
         /\ 0 \in 0..MaxIncidents
BY BreakerAssumption

\* What a hunt leaves has its type.
LEMMA HuntEndsTypes ==
  ASSUME TypeOK, NEW convicted \in SUBSET Cores, NEW mark \in BOOLEAN, HuntEnds(convicted, mark)
  PROVE  /\ depth' \in [Cores -> Depths]
         /\ search' \in [Cores -> {"confirmed", "demoted", "annealing"}]
         /\ row' \in Cursor /\ row'.stage = row.stage /\ row'.requeue = row.requeue
         /\ pos' \in Cursor /\ pos'.stage = 0 /\ pos'.requeue = pos.requeue
         /\ taint' \subseteq {"backoff", "demotion", "event", "torn"} /\ early' \subseteq Cores
         /\ status' = "running" /\ status' \in Statuses /\ incidents' \in 0..MaxIncidents
<1>1. /\ Demote(convicted, 0, mark) /\ status' = "running"
      /\ incidents' = IF convicted # {} THEN 0
                      ELSE IF incidents < MaxIncidents THEN incidents + 1 ELSE incidents
  BY DEF HuntEnds
<1>2. 0 \in 0..9
  OBVIOUS
<1>3. /\ depth' \in [Cores -> Depths]
      /\ search' \in [Cores -> {"confirmed", "demoted", "annealing"}]
      /\ row' \in Cursor /\ row'.stage = row.stage /\ row'.requeue = row.requeue
      /\ pos' \in Cursor /\ pos'.stage = 0 /\ pos'.requeue = pos.requeue
      /\ row = pos /\ 0 = pos.stage => row' = pos'
      /\ taint' \subseteq {"backoff", "demotion", "event", "torn"} /\ early' \subseteq Cores
  BY <1>1, <1>2, DemoteKeeps, Zenon
<1>4. incidents' \in 0..MaxIncidents
  BY <1>1, IncidentsUp, TypesAre
<1>5. status' \in Statuses
  BY <1>1 DEF Statuses
<1> QED
  BY <1>1, <1>3, <1>4, <1>5

\* Rapid transitions fail.
LEMMA TransitionsFailKeeps ==
  ASSUME Inv, NEW i \in DOMAIN workers, NEW convicted \in SUBSET Cores, TransitionsFail(i, convicted)
  PROVE  Inv'
<1>1. /\ ~run.solo /\ Answer(i) /\ run' = Judged /\ UNCHANGED <<soloLog, passed, proven>>
  BY DEF TransitionsFail
<1>2. /\ TypeOK /\ config' = config /\ machine' = machine /\ pos \in Cursor
      /\ run \in RunType /\ workers' = <<>> /\ disruptions \in 0..MaxDisruptions
  BY <1>1, AnswerMeans, TypesAre DEF Inv
<1>3. run' \in RunType /\ run'.solo = run.solo /\ ~run'.soaking
  BY <1>1, <1>2, JudgedIs
<1>4. CASE /\ IF convicted = {} THEN Disrupt ELSE UNCHANGED disruptions
           /\ HuntEnds(convicted, TRUE)
           /\ Schedule("search")
  <2>1. TRUE \in BOOLEAN
    OBVIOUS
  <2>2. /\ depth' \in [Cores -> Depths]
        /\ search' \in [Cores -> {"confirmed", "demoted", "annealing"}]
        /\ row' \in Cursor /\ row'.stage = row.stage /\ row'.requeue = row.requeue
        /\ pos' \in Cursor /\ pos'.stage = 0 /\ pos'.requeue = pos.requeue
        /\ taint' \subseteq {"backoff", "demotion", "event", "torn"} /\ early' \subseteq Cores
        /\ status' = "running" /\ status' \in Statuses /\ incidents' \in 0..MaxIncidents
    BY <1>2, <1>4, <2>1, HuntEndsTypes, Zenon
  <2>3. disruptions' \in 0..MaxDisruptions
    BY <1>2, <1>4, SizeAssumption DEF Disrupt
  <2>4. Token'
    <3>1. "search" \in Kinds
      BY DEF Kinds
    <3> QED
      BY <1>1, <1>4, <3>1, AnswerToken
  <2>5. TypeOK'
    BY <1>1, <1>2, <1>3, <2>2, <2>3, <2>4, TypesAre, TypesStay, Zenon
  <2> QED
    BY <1>1, <1>3, <1>4, <2>2, <2>5, BackToSearch
<1>5. CASE /\ status' = "fault" /\ MoveTo([pos EXCEPT !.dirty = TRUE])
           /\ UNCHANGED <<depth, search, incidents, calls, disruptions, taint, early>>
  <2>1. row' = pos' /\ pos' \in Cursor /\ row' \in Cursor
    BY <1>2, <1>5 DEF MoveTo, Cursor
  <2>2. Token' /\ Saved'
    BY <1>1, <1>5, <2>1, AnswerToken DEF Saved
  <2>3. status' \in Statuses /\ status' \in Dormant
    BY <1>5 DEF Statuses, Dormant
  <2>4. TypeOK'
    BY <1>1, <1>2, <1>3, <1>5, <2>1, <2>2, <2>3, TypesAre, TypesStay, Zenon
  <2> QED
    BY <1>2, <2>2, <2>3, <2>4, StopKeeps
<1> QED
  BY <1>4, <1>5, Zenon DEF TransitionsFail

\* The soak saw an event.
LEMMA SoakFailsKeeps == ASSUME Inv, NEW i \in DOMAIN workers, SoakFails(i) PROVE Inv'
<1> DEFINE n == IF incidents < MaxIncidents THEN incidents + 1 ELSE incidents
<1>1. /\ run.soaking /\ Answer(i) /\ run' = Judged /\ incidents' = n
      /\ MoveTo([pos EXCEPT !.dirty = TRUE]) /\ taint' = taint \union {"event"}
      /\ depth' = depth /\ search' = search /\ soloLog' = soloLog /\ disruptions' = disruptions
      /\ proven' = proven /\ early' = early
  BY DEF SoakFails
<1>2. /\ TypeOK /\ config' = config /\ machine' = machine /\ pos \in Cursor /\ pos.stage > 0
      /\ run \in RunType /\ workers' = <<>> /\ Soaks
      /\ ~run.solo => pos.requeue = <<>>
  BY <1>1, AnswerMeans, TypesAre DEF Inv
<1>3. run' \in RunType /\ run'.solo = run.solo /\ ~run'.soaking /\ ~run.solo
  BY <1>1, <1>2, JudgedIs DEF Soaks
<1>4. incidents' \in 0..MaxIncidents
  BY <1>1, <1>2, IncidentsUp, TypesAre
<1>5. taint' \subseteq {"backoff", "demotion", "event", "torn"}
  BY <1>1, <1>2, TypesAre
<1>6. row' = pos' /\ pos' \in Cursor /\ row' \in Cursor /\ pos'.stage = pos.stage /\ pos'.requeue = pos.requeue
  BY <1>1, <1>2 DEF MoveTo, Cursor
<1>7. Saved' /\ Soaks' /\ pos'.stage > 0
  BY <1>2, <1>3, <1>6 DEF Saved, Soaks
<1>8. CASE status' = "paused" /\ UNCHANGED calls
  <2>1. Token'
    BY <1>1, <1>8, AnswerToken
  <2>2. status' \in Statuses /\ status' \in Dormant
    BY <1>8 DEF Statuses, Dormant
  <2>3. TypeOK'
    BY <1>1, <1>2, <1>3, <1>4, <1>5, <1>6, <2>1, <2>2, TypesAre, TypesStay, Zenon
  <2> QED
    BY <1>2, <1>7, <2>1, <2>2, <2>3, StopKeeps
<1>9. CASE Schedule("next") /\ UNCHANGED status
  <2>1. "next" \in Kinds /\ "next" # "search" /\ "next" \notin {"requeue", "requeue_later"}
    BY DEF Kinds
  <2>2. Token'
    BY <1>1, <1>9, <2>1, AnswerToken
  <2>3. TypeOK'
    BY <1>1, <1>2, <1>3, <1>4, <1>5, <1>6, <1>9, <2>2, TypesAre, TypesStay, Zenon
  <2>4. ~run'.solo /\ pos'.requeue = <<>>
    BY <1>2, <1>3, <1>6
  <2> QED
    BY <1>1, <1>6, <1>7, <1>9, <2>1, <2>3, <2>4, GoOnKeeps
<1> QED
  BY <1>8, <1>9, Zenon DEF SoakFails

\* A verdict that kernel evidence outranks.
LEMMA EvidenceKeeps ==
  ASSUME Inv, NEW i \in DOMAIN workers, NEW c, NEW foreign \in SUBSET Cores, NEW ok \in BOOLEAN,
         Evidence(i, c, foreign, ok)
  PROVE  Inv'
<1>1. /\ Answer(i) /\ run' = Judged /\ LeaveFor(foreign)
      /\ IF ok THEN LogPass(workers[i]) ELSE UNCHANGED <<soloLog, proven>>
  BY DEF Evidence
<1>2. run \in RunType /\ TypeOK
  BY TypesAre DEF Inv
<1>3. run' \in RunType /\ run'.solo = run.solo /\ ~run'.soaking
  BY <1>1, <1>2, JudgedIs
<1>4. soloLog' \in [Cores -> SUBSET Depths] /\ proven' \in [Cores -> SUBSET Depths]
  <2>1. CASE ok
    BY <1>1, <1>2, <2>1, LogTypes
  <2>2. CASE ~ok
    BY <1>1, <1>2, <2>2, TypesAre
  <2> QED
    BY <2>1, <2>2
<1> QED
  BY <1>1, <1>3, <1>4, LeaveForKeeps

-----------------------------------------------------------------------------
(* Layer one: the operator, the process and the machine *)

\* The session is paused, with a worker out or not.
LEMMA PauseKeeps == ASSUME Inv, Pause PROVE Inv'
<1>1. /\ status' = "paused"
      /\ UNCHANGED <<config, database, process, machine, disruptions, history>>
  BY DEF Pause
<1>2. /\ depth' = depth /\ search' = search /\ row' = row /\ incidents' = incidents /\ soloLog' = soloLog
      /\ taint' = taint /\ early' = early /\ proven' = proven
      /\ pos' = pos /\ run' = run /\ workers' = workers /\ calls' = calls
      /\ config' = config /\ machine' = machine /\ disruptions' = disruptions
  BY <1>1 DEF database, history, process
<1>3. TypeOK /\ Token /\ Saved /\ Working
  BY DEF Inv, Flow
<1>4. Token'
  <2>1. Pending' = Pending /\ (Up' <=> Up)
    BY <1>2 DEF Pending, Up
  <2> QED
    BY <1>2, <1>3, <2>1 DEF Token
<1>5. TypeOK'
  <2>1. status' \in Statuses
    BY <1>1 DEF Statuses, Dormant
  <2> QED
    BY <1>2, <1>3, <1>4, <2>1, TypesAre, TypesStay, Zenon
<1>6. Saved' /\ Searching' /\ Validating'
  BY <1>1, <1>2, <1>3 DEF Saved, Searching, Validating
<1>7. Working'
  <2>1. AllConfirmed' = AllConfirmed /\ Soaks' = Soaks /\ SlotAt(pos)' = SlotAt(pos)
    BY <1>2 DEF AllConfirmed, Soaks, SlotAt
  <2> QED
    BY <1>1, <1>2, <1>3, <2>1 DEF Working
<1> QED
  BY <1>4, <1>5, <1>6, <1>7 DEF Inv, Flow

\* The process or the machine goes down.
LEMMA LostKeeps ==
  ASSUME Inv, Lost, machine' \in {"killed", "loaded", "idle"},
         depth' \in [Cores -> Depths],
         soloLog' \in [Cores -> SUBSET Depths], proven' \in [Cores -> SUBSET Depths],
         taint' \subseteq {"backoff", "demotion", "event", "torn"}, early' \subseteq Cores
  PROVE  Inv'
<1>1. /\ Disrupt /\ workers' = <<>> /\ calls' = NoCalls /\ pos' = Blank /\ run' = Idle
      /\ UNCHANGED <<config, search, row, incidents, status>>
  BY DEF Lost
<1>2. TypeOK /\ disruptions \in 0..MaxDisruptions
  BY TypesAre DEF Inv
<1>3. run' \in RunType /\ ~run'.solo /\ ~run'.soaking
  <2>1. 0 \in 0..MaxThermals /\ 0 \in 0..MaxFaults
    BY BreakerAssumption
  <2> QED
    BY <1>1, <2>1 DEF RunType, Idle
<1>4. pos' \in Cursor /\ pos'.stage = 0
  BY <1>1, BlankIsCursor DEF Blank
<1>5. disruptions' \in 0..MaxDisruptions /\ machine' \in {"up", "killed", "loaded", "idle"}
  BY <1>1, <1>2, SizeAssumption DEF Disrupt
<1>6. Pending' = {} /\ calls' \in [Kinds -> {0, 1}] /\ ~Up'
  BY <1>1 DEF Pending, NoCalls, Up
<1>7. Token' /\ Saved'
  BY <1>1, <1>4, <1>6 DEF Token, Saved
<1>8. TypeOK'
  BY <1>1, <1>2, <1>3, <1>4, <1>5, <1>7, TypesAre, TypesStay, Zenon
<1>9. Searching' /\ Validating' /\ Working'
  BY <1>1, <1>3, <1>4, <1>6 DEF Searching, Validating, Working
<1> QED
  BY <1>7, <1>8, <1>9 DEF Inv, Flow

\* ... between two steps.
LEMMA DownKeeps == ASSUME Inv, Down PROVE Inv'
<1>1. /\ Lost /\ machine' \in {"killed", "loaded", "idle"} /\ depth' = depth /\ soloLog' = soloLog
      /\ taint' = taint /\ early' = early /\ proven' = proven
  BY DEF Down, history
<1>2. TypeOK
  BY DEF Inv
<1> QED
  BY <1>1, <1>2, TypesAre, LostKeeps

\* ... or inside a handler.
LEMMA TornKeeps == ASSUME Inv, NEW i, Torn(i) PROVE Inv'
<1>1. i \in DOMAIN workers /\ Lost /\ machine' = "killed"
  BY DEF Torn
<1>2. /\ TypeOK /\ depth \in [Cores -> Depths]
      /\ soloLog \in [Cores -> SUBSET Depths] /\ proven \in [Cores -> SUBSET Depths]
      /\ taint \subseteq {"backoff", "demotion", "event", "torn"} /\ early \subseteq Cores
  BY TypesAre DEF Inv
<1>3. CASE LogPass(workers[i]) /\ UNCHANGED <<depth, passed, taint, early>>
  BY <1>1, <1>2, <1>3, LogTypes, LostKeeps
<1>4. CASE \E c \in workers[i].cores :
             /\ depth[c] > 0
             /\ depth' = [depth EXCEPT ![c] = @ - 1]
             /\ taint' = taint \union {"torn"}
             /\ UNCHANGED <<soloLog, passed, proven, early>>
  <2>1. PICK c \in workers[i].cores : depth[c] > 0 /\ depth' = [depth EXCEPT ![c] = @ - 1]
    BY <1>4
  <2>2. depth' \in [Cores -> Depths]
    <3>1. CASE c \in Cores
      <4>1. depth[c] \in 0..Depth /\ depth[c] > 0 /\ Depth \in Nat
        BY <1>2, <2>1, <3>1, SizeAssumption DEF Depths
      <4>2. depth[c] - 1 \in Depths
        BY <4>1 DEF Depths
      <4> QED
        BY <1>2, <2>1, <4>2
    <3>2. CASE c \notin Cores
      BY <1>2, <2>1, <3>2
    <3> QED
      BY <3>1, <3>2
  <2>3. /\ taint' \subseteq {"backoff", "demotion", "event", "torn"} /\ early' \subseteq Cores
        /\ soloLog' \in [Cores -> SUBSET Depths] /\ proven' \in [Cores -> SUBSET Depths]
    BY <1>2, <1>4
  <2> QED
    BY <1>1, <2>2, <2>3, LostKeeps
<1> QED
  BY <1>3, <1>4, Zenon DEF Torn

\* A session is resumed when nothing of it is on its way.
LEMMA ResumingMeans ==
  ASSUME Inv, Resuming, ResumeInCooldown = FALSE
  PROVE  /\ workers = <<>> /\ workers' = <<>> /\ Pending = {} /\ Up' /\ config' = config
         /\ machine' \in {"up", "killed", "loaded", "idle"}
         /\ machine # "up" => pos.stage = 0
         /\ status \in {"validating", "running", "paused", "aborted"}
<1>1. /\ Up => workers = <<>> /\ \A k \in Kinds : ~(calls[k] > 0)
      /\ machine' = "up" /\ config' = config /\ workers' = workers
      /\ status \in {"validating", "running", "paused", "aborted"}
  BY DEF Resuming
<1>2. Up => Pending = {}
  BY <1>1 DEF Pending
<1>3. ~Up => workers = <<>> /\ Pending = {} /\ pos.stage = 0
  BY DEF Inv, Token
<1> QED
  BY <1>1, <1>2, <1>3 DEF Up

\* ... then one call is pending, or none.
LEMMA ResumeToken ==
  ASSUME Inv, Resuming, ResumeInCooldown = FALSE,
         UNCHANGED calls \/ \E k \in Kinds : Schedule(k)
  PROVE  Token'
<1>1. workers' = <<>> /\ Up' /\ Pending = {} /\ Token
  BY ResumingMeans DEF Inv
<1>2. CASE UNCHANGED calls
  <2>1. Pending' = {} /\ calls' \in [Kinds -> {0, 1}]
    BY <1>1, <1>2 DEF Pending, Token
  <2> QED
    BY <1>1, <2>1 DEF Token
<1>3. CASE \E k \in Kinds : Schedule(k)
  <2>1. PICK k \in Kinds : Schedule(k)
    BY <1>3
  <2>2. Pending' = {k} /\ calls' \in [Kinds -> {0, 1}]
    BY <1>1, <2>1, ScheduleMakes
  <2> QED
    BY <1>1, <2>2 DEF Token
<1> QED
  BY <1>2, <1>3

\* What a resume resets.
LEMMA ResetIs ==
  ASSUME run \in RunType
  PROVE  /\ Reset \in RunType /\ ~Reset.solo /\ ~Reset.soaking
         /\ [Reset EXCEPT !.thermals = 0] \in RunType
         /\ ~[Reset EXCEPT !.thermals = 0].solo /\ ~[Reset EXCEPT !.thermals = 0].soaking
<1>1. 0 \in 0..MaxThermals
  BY BreakerAssumption
<1>2. Reset \in RunType /\ ~Reset.solo /\ ~Reset.soaking
  BY DEF Reset, RunType
<1> QED
  BY <1>1, <1>2 DEF RunType

\* A resume that continues validation.
LEMMA ResumeValidates ==
  ASSUME Inv, Resuming, ResumeInCooldown = FALSE, TypeOK', AllConfirmed, search' = search,
         NEW p \in Cursor, p.stage > 0, pos' = p, row' = p, status' = "validating",
         Schedule(EntryCall(p)), ~run'.solo, ~run'.soaking
  PROVE  Inv'
<1>1. EntryCall(p) \in {"next", "requeue"} /\ EntryCall(p) \in Kinds /\ (EntryCall(p) = "next" <=> p.requeue = <<>>)
  BY EntryCallIs
<1>2. workers' = <<>> /\ Pending = {} /\ Token
  BY ResumingMeans DEF Inv
<1>3. Pending' = {EntryCall(p)} /\ Token'
  BY <1>1, <1>2, ScheduleMakes, ResumeToken
<1>4. Saved' /\ AllConfirmed' /\ Soaks' /\ pos'.stage > 0
  BY DEF Saved, AllConfirmed, Soaks
<1>5. "next" \in Pending' => ~run'.solo /\ pos'.requeue = <<>>
  BY <1>1, <1>3
<1>6. "search" \notin Pending' /\ "next_later" \notin Pending' /\ "requeue_later" \notin Pending'
  BY <1>1, <1>3
<1> QED
  BY <1>2, <1>3, <1>4, <1>5, <1>6, DueKeeps

\* A resume that continues the search.
LEMMA ResumeSearches ==
  ASSUME Inv, Resuming, ResumeInCooldown = FALSE, TypeOK', status' = "running", pos'.stage = 0,
         Schedule("search"), ~run'.solo, ~run'.soaking
  PROVE  Inv'
<1>1. "search" \in Kinds
  BY DEF Kinds
<1>2. workers' = <<>> /\ Pending = {} /\ Token
  BY ResumingMeans DEF Inv
<1>3. Pending' = {"search"} /\ Token'
  BY <1>1, <1>2, ScheduleMakes, ResumeToken
<1>4. Saved'
  BY DEF Saved
<1> QED
  BY <1>2, <1>3, <1>4, SearchKeeps

\* The entry cursor with another dirty flag.
LEMMA EntryMarked ==
  ASSUME pos \in Cursor, row \in Cursor, NEW d \in BOOLEAN
  PROVE  LET p == [EntryCursor EXCEPT !.dirty = d]
         IN p \in Cursor /\ p.stage > 0 /\ EntryCall(p) = EntryCall(EntryCursor)
<1>1. EntryCursor \in Cursor /\ EntryCursor.stage \in (1..6) \union {9}
  BY EntryFacts
<1> DEFINE e == EntryCursor
           p == [e EXCEPT !.dirty = d]
<1>2. e \in Cursor /\ e.stage > 0
  BY <1>1
<1> HIDE DEF e
<1>3. p \in Cursor /\ p.stage = e.stage /\ p.requeue = e.requeue
  BY <1>2 DEF Cursor
<1> QED
  BY <1>2, <1>3 DEF EntryCall, e

\* Nothing to attribute.
LEMMA ResumeQuietlyKeeps ==
  ASSUME Inv, ResumeQuietly, ResumeInCooldown = FALSE
  PROVE  Inv'
<1>1. /\ Resuming /\ depth' = depth /\ search' = search /\ soloLog' = soloLog
      /\ proven' = proven /\ early' = early
      /\ Disrupt \/ UNCHANGED disruptions
  BY DEF ResumeQuietly
<1>2. /\ TypeOK /\ pos \in Cursor /\ row \in Cursor /\ run \in RunType /\ incidents \in 0..MaxIncidents
      /\ taint \subseteq {"backoff", "demotion", "event", "torn"} /\ disruptions \in 0..MaxDisruptions
      /\ config' = config /\ machine' \in {"up", "killed", "loaded", "idle"}
  BY <1>1, TypesAre, ResumingMeans DEF Inv
<1>3. disruptions' \in 0..MaxDisruptions
  BY <1>1, <1>2, SizeAssumption DEF Disrupt
<1>4. CASE /\ AllConfirmed
           /\ LET p == [EntryCursor EXCEPT !.dirty = row.stage > 0 /\ row.dirty]
              IN EnterAt(p) /\ Schedule(EntryCall(p))
           /\ run' = [Reset EXCEPT !.thermals = 0]
  <2> DEFINE p == [EntryCursor EXCEPT !.dirty = row.stage > 0 /\ row.dirty]
  <2>1. p \in Cursor /\ p.stage > 0 /\ EntryCall(p) = EntryCall(EntryCursor)
    <3>1. (row.stage > 0 /\ row.dirty) \in BOOLEAN
      OBVIOUS
    <3> DEFINE d == row.stage > 0 /\ row.dirty
    <3> HIDE DEF d
    <3>2. LET r == [EntryCursor EXCEPT !.dirty = d]
          IN r \in Cursor /\ r.stage > 0 /\ EntryCall(r) = EntryCall(EntryCursor)
      BY <1>2, <3>1, EntryMarked DEF d
    <3> QED
      BY <3>2 DEF d
  <2>2. EnterAt(p) /\ Schedule(EntryCall(p)) /\ AllConfirmed
    BY <1>4
  <2> HIDE DEF p
  <2>3. pos' = p /\ row' = p /\ status' = "validating"
    BY <2>2 DEF EnterAt, MoveTo
  <2>4. incidents' \in 0..MaxIncidents
    BY <1>2, <2>2, IncidentsUp DEF EnterAt
  <2>5. taint' \subseteq {"backoff", "demotion", "event", "torn"}
    BY <1>2, <2>2 DEF EnterAt, NewPass
  <2>6. run' \in RunType /\ ~run'.solo /\ ~run'.soaking
    BY <1>2, <1>4, ResetIs
  <2>7. Token' /\ status' \in Statuses /\ pos' \in Cursor /\ row' \in Cursor
    BY <1>1, <2>1, <2>2, <2>3, EntryCallIs, ResumeToken DEF Statuses
  <2>8. TypeOK'
    BY <1>1, <1>2, <1>3, <2>4, <2>5, <2>6, <2>7, TypesAre, TypesStay, Zenon
  <2> QED
    BY <1>1, <2>1, <2>2, <2>3, <2>6, <2>8, ResumeValidates
<1>5. CASE /\ pos' = Blank /\ run' = Reset /\ status' = "running" /\ Schedule("search")
           /\ UNCHANGED <<row, incidents, passed, taint>>
  <2>1. pos' \in Cursor /\ pos'.stage = 0
    BY <1>5, BlankIsCursor DEF Blank
  <2>2. run' \in RunType /\ ~run'.solo /\ ~run'.soaking
    BY <1>2, <1>5, ResetIs
  <2>3. Token' /\ status' \in Statuses
    <3>1. "search" \in Kinds
      BY DEF Kinds
    <3> QED
      BY <1>1, <1>5, <3>1, ResumeToken DEF Statuses
  <2>4. TypeOK'
    BY <1>1, <1>2, <1>3, <1>5, <2>1, <2>2, <2>3, TypesAre, TypesStay, Zenon
  <2> QED
    BY <1>1, <1>5, <2>1, <2>2, <2>4, ResumeSearches
<1> QED
  BY <1>4, <1>5, Zenon DEF ResumeQuietly

\* Cores are charged with the machine's death.
LEMMA ResumeChargedKeeps ==
  ASSUME Inv, NEW charged \in SUBSET Cores, ResumeCharged(charged), ResumeInCooldown = FALSE
  PROVE  Inv'
<1>1. /\ Resuming /\ HuntEnds(charged, FALSE) /\ run' = Reset /\ Schedule("search")
      /\ soloLog' = soloLog /\ proven' = proven /\ disruptions' = disruptions
  BY DEF ResumeCharged
<1>2. /\ TypeOK /\ run \in RunType /\ config' = config /\ machine' \in {"up", "killed", "loaded", "idle"}
      /\ FALSE \in BOOLEAN
  BY <1>1, TypesAre, ResumingMeans DEF Inv
<1>3. /\ depth' \in [Cores -> Depths]
      /\ search' \in [Cores -> {"confirmed", "demoted", "annealing"}]
      /\ row' \in Cursor /\ row'.stage = row.stage /\ row'.requeue = row.requeue
      /\ pos' \in Cursor /\ pos'.stage = 0 /\ pos'.requeue = pos.requeue
      /\ taint' \subseteq {"backoff", "demotion", "event", "torn"} /\ early' \subseteq Cores
      /\ status' = "running" /\ status' \in Statuses /\ incidents' \in 0..MaxIncidents
  BY <1>1, <1>2, HuntEndsTypes, Zenon
<1>4. run' \in RunType /\ ~run'.solo /\ ~run'.soaking
  BY <1>1, <1>2, ResetIs
<1>5. Token'
  <2>1. "search" \in Kinds
    BY DEF Kinds
  <2> QED
    BY <1>1, <2>1, ResumeToken
<1>6. TypeOK'
  BY <1>1, <1>2, <1>3, <1>4, <1>5, TypesAre, TypesStay, Zenon
<1> QED
  BY <1>1, <1>3, <1>4, <1>6, ResumeSearches

\* The machine died with every core at stock.
LEMMA ResumeAtStockKeeps ==
  ASSUME Inv, ResumeAtStock, ResumeInCooldown = FALSE
  PROVE  Inv'
<1>1. /\ Resuming /\ status' = "fault" /\ run' = Reset
      /\ UNCHANGED <<database, pos, calls, disruptions, history>>
  BY DEF ResumeAtStock
<1>2. /\ depth' = depth /\ search' = search /\ row' = row /\ incidents' = incidents /\ soloLog' = soloLog
      /\ taint' = taint /\ early' = early /\ proven' = proven /\ pos' = pos /\ calls' = calls
      /\ disruptions' = disruptions
  BY <1>1 DEF database, history
<1>3. /\ TypeOK /\ Saved /\ run \in RunType /\ workers' = <<>> /\ config' = config
      /\ machine' \in {"up", "killed", "loaded", "idle"}
  BY <1>1, TypesAre, ResumingMeans DEF Inv, Flow
<1>4. Token' /\ Saved' /\ run' \in RunType /\ status' \in Statuses /\ status' \in Dormant
  BY <1>1, <1>2, <1>3, ResetIs, ResumeToken DEF Saved, Statuses, Dormant
<1>5. TypeOK'
  BY <1>2, <1>3, <1>4, TypesAre, TypesStay, Zenon
<1> QED
  BY <1>3, <1>4, <1>5, StopKeeps

\* The machine died with stock on every core and nothing loaded.
LEMMA ResumeIncidentKeeps ==
  ASSUME Inv, ResumeIncident, ResumeInCooldown = FALSE
  PROVE  Inv'
<1> DEFINE n == IF incidents < MaxIncidents THEN incidents + 1 ELSE incidents
<1>1. /\ Resuming /\ machine = "idle" /\ depth' = depth /\ search' = search /\ soloLog' = soloLog
      /\ disruptions' = disruptions /\ proven' = proven /\ early' = early
      /\ taint' = taint \union {"event"} /\ incidents' = n /\ run' = Reset
  BY DEF ResumeIncident
<1>2. /\ TypeOK /\ pos \in Cursor /\ row \in Cursor /\ run \in RunType
      /\ workers' = <<>> /\ config' = config /\ machine' \in {"up", "killed", "loaded", "idle"}
      /\ pos.stage = 0
  BY <1>1, TypesAre, ResumingMeans DEF Inv
<1>3. incidents' \in 0..MaxIncidents /\ taint' \subseteq {"backoff", "demotion", "event", "torn"}
  BY <1>1, <1>2, IncidentsUp, TypesAre
<1>4. run' \in RunType /\ ~run'.solo /\ ~run'.soaking
  BY <1>1, <1>2, ResetIs
<1>5. CASE /\ row' = [row EXCEPT !.dirty = TRUE] /\ status' = "paused" /\ UNCHANGED <<pos, calls>>
  <2>1. row' \in Cursor /\ pos' \in Cursor /\ Saved'
    <3>1. row' \in Cursor
      BY <1>2, <1>5 DEF Cursor
    <3>2. pos' = pos /\ ~(pos.stage > 0)
      BY <1>2, <1>5
    <3> QED
      BY <1>2, <3>1, <3>2 DEF Saved
  <2>2. Token' /\ status' \in Statuses /\ status' \in Dormant
    BY <1>1, <1>5, ResumeToken DEF Statuses, Dormant
  <2>3. TypeOK'
    BY <1>1, <1>2, <1>3, <1>4, <2>1, <2>2, TypesAre, TypesStay, Zenon
  <2> QED
    BY <1>2, <2>1, <2>2, <2>3, StopKeeps
<1>6. CASE /\ AllConfirmed /\ MoveTo([EntryCursor EXCEPT !.dirty = TRUE])
           /\ status' = "validating" /\ Schedule(EntryCall(EntryCursor))
  <2> DEFINE p == [EntryCursor EXCEPT !.dirty = TRUE]
  <2>1. p \in Cursor /\ p.stage > 0 /\ EntryCall(p) = EntryCall(EntryCursor)
    BY <1>2, EntryMarked, Zenon
  <2>2. pos' = p /\ row' = p /\ Schedule(EntryCall(p))
    BY <1>6, <2>1 DEF MoveTo
  <2> HIDE DEF p
  <2>3. Token' /\ status' \in Statuses /\ pos' \in Cursor /\ row' \in Cursor
    BY <1>1, <1>6, <2>1, <2>2, EntryCallIs, ResumeToken DEF Statuses
  <2>4. TypeOK'
    BY <1>1, <1>2, <1>3, <1>4, <2>3, TypesAre, TypesStay, Zenon
  <2> QED
    BY <1>1, <1>4, <1>6, <2>1, <2>2, <2>4, ResumeValidates
<1>7. CASE status' = "running" /\ Schedule("search") /\ UNCHANGED <<row, pos>>
  <2>1. Token' /\ status' \in Statuses
    <3>1. "search" \in Kinds
      BY DEF Kinds
    <3> QED
      BY <1>1, <1>7, <3>1, ResumeToken DEF Statuses
  <2>2. TypeOK'
    BY <1>1, <1>2, <1>3, <1>4, <1>7, <2>1, TypesAre, TypesStay, Zenon
  <2>3. pos'.stage = 0
    BY <1>2, <1>7
  <2> QED
    BY <1>1, <1>4, <1>7, <2>2, <2>3, ResumeSearches
<1> QED
  BY <1>5, <1>6, <1>7, Zenon DEF ResumeIncident

-----------------------------------------------------------------------------
(* Layer one: the theorems *)

\* A session starts with the search due and nothing else on its way.
LEMMA InvInit == Init => Inv
<1> SUFFICES ASSUME Init PROVE Inv
  OBVIOUS
<1>1. /\ config \in Options /\ depth = [c \in Cores |-> Depth]
      /\ search = [c \in Cores |-> "confirmed"]
      /\ row = Blank /\ pos = Blank /\ run = Idle /\ incidents = 0 /\ soloLog = [c \in Cores |-> {}]
      /\ status = "running" /\ workers = <<>> /\ calls = [NoCalls EXCEPT !["search"] = 1]
      /\ machine = "up" /\ disruptions = 0 /\ taint = {} /\ proven = [c \in Cores |-> {}] /\ early = {}
  BY DEF Init
<1>2. /\ 0 \in 0..MaxThermals /\ 0 \in 0..MaxFaults /\ 0 \in 0..MaxIncidents
      /\ 0 \in 0..MaxDisruptions /\ Depth \in Depths
  BY BreakerAssumption, SizeAssumption DEF Depths
<1>3. /\ calls \in [Kinds -> {0, 1}] /\ Pending = {"search"}
  BY <1>1 DEF NoCalls, Kinds, Pending, Later
<1>4. Token
  BY <1>1, <1>3 DEF Token, Up
<1>5. run \in RunType /\ ~run.solo /\ ~run.soaking /\ pos \in Cursor /\ pos.stage = 0
  BY <1>1, <1>2, BlankIsCursor DEF RunType, Idle, Blank
<1>6. TypeOK
  <2>1. calls \in [Kinds -> 0..2]
    BY <1>3
  <2>2. /\ depth \in [Cores -> Depths] /\ search \in [Cores -> {"confirmed", "demoted", "annealing"}]
        /\ soloLog \in [Cores -> SUBSET Depths] /\ proven \in [Cores -> SUBSET Depths]
    BY <1>1, <1>2
  <2>3. /\ incidents \in 0..MaxIncidents /\ disruptions \in 0..MaxDisruptions
        /\ status \in {"validating", "running"} \union Dormant
        /\ machine \in {"up", "killed", "loaded", "idle"}
    BY <1>1, <1>2
  <2>4. taint \subseteq {"backoff", "demotion", "event", "torn"} /\ early \subseteq Cores
    BY <1>1
  <2>5. config \in Options /\ pos \in Cursor /\ row \in Cursor
    BY <1>1, <1>5
  <2> QED
    BY <1>5, <2>1, <2>2, <2>3, <2>4, <2>5, Zenon DEF TypeOK, RunType
<1>7. Saved /\ Searching /\ Validating /\ Working
  BY <1>1, <1>3, <1>5 DEF Saved, Searching, Validating, Working
<1> QED
  BY <1>4, <1>6, <1>7 DEF Inv, Flow

\* A step of the dispatcher.
LEMMA InvDispatch == ASSUME Inv, Dispatch PROVE Inv'
BY StartSlotKeeps, StartRetestKeeps, RequeueDrainedKeeps, NextStageKeeps, FreshPassKeeps, ConcludeKeeps,
   FinishRoundKeeps, ReearnKeeps, CompleteKeeps, CooldownOverKeeps, DroppedKeeps, Zenon DEF Dispatch

\* A verdict too often.
LEMMA TooOftenKeeps ==
  ASSUME Inv, NEW i, NEW tried, NEW limit, TooOften(i, tried, limit)
  PROVE  Inv'
BY AbortedKeeps, Zenon DEF TooOften

\* An answer.
LEMMA InvVerdict == ASSUME Inv, Verdict PROVE Inv'
<1>1. PICK i \in DOMAIN workers :
    \/ Pass(i) \/ SoakFails(i)
    \/ TooOften(i, run.thermals, MaxThermals) \/ TooOften(i, run.faults, MaxFaults)
    \/ \E c \in workers[i].cores : CoreFails(i, c)
    \/ \E s \in SUBSET Undervolted : TransitionsFail(i, s)
    \/ \E s \in SUBSET Cores :
         \/ StartupFault(i, s) \/ ThermalStop(i, s) \/ ApparatusFault(i, s)
         \/ \E c \in workers[i].cores, ok \in BOOLEAN : Evidence(i, c, s, ok)
  BY DEF Verdict
<1>2. CASE Pass(i) \/ SoakFails(i)
  BY <1>2, PassKeeps, SoakFailsKeeps
<1>3. CASE TooOften(i, run.thermals, MaxThermals) \/ TooOften(i, run.faults, MaxFaults)
  BY <1>3, TooOftenKeeps
<1>4. CASE \E c \in workers[i].cores : CoreFails(i, c)
  BY <1>4, CoreFailsKeeps
<1>5. CASE \E s \in SUBSET Undervolted : TransitionsFail(i, s)
  <2>1. Undervolted \subseteq Cores
    BY DEF Undervolted
  <2>2. PICK s \in SUBSET Cores : TransitionsFail(i, s)
    BY <1>5, <2>1
  <2> QED
    BY <2>2, TransitionsFailKeeps
<1>6. CASE \E s \in SUBSET Cores : StartupFault(i, s) \/ ThermalStop(i, s) \/ ApparatusFault(i, s)
  <2>1. PICK s \in SUBSET Cores : StartupFault(i, s) \/ ThermalStop(i, s) \/ ApparatusFault(i, s)
    BY <1>6
  <2> QED
    BY <2>1, StartupFaultKeeps, ThermalStopKeeps, ApparatusFaultKeeps
<1>7. CASE \E s \in SUBSET Cores : \E c \in workers[i].cores, ok \in BOOLEAN : Evidence(i, c, s, ok)
  <2>1. PICK s \in SUBSET Cores, c \in workers[i].cores, ok \in BOOLEAN : Evidence(i, c, s, ok)
    BY <1>7, Zenon
  <2> QED
    BY <2>1, EvidenceKeeps
<1> QED
  BY <1>1, <1>2, <1>3, <1>4, <1>5, <1>6, <1>7, Zenon

\* The operator, the process, the machine.
LEMMA InvDisruption == ASSUME Inv, Disruption, ResumeInCooldown = FALSE PROVE Inv'
<1>1. CASE Pause \/ Down
  BY <1>1, PauseKeeps, DownKeeps
<1>2. CASE Abort
  <2>1. Aborted /\ Up /\ UNCHANGED <<config, database, calls, machine, disruptions, history>>
    BY <1>2 DEF Abort
  <2> QED
    BY <2>1, AbortedKeeps
<1>3. CASE ResumeQuietly \/ ResumeAtStock \/ ResumeIncident
  BY <1>3, ResumeQuietlyKeeps, ResumeAtStockKeeps, ResumeIncidentKeeps, Zenon
<1>4. CASE \E i \in DOMAIN workers : Torn(i)
  BY <1>4, TornKeeps
<1>5. CASE \E s \in SUBSET Undervolted : ResumeCharged(s)
  <2>1. Undervolted \subseteq Cores
    BY DEF Undervolted
  <2>2. PICK s \in SUBSET Cores : ResumeCharged(s)
    BY <1>5, <2>1
  <2> QED
    BY <2>2, ResumeChargedKeeps, Zenon
<1> QED
  BY <1>1, <1>2, <1>3, <1>4, <1>5, Zenon DEF Disruption

\* A step that changes nothing.
LEMMA InvStutter == ASSUME Inv, UNCHANGED vars PROVE Inv'
<1>1. /\ config' = config /\ depth' = depth /\ search' = search /\ row' = row /\ incidents' = incidents
      /\ soloLog' = soloLog /\ status' = status /\ pos' = pos /\ run' = run /\ workers' = workers
      /\ calls' = calls /\ machine' = machine /\ disruptions' = disruptions
      /\ taint' = taint /\ proven' = proven /\ early' = early
  BY DEF vars, database, process, history
<1>2. Pending' = Pending /\ Up' = Up /\ AllConfirmed' = AllConfirmed /\ SlotAt(pos)' = SlotAt(pos)
  BY <1>1 DEF Pending, Up, AllConfirmed, SlotAt
<1>3. TypeOK'
  BY <1>1 DEF Inv, TypeOK
<1>4. Token'
  BY <1>1, <1>2 DEF Inv, Token
<1>5. Saved' /\ Searching' /\ Soaks' = Soaks
  BY <1>1, <1>2 DEF Inv, Flow, Saved, Searching, Soaks
<1>6. Validating' /\ Working'
  BY <1>1, <1>2, <1>5 DEF Inv, Flow, Validating, Working
<1> QED
  BY <1>3, <1>4, <1>5, <1>6 DEF Inv, Flow

LEMMA InvStep == ASSUME Inv, [Next]_vars, ResumeInCooldown = FALSE PROVE Inv'
BY InvDispatch, InvVerdict, InvDisruption, InvStutter, Zenon DEF Next

\* The dispatcher has one thing on its way at a time, a stress worker or a call of
\* the event loop, and the cursor it waits with is the saved one, whatever answers
\* come, and wherever the session is paused, aborted, killed and resumed.
THEOREM RunIsOrderly ==
  ASSUME ResumeInCooldown = FALSE
  PROVE  Spec => []Inv
<1>1. Init => Inv
  BY InvInit
<1>2. Inv /\ [Next]_vars => Inv'
  BY InvStep, Zenon
<1> QED
  BY <1>1, <1>2, PTL DEF Spec

\* The variables keep their types; in particular neither retry counter passes its limit.
THEOREM ValidationTypeCorrect ==
  ASSUME ResumeInCooldown = FALSE
  PROVE  Spec => []TypeOK
<1>1. Inv => TypeOK
  BY DEF Inv
<1> QED
  BY <1>1, RunIsOrderly, PTL

\* The answer of a worker is charged to the slot that ran: no resume, retry,
\* cooldown or re-test moves the cursor or the re-test flag under it.
THEOREM AnswersMeetTheirSlots ==
  ASSUME ResumeInCooldown = FALSE
  PROVE  Spec => []AnswerMeetsItsSlot
<1>1. Inv => AnswerMeetsItsSlot
  <2> SUFFICES ASSUME Inv, workers # <<>>, pos.stage > 0
               PROVE  IF run.solo THEN pos.requeue # <<>> /\ workers[1] = Retest(pos)
                                  ELSE workers[1] = SlotAt(pos)
    BY DEF AnswerMeetsItsSlot
  <2> QED
    BY DEF Inv, Flow, Working
<1> QED
  BY <1>1, RunIsOrderly, PTL

-----------------------------------------------------------------------------
(* Layer two: what a cursor says is behind it did pass *)

\* A slot is behind a cursor.
Reached(p, k) ==
  \/ \E c \in Cores : k = <<1, c>> /\ (p.stage > 1 \/ (p.stage = 1 /\ c <= p.index))
  \/ k = <<2, 0>> /\ p.stage > 2
  \/ \E h \in 1..Len(Halves) : k = <<3, h>> /\ (p.stage > 3 \/ (p.stage = 3 /\ h <= p.half))
  \/ k = <<4, 0>> /\ config.transitions /\ p.stage > 4
  \/ \E c \in Cores : k = <<5, c>> /\ config.spectrum /\ (p.stage > 5 \/ (p.stage = 5 /\ c <= p.index))
  \/ k = <<6, 0>> /\ config.memory /\ p.stage > 6
  \/ k = <<7, 0>> /\ config.soak /\ ~p.dirty /\ p.stage > 7

\* Behind, one slot at a time.
LEMMA BehindIs ==
  ASSUME config \in Options, NEW p \in Cursor, NEW k
  PROVE  k \in Behind(p) <=> Reached(p, k)
<1>1. /\ p.stage \in 0..9 /\ p.index \in 0..N /\ p.half \in 0..Len(Halves)
      /\ N \in Nat /\ Len(Halves) \in Nat
  BY CursorParts, SizeAssumption, HalvesAssumption
<1> DEFINE done(stage, upto) == {<<stage, c>> : c \in 1..upto}
           solos(stage, on) == IF ~on THEN {} ELSE IF p.stage > stage THEN done(stage, N)
                               ELSE IF p.stage = stage THEN done(stage, p.index) ELSE {}
           whole(stage, on) == IF on /\ p.stage > stage THEN {<<stage, 0>>} ELSE {}
           halves == IF p.stage > 3 THEN done(3, Len(Halves))
                     ELSE IF p.stage = 3 THEN done(3, p.half) ELSE {}
<1>2. Behind(p) = solos(1, TRUE) \union whole(2, TRUE) \union halves
                  \union whole(4, config.transitions) \union solos(5, config.spectrum)
                  \union whole(6, config.memory) \union whole(7, config.soak /\ ~p.dirty)
  BY DEF Behind
<1>3. ASSUME NEW s \in {1, 5}, NEW on \in BOOLEAN
      PROVE  k \in solos(s, on) <=>
               \E c \in Cores : k = <<s, c>> /\ on /\ (p.stage > s \/ (p.stage = s /\ c <= p.index))
  <2>1. \A c \in Nat : c \in 1..p.index <=> c \in Cores /\ c <= p.index
    BY <1>1 DEF Cores
  <2>2. CASE ~on
    BY <2>2
  <2>3. CASE on /\ p.stage > s
    BY <1>1, <2>3 DEF Cores
  <2>4. CASE on /\ p.stage = s
    <3>1. solos(s, on) = done(s, p.index)
      BY <1>1, <2>4
    <3>2. k \in done(s, p.index) <=> \E c \in Cores : k = <<s, c>> /\ c <= p.index
      <4>1. \A c : c \in 1..p.index <=> c \in Cores /\ c <= p.index
        BY <1>1 DEF Cores
      <4> QED
        BY <4>1
    <3>3. ~(p.stage > s)
      BY <1>1, <2>4
    <3> QED
      BY <2>4, <3>1, <3>2, <3>3
  <2>5. CASE on /\ p.stage # s /\ ~(p.stage > s)
    <3>1. solos(s, on) = {}
      BY <2>5
    <3> QED
      BY <2>5, <3>1
  <2> QED
    BY <2>2, <2>3, <2>4, <2>5
<1>4. k \in halves <=>
        \E h \in 1..Len(Halves) : k = <<3, h>> /\ (p.stage > 3 \/ (p.stage = 3 /\ h <= p.half))
  <2>1. CASE p.stage > 3
    BY <2>1
  <2>2. CASE p.stage = 3
    <3>1. \A h : h \in 1..p.half <=> h \in 1..Len(Halves) /\ h <= p.half
      BY <1>1
    <3> QED
      BY <2>2, <3>1
  <2>3. CASE p.stage < 3
    BY <1>1, <2>3
  <2> QED
    BY <1>1, <2>1, <2>2, <2>3
<1>5. ASSUME NEW s \in {2, 4, 6, 7}, NEW on \in BOOLEAN
      PROVE  k \in whole(s, on) <=> k = <<s, 0>> /\ on /\ p.stage > s
  OBVIOUS
<1>6. /\ config.transitions \in BOOLEAN /\ config.spectrum \in BOOLEAN /\ config.memory \in BOOLEAN
      /\ (config.soak /\ ~p.dirty) \in BOOLEAN
  BY OptionAssumption DEF Option
<1>7. /\ k \in solos(1, TRUE) <=>
           \E c \in Cores : k = <<1, c>> /\ (p.stage > 1 \/ (p.stage = 1 /\ c <= p.index))
      /\ k \in solos(5, config.spectrum) <=>
           \E c \in Cores : k = <<5, c>> /\ config.spectrum /\ (p.stage > 5 \/ (p.stage = 5 /\ c <= p.index))
  <2> HIDE DEF solos
  <2> QED
    BY <1>3, <1>6
<1>8. /\ k \in whole(2, TRUE) <=> k = <<2, 0>> /\ p.stage > 2
      /\ k \in whole(4, config.transitions) <=> k = <<4, 0>> /\ config.transitions /\ p.stage > 4
      /\ k \in whole(6, config.memory) <=> k = <<6, 0>> /\ config.memory /\ p.stage > 6
      /\ k \in whole(7, config.soak /\ ~p.dirty) <=> k = <<7, 0>> /\ (config.soak /\ ~p.dirty) /\ p.stage > 7
  <2> HIDE DEF whole
  <2> QED
    BY <1>5, <1>6
<1> HIDE DEF solos, whole, halves
<1>9. k \in Behind(p) <=>
        \/ k \in solos(1, TRUE) \/ k \in whole(2, TRUE) \/ k \in halves
        \/ k \in whole(4, config.transitions) \/ k \in solos(5, config.spectrum)
        \/ k \in whole(6, config.memory) \/ k \in whole(7, config.soak /\ ~p.dirty)
  BY <1>2
<1> QED
  BY <1>4, <1>7, <1>8, <1>9, Zenon DEF Reached

\* Every enabled slot: what a clean pass has behind it.
AllSlots == Behind([Blank EXCEPT !.stage = 9])

\* What is behind a cursor that did not move on is behind the one before.
LEMMA BehindLess ==
  ASSUME config \in Options, NEW p \in Cursor, NEW q \in Cursor,
         \/ q.stage = p.stage /\ q.index = p.index /\ q.half = p.half /\ (p.dirty => q.dirty)
         \/ q.stage = 6 /\ p.stage \in {7, 8}
         \/ q.stage = 0
         \/ q.stage = 1 /\ q.index = 0
  PROVE  Behind(q) \subseteq Behind(p)
<1>1. \A c \in Cores : ~(c <= 0)
  BY SizeAssumption DEF Cores
<1>2. ASSUME NEW k, Reached(q, k) PROVE Reached(p, k)
  <2>1. CASE q.stage = p.stage /\ q.index = p.index /\ q.half = p.half /\ (p.dirty => q.dirty)
    BY <1>2, <2>1, Zenon DEF Reached
  <2>2. CASE q.stage = 6 /\ p.stage \in {7, 8}
    <3>1. p.stage > 1 /\ p.stage > 2 /\ p.stage > 3 /\ p.stage > 4 /\ p.stage > 5 /\ p.stage > 6
      BY <2>2
    <3>2. ~(q.stage > 6) /\ ~(q.stage > 7)
      BY <2>2
    <3> QED
      BY <1>2, <3>1, <3>2, Zenon DEF Reached
  <2>3. CASE q.stage = 0
    BY <1>2, <2>3 DEF Reached
  <2>4. CASE q.stage = 1 /\ q.index = 0
    BY <1>1, <1>2, <2>4 DEF Reached
  <2> QED
    BY <2>1, <2>2, <2>3, <2>4
<1> QED
  BY <1>2, BehindIs

\* Behind the end of a clean pass is every slot.
LEMMA AllAreBehind ==
  ASSUME config \in Options, NEW p \in Cursor
  PROVE  /\ Behind(p) \subseteq AllSlots
         /\ p.stage \in {8, 9} /\ ~p.dirty => Behind(p) = AllSlots
<1> DEFINE z == [Blank EXCEPT !.stage = 9]
<1>1. z \in Cursor /\ z.stage = 9 /\ ~z.dirty
  <2>1. Blank \in Cursor /\ 9 \in 0..9
    BY BlankIsCursor
  <2> QED
    BY <2>1 DEF Cursor, Blank
<1> HIDE DEF z
<1>2. ASSUME NEW k, Reached(p, k) PROVE Reached(z, k)
  <2>1. /\ z.stage > 1 /\ z.stage > 2 /\ z.stage > 3 /\ z.stage > 4
        /\ z.stage > 5 /\ z.stage > 6 /\ z.stage > 7
    BY <1>1
  <2> QED
    BY <1>1, <1>2, <2>1, Zenon DEF Reached
<1>3. ASSUME NEW k, Reached(z, k), p.stage \in {8, 9}, ~p.dirty PROVE Reached(p, k)
  <2>1. /\ p.stage > 1 /\ p.stage > 2 /\ p.stage > 3 /\ p.stage > 4
        /\ p.stage > 5 /\ p.stage > 6 /\ p.stage > 7
    BY <1>3
  <2> QED
    BY <1>3, <2>1, Zenon DEF Reached
<1>4. AllSlots = Behind(z)
  BY DEF AllSlots, z
<1>5. Behind(p) \subseteq AllSlots
  BY <1>1, <1>2, <1>4, BehindIs
<1>6. p.stage \in {8, 9} /\ ~p.dirty => AllSlots \subseteq Behind(p)
  BY <1>1, <1>3, <1>4, BehindIs
<1> QED
  BY <1>5, <1>6

\* The saved cursor is backed by passes, and by every pass once endurance runs.
Backed == (Behind(row) \subseteq passed) /\ (row.stage = 9 => AllSlots \subseteq passed)

\* In a clean pass no offset moved, but where a handler was cut short.
Untainted == row.stage \in 1..8 /\ ~row.dirty => taint \subseteq {"torn"}

\* A core that lost its confirmation owes the pass another one.
Owing == AllConfirmed \/ row.dirty \/ row.stage \in {0, 9}

Clean == Backed /\ Untainted /\ Owing

\* The slots depend on the configuration, which stays.
LEMMA SlotsStay ==
  ASSUME config' = config
  PROVE  AllSlots' = AllSlots /\ \A p : Behind(p)' = Behind(p)
BY DEF AllSlots, Behind

\* The saved cursor stays where it is, dirty at least as it was; whatever moves
\* an offset or takes a confirmation marks it.
LEMMA StayClean ==
  ASSUME config \in Options, Clean, row \in Cursor, row' \in Cursor, config' = config,
         row'.stage = row.stage, row'.index = row.index, row'.half = row.half,
         row.dirty => row'.dirty, passed \subseteq passed',
         taint' \subseteq taint \union {"torn"} \/ row'.dirty \/ row.stage \in {0, 9},
         AllConfirmed => AllConfirmed' \/ row'.dirty \/ row.stage \in {0, 9}
  PROVE  Clean'
<1>1. Behind(row') \subseteq Behind(row)
  BY BehindLess
<1>2. Behind(row)' = Behind(row')
  BY DEF Behind
<1>3. Backed'
  BY <1>1, <1>2, SlotsStay DEF Clean, Backed
<1>4. Untainted'
  <2> SUFFICES ASSUME row'.stage \in 1..8, ~row'.dirty PROVE taint' \subseteq {"torn"}
    BY DEF Untainted
  <2>1. row.stage \in 1..8 /\ ~row.dirty /\ row.stage \notin {0, 9}
    OBVIOUS
  <2> QED
    BY <2>1 DEF Clean, Untainted
<1>5. Owing'
  BY DEF Clean, Owing
<1> QED
  BY <1>3, <1>4, <1>5 DEF Clean

\* ... a penalty does.
LEMMA DemotedClean ==
  ASSUME config \in Options, Clean, row \in Cursor, config' = config, TypeOK,
         NEW cores \in SUBSET Cores, NEW stage \in 0..9, NEW mark \in BOOLEAN,
         Demote(cores, stage, mark), passed \subseteq passed'
  PROVE  Clean'
<1> DEFINE hit == Hit(cores)
           due == Due(cores, mark)
<1>1. Demoted(hit, stage, due)
  BY DemoteFacts, Zenon
<1>2. row.stage \in 0..9 /\ row.dirty \in BOOLEAN
  BY CursorParts
<1>3. hit # {} => due \/ row.stage = 0
  BY <1>2 DEF Due
<1> HIDE DEF hit, due
<1>4. /\ row' \in Cursor /\ row'.stage = row.stage /\ row'.index = row.index /\ row'.half = row.half
      /\ row'.dirty = (row.dirty \/ due)
  BY <1>1 DEF Demoted, Cursor
<1>5. taint' \subseteq taint \union {"torn"} \/ hit # {}
  BY <1>1 DEF Demoted
<1>6. AllConfirmed => AllConfirmed' \/ hit # {}
  BY <1>1 DEF Demoted, AllConfirmed
<1>7. hit # {} => row'.dirty \/ row.stage \in {0, 9}
  BY <1>3, <1>4
<1> QED
  BY <1>4, <1>5, <1>6, <1>7, StayClean

\* Steps that leave the saved cursor, the offsets and the confirmations alone.
LEMMA IdleClean ==
  ASSUME Inv, Clean, config' = config, row' = row, passed \subseteq passed',
         taint' \subseteq taint \union {"torn"}, search' = search \/ AllConfirmed'
  PROVE  Clean'
<1>1. config \in Options /\ row \in Cursor
  BY TypesAre DEF Inv
<1>2. AllConfirmed => AllConfirmed'
  BY DEF AllConfirmed
<1> QED
  BY <1>1, <1>2, StayClean

\* The dispatcher's steps within a stage.
LEMMA QuietClean ==
  ASSUME Inv, Clean,
         StartSlot \/ StartRetest \/ RequeueDrained \/ Reearn \/ CooldownOver \/ Dropped
  PROVE  Clean'
<1>1. CASE StartSlot \/ StartRetest
  <2>1. config' = config /\ row' = row /\ search' = search /\ passed' = passed /\ taint' = taint
    BY <1>1 DEF StartSlot, StartRetest, Launch, database, history
  <2> QED
    BY <2>1, IdleClean
<1>2. CASE RequeueDrained
  <2>1. /\ config' = config /\ row' = pos /\ search' = search /\ passed' = passed /\ taint' = taint
        /\ Fire("requeue", {"next"}) /\ status = "validating"
    BY <1>2 DEF RequeueDrained, history
  <2>2. "requeue" \in Kinds /\ {"next"} \in SUBSET Kinds
    BY DEF Kinds
  <2>3. pos.stage > 0
    BY <2>1, <2>2, DueMeans
  <2>4. row' = row
    BY <2>1, <2>3 DEF Inv, Flow, Saved
  <2> QED
    BY <2>1, <2>4, IdleClean
<1>3. CASE Reearn
  <2>1. config' = config /\ row' = row /\ search' = [c \in Cores |-> "confirmed"]
        /\ passed' = passed /\ taint' = taint
    BY <1>3 DEF Reearn, history
  <2>2. AllConfirmed'
    BY <2>1 DEF AllConfirmed
  <2> QED
    BY <2>1, <2>2, IdleClean
<1>4. CASE CooldownOver \/ Dropped
  <2>1. config' = config /\ row' = row /\ search' = search /\ passed' = passed /\ taint' = taint
    BY <1>4 DEF CooldownOver, Dropped, database, history
  <2> QED
    BY <2>1, IdleClean
<1> QED
  BY <1>1, <1>2, <1>3, <1>4

\* A stage without a slot: nothing of it is missing behind the next one.
LEMMA HandOver ==
  ASSUME config \in Options, pos \in Cursor, NEW q \in Cursor, SlotAt(pos) = Nothing,
         q.dirty = pos.dirty, q.half = pos.half,
         \/ pos.stage \in {1, 3, 6, 7} /\ q.stage = pos.stage + 1 /\ q.index = pos.index
         \/ pos.stage = 4 /\ q.stage = 5 /\ q.index = 0
         \/ pos.stage = 5 /\ q.stage = 6
  PROVE  Behind(q) \subseteq Behind(pos)
<1>1. /\ pos.index \in 0..N /\ pos.half \in 0..Len(Halves) /\ N \in Nat /\ Len(Halves) \in Nat
      /\ Cores = 1..N
  BY CursorParts, SizeAssumption, HalvesAssumption DEF Cores
<1>2. \A c \in Cores : ~(c <= 0) /\ (pos.index = N => c <= pos.index)
  BY <1>1
<1>3. \A h \in 1..Len(Halves) : pos.half = Len(Halves) => h <= pos.half
  BY <1>1
<1>4. CASE pos.stage = 1 /\ q.stage = 2
  <2>1. pos.index = N
    <3>1. pos.index < N => SlotAt(pos) = Solo(1, pos.index + 1)
      BY <1>4 DEF SlotAt
    <3>2. ~(pos.index < N)
      BY <3>1 DEF Solo, Nothing
    <3> QED
      BY <1>1, <3>2
  <2>2. ASSUME NEW k, Reached(q, k) PROVE Reached(pos, k)
    BY <1>2, <1>4, <2>1, <2>2 DEF Reached
  <2> QED
    BY <2>2, BehindIs
<1>5. CASE pos.stage = 3 /\ q.stage = 4
  <2>1. pos.half = Len(Halves)
    <3>1. pos.half < Len(Halves) =>
            SlotAt(pos) = [key |-> <<3, pos.half + 1>>, cores |-> Halves[pos.half + 1]]
      BY <1>5 DEF SlotAt
    <3>2. ~(pos.half < Len(Halves))
      BY <3>1 DEF Nothing
    <3> QED
      BY <1>1, <3>2
  <2>2. ASSUME NEW k, Reached(q, k) PROVE Reached(pos, k)
    BY <1>3, <1>5, <2>1, <2>2 DEF Reached
  <2> QED
    BY <2>2, BehindIs
<1>6. CASE pos.stage = 4 /\ q.stage = 5 /\ q.index = 0
  <2>1. ~config.transitions
    <3>1. config.transitions => SlotAt(pos) = Together(4)
      BY <1>6 DEF SlotAt
    <3> QED
      BY <3>1 DEF Together, Nothing
  <2>2. ASSUME NEW k, Reached(q, k) PROVE Reached(pos, k)
    BY <1>2, <1>6, <2>1, <2>2 DEF Reached
  <2> QED
    BY <2>2, BehindIs
<1>7. CASE pos.stage = 5 /\ q.stage = 6
  <2>1. config.spectrum => pos.index = N
    <3>1. config.spectrum /\ pos.index < N => SlotAt(pos) = Solo(5, pos.index + 1)
      BY <1>7 DEF SlotAt
    <3>2. config.spectrum => ~(pos.index < N)
      BY <3>1 DEF Solo, Nothing
    <3> QED
      BY <1>1, <3>2
  <2>2. ASSUME NEW k, Reached(q, k) PROVE Reached(pos, k)
    BY <1>2, <1>7, <2>1, <2>2 DEF Reached
  <2> QED
    BY <2>2, BehindIs
<1>8. CASE pos.stage = 6 /\ q.stage = 7
  <2>1. ~config.memory
    <3>1. config.memory => SlotAt(pos) = Together(6)
      BY <1>8 DEF SlotAt
    <3> QED
      BY <3>1 DEF Together, Nothing
  <2>2. ASSUME NEW k, Reached(q, k) PROVE Reached(pos, k)
    BY <1>8, <2>1, <2>2 DEF Reached
  <2> QED
    BY <2>2, BehindIs
<1>9. CASE pos.stage = 7 /\ q.stage = 8
  <2>1. ~config.soak \/ pos.dirty
    <3>1. config.soak /\ ~pos.dirty => SlotAt(pos) = Together(7)
      BY <1>9 DEF SlotAt
    <3> QED
      BY <3>1 DEF Together, Nothing
  <2>2. ASSUME NEW k, Reached(q, k) PROVE Reached(pos, k)
    BY <1>9, <2>1, <2>2 DEF Reached
  <2> QED
    BY <2>2, BehindIs
<1> QED
  BY <1>4, <1>5, <1>6, <1>7, <1>8, <1>9

\* The cursor moves on within the stages, behind slots that passed.
LEMMA MoveClean ==
  ASSUME Inv, Clean, row = pos, row' \in Cursor, config' = config, AllConfirmed',
         passed \subseteq passed', Behind(row') \subseteq Behind(pos) \union passed',
         taint' = taint, row'.dirty = pos.dirty,
         row'.stage \in 1..9, row'.stage = 9 => pos.stage = 9, row'.stage < 9 => pos.stage \in 1..8
  PROVE  Clean'
<1>1. Behind(row)' = Behind(row')
  BY DEF Behind
<1>2. Backed'
  BY <1>1, SlotsStay DEF Clean, Backed
<1>3. Untainted'
  BY DEF Clean, Untainted
<1> QED
  BY <1>2, <1>3 DEF Clean, Owing

\* A stage without a slot hands over.
LEMMA NextStageClean == ASSUME Inv, Clean, NextStage, Inv' PROVE Clean'
<1>1. /\ Fire("next", {"next"}) /\ status = "validating" /\ SlotAt(pos) = Nothing
      /\ config' = config /\ search' = search /\ passed' = passed /\ taint' = taint
  BY DEF NextStage, history
<1>2. "next" \in Kinds /\ {"next"} \in SUBSET Kinds
  BY DEF Kinds
<1>3. AllConfirmed /\ pos.stage > 0 /\ row = pos
  BY <1>1, <1>2, DueMeans DEF Inv, Flow, Saved
<1>4. config \in Options /\ pos \in Cursor /\ row' \in Cursor
  BY TypesAre DEF Inv, TypeOK
<1>5. AllConfirmed'
  BY <1>1, <1>3 DEF AllConfirmed
<1>6. CASE pos.stage \in {1, 3, 6, 7} /\ MoveTo([pos EXCEPT !.stage = @ + 1])
  <2>1. /\ row'.stage = pos.stage + 1 /\ row'.index = pos.index /\ row'.half = pos.half
        /\ row'.dirty = pos.dirty
    BY <1>4, <1>6 DEF MoveTo, Cursor
  <2>2. Behind(row') \subseteq Behind(pos)
    BY <1>1, <1>4, <1>6, <2>1, HandOver
  <2>3. row'.stage \in 1..9 /\ (row'.stage = 9 => pos.stage = 9) /\ (row'.stage < 9 => pos.stage \in 1..8)
    BY <1>6, <2>1
  <2>4. Behind(row') \subseteq Behind(pos) \union passed' /\ passed \subseteq passed'
    BY <1>1, <2>2
  <2> QED
    BY <1>1, <1>3, <1>4, <1>5, <2>1, <2>3, <2>4, MoveClean
<1>7. CASE pos.stage = 4 /\ MoveTo([pos EXCEPT !.stage = 5, !.index = 0])
  <2>1. row'.stage = 5 /\ row'.index = 0 /\ row'.half = pos.half /\ row'.dirty = pos.dirty
    BY <1>4, <1>7 DEF MoveTo, Cursor
  <2>2. Behind(row') \subseteq Behind(pos)
    BY <1>1, <1>4, <1>7, <2>1, HandOver
  <2>3. row'.stage \in 1..9 /\ (row'.stage = 9 => pos.stage = 9) /\ (row'.stage < 9 => pos.stage \in 1..8)
    BY <1>7, <2>1
  <2>4. Behind(row') \subseteq Behind(pos) \union passed' /\ passed \subseteq passed'
    BY <1>1, <2>2
  <2> QED
    BY <1>1, <1>3, <1>4, <1>5, <2>1, <2>3, <2>4, MoveClean
<1>8. CASE pos.stage = 5 /\ MoveTo([pos EXCEPT !.stage = 6, !.index = IF config.spectrum THEN 0 ELSE @])
  <2>1. row'.stage = 6 /\ row'.half = pos.half /\ row'.dirty = pos.dirty
    BY <1>4, <1>8 DEF MoveTo, Cursor
  <2>2. Behind(row') \subseteq Behind(pos)
    BY <1>1, <1>4, <1>8, <2>1, HandOver
  <2>3. row'.stage \in 1..9 /\ (row'.stage = 9 => pos.stage = 9) /\ (row'.stage < 9 => pos.stage \in 1..8)
    BY <1>8, <2>1
  <2>4. Behind(row') \subseteq Behind(pos) \union passed' /\ passed \subseteq passed'
    BY <1>1, <2>2
  <2> QED
    BY <1>1, <1>3, <1>4, <1>5, <2>1, <2>3, <2>4, MoveClean
<1>9. CASE pos.stage = 9 /\ MoveTo([pos EXCEPT !.work = @ + 1, !.lane = 0])
  <2>1. row'.stage = 9 /\ row'.index = pos.index /\ row'.half = pos.half /\ row'.dirty = pos.dirty
    BY <1>4, <1>9 DEF MoveTo, Cursor
  <2>2. Behind(row') \subseteq Behind(pos)
    BY <1>4, <1>9, <2>1, BehindLess
  <2>3. row'.stage \in 1..9 /\ (row'.stage = 9 => pos.stage = 9) /\ (row'.stage < 9 => pos.stage \in 1..8)
    BY <1>9, <2>1
  <2>4. Behind(row') \subseteq Behind(pos) \union passed' /\ passed \subseteq passed'
    BY <1>1, <2>2
  <2> QED
    BY <1>1, <1>3, <1>4, <1>5, <2>1, <2>3, <2>4, MoveClean
<1> QED
  BY <1>6, <1>7, <1>8, <1>9, Zenon DEF NextStage

\* At the start of a sequence nothing is behind the cursor.
LEMMA StartClean ==
  ASSUME config \in Options, row' \in Cursor, config' = config,
         row'.stage = 1, row'.index = 0, taint' = {}, AllConfirmed'
  PROVE  Clean'
<1>1. Behind(row') \subseteq Behind(Blank)
  BY BehindLess, BlankIsCursor
<1>2. Behind(Blank) = {}
  <2>1. \A k : ~Reached(Blank, k)
    BY DEF Reached, Blank
  <2> QED
    BY <2>1, BehindIs, BlankIsCursor
<1>3. Behind(row)' = Behind(row')
  BY DEF Behind
<1> QED
  BY <1>1, <1>2, <1>3 DEF Clean, Backed, Untainted, Owing

\* A pass starts over.
LEMMA FreshPassClean == ASSUME Inv, Clean, FreshPass, Inv' PROVE Clean'
<1>1. /\ Fire("next", {"next"}) /\ status \in {"validating", "running"}
      /\ row' = [pos EXCEPT !.stage = 1, !.index = 0, !.half = 0, !.dirty = FALSE, !.requeue = <<>>]
      /\ taint' = {} /\ config' = config /\ search' = search
  BY DEF FreshPass, MoveTo, NewPass
<1>2. "next" \in Kinds /\ {"next"} \in SUBSET Kinds /\ "next" # "search"
  BY DEF Kinds
<1>3. AllConfirmed
  BY <1>1, <1>2, DueMeans
<1>4. config \in Options /\ pos \in Cursor /\ row' \in Cursor
  BY TypesAre DEF Inv, TypeOK
<1>5. row'.stage = 1 /\ row'.index = 0
  BY <1>1, <1>4 DEF Cursor
<1>6. AllConfirmed'
  BY <1>1, <1>3 DEF AllConfirmed
<1> QED
  BY <1>1, <1>4, <1>5, <1>6, StartClean

\* The pass is over: endurance starts with every slot behind it, and both ways of
\* concluding find the pass clean.
LEMMA ConcludeClean ==
  ASSUME Inv, Clean, Conclude, Inv'
  PROVE  /\ Clean' /\ pos.stage = 8
         /\ Behind([pos EXCEPT !.stage = 8, !.dirty = FALSE]) \subseteq passed
         /\ taint \subseteq {"torn"}
<1>1. /\ status \in {"validating", "running"} /\ pos.stage \in {0, 8} /\ ~pos.dirty
      /\ config' = config /\ search' = search /\ passed' = passed /\ taint' = taint
  BY DEF Conclude, history
<1>2. "next" \in Kinds /\ {"next"} \in SUBSET Kinds /\ {} \in SUBSET Kinds /\ "next" # "search"
  BY DEF Kinds
<1>3. PICK made \in SUBSET Kinds : Fire("next", made)
  BY <1>2 DEF Conclude
<1>4. AllConfirmed /\ pos.stage = 8 /\ row = pos
  <2>1. status = "validating" /\ AllConfirmed /\ pos.stage > 0
    BY <1>1, <1>2, <1>3, DueMeans
  <2> QED
    BY <1>1, <2>1 DEF Inv, Flow, Saved
<1>5. config \in Options /\ pos \in Cursor /\ row' \in Cursor
  BY TypesAre DEF Inv, TypeOK
<1>6. AllSlots \subseteq passed /\ Behind(pos) \subseteq passed /\ taint \subseteq {"torn"}
  <2>1. Behind(pos) = AllSlots
    BY <1>1, <1>4, <1>5, AllAreBehind
  <2> QED
    BY <1>1, <1>4, <2>1 DEF Clean, Backed, Untainted
<1>7. [pos EXCEPT !.stage = 8, !.dirty = FALSE] = pos
  <2>1. pos.dirty = FALSE
    BY <1>1, <1>5, CursorParts
  <2> QED
    BY <1>4, <1>5, <2>1 DEF Cursor
<1>8. row'.stage \in {0, 9}
  <2>1. CASE MoveTo([pos EXCEPT !.stage = 9, !.index = 0, !.half = 0, !.work = 0, !.lane = 0])
    BY <1>5, <2>1 DEF MoveTo, Cursor
  <2>2. CASE MoveTo([pos EXCEPT !.stage = 0, !.requeue = <<>>, !.index = 0, !.half = 0])
    BY <1>5, <2>2 DEF MoveTo, Cursor
  <2> QED
    BY <2>1, <2>2, Zenon DEF Conclude, Finalize
<1>9. Behind(row)' = Behind(row') /\ Behind(row') \subseteq AllSlots
  BY <1>1, <1>5, AllAreBehind DEF Behind
<1>10. Clean'
  BY <1>1, <1>6, <1>8, <1>9, SlotsStay DEF Clean, Backed, Untainted, Owing
<1> QED
  BY <1>4, <1>6, <1>7, <1>10

\* A round of endurance is over.
LEMMA FinishRoundClean == ASSUME Inv, Clean, FinishRound, Inv' PROVE Clean'
<1>1. /\ status = "validating" /\ pos.stage = 9
      /\ row' = [pos EXCEPT !.dirty = FALSE, !.work = 0, !.lane = 0]
      /\ config' = config /\ passed' = passed
  BY DEF FinishRound, history
<1>2. row = pos
  BY <1>1 DEF Inv, Flow, Saved
<1>3. config \in Options /\ pos \in Cursor /\ row' \in Cursor
  BY TypesAre DEF Inv, TypeOK
<1>4. row'.stage = 9
  BY <1>1, <1>3 DEF Cursor
<1>5. AllSlots \subseteq passed
  BY <1>1, <1>2 DEF Clean, Backed
<1>6. Behind(row') \subseteq AllSlots
  BY <1>3, AllAreBehind
<1>7. Behind(row)' = Behind(row')
  BY <1>1 DEF Behind
<1> QED
  BY <1>1, <1>4, <1>5, <1>6, <1>7, SlotsStay DEF Clean, Backed, Untainted, Owing

\* What is behind the cursor after a pass was behind it before, or is the slot
\* that passed.
LEMMA BehindBeyond ==
  ASSUME Inv, NEW i \in DOMAIN workers, Answer(i), NEW q \in Cursor, Beyond(q),
         NEW k, Reached(q, k)
  PROVE  Reached(pos, k) \/ (k = workers[i].key /\ k[1] \in 1..7)
<1>1. /\ ~run.solo => workers[i] = SlotAt(pos) /\ SlotAt(pos) # Nothing
      /\ pos \in Cursor /\ config \in Options /\ Soaks
  BY AnswerMeans, TypesAre DEF Inv
<1>2. /\ pos.index \in 0..N /\ pos.half \in 0..Len(Halves) /\ N \in Nat /\ Len(Halves) \in Nat
      /\ Cores = 1..N
  BY <1>1, CursorParts, SizeAssumption, HalvesAssumption DEF Cores
<1>3. \A c \in Cores : ~(c <= 0) /\ (c <= pos.index + 1 => c <= pos.index \/ c = pos.index + 1)
  BY <1>2
<1>4. \A h \in 1..Len(Halves) : ~(h <= 0) /\ (h <= pos.half + 1 => h <= pos.half \/ h = pos.half + 1)
  BY <1>2
<1>5. CASE run.soaking /\ q = [pos EXCEPT !.stage = 8]
  <2>1. pos.stage = 7 /\ config.soak /\ ~pos.dirty /\ ~run.solo
    BY <1>1, <1>5 DEF Soaks
  <2>2. workers[i].key = <<7, 0>>
    BY <1>1, <2>1, SlotsOf DEF Together
  <2>3. q.stage = 8 /\ q.dirty = pos.dirty
    BY <1>1, <1>5 DEF Cursor
  <2> QED
    BY <2>1, <2>2, <2>3 DEF Reached
<1>6. CASE run.solo /\ q = [pos EXCEPT !.requeue = RemoveFirst(pos.requeue, Head(pos.requeue))]
  <2>1. q.stage = pos.stage /\ q.index = pos.index /\ q.half = pos.half /\ q.dirty = pos.dirty
    BY <1>1, <1>6 DEF Cursor
  <2> QED
    BY <2>1, Zenon DEF Reached
<1>7. CASE ~run.solo /\ pos.stage \in {1, 5} /\ q = [pos EXCEPT !.index = pos.index + 1]
  <2>1. workers[i].key = <<pos.stage, pos.index + 1>>
    BY <1>1, <1>7, SlotsOf DEF Solo
  <2>2. q.stage = pos.stage /\ q.index = pos.index + 1
    BY <1>1, <1>7 DEF Cursor
  <2> QED
    BY <1>3, <1>7, <2>1, <2>2 DEF Reached
<1>8. CASE ~run.solo /\ pos.stage = 2 /\ q = [pos EXCEPT !.stage = 3, !.half = 0]
  <2>1. workers[i].key = <<2, 0>>
    BY <1>1, <1>8, SlotsOf DEF Together
  <2>2. q.stage = 3 /\ q.half = 0
    BY <1>1, <1>8 DEF Cursor
  <2> QED
    BY <1>4, <1>8, <2>1, <2>2 DEF Reached
<1>9. CASE ~run.solo /\ pos.stage = 3 /\ q = [pos EXCEPT !.half = pos.half + 1]
  <2>1. workers[i].key = <<3, pos.half + 1>>
    BY <1>1, <1>9, SlotsOf
  <2>2. q.stage = 3 /\ q.half = pos.half + 1
    BY <1>1, <1>9 DEF Cursor
  <2> QED
    BY <1>4, <1>9, <2>1, <2>2 DEF Reached
<1>10. CASE ~run.solo /\ pos.stage = 4 /\ q = [pos EXCEPT !.stage = 5, !.index = 0]
  <2>1. workers[i].key = <<4, 0>>
    BY <1>1, <1>10, SlotsOf DEF Together
  <2>2. q.stage = 5 /\ q.index = 0
    BY <1>1, <1>10 DEF Cursor
  <2> QED
    BY <1>3, <1>10, <2>1, <2>2 DEF Reached
<1>11. CASE ~run.solo /\ pos.stage = 6 /\ q = [pos EXCEPT !.stage = 7]
  <2>1. workers[i].key = <<6, 0>>
    BY <1>1, <1>11, SlotsOf DEF Together
  <2>2. q.stage = 7
    BY <1>1, <1>11 DEF Cursor
  <2> QED
    BY <1>11, <2>1, <2>2 DEF Reached
<1>12. CASE pos.stage = 9 /\ q = [pos EXCEPT !.lane = pos.lane + 1]
  <2>1. q.stage = pos.stage /\ q.index = pos.index /\ q.half = pos.half /\ q.dirty = pos.dirty
    BY <1>1, <1>12 DEF Cursor
  <2> QED
    BY <2>1, Zenon DEF Reached
<1>13. CASE q = pos
  BY <1>13
<1> QED
  BY <1>5, <1>6, <1>7, <1>8, <1>9, <1>10, <1>11, <1>12, <1>13 DEF Beyond

\* ... which is the same stage or a later one, as dirty as before.
LEMMA BeyondStage ==
  ASSUME pos \in Cursor, Soaks, NEW q, Beyond(q)
  PROVE  /\ q.dirty = pos.dirty
         /\ q.stage = pos.stage \/ (pos.stage \in {2, 4, 6, 7} /\ q.stage \in {3, 5, 7, 8})
<1>1. run.soaking => pos.stage = 7
  BY DEF Soaks
<1>2. CASE run.soaking
  BY <1>1, <1>2 DEF Beyond, Cursor
<1>3. CASE ~run.soaking /\ run.solo
  BY <1>3 DEF Beyond, Cursor
<1>4. CASE ~run.soaking /\ ~run.solo
  BY <1>4 DEF Beyond, Cursor
<1> QED
  BY <1>2, <1>3, <1>4

\* A slot passes.
LEMMA PassClean == ASSUME Inv, Clean, NEW i \in DOMAIN workers, Pass(i), Inv' PROVE Clean'
<1>1. /\ Answer(i) /\ MoveTo(AfterPass(workers[i])) /\ search' = search /\ taint' = taint
      /\ passed' = passed \union {k \in {workers[i].key} : k[1] \in 1..7}
  BY DEF Pass
<1>2. /\ row = pos /\ AllConfirmed /\ pos.stage > 0 /\ config' = config /\ pos \in Cursor
      /\ row' \in Cursor /\ config \in Options /\ Soaks
  BY <1>1, AnswerMeans, TypesAre DEF Inv, TypeOK
<1>3. Beyond(row')
  <2>1. row' = AfterPass(workers[i])
    BY <1>1 DEF MoveTo
  <2> QED
    BY <1>1, <2>1, AfterPassIs
<1>4. Behind(row') \subseteq Behind(pos) \union passed' /\ passed \subseteq passed'
  <2>1. ASSUME NEW k \in Behind(row') PROVE k \in Behind(pos) \union passed'
    <3>1. Reached(row', k)
      BY <1>2, BehindIs
    <3>2. Reached(pos, k) \/ (k = workers[i].key /\ k[1] \in 1..7)
      BY <1>1, <1>2, <1>3, <3>1, BehindBeyond
    <3> QED
      BY <1>1, <1>2, <3>2, BehindIs
  <2> QED
    BY <1>1, <2>1
<1>5. /\ row'.dirty = pos.dirty
      /\ row'.stage = pos.stage \/ (pos.stage \in {2, 4, 6, 7} /\ row'.stage \in {3, 5, 7, 8})
  BY <1>2, <1>3, BeyondStage
<1>6. row'.stage \in 1..9 /\ (row'.stage = 9 => pos.stage = 9) /\ (row'.stage < 9 => pos.stage \in 1..8)
  <2>1. pos.stage \in 1..9
    BY <1>2, CursorParts
  <2> QED
    BY <1>5, <2>1
<1>7. AllConfirmed'
  BY <1>1, <1>2 DEF AllConfirmed
<1> QED
  BY <1>1, <1>2, <1>4, <1>5, <1>6, <1>7, MoveClean

\* Validation is entered or continued: no further than the saved cursor.
LEMMA EntryClean ==
  ASSUME TypeOK, Clean, row' \in Cursor, config' = config, AllConfirmed',
         row.stage = 0 => row'.stage = 1 /\ row'.index = 0 /\ taint' = {},
         row.stage > 0 => /\ row'.stage = EntryCursor.stage /\ row'.index = EntryCursor.index
                          /\ row'.half = EntryCursor.half,
         row.stage > 0 => (row.dirty => row'.dirty),
         row.stage > 0 => passed' = passed /\ (taint' = taint \/ row'.dirty)
  PROVE  Clean'
<1>1. config \in Options /\ row \in Cursor /\ pos \in Cursor /\ row.stage \in 0..9
  BY TypesAre, CursorParts
<1>2. CASE row.stage = 0
  BY <1>1, <1>2, StartClean
<1>3. CASE row.stage > 0
  <2>1. /\ row'.stage = (IF row.stage = 9 THEN 9 ELSE IF row.stage > 6 THEN 6 ELSE row.stage)
        /\ row'.index = row.index /\ row'.half = row.half /\ (row.dirty => row'.dirty)
    BY <1>1, <1>3, EntryFacts
  <2>2. row'.stage = row.stage \/ (row'.stage = 6 /\ row.stage \in {7, 8})
    BY <1>1, <2>1
  <2>3. Behind(row') \subseteq Behind(row)
    BY <1>1, <2>1, <2>2, BehindLess
  <2>4. Behind(row)' = Behind(row')
    BY DEF Behind
  <2>5. Backed'
    <3>1. row'.stage = 9 => row.stage = 9
      BY <2>2
    <3> QED
      BY <1>3, <2>3, <2>4, <3>1, SlotsStay DEF Clean, Backed
  <2>6. Untainted'
    <3>1. row'.stage \in 1..8 => row.stage \in 1..8
      BY <2>2
    <3> QED
      BY <1>3, <2>1, <3>1 DEF Clean, Untainted
  <2> QED
    BY <2>5, <2>6 DEF Clean, Owing
<1> QED
  BY <1>1, <1>2, <1>3

\* The search is over: validation is entered.
LEMMA CompleteClean == ASSUME Inv, Clean, Complete, Inv' PROVE Clean'
<1>1. /\ AllConfirmed /\ search' = search /\ config' = config /\ row' = EntryCursor
      /\ row.stage = 0 => taint' = {}
      /\ row.stage # 0 => passed' = passed /\ taint' = taint
  BY DEF Complete, EnterAt, MoveTo, NewPass
<1>2. TypeOK /\ pos \in Cursor /\ row \in Cursor /\ row' \in Cursor /\ row.stage \in 0..9
  BY TypesAre, CursorParts DEF Inv, TypeOK
<1>3. row.stage = 0 => row'.stage = 1 /\ row'.index = 0
  <2>1. row.stage = 0 => EntryCursor = [Blank EXCEPT !.stage = 1]
    BY <1>2, EntryFacts
  <2> QED
    BY <1>1, <2>1 DEF Blank
<1>4. row.stage > 0 => (row.dirty => row'.dirty)
  BY <1>1, <1>2, EntryFacts
<1>5. AllConfirmed'
  BY <1>1 DEF AllConfirmed
<1> QED
  BY <1>1, <1>2, <1>3, <1>4, <1>5, EntryClean

\* ... or continued by a resume with nothing to attribute.
LEMMA ResumeQuietlyClean == ASSUME Inv, Clean, ResumeQuietly, Inv' PROVE Clean'
<1>1. config' = config /\ search' = search
  BY DEF ResumeQuietly, Resuming
<1>2. TypeOK /\ pos \in Cursor /\ row \in Cursor /\ row' \in Cursor /\ row.stage \in 0..9 /\ row.dirty \in BOOLEAN
  BY TypesAre, CursorParts DEF Inv, TypeOK
<1> DEFINE d == row.stage > 0 /\ row.dirty
<1>3. CASE AllConfirmed /\ EnterAt([EntryCursor EXCEPT !.dirty = d])
  <2>1. /\ row' = [EntryCursor EXCEPT !.dirty = d]
        /\ row.stage = 0 => taint' = {}
        /\ row.stage # 0 => passed' = passed /\ taint' = taint
    BY <1>3 DEF EnterAt, MoveTo, NewPass
  <2>2. /\ row'.stage = EntryCursor.stage /\ row'.index = EntryCursor.index
        /\ row'.half = EntryCursor.half /\ row'.dirty = d
    <3>1. EntryCursor \in Cursor
      BY <1>2, EntryFacts
    <3>2. d \in BOOLEAN
      OBVIOUS
    <3> HIDE DEF d
    <3> QED
      BY <2>1, <3>1, <3>2 DEF Cursor
  <2>3. row.stage = 0 => row'.stage = 1 /\ row'.index = 0
    <3>1. row.stage = 0 => EntryCursor = [Blank EXCEPT !.stage = 1]
      BY <1>2, EntryFacts
    <3> QED
      BY <2>2, <3>1 DEF Blank
  <2>4. AllConfirmed'
    BY <1>1, <1>3 DEF AllConfirmed
  <2> QED
    BY <1>1, <1>2, <2>1, <2>2, <2>3, <2>4, EntryClean
<1>4. CASE UNCHANGED <<row, incidents, passed, taint>>
  BY <1>1, <1>4, IdleClean
<1> QED
  BY <1>3, <1>4, Zenon DEF ResumeQuietly

\* The other resumes: a conviction marks the pass, an incident too.
LEMMA ResumeChargedClean ==
  ASSUME Inv, Clean, NEW charged \in SUBSET Cores, ResumeCharged(charged)
  PROVE  Clean'
<1>1. /\ Demote(charged, 0, FALSE) /\ config' = config /\ passed' = passed
  BY DEF ResumeCharged, HuntEnds, Resuming
<1>2. TypeOK /\ config \in Options /\ row \in Cursor /\ 0 \in 0..9 /\ FALSE \in BOOLEAN
  BY TypesAre DEF Inv
<1> QED
  BY <1>1, <1>2, DemotedClean

LEMMA ResumeIncidentClean == ASSUME Inv, Clean, ResumeIncident, Inv' PROVE Clean'
<1> DEFINE n == IF incidents < MaxIncidents THEN incidents + 1 ELSE incidents
<1>1. /\ row.stage > 0 /\ search' = search /\ passed' = passed /\ config' = config
      /\ taint' = taint \union {"event"}
  BY DEF ResumeIncident, Resuming
<1>2. /\ TypeOK /\ config \in Options /\ pos \in Cursor /\ row \in Cursor /\ row' \in Cursor
      /\ row.stage \in 0..9
  BY TypesAre, CursorParts DEF Inv, TypeOK
<1>3. CASE row' = [row EXCEPT !.dirty = TRUE]
  <2>1. /\ row'.stage = row.stage /\ row'.index = row.index /\ row'.half = row.half /\ row'.dirty
    BY <1>2, <1>3 DEF Cursor
  <2>2. AllConfirmed => AllConfirmed'
    BY <1>1 DEF AllConfirmed
  <2> QED
    BY <1>1, <1>2, <2>1, <2>2, StayClean
<1>4. CASE AllConfirmed /\ MoveTo([EntryCursor EXCEPT !.dirty = TRUE])
  <2>1. row' = [EntryCursor EXCEPT !.dirty = TRUE]
    BY <1>4 DEF MoveTo
  <2>2. /\ row'.stage = EntryCursor.stage /\ row'.index = EntryCursor.index
        /\ row'.half = EntryCursor.half /\ row'.dirty
    <3>1. EntryCursor \in Cursor
      BY <1>2, EntryFacts
    <3> QED
      BY <2>1, <3>1 DEF Cursor
  <2>3. AllConfirmed'
    BY <1>1, <1>4 DEF AllConfirmed
  <2> QED
    BY <1>1, <1>2, <2>2, <2>3, EntryClean
<1>5. CASE ~AllConfirmed /\ UNCHANGED <<row, pos>>
  <2>1. row.dirty \/ row.stage = 9
    BY <1>1, <1>5 DEF Clean, Owing
  <2>2. row' = row /\ ~AllConfirmed
    BY <1>5
  <2> QED
    BY <1>1, <1>2, <2>1, <2>2, StayClean
<1> QED
  BY <1>3, <1>4, <1>5, Zenon DEF ResumeIncident

\* The operator stops it, the machine dies with the process or without, and a kill
\* inside a handler leaves its first write.
LEMMA StopClean ==
  ASSUME Inv, Clean,
         \/ Pause \/ Abort \/ Down \/ ResumeAtStock
         \/ \E i \in DOMAIN workers : Torn(i) \/ TooOften(i, run.thermals, MaxThermals)
                                              \/ TooOften(i, run.faults, MaxFaults)
  PROVE  Clean'
<1>1. CASE Pause \/ Abort \/ ResumeAtStock \/ Down
  <2>1. config' = config /\ row' = row /\ search' = search /\ passed' = passed /\ taint' = taint
    BY <1>1 DEF Pause, Abort, ResumeAtStock, Down, Lost, Resuming, database, history
  <2> QED
    BY <2>1, IdleClean
<1>2. CASE \E i \in DOMAIN workers : TooOften(i, run.thermals, MaxThermals) \/ TooOften(i, run.faults, MaxFaults)
  <2>1. config' = config /\ row' = row /\ search' = search /\ passed' = passed /\ taint' = taint
    BY <1>2 DEF TooOften, database, history
  <2> QED
    BY <2>1, IdleClean
<1>3. CASE \E i \in DOMAIN workers : Torn(i)
  <2>1. /\ config' = config /\ row' = row /\ search' = search /\ passed' = passed
        /\ taint' \subseteq taint \union {"torn"}
    BY <1>3 DEF Torn, Lost
  <2> QED
    BY <2>1, IdleClean
<1> QED
  BY <1>1, <1>2, <1>3

\* Evidence about other cores, or a hunt.
LEMMA LeaveForClean ==
  ASSUME Inv, Clean, config' = config, NEW cores \in SUBSET Cores, LeaveFor(cores)
  PROVE  Clean'
<1> DEFINE stage == IF status \in Dormant \/ cores \ Undervolted # {} THEN pos.stage ELSE 0
<1>1. Demote(cores, stage, FALSE) /\ passed' = passed
  BY Zenon DEF LeaveFor
<1>2. TypeOK /\ config \in Options /\ row \in Cursor /\ stage \in 0..9 /\ FALSE \in BOOLEAN
  BY TypesAre, CursorParts DEF Inv
<1> HIDE DEF stage
<1> QED
  BY <1>1, <1>2, DemotedClean

\* A slot that has no verdict.
LEMMA NoVerdictClean ==
  ASSUME Inv, Clean, NEW i \in DOMAIN workers, NEW foreign \in SUBSET Cores,
         StartupFault(i, foreign) \/ ThermalStop(i, foreign) \/ ApparatusFault(i, foreign)
  PROVE  Clean'
<1>1. CASE StartupFault(i, foreign)
  <2>1. Demote(foreign, pos.stage, FALSE) /\ config' = config /\ passed' = passed
    BY <1>1 DEF StartupFault, Answer
  <2>2. TypeOK /\ config \in Options /\ row \in Cursor /\ pos.stage \in 0..9 /\ FALSE \in BOOLEAN
    BY TypesAre, CursorParts DEF Inv
  <2> QED
    BY <2>1, <2>2, DemotedClean
<1>2. CASE ThermalStop(i, foreign) \/ ApparatusFault(i, foreign)
  <2>1. config' = config
    BY <1>2 DEF ThermalStop, ApparatusFault, NoVerdict, Answer
  <2>2. CASE LeaveFor(foreign)
    BY <2>1, <2>2, LeaveForClean
  <2>3. CASE UNCHANGED <<depth, search, row, incidents, status, pos, disruptions, passed, taint, early>>
    BY <2>1, <2>3, IdleClean
  <2> QED
    BY <1>2, <2>2, <2>3, Zenon DEF ThermalStop, ApparatusFault, NoVerdict
<1> QED
  BY <1>1, <1>2

\* A failure: a back-off marks the pass.
LEMMA CoreFailsStaysClean ==
  ASSUME Inv, Clean, NEW i \in DOMAIN workers, NEW c, CoreFails(i, c), Inv'
  PROVE  Clean'
<1> DEFINE again == run.solo \/ pos.stage \in {1, 5} \/ (pos.stage = 9 /\ pos.lane < N)
<1>1. Answer(i) /\ search' = search /\ passed' = passed
  BY DEF CoreFails
<1>2. config' = config /\ config \in Options /\ row = pos /\ pos \in Cursor /\ row' \in Cursor /\ AllConfirmed
  BY <1>1, AnswerMeans, TypesAre DEF Inv, TypeOK
<1>3. /\ row'.stage = row.stage /\ row'.index = row.index /\ row'.half = row.half
      /\ row.dirty => row'.dirty
      /\ row'.dirty \/ taint' = taint
  <2>1. CASE MoveTo([pos EXCEPT !.dirty = TRUE, !.requeue = IF again THEN @ ELSE <<c>>])
    <3> HIDE DEF again
    <3> QED
      BY <1>2, <2>1 DEF MoveTo, Cursor
  <2>2. CASE MoveTo([pos EXCEPT !.dirty = @ \/ run.solo]) /\ UNCHANGED <<depth, calls, taint>>
    BY <1>2, <2>2 DEF MoveTo, Cursor
  <2> QED
    BY <2>1, <2>2, Zenon DEF CoreFails
<1>4. AllConfirmed'
  BY <1>1, <1>2 DEF AllConfirmed
<1> QED
  BY <1>1, <1>2, <1>3, <1>4, StayClean

LEMMA SoakFailsClean ==
  ASSUME Inv, Clean, NEW i \in DOMAIN workers, SoakFails(i), Inv'
  PROVE  Clean'
<1>1. /\ Answer(i) /\ search' = search /\ passed' = passed
      /\ row' = [pos EXCEPT !.dirty = TRUE]
  BY DEF SoakFails, MoveTo
<1>2. config' = config /\ config \in Options /\ row = pos /\ pos \in Cursor /\ row' \in Cursor /\ AllConfirmed
  BY <1>1, AnswerMeans, TypesAre DEF Inv, TypeOK
<1>3. row'.stage = row.stage /\ row'.index = row.index /\ row'.half = row.half /\ row'.dirty
  BY <1>1, <1>2 DEF Cursor
<1>4. AllConfirmed'
  BY <1>1, <1>2 DEF AllConfirmed
<1> QED
  BY <1>1, <1>2, <1>3, <1>4, StayClean

LEMMA TransitionsFailClean ==
  ASSUME Inv, Clean, NEW i \in DOMAIN workers, NEW convicted \in SUBSET Cores,
         TransitionsFail(i, convicted), Inv'
  PROVE  Clean'
<1>1. Answer(i) /\ passed' = passed
  BY DEF TransitionsFail
<1>2. /\ config' = config /\ config \in Options /\ row = pos /\ pos \in Cursor /\ row' \in Cursor
      /\ TypeOK /\ 0 \in 0..9 /\ TRUE \in BOOLEAN
  BY <1>1, AnswerMeans, TypesAre DEF Inv, TypeOK
<1>3. CASE HuntEnds(convicted, TRUE)
  <2>1. Demote(convicted, 0, TRUE)
    BY <1>3 DEF HuntEnds
  <2> QED
    BY <1>1, <1>2, <2>1, DemotedClean
<1>4. CASE MoveTo([pos EXCEPT !.dirty = TRUE]) /\ search' = search /\ taint' = taint
  <2>1. row'.stage = row.stage /\ row'.index = row.index /\ row'.half = row.half /\ row'.dirty
    BY <1>2, <1>4 DEF MoveTo, Cursor
  <2>2. AllConfirmed => AllConfirmed'
    BY <1>4 DEF AllConfirmed
  <2> QED
    BY <1>1, <1>2, <2>1, <2>2, StayClean
<1> QED
  BY <1>3, <1>4, Zenon DEF TransitionsFail

LEMMA EvidenceClean ==
  ASSUME Inv, Clean, NEW i \in DOMAIN workers, NEW c, NEW foreign \in SUBSET Cores,
         NEW ok \in BOOLEAN, Evidence(i, c, foreign, ok)
  PROVE  Clean'
<1>1. config' = config /\ LeaveFor(foreign)
  BY DEF Evidence, Answer
<1> QED
  BY <1>1, LeaveForClean

\* Every step keeps the record clean.
LEMMA CleanDispatch == ASSUME Inv, Clean, Dispatch, Inv' PROVE Clean'
<1>1. CASE StartSlot \/ StartRetest \/ RequeueDrained \/ Reearn \/ CooldownOver \/ Dropped
  BY <1>1, QuietClean
<1>2. CASE NextStage \/ FreshPass \/ Conclude \/ FinishRound \/ Complete
  BY <1>2, NextStageClean, FreshPassClean, ConcludeClean, FinishRoundClean, CompleteClean
<1> QED
  BY <1>1, <1>2, Zenon DEF Dispatch

LEMMA CleanVerdict == ASSUME Inv, Clean, Verdict, Inv' PROVE Clean'
<1>1. PICK i \in DOMAIN workers :
    \/ Pass(i) \/ SoakFails(i)
    \/ TooOften(i, run.thermals, MaxThermals) \/ TooOften(i, run.faults, MaxFaults)
    \/ \E c \in workers[i].cores : CoreFails(i, c)
    \/ \E s \in SUBSET Undervolted : TransitionsFail(i, s)
    \/ \E s \in SUBSET Cores :
         \/ StartupFault(i, s) \/ ThermalStop(i, s) \/ ApparatusFault(i, s)
         \/ \E c \in workers[i].cores, ok \in BOOLEAN : Evidence(i, c, s, ok)
  BY DEF Verdict
<1>2. CASE Pass(i) \/ SoakFails(i)
  BY <1>2, PassClean, SoakFailsClean
<1>3. CASE TooOften(i, run.thermals, MaxThermals) \/ TooOften(i, run.faults, MaxFaults)
  BY <1>3, StopClean
<1>4. CASE \E c \in workers[i].cores : CoreFails(i, c)
  BY <1>4, CoreFailsStaysClean
<1>5. CASE \E s \in SUBSET Undervolted : TransitionsFail(i, s)
  <2>1. Undervolted \subseteq Cores
    BY DEF Undervolted
  <2>2. PICK s \in SUBSET Cores : TransitionsFail(i, s)
    BY <1>5, <2>1
  <2> QED
    BY <2>2, TransitionsFailClean
<1>6. CASE \E s \in SUBSET Cores : StartupFault(i, s) \/ ThermalStop(i, s) \/ ApparatusFault(i, s)
  BY <1>6, NoVerdictClean
<1>7. CASE \E s \in SUBSET Cores : \E c \in workers[i].cores, ok \in BOOLEAN : Evidence(i, c, s, ok)
  <2>1. PICK s \in SUBSET Cores, c \in workers[i].cores, ok \in BOOLEAN : Evidence(i, c, s, ok)
    BY <1>7, Zenon
  <2> QED
    BY <2>1, EvidenceClean
<1> QED
  BY <1>1, <1>2, <1>3, <1>4, <1>5, <1>6, <1>7, Zenon

LEMMA CleanDisruption == ASSUME Inv, Clean, Disruption, Inv' PROVE Clean'
<1>1. CASE Pause \/ Abort \/ Down \/ ResumeAtStock \/ \E i \in DOMAIN workers : Torn(i)
  BY <1>1, StopClean
<1>2. CASE ResumeQuietly \/ ResumeIncident
  BY <1>2, ResumeQuietlyClean, ResumeIncidentClean
<1>3. CASE \E s \in SUBSET Undervolted : ResumeCharged(s)
  <2>1. Undervolted \subseteq Cores
    BY DEF Undervolted
  <2>2. PICK s \in SUBSET Cores : ResumeCharged(s)
    BY <1>3, <2>1
  <2> QED
    BY <2>2, ResumeChargedClean
<1> QED
  BY <1>1, <1>2, <1>3, Zenon DEF Disruption

LEMMA CleanStep == ASSUME Inv, Clean, [Next]_vars, Inv' PROVE Clean'
<1>1. CASE Next
  BY <1>1, CleanDispatch, CleanVerdict, CleanDisruption, Zenon DEF Next
<1>2. CASE UNCHANGED vars
  <2>1. config' = config /\ row' = row /\ search' = search /\ passed' = passed /\ taint' = taint
    BY <1>2 DEF vars, database, history
  <2> QED
    BY <2>1, IdleClean
<1> QED
  BY <1>1, <1>2

LEMMA CleanInit == ASSUME Init, Inv PROVE Clean
<1>1. row = Blank /\ search = [c \in Cores |-> "confirmed"] /\ config \in Options
  BY DEF Init
<1>2. Behind(Blank) = {}
  <2>1. \A k : ~Reached(Blank, k)
    BY DEF Reached, Blank
  <2> QED
    BY <1>1, <2>1, BehindIs, BlankIsCursor
<1>3. row.stage = 0
  BY <1>1 DEF Blank
<1> QED
  BY <1>1, <1>2, <1>3 DEF Clean, Backed, Untainted, Owing, AllConfirmed

\* The profile is declared proven.
Concluding == (status' = "completed" /\ status # "completed") \/ (pos'.stage = 9 /\ pos.stage = 8)

\* Only the dispatcher's end of a pass declares it.
LEMMA ConcludingDispatch == ASSUME Inv, Dispatch, Concluding PROVE Conclude
<1>1. CASE StartSlot \/ StartRetest \/ RequeueDrained \/ Reearn \/ CooldownOver \/ Dropped
  <2>1. pos' = pos /\ (status' = status \/ status' = "paused")
    BY <1>1 DEF StartSlot, StartRetest, Launch, RequeueDrained, Reearn, CooldownOver, Dropped
  <2> QED
    BY <2>1 DEF Concluding
<1>2. CASE NextStage
  <2>1. pos.stage # 8 /\ status' = status
    BY <1>2 DEF NextStage
  <2> QED
    BY <2>1 DEF Concluding
<1>3. CASE FreshPass
  <2>1. pos \in Cursor
    BY TypesAre DEF Inv
  <2>2. pos'.stage = 1 /\ status' = status
    BY <1>3, <2>1 DEF FreshPass, MoveTo, Cursor
  <2> QED
    BY <2>2 DEF Concluding
<1>4. CASE FinishRound
  <2>1. pos.stage = 9 /\ (status' = status \/ status' = "running")
    BY <1>4 DEF FinishRound
  <2> QED
    BY <2>1 DEF Concluding
<1>5. CASE Complete
  <2>1. status = "running" /\ status' = "validating"
    BY <1>5 DEF Complete, EnterAt
  <2>2. pos.stage = 0
    BY <2>1 DEF Inv, Flow, Searching
  <2> QED
    BY <2>1, <2>2 DEF Concluding
<1> QED
  BY <1>1, <1>2, <1>3, <1>4, <1>5, Zenon DEF Dispatch

LEMMA ConcludingVerdict == ASSUME Inv, Verdict PROVE ~Concluding
<1>1. pos \in Cursor
  BY TypesAre DEF Inv
<1>2. ASSUME NEW cores, NEW stage \in {0, pos.stage}, NEW mark \in BOOLEAN, Demote(cores, stage, mark)
      PROVE  pos'.stage = 9 => pos.stage # 8
  <2> DEFINE d == pos.dirty \/ mark \/ (cores \intersect Undervolted # {} /\ row.stage > 0)
  <2>1. pos' = [[pos EXCEPT !.dirty = d] EXCEPT !.stage = stage]
    BY <1>2, Zenon DEF Demote
  <2> HIDE DEF d
  <2>2. pos'.stage = stage
    BY <1>1, <2>1 DEF Cursor
  <2> QED
    BY <2>2
<1>3. ASSUME NEW cores, LeaveFor(cores) PROVE ~Concluding
  <2> DEFINE stage == IF status \in Dormant \/ cores \ Undervolted # {} THEN pos.stage ELSE 0
  <2>1. Demote(cores, stage, FALSE) /\ status' \in {"paused", "running"}
    BY <1>3, Zenon DEF LeaveFor
  <2>2. stage \in {0, pos.stage} /\ FALSE \in BOOLEAN
    OBVIOUS
  <2> HIDE DEF stage
  <2>3. pos'.stage = 9 => pos.stage # 8
    BY <1>2, <2>1, <2>2
  <2> QED
    BY <2>1, <2>3 DEF Concluding
<1>4. PICK i \in DOMAIN workers :
    \/ Pass(i) \/ SoakFails(i)
    \/ TooOften(i, run.thermals, MaxThermals) \/ TooOften(i, run.faults, MaxFaults)
    \/ \E c \in workers[i].cores : CoreFails(i, c)
    \/ \E s \in SUBSET Undervolted : TransitionsFail(i, s)
    \/ \E s \in SUBSET Cores :
         \/ StartupFault(i, s) \/ ThermalStop(i, s) \/ ApparatusFault(i, s)
         \/ \E c \in workers[i].cores, ok \in BOOLEAN : Evidence(i, c, s, ok)
  BY DEF Verdict
<1>5. CASE Pass(i)
  <2>1. /\ Answer(i) /\ status' = status /\ pos' = AfterPass(workers[i])
    BY <1>5 DEF Pass, MoveTo
  <2>2. pos.stage = 8 => run.solo \/ run.soaking
    BY <2>1, AnswerMeans DEF SlotAt
  <2>3. run.soaking => pos.stage = 7
    BY <2>1, AnswerMeans DEF Soaks
  <2>4. pos.stage = 8 => ~run.soaking /\ run.solo
    BY <2>2, <2>3
  <2>5. pos.stage = 8 => pos'.stage = 8
    BY <1>1, <2>1, <2>4 DEF AfterPass, Cursor
  <2> QED
    BY <2>1, <2>5 DEF Concluding
<1>6. CASE SoakFails(i)
  <2>1. pos' = [pos EXCEPT !.dirty = TRUE] /\ (status' = "paused" \/ status' = status)
    BY <1>6 DEF SoakFails, MoveTo
  <2>2. pos'.stage = pos.stage
    BY <1>1, <2>1 DEF Cursor
  <2> QED
    BY <2>1, <2>2 DEF Concluding
<1>7. CASE TooOften(i, run.thermals, MaxThermals) \/ TooOften(i, run.faults, MaxFaults)
  <2>1. status' = "aborted" /\ pos' = [pos EXCEPT !.stage = 0]
    BY <1>7 DEF TooOften, Aborted
  <2>2. pos'.stage = 0
    BY <1>1, <2>1 DEF Cursor
  <2> QED
    BY <2>1, <2>2 DEF Concluding
<1>8. CASE \E c \in workers[i].cores : CoreFails(i, c)
  <2>1. PICK c \in workers[i].cores : CoreFails(i, c)
    BY <1>8
  <2> DEFINE again == run.solo \/ pos.stage \in {1, 5} \/ (pos.stage = 9 /\ pos.lane < N)
  <2>2. /\ status' = status \/ status' = "paused"
        /\ \/ pos' = [pos EXCEPT !.dirty = TRUE, !.requeue = IF again THEN @ ELSE <<c>>]
           \/ pos' = [pos EXCEPT !.dirty = @ \/ run.solo]
    BY <2>1, Zenon DEF CoreFails, MoveTo
  <2> HIDE DEF again
  <2>3. pos'.stage = pos.stage
    BY <1>1, <2>2 DEF Cursor
  <2> QED
    BY <2>2, <2>3 DEF Concluding
<1>9. CASE \E s \in SUBSET Undervolted : TransitionsFail(i, s)
  <2>1. pos.stage = 4 /\ status' \in {"running", "fault"}
    BY <1>9 DEF TransitionsFail, HuntEnds
  <2> QED
    BY <2>1 DEF Concluding
<1>10. CASE \E s \in SUBSET Cores : StartupFault(i, s)
  <2>1. PICK s \in SUBSET Cores : Demote(s, pos.stage, FALSE) /\ status' = "paused"
    BY <1>10 DEF StartupFault
  <2>2. pos'.stage = 9 => pos.stage # 8
    BY <1>2, <2>1
  <2> QED
    BY <2>1, <2>2 DEF Concluding
<1>11. CASE \E s \in SUBSET Cores : ThermalStop(i, s) \/ ApparatusFault(i, s)
  <2>1. PICK s \in SUBSET Cores : LeaveFor(s) \/ (pos' = pos /\ status' = status)
    BY <1>11, Zenon DEF ThermalStop, ApparatusFault, NoVerdict
  <2> QED
    BY <1>3, <2>1 DEF Concluding
<1>12. CASE \E s \in SUBSET Cores : \E c \in workers[i].cores, ok \in BOOLEAN : Evidence(i, c, s, ok)
  <2>1. PICK s \in SUBSET Cores : LeaveFor(s)
    BY <1>12, Zenon DEF Evidence
  <2> QED
    BY <1>3, <2>1
<1> QED
  BY <1>4, <1>5, <1>6, <1>7, <1>8, <1>9, <1>10, <1>11, <1>12, Zenon

LEMMA ConcludingDisruption == ASSUME Inv, Disruption PROVE ~Concluding
<1>1. TypeOK /\ pos \in Cursor /\ row \in Cursor
  BY TypesAre DEF Inv
<1>2. pos.stage = 8 => EntryCursor.stage # 9
  <2>1. pos.stage = 8 => row.stage = 8
    BY DEF Inv, Flow, Saved
  <2>2. row.stage > 0 => EntryCursor.stage = (IF row.stage = 9 THEN 9 ELSE IF row.stage > 6 THEN 6 ELSE row.stage)
    BY <1>1, EntryFacts
  <2> QED
    BY <2>1, <2>2
<1>3. \A d \in BOOLEAN : [EntryCursor EXCEPT !.dirty = d].stage = EntryCursor.stage
  <2>1. EntryCursor \in Cursor
    BY <1>1, EntryFacts
  <2> QED
    BY <2>1 DEF Cursor
<1>4. CASE Pause \/ Abort \/ Down \/ \E i \in DOMAIN workers : Torn(i)
  <2>1. /\ pos' = pos \/ pos' = [pos EXCEPT !.stage = 0] \/ pos' = Blank
        /\ status' \in {"paused", "aborted", status}
    BY <1>4 DEF Pause, Abort, Aborted, Down, Torn, Lost, process
  <2>2. pos'.stage \in {pos.stage, 0}
    BY <1>1, <2>1, SMTT(60) DEF Cursor, Blank
  <2> QED
    BY <2>1, <2>2 DEF Concluding
<1>5. CASE ResumeQuietly
  <2>1. /\ pos' = [EntryCursor EXCEPT !.dirty = row.stage > 0 /\ row.dirty] \/ pos' = Blank
        /\ status' \in {"validating", "running"}
    BY <1>5 DEF ResumeQuietly, EnterAt, MoveTo
  <2> DEFINE d == row.stage > 0 /\ row.dirty
  <2>2. d \in BOOLEAN
    OBVIOUS
  <2>3. pos'.stage \in {EntryCursor.stage, 0}
    <3>1. pos' = [EntryCursor EXCEPT !.dirty = d] \/ pos'.stage = 0
      BY <2>1 DEF Blank
    <3> HIDE DEF d
    <3> QED
      BY <1>3, <2>2, <3>1
  <2> QED
    BY <1>2, <2>1, <2>3 DEF Concluding
<1>6. CASE ResumeAtStock
  <2>1. pos' = pos /\ status' = "fault"
    BY <1>6 DEF ResumeAtStock
  <2> QED
    BY <2>1 DEF Concluding
<1>7. CASE ResumeIncident
  <2>1. /\ pos' = [EntryCursor EXCEPT !.dirty = TRUE] \/ pos' = pos
        /\ status' \in {"paused", "validating", "running"}
    BY <1>7 DEF ResumeIncident, MoveTo
  <2>2. pos'.stage \in {EntryCursor.stage, pos.stage}
    BY <1>3, <2>1
  <2> QED
    BY <1>2, <2>1, <2>2 DEF Concluding
<1>8. CASE \E s \in SUBSET Undervolted : ResumeCharged(s)
  <2>1. PICK s : Demote(s, 0, FALSE) /\ status' = "running"
    BY <1>8 DEF ResumeCharged, HuntEnds
  <2> DEFINE d == pos.dirty \/ FALSE \/ (s \intersect Undervolted # {} /\ row.stage > 0)
  <2>2. pos' = [[pos EXCEPT !.dirty = d] EXCEPT !.stage = 0]
    BY <2>1, Zenon DEF Demote
  <2> HIDE DEF d
  <2>3. pos'.stage = 0
    BY <1>1, <2>2 DEF Cursor
  <2> QED
    BY <2>1, <2>3 DEF Concluding
<1> QED
  BY <1>4, <1>5, <1>6, <1>7, <1>8, Zenon DEF Disruption

\* The record stays clean over every run.
LEMMA RecordIsClean ==
  ASSUME ResumeInCooldown = FALSE
  PROVE  Spec => [](Inv /\ Clean)
<1>1. Init => Inv /\ Clean
  BY InvInit, CleanInit
<1>2. Inv /\ Clean /\ [Next]_vars => (Inv /\ Clean)'
  BY InvStep, CleanStep, Zenon
<1> QED
  BY <1>1, <1>2, PTL DEF Spec

\* The profile is declared proven, by completion or by the start of endurance,
\* only behind a pass through every enabled slot in which no offset moved: no
\* resume, re-test, retry, demotion or restart skips a slot or hides a move.
THEOREM CompletionsAreClean ==
  ASSUME ResumeInCooldown = FALSE
  PROVE  Spec => CompletionIsClean
<1> DEFINE Declared ==
      (status' = "completed" /\ status # "completed") \/ (pos'.stage = 9 /\ pos.stage = 8)
      => /\ Behind([pos EXCEPT !.stage = 8, !.dirty = FALSE]) \subseteq passed
         /\ taint \subseteq {"torn"}
<1>1. Inv /\ Clean /\ [Next]_vars => [Declared]_vars
  <2> SUFFICES ASSUME Inv, Clean, [Next]_vars, Concluding, ~UNCHANGED vars PROVE Declared
    BY DEF Concluding
  <2>1. Dispatch
    BY ConcludingVerdict, ConcludingDisruption, Zenon DEF Next
  <2>2. Conclude
    BY <2>1, ConcludingDispatch
  <2>3. /\ Behind([pos EXCEPT !.stage = 8, !.dirty = FALSE]) \subseteq passed
        /\ taint \subseteq {"torn"}
    BY <2>1, <2>2, ConcludeClean, InvDispatch
  <2> QED
    BY <2>3
<1>2. Inv /\ Clean /\ (Inv /\ Clean)' /\ [Next]_vars => [Declared]_vars
  BY <1>1
<1>3. [](Inv /\ Clean) /\ [][Next]_vars => [][Declared]_vars
  BY <1>2, PTL
<1> QED
  BY <1>3, RecordIsClean, PTL DEF Spec, CompletionIsClean

\* Neither the cursor nor what a crash leaves of it is ever ahead of the slots
\* that passed: no resume, re-entry, requeue or retry skips one.
THEOREM CursorIsBacked ==
  ASSUME ResumeInCooldown = FALSE
  PROVE  Spec => []CursorBacked
<1>1. Inv /\ Clean => CursorBacked
  <2>1. ASSUME Inv, Clean PROVE Behind(row) \subseteq passed /\ (pos.stage > 0 => Behind(pos) \subseteq passed)
    <3>1. pos.stage > 0 => row = pos
      BY <2>1 DEF Inv, Flow, Saved
    <3> QED
      BY <2>1, <3>1 DEF Clean, Backed
  <2> QED
    BY <2>1 DEF CursorBacked
<1> QED
  BY <1>1, RecordIsClean, PTL

-----------------------------------------------------------------------------
(* Layer three: alone before together *)

\* A core may be loaded together with the others.
ProvenAt(c) == c \in early \/ depth[c] \in proven[c]

\* What the log says of a core alone is true of it.
LoggedProven == \A c \in Cores : soloLog[c] \subseteq proven[c]

\* A core demoted while stage 1 was under way will have its turn: the pass is
\* dirty, or the turn is still to come.
EarlyOwed ==
  /\ row.stage \in {0, 9} => early = {}
  /\ row.stage \in 2..8 /\ ~row.dirty => early = {}
  /\ row.stage = 1 /\ ~row.dirty => \A c \in early : c > row.index

\* At stage 1 a core still has its turn or a re-test to come, or has passed alone.
StageOne ==
  row.stage = 1 =>
    \A c \in Cores : \/ c > row.index \/ c \in Range(row.requeue) \/ c \in early
                     \/ search[c] = "confirmed" /\ depth[c] \in proven[c]

Record == LoggedProven /\ EarlyOwed /\ StageOne

\* A core has a slot of its own to come before it is loaded with others.
Turn(c) ==
  \/ c \in Range(pos.requeue)
  \/ pos.stage = 1 /\ c > pos.index
  \/ pos.stage = 5 /\ config.spectrum /\ c = pos.index + 1
  \/ pos.stage = 9 /\ pos.work < Len(Workloads) /\ c = pos.lane + 1

\* While validation goes on, whatever has not passed alone has its turn to come.
Owed ==
  workers # <<>> \/ (Up /\ status = "validating") => \A c \in Cores : ProvenAt(c) \/ Turn(c)

Tested == Record /\ Owed

\* Steps that leave the saved cursor and the offsets alone, or only mark the pass.
LEMMA RowTested ==
  ASSUME Inv, Record, row' \in Cursor, row'.stage = row.stage, row'.index = row.index,
         row'.requeue = row.requeue, row.dirty => row'.dirty,
         early' = early, depth' = depth, soloLog' = soloLog, proven' = proven,
         \A c \in Cores : search[c] = "confirmed" => search'[c] = "confirmed"
  PROVE  Record'
<1>1. LoggedProven'
  BY DEF Record, LoggedProven
<1>2. EarlyOwed'
  BY DEF Record, EarlyOwed
<1>3. StageOne'
  BY DEF Record, StageOne
<1> QED
  BY <1>1, <1>2, <1>3 DEF Record

\* Validation stops or is left.
LEMMA StoppedOwed ==
  ASSUME workers' = <<>>, status' # "validating" \/ ~Up'
  PROVE  Owed'
BY DEF Owed

\* Validation goes on where it is.
LEMMA SameOwed ==
  ASSUME Owed, config' = config, depth' = depth, early' = early, proven' = proven,
         pos'.stage = pos.stage, pos'.index = pos.index, pos'.work = pos.work,
         pos'.lane = pos.lane, pos'.requeue = pos.requeue,
         workers' # <<>> \/ (Up' /\ status' = "validating") => workers # <<>> \/ (Up /\ status = "validating")
  PROVE  Owed'
<1>1. \A c : ProvenAt(c)' <=> ProvenAt(c)
  BY DEF ProvenAt
<1>2. \A c : Turn(c)' <=> Turn(c)
  BY DEF Turn
<1> QED
  BY <1>1, <1>2 DEF Owed

\* Steps in which nothing moves but workers, calls and the status.
LEMMA IdleTested ==
  ASSUME Inv, Tested, config' = config, row' = row, pos' = pos, early' = early, depth' = depth,
         soloLog' = soloLog, proven' = proven, search' = search,
         workers' # <<>> \/ (Up' /\ status' = "validating") => workers # <<>> \/ (Up /\ status = "validating")
  PROVE  Tested'
<1>1. row' \in Cursor
  BY TypesAre DEF Inv
<1>2. Record'
  BY <1>1, RowTested DEF Tested
<1> QED
  BY <1>2, SameOwed DEF Tested

\* The slot of the worker.
SlotKind(w) ==
  \/ run.solo /\ Alone(w) /\ pos.requeue # <<>> /\ w.cores = {Head(pos.requeue)}
  \/ ~run.solo /\ Alone(w) /\ pos.stage \in {1, 5} /\ pos.index < N /\ w.cores = {pos.index + 1}
     /\ (pos.stage = 5 => config.spectrum)
  \/ ~run.solo /\ Alone(w) /\ pos.stage = 9 /\ pos.work < Len(Workloads) /\ pos.lane < N
     /\ w.cores = {pos.lane + 1}
  \/ ~run.solo /\ ~Alone(w) /\ (pos.stage \in {2, 3, 4, 6, 7} \/ (pos.stage = 9 /\ pos.lane = N))

LEMMA WorkerMeans ==
  ASSUME Inv, NEW i \in DOMAIN workers
  PROVE  /\ i = 1 /\ workers # <<>> /\ pos \in Cursor /\ row = pos /\ pos.stage \in 1..9
         /\ AllConfirmed /\ Soaks /\ status # "running"
         /\ ~run.solo => pos.requeue = <<>>
         /\ SlotKind(workers[i])
<1>1. Token /\ Working /\ Saved /\ pos \in Cursor
  BY TypesAre DEF Inv, Flow
<1>2. workers # <<>> /\ workers = <<workers[1]>>
  BY <1>1 DEF Token
<1>3. i = 1
  BY <1>2
<1>4. /\ status # "running" /\ pos.stage > 0 /\ AllConfirmed /\ Soaks /\ row = pos
      /\ run.solo => pos.requeue # <<>> /\ workers[i] = Retest(pos)
      /\ ~run.solo => pos.requeue = <<>> /\ workers[i] = SlotAt(pos) /\ SlotAt(pos) # Nothing
  BY <1>1, <1>2, <1>3 DEF Working, Saved
<1>5. pos.stage \in 1..9 /\ pos.index \in 0..N /\ pos.lane \in 0..N + 1 /\ N \in Nat
  BY <1>1, <1>4, CursorParts, SizeAssumption
<1>6. CASE run.solo
  <2>1. Retest(pos) = Solo(0, Head(pos.requeue)) /\ Alone(Retest(pos))
    BY <1>1, <1>4, <1>6, RetestIs
  <2>2. workers[i].cores = {Head(pos.requeue)} /\ Alone(workers[i]) /\ pos.requeue # <<>>
    <3>1. workers[i] = Retest(pos) /\ pos.requeue # <<>>
      BY <1>4, <1>6
    <3>2. Solo(0, Head(pos.requeue)).cores = {Head(pos.requeue)}
      BY DEF Solo
    <3> QED
      BY <2>1, <3>1, <3>2, Zenon
  <2>3. SlotKind(workers[i])
    BY <1>6, <2>2, Zenon DEF SlotKind
  <2> QED
    BY <1>1, <1>2, <1>3, <1>4, <1>5, <1>6, <2>3
<1>7. CASE ~run.solo
  <2>1. workers[i] = SlotAt(pos) /\ SlotAt(pos) # Nothing
    BY <1>4, <1>7
  <2>2. SlotKind(workers[i])
    <3>1. CASE pos.stage \in {1, 5} /\ pos.index < N /\ SlotAt(pos) = Solo(pos.stage, pos.index + 1)
               /\ (pos.stage = 5 => config.spectrum)
      <4>1. pos.index + 1 # 0
        BY <1>5
      <4> QED
        BY <1>7, <2>1, <3>1, <4>1 DEF SlotKind, Solo, Alone
    <3>2. CASE pos.stage = 3 /\ SlotAt(pos) = [key |-> <<3, pos.half + 1>>, cores |-> Halves[pos.half + 1]]
      BY <1>7, <2>1, <3>2 DEF SlotKind, Alone
    <3>3. CASE pos.stage \in {2, 4, 6, 7} /\ SlotAt(pos) = Together(pos.stage)
      BY <1>7, <2>1, <3>3 DEF SlotKind, Alone, Together
    <3>4. CASE pos.stage = 9 /\ pos.work < Len(Workloads) /\ pos.lane < N /\ SlotAt(pos) = Solo(9, pos.lane + 1)
      <4>1. pos.lane + 1 # 0
        BY <1>5
      <4> QED
        BY <1>7, <2>1, <3>4, <4>1 DEF SlotKind, Solo, Alone
    <3>5. CASE pos.stage = 9 /\ pos.lane = N /\ SlotAt(pos) = Together(9)
      BY <1>7, <2>1, <3>5 DEF SlotKind, Alone, Together
    <3> QED
      BY <1>1, <2>1, <3>1, <3>2, <3>3, <3>4, <3>5, SlotsOf
  <2> QED
    BY <1>1, <1>2, <1>3, <1>4, <1>5, <1>7, <2>2
<1> QED
  BY <1>6, <1>7

\* A core in a re-test is the head of the requeue.
LEMMA HeadIsOwed ==
  ASSUME NEW p \in Cursor, p.requeue # <<>>
  PROVE  Head(p.requeue) \in Cores /\ Head(p.requeue) \in Range(p.requeue)
<1>1. p.requeue \in Seq(Cores)
  BY CursorParts
<1>2. 1 \in DOMAIN p.requeue /\ Head(p.requeue) = p.requeue[1]
  BY <1>1
<1> QED
  BY <1>1, <1>2 DEF Range

\* Nobody has a turn to come when the requeue is empty and the slot, if there is
\* one, loads the cores together.
LEMMA NoTurnLeft ==
  ASSUME pos \in Cursor, pos.requeue = <<>>, pos.stage # 1 \/ pos.index = N,
         pos.stage # 5 \/ ~config.spectrum \/ pos.index = N,
         pos.stage # 9 \/ pos.lane >= N \/ pos.work >= Len(Workloads)
  PROVE  \A c \in Cores : ~Turn(c)
<1>1. /\ pos.index \in 0..N /\ pos.lane \in 0..N + 1 /\ pos.work \in 0..Len(Workloads)
      /\ N \in Nat /\ Len(Workloads) \in Nat
  BY CursorParts, SizeAssumption, WorkloadAssumption
<1>2. Range(pos.requeue) = {}
  BY DEF Range
<1>3. \A c \in Cores : c <= N /\ c \in Nat
  BY <1>1 DEF Cores
<1>4. \A c \in Cores : ~(pos.stage = 1 /\ c > pos.index) /\ ~(pos.stage = 5 /\ config.spectrum /\ c = pos.index + 1)
  BY <1>1, <1>3
<1>5. \A c \in Cores : ~(pos.stage = 9 /\ pos.work < Len(Workloads) /\ c = pos.lane + 1)
  <2>1. pos.lane >= N => \A c \in Cores : c # pos.lane + 1
    BY <1>1, <1>3
  <2>2. pos.work >= Len(Workloads) => ~(pos.work < Len(Workloads))
    BY <1>1
  <2> QED
    BY <2>1, <2>2
<1> QED
  BY <1>2, <1>4, <1>5, Zenon DEF Turn

\* ... so that all of them may be loaded together.
LEMMA TogetherIsProven ==
  ASSUME Inv, Owed, NEW i \in DOMAIN workers, ~Alone(workers[i])
  PROVE  \A c \in Cores : ProvenAt(c)
<1>1. workers # <<>> /\ pos \in Cursor /\ (~run.solo => pos.requeue = <<>>) /\ SlotKind(workers[i])
  BY WorkerMeans
<1>2. ~run.solo /\ (pos.stage \in {2, 3, 4, 6, 7} \/ (pos.stage = 9 /\ pos.lane = N))
  BY <1>1 DEF SlotKind
<1>3. N >= N
  BY SizeAssumption
<1>4. \A c \in Cores : ~Turn(c)
  BY <1>1, <1>2, <1>3, NoTurnLeft
<1> QED
  BY <1>1, <1>4 DEF Owed

\* The row that a pass leaves in the log is true: the cursor it is filed under
\* names the slot, and where endurance loads all the cores each has passed alone.
LEMMA LogIsTrue ==
  ASSUME Inv, Tested, NEW i \in DOMAIN workers, LogPass(workers[i])
  PROVE  /\ LoggedProven'
         /\ \A c \in Cores : proven[c] \subseteq proven'[c]
         /\ Alone(workers[i]) => \A c \in Cores : c \in workers[i].cores => depth[c] \in proven'[c]
<1> DEFINE w == workers[i]
           logged == IF status # "validating" \/ run.soaking THEN {}
                     ELSE IF pos.stage = 9 THEN w.cores
                     ELSE IF pos.stage = 1 THEN {Lead(w)} ELSE {}
           solo == IF Alone(w) THEN w.cores ELSE {}
<1>1. /\ soloLog' = [c \in Cores |-> soloLog[c] \union (IF c \in logged THEN {depth[c]} ELSE {})]
      /\ proven' = [c \in Cores |-> proven[c] \union (IF c \in solo THEN {depth[c]} ELSE {})]
  BY Zenon DEF LogPass
<1>2. /\ pos \in Cursor /\ row = pos /\ SlotKind(w) /\ pos.stage \in 1..9
  BY WorkerMeans
<1>3. \A c \in Cores : c \in logged => c \in solo \/ depth[c] \in proven[c]
  <2>1. CASE Alone(w)
    <3>1. CASE pos.stage = 9
      BY <2>1, <3>1
    <3>2. CASE pos.stage # 9
      <4>1. \E x \in Cores : w.cores = {x}
        <5>1. pos.requeue # <<>> => Head(pos.requeue) \in Cores
          BY <1>2, HeadIsOwed
        <5>2. pos.index < N => pos.index + 1 \in Cores
          <6>1. pos.index \in 0..N /\ N \in Nat
            BY <1>2, CursorParts, SizeAssumption
          <6> QED
            BY <6>1 DEF Cores
        <5> QED
          BY <1>2, <2>1, <3>2, <5>1, <5>2 DEF SlotKind
      <4>2. PICK x \in Cores : w.cores = {x}
        BY <4>1
      <4>3. Lead(w) = x
        <5>1. x <= x
          BY <4>2, SizeAssumption DEF Cores
        <5> QED
          BY <4>2, <5>1 DEF Lead
      <4> QED
        BY <2>1, <3>2, <4>2, <4>3
    <3> QED
      BY <3>1, <3>2
  <2>2. CASE ~Alone(w)
    <3>1. pos.stage # 1
      BY <1>2, <2>2 DEF SlotKind
    <3>2. pos.stage = 9 => early = {}
      BY <1>2 DEF Tested, Record, EarlyOwed
    <3>3. \A c \in Cores : ProvenAt(c)
      BY <2>2, TogetherIsProven DEF Tested
    <3>4. pos.stage = 9 => \A c \in Cores : depth[c] \in proven[c]
      BY <3>2, <3>3 DEF ProvenAt
    <3> QED
      BY <3>1, <3>4
  <2> QED
    BY <2>1, <2>2
<1> HIDE DEF logged
<1>4. \A c \in Cores : soloLog[c] \subseteq proven[c]
  BY DEF Tested, Record, LoggedProven
<1>5. \A c \in Cores : proven[c] \subseteq proven'[c] /\ (c \in solo => depth[c] \in proven'[c])
  <2> HIDE DEF solo
  <2> QED
    BY <1>1
<1>6. LoggedProven'
  <2> HIDE DEF solo
  <2>1. \A c \in Cores : soloLog'[c] \subseteq proven'[c]
    BY <1>1, <1>3, <1>4, <1>5
  <2> QED
    BY <2>1 DEF LoggedProven
<1> QED
  BY <1>5, <1>6

\* A penalty at stage 1 owes the core another pass.
LEMMA DemotedTested ==
  ASSUME TypeOK, Record, NEW cores \in SUBSET Cores, NEW stage \in 0..9, NEW mark \in BOOLEAN,
         Demote(cores, stage, mark), LoggedProven', \A c \in Cores : proven[c] \subseteq proven'[c]
  PROVE  Record'
<1> DEFINE hit == Hit(cores)
           due == Due(cores, mark)
<1>1. Demoted(hit, stage, due)
  BY DemoteFacts, Zenon
<1>2. row \in Cursor /\ row.stage \in 0..9 /\ row.dirty \in BOOLEAN
  BY TypesAre, CursorParts
<1>3. hit # {} /\ row.stage = 1 => due
  BY DEF Due
<1> HIDE DEF hit, due
<1>4. /\ row'.stage = row.stage /\ row'.index = row.index /\ row'.requeue = row.requeue
      /\ row'.dirty = (row.dirty \/ due)
  BY <1>1, <1>2 DEF Demoted, Cursor
<1>5. early' = early \union (IF row.stage = 1 THEN hit ELSE {})
  BY <1>1 DEF Demoted
<1>6. EarlyOwed'
  <2>1. CASE row.stage = 1
    <3>1. ~row'.dirty => early' = early /\ ~row.dirty
      BY <1>3, <1>4, <1>5, <2>1
    <3>2. ~row.dirty => \A c \in early : c > row.index
      BY <2>1 DEF Record, EarlyOwed
    <3>3. ~row'.dirty => \A c \in early' : c > row'.index
      BY <1>4, <3>1, <3>2
    <3> QED
      BY <1>4, <2>1, <3>3 DEF EarlyOwed
  <2>2. CASE row.stage # 1
    BY <1>4, <1>5, <2>2 DEF Record, EarlyOwed
  <2> QED
    BY <2>1, <2>2
<1>7. StageOne'
  <2> SUFFICES ASSUME row'.stage = 1, NEW c \in Cores
               PROVE  \/ c > row'.index \/ c \in Range(row'.requeue) \/ c \in early'
                      \/ search'[c] = "confirmed" /\ depth'[c] \in proven'[c]
    BY DEF StageOne
  <2>1. row.stage = 1
    BY <1>4
  <2>2. c \in hit => c \in early'
    BY <1>5, <2>1
  <2>3. c \notin hit => depth'[c] = depth[c] /\ search'[c] = search[c]
    BY <1>1 DEF Demoted
  <2>4. c \in early => c \in early'
    BY <1>5
  <2>5. \/ c > row.index \/ c \in Range(row.requeue) \/ c \in early
        \/ search[c] = "confirmed" /\ depth[c] \in proven[c]
    BY <2>1 DEF Record, StageOne
  <2> QED
    BY <1>4, <2>2, <2>3, <2>4, <2>5
<1> QED
  BY <1>6, <1>7 DEF Record

\* Validation is entered: at stage 1 everyone's turn or re-test is still to come
\* or the core has passed; later on, a core whose depth has no row is owed a re-test.
LEMMA EntryTested ==
  ASSUME TypeOK, Record, row' \in Cursor, config' = config, pos' = row',
         depth' = depth, early' = early, soloLog' = soloLog, proven' = proven, search' = search,
         row'.stage = EntryCursor.stage, row'.index = EntryCursor.index,
         row'.requeue = EntryCursor.requeue, row.stage > 0 => (row.dirty => row'.dirty)
  PROVE  Tested'
<1>1. /\ row \in Cursor /\ pos \in Cursor /\ row.stage \in 0..9 /\ row.dirty \in BOOLEAN
      /\ row'.stage \in 0..9 /\ row.index \in 0..N /\ N \in Nat
  BY TypesAre, CursorParts, SizeAssumption
<1>2. LoggedProven'
  BY DEF Record, LoggedProven
<1>3. CASE row.stage = 0
  <2>1. EntryCursor = [Blank EXCEPT !.stage = 1]
    BY <1>1, <1>3, EntryFacts
  <2>2. row'.stage = 1 /\ row'.index = 0
    BY <2>1 DEF Blank
  <2>3. \A c \in Cores : c > 0
    BY DEF Cores
  <2>4. EarlyOwed'
    <3>1. early = {}
      BY <1>3 DEF Record, EarlyOwed
    <3> QED
      BY <2>2, <3>1 DEF EarlyOwed
  <2>5. StageOne'
    BY <2>2, <2>3 DEF StageOne
  <2>6. Owed'
    BY <2>2, <2>3 DEF Owed, Turn
  <2> QED
    BY <1>2, <2>4, <2>5, <2>6 DEF Tested, Record
<1>4. CASE row.stage > 0
  <2>1. /\ row'.stage = (IF row.stage = 9 THEN 9 ELSE IF row.stage > 6 THEN 6 ELSE row.stage)
        /\ row'.index = row.index
    BY <1>1, <1>4, EntryFacts
  <2>2. Range(row.requeue) \subseteq Range(row'.requeue)
    BY <1>1, <1>4, EntryFacts
  <2>3. row'.stage >= 2 => \A c \in Cores : c \in Range(row'.requeue) \/ depth[c] \in soloLog[c]
    BY <1>1, <1>4, EntryFacts
  <2>4. /\ row'.stage = 9 <=> row.stage = 9
        /\ row'.stage \in 2..8 <=> row.stage \in 2..8
        /\ row'.stage = 1 <=> row.stage = 1
        /\ row'.stage # 0
    BY <1>1, <1>4, <2>1
  <2>5. EarlyOwed'
    BY <1>4, <2>1, <2>4 DEF Record, EarlyOwed
  <2>6. StageOne'
    BY <2>1, <2>2, <2>4 DEF Record, StageOne
  <2>7. Owed'
    <3> SUFFICES ASSUME NEW c \in Cores PROVE ProvenAt(c)' \/ Turn(c)'
      BY DEF Owed
    <3>1. CASE row'.stage = 1
      <4>1. \/ c > row'.index \/ c \in Range(row'.requeue) \/ c \in early'
            \/ search'[c] = "confirmed" /\ depth'[c] \in proven'[c]
        BY <2>6, <3>1 DEF StageOne
      <4> QED
        BY <3>1, <4>1 DEF ProvenAt, Turn
    <3>2. CASE row'.stage >= 2
      <4>1. soloLog[c] \subseteq proven[c]
        BY DEF Record, LoggedProven
      <4> QED
        BY <2>3, <3>2, <4>1 DEF ProvenAt, Turn
    <3> QED
      BY <1>1, <2>4, <3>1, <3>2
  <2> QED
    BY <1>2, <2>5, <2>6, <2>7 DEF Tested, Record
<1> QED
  BY <1>1, <1>3, <1>4

\* A cursor with nobody's turn left moves on.
LEMMA MoveTested ==
  ASSUME Inv, Tested, \A c \in Cores : ProvenAt(c), row = pos, row' \in Cursor,
         depth' = depth, early' = early, soloLog' = soloLog, proven' = proven,
         row'.stage \in {0, 9} => early = {},
         row'.stage \in 2..8 /\ ~row'.dirty => early = {},
         row'.stage # 1
  PROVE  Tested'
<1>1. LoggedProven'
  BY DEF Tested, Record, LoggedProven
<1>2. EarlyOwed' /\ StageOne'
  BY DEF EarlyOwed, StageOne
<1>3. Owed'
  BY DEF Owed, ProvenAt
<1> QED
  BY <1>1, <1>2, <1>3 DEF Tested, Record

\* The dispatcher's steps within a stage.
LEMMA QuietTested ==
  ASSUME Inv, Tested, StartSlot \/ StartRetest \/ RequeueDrained \/ CooldownOver \/ Dropped
  PROVE  Tested'
<1>1. CASE StartSlot \/ StartRetest
  <2>1. /\ config' = config /\ row' = row /\ pos' = pos /\ early' = early /\ depth' = depth
        /\ soloLog' = soloLog /\ proven' = proven /\ search' = search /\ status = "validating"
    BY <1>1 DEF StartSlot, StartRetest, Launch, Fire, database, history
  <2>2. Up
    BY <1>1 DEF StartSlot, StartRetest, Launch, Fire
  <2> QED
    BY <2>1, <2>2, IdleTested
<1>2. CASE RequeueDrained
  <2>1. /\ config' = config /\ row' = pos /\ pos' = pos /\ early' = early /\ depth' = depth
        /\ soloLog' = soloLog /\ proven' = proven /\ search' = search
        /\ Fire("requeue", {"next"}) /\ status = "validating"
    BY <1>2 DEF RequeueDrained, history
  <2>2. "requeue" \in Kinds /\ {"next"} \in SUBSET Kinds
    BY DEF Kinds
  <2>3. pos.stage > 0 /\ Up
    BY <2>1, <2>2, DueMeans
  <2>4. row' = row
    BY <2>1, <2>3 DEF Inv, Flow, Saved
  <2> QED
    BY <2>1, <2>3, <2>4, IdleTested
<1>3. CASE CooldownOver \/ Dropped
  <2>1. /\ config' = config /\ row' = row /\ pos' = pos /\ early' = early /\ depth' = depth
        /\ soloLog' = soloLog /\ proven' = proven /\ search' = search
        /\ status' = status /\ workers' = workers /\ machine' = machine
    BY <1>3 DEF CooldownOver, Dropped, database, history
  <2> QED
    BY <2>1, IdleTested DEF Up
<1> QED
  BY <1>1, <1>2, <1>3

\* A confirmed core keeps the offset it was proven at through a search.
LEMMA ReearnTested == ASSUME Inv, Tested, Reearn, Inv' PROVE Tested'
<1>1. /\ status' = status /\ status = "running" /\ row' = row /\ soloLog' = soloLog /\ workers' = workers
      /\ early' = early /\ proven' = proven /\ search' = [c \in Cores |-> "confirmed"]
      /\ \A c \in Cores : search[c] = "confirmed" => depth'[c] = depth[c]
  BY Zenon DEF Reearn, history
<1>2. workers = <<>>
  BY <1>1 DEF Inv, Flow, Searching
<1>3. LoggedProven' /\ EarlyOwed'
  BY <1>1 DEF Tested, Record, LoggedProven, EarlyOwed
<1>4. StageOne'
  <2>1. \A c \in Cores : search'[c] = "confirmed"
    BY <1>1
  <2>2. row.stage = 1 =>
          \A c \in Cores : \/ c > row.index \/ c \in Range(row.requeue) \/ c \in early
                           \/ search[c] = "confirmed" /\ depth[c] \in proven[c]
    BY DEF Tested, Record, StageOne
  <2> QED
    BY <1>1, <2>1, <2>2 DEF StageOne
<1>5. Owed'
  BY <1>1, <1>2, StoppedOwed
<1> QED
  BY <1>3, <1>4, <1>5 DEF Tested, Record

\* A stage without a slot hands over only when nobody has a turn left in it.
LEMMA NextStageTested == ASSUME Inv, Tested, NextStage, Inv' PROVE Tested'
<1>1. /\ Fire("next", {"next"}) /\ status = "validating" /\ SlotAt(pos) = Nothing
      /\ depth' = depth /\ soloLog' = soloLog /\ early' = early /\ proven' = proven
  BY DEF NextStage, history
<1>2. "next" \in Kinds /\ {"next"} \in SUBSET Kinds
  BY DEF Kinds
<1>3. Up /\ AllConfirmed /\ pos.stage > 0 /\ row = pos /\ pos.requeue = <<>>
  BY <1>1, <1>2, DueMeans DEF Inv, Flow, Saved
<1>4. pos \in Cursor /\ row' \in Cursor /\ pos.stage \in 0..9
  BY TypesAre, CursorParts DEF Inv, TypeOK
<1>5. /\ pos.index \in 0..N /\ pos.lane \in 0..N + 1 /\ pos.work \in 0..Len(Workloads)
      /\ N \in Nat /\ Len(Workloads) \in Nat
  BY <1>4, CursorParts, SizeAssumption, WorkloadAssumption
<1>6. pos.stage # 1 \/ pos.index = N
  <2>1. pos.stage = 1 /\ pos.index < N => SlotAt(pos) = Solo(1, pos.index + 1)
    BY DEF SlotAt
  <2>2. pos.stage = 1 => ~(pos.index < N)
    BY <1>1, <2>1 DEF Solo, Nothing
  <2> QED
    BY <1>5, <2>2
<1>7. pos.stage # 5 \/ ~config.spectrum \/ pos.index = N
  <2>1. pos.stage = 5 /\ config.spectrum /\ pos.index < N => SlotAt(pos) = Solo(5, pos.index + 1)
    BY DEF SlotAt
  <2>2. pos.stage = 5 /\ config.spectrum => ~(pos.index < N)
    BY <1>1, <2>1 DEF Solo, Nothing
  <2> QED
    BY <1>5, <2>2
<1>8. pos.stage # 9 \/ pos.lane >= N \/ pos.work >= Len(Workloads)
  <2>1. pos.stage = 9 /\ pos.work < Len(Workloads) /\ pos.lane < N => SlotAt(pos) = Solo(9, pos.lane + 1)
    BY <1>5 DEF SlotAt
  <2>2. pos.stage = 9 /\ pos.work < Len(Workloads) => ~(pos.lane < N)
    BY <1>1, <2>1 DEF Solo, Nothing
  <2> QED
    BY <1>5, <2>2
<1>9. \A c \in Cores : ProvenAt(c)
  <2>1. \A c \in Cores : ~Turn(c)
    BY <1>3, <1>4, <1>6, <1>7, <1>8, NoTurnLeft
  <2> QED
    BY <1>1, <1>3, <2>1 DEF Tested, Owed
<1>10. /\ row'.dirty = pos.dirty
       /\ (row'.stage \in 2..8 /\ pos.stage \in 1..8) \/ (row'.stage = 9 /\ pos.stage = 9)
  <2>1. CASE pos.stage \in {1, 3, 6, 7} /\ MoveTo([pos EXCEPT !.stage = @ + 1])
    <3>1. row'.stage = pos.stage + 1 /\ row'.dirty = pos.dirty
      BY <1>4, <2>1 DEF MoveTo, Cursor
    <3> QED
      BY <2>1, <3>1
  <2>2. CASE pos.stage = 4 /\ MoveTo([pos EXCEPT !.stage = 5, !.index = 0])
    BY <1>4, <2>2 DEF MoveTo, Cursor
  <2>3. CASE pos.stage = 5 /\ MoveTo([pos EXCEPT !.stage = 6, !.index = IF config.spectrum THEN 0 ELSE @])
    BY <1>4, <2>3 DEF MoveTo, Cursor
  <2>4. CASE pos.stage = 9 /\ MoveTo([pos EXCEPT !.work = @ + 1, !.lane = 0])
    BY <1>4, <2>4 DEF MoveTo, Cursor
  <2> QED
    BY <2>1, <2>2, <2>3, <2>4, Zenon DEF NextStage
<1>11. pos.stage = 9 => early = {}
  BY <1>3 DEF Tested, Record, EarlyOwed
<1>12. pos.stage \in 1..8 /\ ~pos.dirty => early = {}
  <2>1. pos.stage \in 2..8 /\ ~pos.dirty => early = {}
    BY <1>3 DEF Tested, Record, EarlyOwed
  <2>2. pos.stage = 1 /\ ~pos.dirty => early = {}
    <3>1. pos.stage = 1 /\ ~pos.dirty => \A c \in early : c > pos.index
      BY <1>3 DEF Tested, Record, EarlyOwed
    <3>2. \A c \in early : ~(c > N)
      <4>1. early \subseteq Cores
        BY TypesAre DEF Inv
      <4> QED
        BY <1>5, <4>1 DEF Cores
    <3> QED
      BY <1>6, <3>1, <3>2
  <2> QED
    BY <2>1, <2>2
<1> QED
  BY <1>1, <1>3, <1>4, <1>9, <1>10, <1>11, <1>12, MoveTested

LEMMA FreshPassTested == ASSUME Inv, Tested, FreshPass, Inv' PROVE Tested'
<1>1. /\ row' = [pos EXCEPT !.stage = 1, !.index = 0, !.half = 0, !.dirty = FALSE, !.requeue = <<>>]
      /\ pos' = row' /\ soloLog' = soloLog /\ proven' = proven /\ early' = early
  BY DEF FreshPass, MoveTo
<1>2. pos \in Cursor
  BY TypesAre DEF Inv
<1>3. row'.stage = 1 /\ row'.index = 0 /\ pos'.stage = 1 /\ pos'.index = 0
  BY <1>1, <1>2 DEF Cursor
<1>4. \A c \in Cores : c > 0
  BY DEF Cores
<1>5. LoggedProven'
  BY <1>1 DEF Tested, Record, LoggedProven
<1>6. EarlyOwed' /\ StageOne'
  <2>1. \A c \in early' : c > 0
    BY <1>1, <1>4, TypesAre DEF Inv
  <2> QED
    BY <1>3, <1>4, <2>1 DEF EarlyOwed, StageOne
<1>7. Owed'
  BY <1>3, <1>4 DEF Owed, Turn
<1> QED
  BY <1>5, <1>6, <1>7 DEF Tested, Record

LEMMA ConcludeTested == ASSUME Inv, Tested, Conclude, Inv' PROVE Tested'
<1>1. /\ status \in {"validating", "running"} /\ pos.stage \in {0, 8} /\ ~pos.dirty
      /\ depth' = depth /\ soloLog' = soloLog /\ proven' = proven /\ early' = early
  BY DEF Conclude, history
<1>2. "next" \in Kinds /\ {"next"} \in SUBSET Kinds /\ {} \in SUBSET Kinds /\ "next" # "search"
  BY DEF Kinds
<1>3. PICK made \in SUBSET Kinds : Fire("next", made)
  BY <1>2 DEF Conclude
<1>4. Up /\ status = "validating" /\ pos.stage = 8 /\ row = pos /\ pos.requeue = <<>>
  <2>1. Up /\ status = "validating" /\ pos.stage > 0 /\ pos.requeue = <<>>
    BY <1>1, <1>2, <1>3, DueMeans
  <2> QED
    BY <1>1, <2>1 DEF Inv, Flow, Saved
<1>5. pos \in Cursor /\ row' \in Cursor
  BY TypesAre DEF Inv, TypeOK
<1>6. \A c \in Cores : ProvenAt(c)
  <2>1. \A c \in Cores : ~Turn(c)
    BY <1>4, <1>5, NoTurnLeft
  <2> QED
    BY <1>4, <2>1 DEF Tested, Owed
<1>7. early = {}
  BY <1>1, <1>4 DEF Tested, Record, EarlyOwed
<1>8. row'.stage \in {0, 9}
  <2>1. CASE MoveTo([pos EXCEPT !.stage = 9, !.index = 0, !.half = 0, !.work = 0, !.lane = 0])
    BY <1>5, <2>1 DEF MoveTo, Cursor
  <2>2. CASE MoveTo([pos EXCEPT !.stage = 0, !.requeue = <<>>, !.index = 0, !.half = 0])
    BY <1>5, <2>2 DEF MoveTo, Cursor
  <2> QED
    BY <2>1, <2>2, Zenon DEF Conclude, Finalize
<1> QED
  BY <1>1, <1>4, <1>5, <1>6, <1>7, <1>8, MoveTested

LEMMA FinishRoundTested == ASSUME Inv, Tested, FinishRound, Inv' PROVE Tested'
<1>1. /\ status = "validating" /\ pos.stage = 9 /\ pos.work >= Len(Workloads)
      /\ row' = [pos EXCEPT !.dirty = FALSE, !.work = 0, !.lane = 0]
      /\ depth' = depth /\ soloLog' = soloLog /\ proven' = proven /\ early' = early
  BY DEF FinishRound, history
<1>2. "next" \in Kinds /\ {"next"} \in SUBSET Kinds /\ {"search"} \in SUBSET Kinds
  BY DEF Kinds
<1>3. PICK made \in SUBSET Kinds : Fire("next", made)
  BY <1>2 DEF FinishRound
<1>4. Up /\ row = pos /\ pos.requeue = <<>>
  <2>1. Up /\ pos.stage > 0 /\ pos.requeue = <<>>
    BY <1>1, <1>2, <1>3, DueMeans
  <2> QED
    BY <2>1 DEF Inv, Flow, Saved
<1>5. pos \in Cursor /\ row' \in Cursor
  BY TypesAre DEF Inv, TypeOK
<1>6. \A c \in Cores : ProvenAt(c)
  <2>1. \A c \in Cores : ~Turn(c)
    BY <1>1, <1>4, <1>5, NoTurnLeft
  <2> QED
    BY <1>1, <1>4, <2>1 DEF Tested, Owed
<1>7. early = {}
  BY <1>1, <1>4 DEF Tested, Record, EarlyOwed
<1>8. row'.stage = 9
  BY <1>1, <1>5 DEF Cursor
<1> QED
  BY <1>1, <1>4, <1>5, <1>6, <1>7, <1>8, MoveTested

\* Validation is entered after the search, or by a resume.
LEMMA CompleteTested == ASSUME Inv, Tested, Complete, Inv' PROVE Tested'
<1>1. /\ search' = search /\ config' = config /\ row' = EntryCursor /\ pos' = row'
      /\ depth' = depth /\ early' = early /\ soloLog' = soloLog /\ proven' = proven
  BY DEF Complete, EnterAt, MoveTo
<1>2. TypeOK /\ pos \in Cursor /\ row \in Cursor /\ row' \in Cursor
  BY TypesAre DEF Inv, TypeOK
<1>3. row.stage > 0 => (row.dirty => row'.dirty)
  BY <1>1, <1>2, EntryFacts
<1> QED
  BY <1>1, <1>2, <1>3, EntryTested DEF Tested

LEMMA MarkedTested ==
  ASSUME Inv, Tested, NEW d \in BOOLEAN, row.stage > 0 => (row.dirty => d),
         row' = [EntryCursor EXCEPT !.dirty = d], pos' = row', config' = config,
         depth' = depth, early' = early, soloLog' = soloLog, proven' = proven, search' = search, Inv'
  PROVE  Tested'
<1>1. TypeOK /\ pos \in Cursor /\ row \in Cursor /\ row' \in Cursor
  BY TypesAre DEF Inv, TypeOK
<1>2. /\ row'.stage = EntryCursor.stage /\ row'.index = EntryCursor.index
      /\ row'.requeue = EntryCursor.requeue /\ row'.dirty = d
  <2>1. EntryCursor \in Cursor
    BY <1>1, EntryFacts
  <2> QED
    BY <2>1 DEF Cursor
<1> QED
  BY <1>1, <1>2, EntryTested DEF Tested

LEMMA ResumeQuietlyTested == ASSUME Inv, Tested, ResumeQuietly, Inv' PROVE Tested'
<1>1. /\ config' = config /\ search' = search /\ depth' = depth /\ early' = early
      /\ soloLog' = soloLog /\ proven' = proven /\ workers' = workers
      /\ Up => workers = <<>>
  BY DEF ResumeQuietly, Resuming, Up
<1> DEFINE d == row.stage > 0 /\ row.dirty
<1>2. CASE EnterAt([EntryCursor EXCEPT !.dirty = d])
  <2>1. row' = [EntryCursor EXCEPT !.dirty = d] /\ pos' = row'
    BY <1>2 DEF EnterAt, MoveTo
  <2>2. d \in BOOLEAN /\ (row.stage > 0 => (row.dirty => d))
    OBVIOUS
  <2> HIDE DEF d
  <2> QED
    BY <1>1, <2>1, <2>2, MarkedTested
<1>3. CASE status' = "running" /\ UNCHANGED <<row, incidents, passed, taint>>
  <2>1. row \in Cursor /\ row' = row
    BY <1>3, TypesAre DEF Inv
  <2>2. Record'
    BY <1>1, <2>1, RowTested DEF Tested
  <2>3. workers' = <<>>
    BY <1>1 DEF Inv, Token
  <2> QED
    BY <1>3, <2>2, <2>3, StoppedOwed DEF Tested
<1> QED
  BY <1>2, <1>3, Zenon DEF ResumeQuietly

LEMMA ResumeIncidentTested == ASSUME Inv, Tested, ResumeIncident, Inv' PROVE Tested'
<1>1. /\ config' = config /\ search' = search /\ depth' = depth /\ early' = early
      /\ soloLog' = soloLog /\ proven' = proven /\ workers' = workers
      /\ Up => workers = <<>>
  BY DEF ResumeIncident, Resuming, Up
<1>2. workers' = <<>> /\ row \in Cursor /\ row' \in Cursor
  BY <1>1, TypesAre DEF Inv, Token, TypeOK
<1>3. CASE row' = [row EXCEPT !.dirty = TRUE] /\ status' = "paused"
  <2>1. row'.stage = row.stage /\ row'.index = row.index /\ row'.requeue = row.requeue /\ row'.dirty
    BY <1>2, <1>3 DEF Cursor
  <2>2. Record'
    BY <1>1, <1>2, <2>1, RowTested DEF Tested
  <2> QED
    BY <1>2, <1>3, <2>2, StoppedOwed DEF Tested
<1>4. CASE MoveTo([EntryCursor EXCEPT !.dirty = TRUE])
  <2>1. row' = [EntryCursor EXCEPT !.dirty = TRUE] /\ pos' = row' /\ TRUE \in BOOLEAN
    BY <1>4 DEF MoveTo
  <2> QED
    BY <1>1, <2>1, MarkedTested
<1>5. CASE status' = "running" /\ UNCHANGED <<row, pos>>
  <2>1. Record'
    BY <1>1, <1>2, <1>5, RowTested DEF Tested
  <2> QED
    BY <1>2, <1>5, <2>1, StoppedOwed DEF Tested
<1> QED
  BY <1>3, <1>4, <1>5, Zenon DEF ResumeIncident

LEMMA ResumeChargedTested ==
  ASSUME Inv, Tested, NEW charged \in SUBSET Cores, ResumeCharged(charged)
  PROVE  Tested'
<1>1. /\ Demote(charged, 0, FALSE) /\ soloLog' = soloLog /\ proven' = proven
      /\ status' = "running" /\ workers' = workers /\ (Up => workers = <<>>)
  BY DEF ResumeCharged, HuntEnds, Resuming, Up
<1>2. TypeOK /\ 0 \in 0..9 /\ FALSE \in BOOLEAN
  BY DEF Inv
<1>3. LoggedProven' /\ \A c \in Cores : proven[c] \subseteq proven'[c]
  BY <1>1 DEF Tested, Record, LoggedProven
<1>4. Record'
  BY <1>1, <1>2, <1>3, DemotedTested DEF Tested
<1>5. workers' = <<>>
  BY <1>1 DEF Inv, Token
<1> QED
  BY <1>1, <1>4, <1>5, StoppedOwed DEF Tested

\* A kill inside the handler leaves a row of the log, or an offset a step back: the
\* core it belongs to still has the slot it was in to come.
LEMMA TornTested == ASSUME Inv, Tested, NEW i \in DOMAIN workers, Torn(i) PROVE Tested'
<1>1. /\ config' = config /\ row' = row /\ search' = search /\ workers' = <<>> /\ ~Up'
  BY DEF Torn, Lost, Up
<1>2. /\ row = pos /\ pos \in Cursor /\ SlotKind(workers[i]) /\ row.stage \in 1..9
  BY WorkerMeans
<1>3. CASE LogPass(workers[i]) /\ UNCHANGED <<depth, passed, taint, early>>
  <2>1. LoggedProven' /\ \A c \in Cores : proven[c] \subseteq proven'[c]
    BY <1>3, LogIsTrue
  <2>2. EarlyOwed'
    BY <1>1, <1>3 DEF Tested, Record, EarlyOwed
  <2>3. StageOne'
    BY <1>1, <1>3, <2>1 DEF Tested, Record, StageOne
  <2> QED
    BY <1>1, <2>1, <2>2, <2>3, StoppedOwed DEF Tested, Record
<1>4. CASE /\ UNCHANGED <<soloLog, passed, proven, early>>
           /\ \E c \in workers[i].cores : depth' = [depth EXCEPT ![c] = @ - 1]
  <2>1. PICK c \in workers[i].cores : depth' = [depth EXCEPT ![c] = @ - 1]
    BY <1>4
  <2>2. depth \in [Cores -> Depths]
    BY TypesAre DEF Inv
  <2>3. \A x \in Cores : x # c => depth'[x] = depth[x]
    BY <2>1, <2>2
  <2>4. LoggedProven' /\ EarlyOwed'
    BY <1>1, <1>4 DEF Tested, Record, LoggedProven, EarlyOwed
  <2>5. row.stage = 1 => c > row.index \/ c \in Range(row.requeue)
    <3>1. pos.requeue # <<>> => Head(pos.requeue) \in Range(pos.requeue)
      BY <1>2, HeadIsOwed
    <3>2. pos.index + 1 > pos.index
      BY <1>2, CursorParts, SizeAssumption
    <3> QED
      BY <1>2, <2>1, <3>1, <3>2 DEF SlotKind
  <2>6. StageOne'
    BY <1>1, <1>4, <2>3, <2>5 DEF Tested, Record, StageOne
  <2> QED
    BY <1>1, <2>4, <2>6, StoppedOwed DEF Tested, Record
<1> QED
  BY <1>3, <1>4, Zenon DEF Torn

\* The operator stops it; the process or the machine goes down.
LEMMA StopTested ==
  ASSUME Inv, Tested,
         \/ Pause \/ Abort \/ Down \/ ResumeAtStock
         \/ \E i \in DOMAIN workers : TooOften(i, run.thermals, MaxThermals) \/ TooOften(i, run.faults, MaxFaults)
  PROVE  Tested'
<1>1. /\ config' = config /\ row' = row /\ search' = search /\ depth' = depth /\ early' = early
      /\ soloLog' = soloLog /\ proven' = proven
  <2>1. CASE Pause \/ Abort \/ ResumeAtStock \/ Down
    BY <2>1 DEF Pause, Abort, ResumeAtStock, Down, Lost, Resuming, database, history
  <2>2. CASE \E i \in DOMAIN workers : TooOften(i, run.thermals, MaxThermals) \/ TooOften(i, run.faults, MaxFaults)
    BY <2>2 DEF TooOften, database, history
  <2> QED
    BY <2>1, <2>2
<1>2. row' \in Cursor
  BY <1>1, TypesAre DEF Inv
<1>3. Record'
  BY <1>1, <1>2, RowTested DEF Tested
<1>4. CASE Pause
  <2>1. pos' = pos /\ workers' = workers /\ status' = "paused"
    BY <1>4 DEF Pause, process
  <2> QED
    BY <1>1, <1>3, <2>1, SameOwed DEF Tested
<1>5. CASE Abort
  <2>1. workers' = <<>> /\ status' = "aborted"
    BY <1>5 DEF Abort, Aborted
  <2> QED
    BY <1>3, <2>1, StoppedOwed DEF Tested
<1>6. CASE Down
  <2>1. workers' = <<>> /\ ~Up'
    BY <1>6 DEF Down, Lost, Up
  <2> QED
    BY <1>3, <2>1, StoppedOwed DEF Tested
<1>7. CASE ResumeAtStock
  <2>1. workers' = workers /\ status' = "fault" /\ (Up => workers = <<>>)
    BY <1>7 DEF ResumeAtStock, Resuming, Up
  <2>2. workers' = <<>>
    BY <2>1 DEF Inv, Token
  <2> QED
    BY <1>3, <2>1, <2>2, StoppedOwed DEF Tested
<1>8. CASE \E i \in DOMAIN workers : TooOften(i, run.thermals, MaxThermals) \/ TooOften(i, run.faults, MaxFaults)
  <2>1. workers' = <<>> /\ status' = "aborted"
    BY <1>8 DEF TooOften, Aborted
  <2> QED
    BY <1>3, <2>1, StoppedOwed DEF Tested
<1> QED
  BY <1>4, <1>5, <1>6, <1>7, <1>8

\* Validation is left or paused after an answer.
LEMMA LeftTested ==
  ASSUME Inv, Tested, NEW i \in DOMAIN workers, Answer(i), NEW cores \in SUBSET Cores,
         NEW stage \in 0..9, NEW mark \in BOOLEAN, Demote(cores, stage, mark),
         status' # "validating", LoggedProven', \A c \in Cores : proven[c] \subseteq proven'[c]
  PROVE  Tested'
<1>1. workers' = <<>>
  BY AnswerMeans
<1>2. Record'
  BY DemotedTested DEF Tested, Inv
<1> QED
  BY <1>1, <1>2, StoppedOwed DEF Tested

LEMMA LeaveForTested ==
  ASSUME Inv, Tested, NEW i \in DOMAIN workers, Answer(i), NEW cores \in SUBSET Cores,
         LeaveFor(cores), LoggedProven', \A c \in Cores : proven[c] \subseteq proven'[c]
  PROVE  Tested'
<1> DEFINE stage == IF status \in Dormant \/ cores \ Undervolted # {} THEN pos.stage ELSE 0
<1>1. Demote(cores, stage, FALSE) /\ status' # "validating"
  BY Zenon DEF LeaveFor
<1>2. stage \in 0..9 /\ FALSE \in BOOLEAN
  BY TypesAre, CursorParts DEF Inv
<1> HIDE DEF stage
<1> QED
  BY <1>1, <1>2, LeftTested

LEMMA NoVerdictTested ==
  ASSUME Inv, Tested, NEW i \in DOMAIN workers, NEW foreign \in SUBSET Cores,
         StartupFault(i, foreign) \/ ThermalStop(i, foreign) \/ ApparatusFault(i, foreign)
  PROVE  Tested'
<1>1. Answer(i) /\ soloLog' = soloLog /\ proven' = proven
  BY DEF StartupFault, ThermalStop, ApparatusFault, NoVerdict
<1>2. LoggedProven' /\ \A c \in Cores : proven[c] \subseteq proven'[c]
  BY <1>1 DEF Tested, Record, LoggedProven
<1>3. CASE StartupFault(i, foreign)
  <2>1. Demote(foreign, pos.stage, FALSE) /\ status' # "validating"
    BY <1>3 DEF StartupFault
  <2>2. pos.stage \in 0..9 /\ FALSE \in BOOLEAN
    BY TypesAre, CursorParts DEF Inv
  <2> QED
    BY <1>1, <1>2, <2>1, <2>2, LeftTested
<1>4. CASE LeaveFor(foreign)
  BY <1>1, <1>2, <1>4, LeaveForTested
<1>5. CASE UNCHANGED <<depth, search, row, incidents, status, pos, disruptions, passed, taint, early>>
  <2>1. workers' = <<>> /\ config' = config /\ workers # <<>>
    BY <1>1, AnswerMeans, WorkerMeans
  <2> QED
    BY <1>1, <1>5, <2>1, IdleTested
<1> QED
  BY <1>3, <1>4, <1>5, Zenon DEF ThermalStop, ApparatusFault, NoVerdict

LEMMA TransitionsFailTested ==
  ASSUME Inv, Tested, NEW i \in DOMAIN workers, NEW convicted \in SUBSET Cores,
         TransitionsFail(i, convicted), Inv'
  PROVE  Tested'
<1>1. Answer(i) /\ soloLog' = soloLog /\ proven' = proven
  BY DEF TransitionsFail
<1>2. LoggedProven' /\ \A c \in Cores : proven[c] \subseteq proven'[c]
  BY <1>1 DEF Tested, Record, LoggedProven
<1>3. CASE HuntEnds(convicted, TRUE)
  <2>1. Demote(convicted, 0, TRUE) /\ status' # "validating"
    BY <1>3 DEF HuntEnds
  <2>2. 0 \in 0..9 /\ TRUE \in BOOLEAN
    OBVIOUS
  <2> QED
    BY <1>1, <1>2, <2>1, <2>2, LeftTested
<1>4. CASE /\ status' = "fault" /\ MoveTo([pos EXCEPT !.dirty = TRUE])
           /\ UNCHANGED <<depth, search, incidents, calls, disruptions, taint, early>>
  <2>1. row = pos /\ pos \in Cursor /\ row' \in Cursor /\ workers' = <<>>
    BY <1>1, AnswerMeans, TypesAre DEF Inv, TypeOK
  <2>2. row'.stage = row.stage /\ row'.index = row.index /\ row'.requeue = row.requeue /\ row'.dirty
    BY <1>4, <2>1 DEF MoveTo, Cursor
  <2>3. Record'
    BY <1>1, <1>4, <2>1, <2>2, RowTested DEF Tested
  <2> QED
    BY <1>4, <2>1, <2>3, StoppedOwed DEF Tested
<1> QED
  BY <1>3, <1>4, Zenon DEF TransitionsFail

LEMMA EvidenceTested ==
  ASSUME Inv, Tested, NEW i \in DOMAIN workers, NEW c, NEW foreign \in SUBSET Cores,
         NEW ok \in BOOLEAN, Evidence(i, c, foreign, ok)
  PROVE  Tested'
<1>1. /\ Answer(i) /\ LeaveFor(foreign)
      /\ ok => LogPass(workers[i])
      /\ ~ok => soloLog' = soloLog /\ proven' = proven
  BY DEF Evidence
<1>2. LoggedProven' /\ \A x \in Cores : proven[x] \subseteq proven'[x]
  <2>1. CASE ok
    BY <1>1, <2>1, LogIsTrue
  <2>2. CASE ~ok
    BY <1>1, <2>2 DEF Tested, Record, LoggedProven
  <2> QED
    BY <2>1, <2>2
<1> QED
  BY <1>1, <1>2, LeaveForTested

LEMMA SoakFailsTested ==
  ASSUME Inv, Tested, NEW i \in DOMAIN workers, SoakFails(i), Inv'
  PROVE  Tested'
<1>1. /\ Answer(i) /\ search' = search /\ row' = [pos EXCEPT !.dirty = TRUE] /\ pos' = row'
      /\ depth' = depth /\ soloLog' = soloLog /\ proven' = proven /\ early' = early
  BY DEF SoakFails, MoveTo
<1>2. row = pos /\ pos \in Cursor /\ row' \in Cursor /\ workers # <<>> /\ config' = config
  BY <1>1, AnswerMeans, WorkerMeans, TypesAre DEF Inv, TypeOK
<1>3. /\ row'.stage = pos.stage /\ row'.index = pos.index /\ row'.requeue = pos.requeue
      /\ row'.work = pos.work /\ row'.lane = pos.lane /\ row'.dirty
  BY <1>1, <1>2 DEF Cursor
<1>4. Record'
  BY <1>1, <1>2, <1>3, RowTested DEF Tested
<1>5. Owed'
  BY <1>1, <1>2, <1>3, SameOwed DEF Tested
<1> QED
  BY <1>4, <1>5 DEF Tested

\* A core that fails alone has the same slot or re-test before it again; one that
\* fails among others, none of whom had a turn left, is owed a re-test.
LEMMA CoreFailsTested ==
  ASSUME Inv, Tested, NEW i \in DOMAIN workers, NEW c, CoreFails(i, c), Inv'
  PROVE  Tested'
<1> DEFINE again == run.solo \/ pos.stage \in {1, 5} \/ (pos.stage = 9 /\ pos.lane < N)
<1>1. /\ Answer(i) /\ c \in workers[i].cores
      /\ search' = search /\ soloLog' = soloLog /\ proven' = proven /\ early' = early
      /\ run.solo \/ pos.stage \in {1, 2, 3, 5, 6, 9}
  BY DEF CoreFails
<1>2. /\ row = pos /\ pos \in Cursor /\ row' \in Cursor /\ workers # <<>> /\ config' = config
      /\ c \in Cores /\ depth \in [Cores -> Depths] /\ workers' = <<>>
      /\ ~run.solo => pos.requeue = <<>>
  BY <1>1, AnswerMeans, WorkerMeans, SlotCores, TypesAre DEF Inv, TypeOK
<1>3. SlotKind(workers[i])
  BY WorkerMeans
<1>4. CASE /\ BackOff(c)
           /\ MoveTo([pos EXCEPT !.dirty = TRUE, !.requeue = IF again THEN @ ELSE <<c>>])
  <2>1. /\ row' = [pos EXCEPT !.dirty = TRUE, !.requeue = IF again THEN @ ELSE <<c>>]
        /\ pos' = row' /\ depth' = [depth EXCEPT ![c] = @ - 1]
    BY <1>4 DEF MoveTo, BackOff
  <2>2. \A x \in Cores : x # c => depth'[x] = depth[x]
    BY <1>2, <2>1
  <2>3. /\ row'.stage = pos.stage /\ row'.index = pos.index /\ row'.work = pos.work
        /\ row'.lane = pos.lane /\ row'.dirty
        /\ row'.requeue = (IF again THEN pos.requeue ELSE <<c>>)
    <3> HIDE DEF again
    <3> QED
      BY <1>2, <2>1 DEF Cursor
  <2>4. LoggedProven'
    BY <1>1 DEF Tested, Record, LoggedProven
  <2>5. EarlyOwed'
    BY <1>1, <1>2, <2>3 DEF Tested, Record, EarlyOwed
  <2>6. CASE again
    <3>1. Turn(c)'
      <4>1. pos.requeue # <<>> => Head(pos.requeue) \in Range(pos.requeue)
        BY <1>2, HeadIsOwed
      <4>2. pos.index + 1 > pos.index
        BY <1>2, CursorParts, SizeAssumption
      <4>3. Turn(c)
        <5>1. CASE run.solo
          BY <1>1, <1>3, <4>1, <5>1 DEF SlotKind, Turn
        <5>2. CASE ~run.solo
          <6>1. pos.stage = 9 => pos.lane < N
            BY <2>6, <5>2
          <6>2. N \in Nat /\ ~(N < N)
            BY SizeAssumption
          <6> QED
            BY <1>1, <1>3, <2>6, <4>2, <5>2, <6>1, <6>2 DEF SlotKind, Turn
        <5> QED
          BY <5>1, <5>2
      <4>4. pos'.requeue = pos.requeue
        BY <2>1, <2>3, <2>6
      <4> QED
        BY <1>2, <2>1, <2>3, <4>3, <4>4 DEF Turn
    <3>2. \A x \in Cores : x # c => ProvenAt(x)' \/ Turn(x)'
      <4>1. pos'.requeue = pos.requeue
        BY <2>1, <2>3, <2>6
      <4>2. \A x \in Cores : ProvenAt(x) \/ Turn(x)
        BY <1>2 DEF Tested, Owed
      <4>3. \A x \in Cores : Turn(x) => Turn(x)'
        BY <1>2, <2>1, <2>3, <4>1 DEF Turn
      <4>4. \A x \in Cores : x # c /\ ProvenAt(x) => ProvenAt(x)'
        BY <1>1, <2>2 DEF ProvenAt
      <4> QED
        BY <4>2, <4>3, <4>4
    <3>3. Owed'
      BY <3>1, <3>2 DEF Owed
    <3>4. StageOne'
      <4>1. row.stage = 1 => c > row'.index \/ c \in Range(row'.requeue)
        BY <1>2, <2>1, <2>3, <3>1 DEF Turn
      <4>2. row'.requeue = row.requeue
        BY <1>2, <2>3, <2>6
      <4> QED
        BY <1>1, <1>2, <2>2, <2>3, <4>1, <4>2 DEF Tested, Record, StageOne
    <3> QED
      BY <2>4, <2>5, <3>3, <3>4 DEF Tested, Record
  <2>7. CASE ~again
    <3>1. ~run.solo /\ pos.stage \in {2, 3, 6, 9} /\ (pos.stage = 9 => pos.lane >= N)
      <4>1. pos.lane \in 0..N + 1 /\ N \in Nat
        BY <1>2, CursorParts, SizeAssumption
      <4> QED
        BY <1>1, <2>7, <4>1
    <3>2. \A x \in Cores : ProvenAt(x)
      <4>1. \A x \in Cores : ~Turn(x)
        BY <1>2, <3>1, NoTurnLeft
      <4> QED
        BY <1>2, <4>1 DEF Tested, Owed
    <3>3. c \in Range(row'.requeue)
      <4>1. row'.requeue = <<c>>
        BY <2>3, <2>7
      <4> QED
        BY <4>1 DEF Range
    <3>4. Owed'
      BY <1>1, <2>1, <2>2, <3>2, <3>3 DEF Owed, ProvenAt, Turn
    <3>5. StageOne'
      BY <2>3, <3>1 DEF StageOne
    <3> QED
      BY <2>4, <2>5, <3>4, <3>5 DEF Tested, Record
  <2> QED
    BY <2>6, <2>7
<1>5. CASE /\ MoveTo([pos EXCEPT !.dirty = @ \/ run.solo]) /\ status' = "paused"
           /\ UNCHANGED <<depth, calls, taint>>
  <2>1. row'.stage = row.stage /\ row'.index = row.index /\ row'.requeue = row.requeue /\ (row.dirty => row'.dirty)
    BY <1>2, <1>5 DEF MoveTo, Cursor
  <2>2. Record'
    BY <1>1, <1>2, <1>5, <2>1, RowTested DEF Tested
  <2> QED
    BY <1>2, <1>5, <2>2, StoppedOwed DEF Tested
<1> QED
  BY <1>4, <1>5, Zenon DEF CoreFails

\* A slot that passes alone proves its core where it stands; any other one found
\* nobody waiting for a turn.
LEMMA PassTested ==
  ASSUME Inv, Tested, NEW i \in DOMAIN workers, Pass(i), Inv'
  PROVE  Tested'
<1> DEFINE w == workers[i]
<1>1. /\ Answer(i) /\ LogPass(w) /\ row' = AfterPass(w) /\ pos' = row'
      /\ early' = (IF Alone(w) THEN early \ w.cores ELSE early)
      /\ depth' = depth /\ search' = search
  BY DEF Pass, MoveTo
<1>2. /\ row = pos /\ pos \in Cursor /\ row' \in Cursor /\ config' = config /\ AllConfirmed /\ Soaks
      /\ pos.stage \in 1..9 /\ SlotKind(w) /\ workers # <<>>
  BY <1>1, AnswerMeans, WorkerMeans, TypesAre DEF Inv, TypeOK
<1>3. Beyond(row')
  BY <1>1, AfterPassIs
<1>4. /\ row'.dirty = pos.dirty
      /\ row'.stage = pos.stage \/ (pos.stage \in {2, 4, 6, 7} /\ row'.stage \in {3, 5, 7, 8})
  BY <1>2, <1>3, BeyondStage
<1>5. /\ LoggedProven' /\ \A c \in Cores : proven[c] \subseteq proven'[c]
      /\ Alone(w) => \A c \in Cores : c \in w.cores => depth[c] \in proven'[c]
  BY <1>1, LogIsTrue
<1>6. /\ pos.requeue \in Seq(Cores) /\ pos.index \in 0..N /\ pos.lane \in 0..N + 1 /\ N \in Nat
      /\ Cores = 1..N
  BY <1>2, CursorParts, SizeAssumption DEF Cores
<1> HIDE DEF w
<1>7. \A c \in Cores : ProvenAt(c) => ProvenAt(c)'
  BY <1>1, <1>5 DEF ProvenAt
<1>8. \A c \in Cores : Alone(w) /\ c \in w.cores => depth'[c] \in proven'[c] /\ c \notin early'
  BY <1>1, <1>5
<1>9. \A c \in early' : c \in early
  BY <1>1
<1>10. \A c \in early : c \in early' \/ (Alone(w) /\ c \in w.cores)
  BY <1>1
<1>11. \A c \in Cores : ProvenAt(c) \/ Turn(c)
  BY <1>2 DEF Tested, Owed
<1>12. CASE ~Alone(w)
  <2>1. \A c \in Cores : ProvenAt(c)
    BY <1>12, TogetherIsProven DEF w, Tested
  <2>2. early' = early /\ pos.stage # 1
    BY <1>1, <1>2, <1>12 DEF SlotKind
  <2>3. Owed'
    BY <1>7, <2>1 DEF Owed
  <2>4. row'.stage # 1
    BY <1>4, <2>2
  <2>5. EarlyOwed'
    <3>1. row'.stage \in {0, 9} => pos.stage = 9
      BY <1>2, <1>4
    <3>2. row'.stage \in 2..8 => pos.stage \in 2..8
      BY <1>4
    <3> QED
      BY <1>2, <1>4, <2>2, <2>4, <3>1, <3>2 DEF Tested, Record, EarlyOwed
  <2> QED
    BY <1>5, <2>3, <2>4, <2>5 DEF Tested, Record, StageOne
<1>13. CASE Alone(w) /\ run.solo
  <2> DEFINE h == Head(pos.requeue)
  <2>1. pos.requeue # <<>> /\ w.cores = {h} /\ ~run.soaking
    BY <1>2, <1>13 DEF SlotKind, Soaks
  <2>2. h \in Cores
    BY <1>2, <2>1, HeadIsOwed
  <2>3. row' = [pos EXCEPT !.requeue = RemoveFirst(pos.requeue, h)]
    BY <1>3, <1>13, <2>1 DEF Beyond
  <2> HIDE DEF h
  <2>4. /\ row'.stage = pos.stage /\ row'.index = pos.index /\ row'.work = pos.work
        /\ row'.lane = pos.lane /\ row'.requeue = RemoveFirst(pos.requeue, h)
    BY <1>2, <2>3 DEF Cursor
  <2>5. \A x \in Range(pos.requeue) : x # h => x \in Range(row'.requeue)
    BY <1>6, <2>2, <2>4, RemovedOnce
  <2>6. \A x \in Cores : x # h /\ Turn(x) => Turn(x)'
    BY <1>1, <1>2, <2>4, <2>5 DEF Turn
  <2>7. depth'[h] \in proven'[h]
    BY <1>8, <1>13, <2>1, <2>2
  <2>8. Owed'
    <3>1. \A x \in Cores : x = h => ProvenAt(x)'
      BY <2>7 DEF ProvenAt
    <3>2. \A x \in Cores : ProvenAt(x)' \/ Turn(x)'
      BY <1>7, <1>11, <2>6, <3>1
    <3> QED
      BY <3>2 DEF Owed
  <2>9. EarlyOwed'
    BY <1>2, <1>4, <1>9, <2>4 DEF Tested, Record, EarlyOwed
  <2>10. StageOne'
    <3> SUFFICES ASSUME row'.stage = 1, NEW c \in Cores
                 PROVE  \/ c > row'.index \/ c \in Range(row'.requeue) \/ c \in early'
                        \/ search'[c] = "confirmed" /\ depth'[c] \in proven'[c]
      BY DEF StageOne
    <3>1. \/ c > row.index \/ c \in Range(row.requeue) \/ c \in early
          \/ search[c] = "confirmed" /\ depth[c] \in proven[c]
      BY <1>2, <2>4 DEF Tested, Record, StageOne
    <3>2. search'[c] = "confirmed"
      BY <1>1, <1>2 DEF AllConfirmed
    <3> QED
      BY <1>1, <1>2, <1>5, <1>10, <2>1, <2>4, <2>5, <2>7, <3>1, <3>2
  <2> QED
    BY <1>5, <2>8, <2>9, <2>10 DEF Tested, Record
<1>14. CASE Alone(w) /\ ~run.solo
  <2>1. ~run.soaking
    <3>1. pos.stage \in {1, 5, 9}
      BY <1>2, <1>14 DEF SlotKind
    <3> QED
      BY <1>2, <3>1 DEF Soaks
  <2>2. CASE pos.stage \in {1, 5}
    <3>1. w.cores = {pos.index + 1} /\ pos.index + 1 \in Cores
      BY <1>2, <1>6, <1>14, <2>2, SMTT(60) DEF SlotKind
    <3>2. row' = [pos EXCEPT !.index = pos.index + 1]
      BY <1>3, <1>14, <2>1, <2>2 DEF Beyond
    <3>3. row'.stage = pos.stage /\ row'.index = pos.index + 1 /\ row'.requeue = pos.requeue
      BY <1>2, <3>2 DEF Cursor
    <3>4. depth'[pos.index + 1] \in proven'[pos.index + 1] /\ pos.index + 1 \notin early'
      BY <1>8, <1>14, <3>1
    <3>5. \A x \in Cores : x > pos.index /\ x # pos.index + 1 => x > row'.index
      BY <1>6, <3>3
    <3>6. \A x \in Cores : x # pos.index + 1 /\ Turn(x) => Turn(x)'
      BY <1>1, <2>2, <3>3, <3>5 DEF Turn
    <3>7. Owed'
      <4>1. \A x \in Cores : ProvenAt(x)' \/ Turn(x)'
        BY <1>7, <1>11, <3>4, <3>6 DEF ProvenAt
      <4> QED
        BY <4>1 DEF Owed
    <3>8. EarlyOwed'
      <4>1. \A x \in early' : x \in early /\ x \in Cores /\ x # pos.index + 1
        BY <1>9, <3>4, TypesAre DEF Inv
      <4>2. row'.stage = 1 /\ ~row'.dirty => \A x \in early' : x > row'.index
        BY <1>2, <1>4, <3>3, <3>5, <4>1 DEF Tested, Record, EarlyOwed
      <4> QED
        BY <1>2, <1>4, <3>3, <4>1, <4>2 DEF Tested, Record, EarlyOwed
    <3>9. StageOne'
      <4> SUFFICES ASSUME row'.stage = 1, NEW c \in Cores
                   PROVE  \/ c > row'.index \/ c \in Range(row'.requeue) \/ c \in early'
                          \/ search'[c] = "confirmed" /\ depth'[c] \in proven'[c]
        BY DEF StageOne
      <4>1. \/ c > row.index \/ c \in Range(row.requeue) \/ c \in early
            \/ search[c] = "confirmed" /\ depth[c] \in proven[c]
        BY <1>2, <3>3 DEF Tested, Record, StageOne
      <4>2. search'[c] = "confirmed"
        BY <1>1, <1>2 DEF AllConfirmed
      <4> QED
        BY <1>1, <1>2, <1>5, <1>10, <3>1, <3>3, <3>4, <3>5, <4>1, <4>2
    <3> QED
      BY <1>5, <3>7, <3>8, <3>9 DEF Tested, Record
  <2>3. CASE pos.stage = 9
    <3>1. w.cores = {pos.lane + 1} /\ pos.lane + 1 \in Cores /\ pos.requeue = <<>>
      <4>1. pos.requeue = <<>>
        BY <1>14, WorkerMeans
      <4> QED
        BY <1>2, <1>6, <1>14, <2>3, <4>1 DEF SlotKind
    <3>2. row'.stage = 9
      BY <1>4, <2>3
    <3>3. \A x \in Cores : Turn(x) => x = pos.lane + 1
      <4>1. Range(pos.requeue) = {}
        BY <3>1 DEF Range
      <4> QED
        BY <2>3, <4>1 DEF Turn
    <3>4. Owed'
      <4>1. depth'[pos.lane + 1] \in proven'[pos.lane + 1]
        BY <1>8, <1>14, <3>1
      <4>2. \A x \in Cores : ProvenAt(x)'
        BY <1>7, <1>11, <3>3, <4>1 DEF ProvenAt
      <4> QED
        BY <4>2 DEF Owed
    <3>5. EarlyOwed' /\ StageOne'
      <4>1. early = {}
        BY <1>2, <2>3 DEF Tested, Record, EarlyOwed
      <4> QED
        BY <1>9, <3>2, <4>1 DEF EarlyOwed, StageOne
    <3> QED
      BY <1>5, <3>4, <3>5 DEF Tested, Record
  <2>4. pos.stage \in {1, 5, 9}
    BY <1>2, <1>14 DEF SlotKind
  <2> QED
    BY <2>2, <2>3, <2>4
<1> QED
  BY <1>12, <1>13, <1>14

\* Every step keeps what is owed.
LEMMA TestedDispatch == ASSUME Inv, Tested, Dispatch, Inv' PROVE Tested'
<1>1. CASE StartSlot \/ StartRetest \/ RequeueDrained \/ CooldownOver \/ Dropped
  BY <1>1, QuietTested
<1>2. CASE NextStage \/ FreshPass \/ Conclude
  BY <1>2, NextStageTested, FreshPassTested, ConcludeTested
<1>3. CASE FinishRound \/ Reearn \/ Complete
  BY <1>3, FinishRoundTested, ReearnTested, CompleteTested
<1> QED
  BY <1>1, <1>2, <1>3, Zenon DEF Dispatch

LEMMA TestedVerdict == ASSUME Inv, Tested, Verdict, Inv' PROVE Tested'
<1>1. PICK i \in DOMAIN workers :
    \/ Pass(i) \/ SoakFails(i)
    \/ TooOften(i, run.thermals, MaxThermals) \/ TooOften(i, run.faults, MaxFaults)
    \/ \E c \in workers[i].cores : CoreFails(i, c)
    \/ \E s \in SUBSET Undervolted : TransitionsFail(i, s)
    \/ \E s \in SUBSET Cores :
         \/ StartupFault(i, s) \/ ThermalStop(i, s) \/ ApparatusFault(i, s)
         \/ \E c \in workers[i].cores, ok \in BOOLEAN : Evidence(i, c, s, ok)
  BY DEF Verdict
<1>2. CASE Pass(i) \/ SoakFails(i)
  BY <1>2, PassTested, SoakFailsTested
<1>3. CASE TooOften(i, run.thermals, MaxThermals) \/ TooOften(i, run.faults, MaxFaults)
  BY <1>3, StopTested
<1>4. CASE \E c \in workers[i].cores : CoreFails(i, c)
  BY <1>4, CoreFailsTested
<1>5. CASE \E s \in SUBSET Undervolted : TransitionsFail(i, s)
  <2>1. Undervolted \subseteq Cores
    BY DEF Undervolted
  <2>2. PICK s \in SUBSET Cores : TransitionsFail(i, s)
    BY <1>5, <2>1
  <2> QED
    BY <2>2, TransitionsFailTested
<1>6. CASE \E s \in SUBSET Cores : StartupFault(i, s) \/ ThermalStop(i, s) \/ ApparatusFault(i, s)
  BY <1>6, NoVerdictTested
<1>7. CASE \E s \in SUBSET Cores : \E c \in workers[i].cores, ok \in BOOLEAN : Evidence(i, c, s, ok)
  <2>1. PICK s \in SUBSET Cores, c \in workers[i].cores, ok \in BOOLEAN : Evidence(i, c, s, ok)
    BY <1>7, Zenon
  <2> QED
    BY <2>1, EvidenceTested
<1> QED
  BY <1>1, <1>2, <1>3, <1>4, <1>5, <1>6, <1>7, Zenon

LEMMA TestedDisruption == ASSUME Inv, Tested, Disruption, Inv' PROVE Tested'
<1>1. CASE Pause \/ Abort \/ Down \/ ResumeAtStock
  BY <1>1, StopTested
<1>2. CASE \E i \in DOMAIN workers : Torn(i)
  BY <1>2, TornTested
<1>3. CASE ResumeQuietly \/ ResumeIncident
  BY <1>3, ResumeQuietlyTested, ResumeIncidentTested
<1>4. CASE \E s \in SUBSET Undervolted : ResumeCharged(s)
  <2>1. Undervolted \subseteq Cores
    BY DEF Undervolted
  <2>2. PICK s \in SUBSET Cores : ResumeCharged(s)
    BY <1>4, <2>1
  <2> QED
    BY <2>2, ResumeChargedTested
<1> QED
  BY <1>1, <1>2, <1>3, <1>4, Zenon DEF Disruption

LEMMA TestedStep == ASSUME Inv, Tested, [Next]_vars, Inv' PROVE Tested'
<1>1. CASE Next
  BY <1>1, TestedDispatch, TestedVerdict, TestedDisruption, Zenon DEF Next
<1>2. CASE UNCHANGED vars
  <2>1. /\ config' = config /\ row' = row /\ pos' = pos /\ early' = early /\ depth' = depth
        /\ soloLog' = soloLog /\ proven' = proven /\ search' = search
        /\ status' = status /\ workers' = workers /\ machine' = machine
    BY <1>2 DEF vars, database, process, history
  <2> QED
    BY <2>1, IdleTested DEF Up
<1> QED
  BY <1>1, <1>2

LEMMA TestedInit == ASSUME Init PROVE Tested
<1>1. /\ row = Blank /\ soloLog = [c \in Cores |-> {}] /\ proven = [c \in Cores |-> {}] /\ early = {}
      /\ workers = <<>> /\ status = "running"
  BY DEF Init
<1>2. row.stage = 0
  BY <1>1 DEF Blank
<1>3. LoggedProven
  BY <1>1 DEF LoggedProven
<1>4. EarlyOwed /\ StageOne
  BY <1>1, <1>2 DEF EarlyOwed, StageOne
<1>5. Owed
  BY <1>1 DEF Owed
<1> QED
  BY <1>3, <1>4, <1>5 DEF Tested, Record

\* Every core whose offset changed has passed alone, at the offset it now has,
\* before a stage loads it together with others, unless it was demoted while stage 1
\* was under way: a back-off queues a re-test, an entry past stage 1 queues every
\* core whose offset the log does not show, and no stop or kill loses the debt.
THEOREM AloneComesFirst ==
  ASSUME ResumeInCooldown = FALSE
  PROVE  Spec => []AloneBeforeTogether
<1>1. Init => Inv /\ Tested
  BY InvInit, TestedInit
<1>2. Inv /\ Tested /\ [Next]_vars => (Inv /\ Tested)'
  BY InvStep, TestedStep, Zenon
<1>3. Inv /\ Tested => AloneBeforeTogether
  <2> SUFFICES ASSUME Inv, Tested, NEW i \in DOMAIN workers, ~Alone(workers[i]),
                      NEW c \in Cores \ early
               PROVE  depth[c] \in proven[c]
    BY DEF AloneBeforeTogether
  <2>1. ProvenAt(c)
    BY TogetherIsProven DEF Tested
  <2> QED
    BY <2>1 DEF ProvenAt
<1> QED
  BY <1>1, <1>2, <1>3, PTL DEF Spec

-----------------------------------------------------------------------------
(* What the engine knows of its worker *)

Owned == workers # <<>> => run.owned

\* The flag is set with the worker.
LEMMA LaunchOwns ==
  ASSUME TypeOK, Owned, NEW k, NEW slot, NEW solo, Launch(k, slot, solo)
  PROVE  Owned'
<1>1. run \in RunType
  BY TypesAre
<1>2. CASE run' = [run EXCEPT !.solo = solo, !.owned = TRUE, !.soaking = @ \/ slot.key[1] = 7]
  <2>1. run'.owned
    BY <1>1, <1>2 DEF RunType
  <2> QED
    BY <2>1 DEF Owned
<1>3. CASE run' = [run EXCEPT !.solo = solo] /\ UNCHANGED workers
  <2>1. run'.owned = run.owned
    BY <1>1, <1>3 DEF RunType
  <2> QED
    BY <1>3, <2>1 DEF Owned
<1> QED
  BY <1>2, <1>3, Zenon DEF Launch

\* It is reset only with the worker.
LEMMA OwnedStep == ASSUME Inv, Owned, [Next]_vars, ResumeInCooldown = FALSE PROVE Owned'
<1>1. CASE Dispatch
  <2>1. CASE StartSlot \/ StartRetest
    BY <2>1, LaunchOwns DEF StartSlot, StartRetest, Inv
  <2>2. CASE RequeueDrained \/ Complete
    <3>1. /\ workers' = workers /\ run \in RunType
          /\ run' = [run EXCEPT !.solo = FALSE] \/ run' = [run EXCEPT !.thermals = 0]
      BY <2>2, TypesAre DEF RequeueDrained, Complete, Inv
    <3>2. run'.owned = run.owned
      BY <3>1 DEF RunType
    <3> QED
      BY <3>1, <3>2 DEF Owned
  <2>3. CASE NextStage \/ FreshPass \/ Conclude \/ FinishRound \/ Reearn \/ CooldownOver \/ Dropped
    <3>1. workers' = workers /\ run' = run
      BY <2>3 DEF NextStage, FreshPass, Conclude, FinishRound, Reearn, CooldownOver, Dropped
    <3> QED
      BY <3>1 DEF Owned
  <2> QED
    BY <1>1, <2>1, <2>2, <2>3, Zenon DEF Dispatch
<1>2. CASE Verdict
  <2>1. \E i \in DOMAIN workers : Answer(i) \/ Aborted
    <3>1. PICK i \in DOMAIN workers :
        \/ Pass(i) \/ SoakFails(i)
        \/ TooOften(i, run.thermals, MaxThermals) \/ TooOften(i, run.faults, MaxFaults)
        \/ \E c \in workers[i].cores : CoreFails(i, c)
        \/ \E s \in SUBSET Undervolted : TransitionsFail(i, s)
        \/ \E s \in SUBSET Cores :
             \/ StartupFault(i, s) \/ ThermalStop(i, s) \/ ApparatusFault(i, s)
             \/ \E c \in workers[i].cores, ok \in BOOLEAN : Evidence(i, c, s, ok)
      BY <1>2 DEF Verdict
    <3> QED
      BY <3>1, Zenon DEF Pass, SoakFails, TooOften, CoreFails, TransitionsFail, StartupFault,
         ThermalStop, ApparatusFault, NoVerdict, Evidence
  <2>2. workers' = <<>>
    BY <2>1, AnswerMeans DEF Aborted
  <2> QED
    BY <2>2 DEF Owned
<1>3. CASE Disruption
  <2>1. CASE Pause
    <3>1. workers' = workers /\ run' = run
      BY <2>1 DEF Pause, process
    <3> QED
      BY <3>1 DEF Owned
  <2>2. CASE Abort \/ Down \/ \E i \in DOMAIN workers : Torn(i)
    <3>1. workers' = <<>>
      BY <2>2 DEF Abort, Aborted, Down, Torn, Lost
    <3> QED
      BY <3>1 DEF Owned
  <2>3. CASE ResumeQuietly \/ ResumeAtStock \/ ResumeIncident \/ \E s \in SUBSET Undervolted : ResumeCharged(s)
    <3>1. Resuming
      BY <2>3 DEF ResumeQuietly, ResumeAtStock, ResumeIncident, ResumeCharged
    <3>2. workers' = <<>>
      BY <3>1, ResumingMeans, Zenon
    <3> QED
      BY <3>2 DEF Owned
  <2> QED
    BY <1>3, <2>1, <2>2, <2>3, Zenon DEF Disruption
<1>4. CASE UNCHANGED vars
  <2>1. workers' = workers /\ run' = run
    BY <1>4 DEF vars, process
  <2> QED
    BY <2>1 DEF Owned
<1> QED
  BY <1>1, <1>2, <1>3, <1>4, Zenon DEF Next

\* Resumed only after the cooldown, the engine knows of its worker until the answer is
\* processed: the cooldown timer, which cannot be cancelled, is the only way to lose it.
THEOREM InFlightIsOwned ==
  ASSUME ResumeInCooldown = FALSE
  PROVE  Spec => []InFlightUntilProcessed
<1>1. Init => Inv /\ Owned
  BY InvInit DEF Init, Owned
<1>2. Inv /\ Owned /\ [Next]_vars => (Inv /\ Owned)'
  BY InvStep, OwnedStep, Zenon
<1>3. Owned => InFlightUntilProcessed
  BY DEF Owned, InFlightUntilProcessed
<1> QED
  BY <1>1, <1>2, <1>3, PTL DEF Spec
=============================================================================
