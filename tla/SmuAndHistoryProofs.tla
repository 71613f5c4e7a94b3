------------------------- MODULE SmuAndHistoryProofs -------------------------
(***************************************************************************)
(* What the program keeps outside itself: the offsets in the hardware, which *)
(* reach the core they are meant for and can be taken back, for any number   *)
(* of slots and any pattern of fused-off and disabled cores; and the history *)
(* database, whose rows and evidence keep their operating point, for any     *)
(* number of contexts, rows, versions and deaths.                            *)
(*                                                                         *)
(* The argument for the map: a core's number gives its CCD and a relative    *)
(* number that rises with the slot; relative numbers that are taken for      *)
(* slots are the slots, and a fuse that leaves as many slots as there are    *)
(* cores leaves theirs; so the n-th core of a CCD is in its n-th slot.       *)
(*                                                                         *)
(* The argument for the database: what holds of the user's database holds of *)
(* the one in /root too, at every version either may have, because the same  *)
(* migrations run over both; ids are never handed out twice, so that a merge *)
(* puts the rows of the other database beside the own ones; and the run and  *)
(* the session of this process are among the rows.                           *)
(***************************************************************************)
EXTENDS SmuAccess, History, FiniteSetTheorems, WellFoundedInduction, TLAPS

-----------------------------------------------------------------------------
(* Counting: Below(n, S) is the rank of n in S *)

\* Division by the slots of a CCD takes a number apart again.
LEMMA Window ==
  ASSUME NEW S \in Nat \ {0}, NEW c \in {0, 1}, NEW r \in 0 .. (S - 1)
  PROVE  (c * S + r) \div S = c /\ (c * S + r) % S = r
<1>1. CASE c = 0
  <2>1. r \div S = 0 /\ r % S = r
    OBVIOUS
  <2> QED BY <1>1, <2>1
<1>2. CASE c = 1
  <2>1. (S + r) \div S = 1 /\ (S + r) % S = r
    OBVIOUS
  <2> QED BY <1>2, <2>1
<1> QED BY <1>1, <1>2

\* A place is a CCD and a slot; no CPU offline is no place.
LEMMA PlaceIsPair ==
  ASSUME NEW p \in Places
  PROVE  p # <<>> /\ p = <<p[1], p[2]>> /\ p[1] \in {0, 1} /\ p[2] \in Slot
BY DEF Places, Ccds

\* A rank is within the size of the set.
LEMMA RankBound ==
  ASSUME NEW S \in SUBSET Int, IsFiniteSet(S), NEW n \in Int
  PROVE  /\ Below(n, S) \in 0 .. Cardinality(S)
         /\ n \in S => Below(n, S) < Cardinality(S)
<1> DEFINE B == {x \in S : x < n}
<1>1. IsFiniteSet(B) /\ Cardinality(B) <= Cardinality(S) /\ (Cardinality(S) = Cardinality(B) => S = B)
  <2>1. B \in SUBSET S
    OBVIOUS
  <2> QED BY <2>1, FS_Subset
<1>2. Cardinality(B) \in Nat /\ Cardinality(S) \in Nat
  BY <1>1, FS_CardinalityType
<1>3. n \in S => S # B
  OBVIOUS
<1> QED BY <1>1, <1>2, <1>3 DEF Below

\* Ranks rise strictly,
LEMMA RankStrict ==
  ASSUME NEW S \in SUBSET Int, IsFiniteSet(S), NEW s \in S, NEW t \in S, s < t
  PROVE  Below(s, S) < Below(t, S)
<1> DEFINE A == {x \in S : x < s}
           B == {x \in S : x < t}
<1>1. IsFiniteSet(B)
  <2>1. B \in SUBSET S
    OBVIOUS
  <2> QED BY <2>1, FS_Subset
<1>2. A \in SUBSET B /\ A # B
  <2>1. s \in B /\ s \notin A
    OBVIOUS
  <2>2. \A x \in S : x < s => x < t
    OBVIOUS
  <2> QED BY <2>1, <2>2
<1>3. IsFiniteSet(A) /\ Cardinality(A) <= Cardinality(B) /\ Cardinality(A) # Cardinality(B)
  BY <1>1, <1>2, FS_Subset
<1>4. Cardinality(A) \in Nat /\ Cardinality(B) \in Nat
  BY <1>1, <1>3, FS_CardinalityType
<1> QED BY <1>3, <1>4 DEF Below

\* so a rank belongs to one member.
LEMMA RankInjective ==
  ASSUME NEW S \in SUBSET Int, IsFiniteSet(S), NEW s \in S, NEW t \in S, Below(s, S) = Below(t, S)
  PROVE  s = t
<1>1. CASE s < t
  BY <1>1, RankStrict, RankBound
<1>2. CASE t < s
  BY <1>2, RankStrict, RankBound
<1> QED BY <1>1, <1>2

\* A function that rises keeps ranks,
LEMMA RankOfImage ==
  ASSUME NEW S \in SUBSET Int, IsFiniteSet(S), NEW f \in [S -> Int],
         \A a, b \in S : a < b => f[a] < f[b],
         NEW s \in S
  PROVE  Below(f[s], {f[t] : t \in S}) = Below(s, S)
<1> DEFINE A == {x \in S : x < s}
           B == {x \in {f[t] : t \in S} : x < f[s]}
           g == [a \in A |-> f[a]]
<1>1. IsFiniteSet(A)
  <2>1. A \in SUBSET S
    OBVIOUS
  <2> QED BY <2>1, FS_Subset
<1>2. \A a, b \in S : f[a] = f[b] => a = b
  <2>1. \A a, b \in S : a < b \/ b < a \/ a = b
    OBVIOUS
  <2> QED BY <2>1
<1>3. \A a \in S : f[a] < f[s] => a < s
  OBVIOUS
<1>4. g \in [A -> B]
  OBVIOUS
<1>5. \A b \in B : \E a \in A : g[a] = b
  BY <1>3
<1>6. \A a, b \in A : g[a] = g[b] => a = b
  BY <1>2
<1>7. g \in Bijection(A, B)
  BY <1>4, <1>5, <1>6 DEF Bijection, Injection, Surjection, IsInjective
<1>8. Cardinality(B) = Cardinality(A)
  BY <1>1, <1>7, FS_Bijection DEF ExistsBijection
<1> QED BY <1>8 DEF Below

\* and sizes.
LEMMA CardinalityOfImage ==
  ASSUME NEW S \in SUBSET Int, IsFiniteSet(S), NEW f \in [S -> Int],
         \A a, b \in S : a < b => f[a] < f[b]
  PROVE  Cardinality({f[t] : t \in S}) = Cardinality(S)
<1> DEFINE B == {f[t] : t \in S}
<1>1. \A a, b \in S : f[a] = f[b] => a = b
  <2>1. \A a, b \in S : a < b \/ b < a \/ a = b
    OBVIOUS
  <2> QED BY <2>1
<1>2. f \in [S -> B] /\ \A b \in B : \E a \in S : f[a] = b
  OBVIOUS
<1>3. f \in Bijection(S, B)
  BY <1>1, <1>2 DEF Bijection, Injection, Surjection, IsInjective
<1> QED BY <1>3, FS_Bijection DEF ExistsBijection

\* The ranks of a set are 0, 1, ... up to its size.
LEMMA RanksFill ==
  ASSUME NEW S \in SUBSET Int, IsFiniteSet(S)
  PROVE  {Below(s, S) : s \in S} = 0 .. (Cardinality(S) - 1)
<1> DEFINE T == 0 .. (Cardinality(S) - 1)
           f == [s \in S |-> Below(s, S)]
<1>1. Cardinality(S) \in Nat
  BY FS_CardinalityType
<1>2. IsFiniteSet(T) /\ Cardinality(T) = Cardinality(S)
  BY <1>1, FS_Interval, SMTT(60)
<1>3. f \in [S -> T]
  <2>1. \A s \in S : Below(s, S) \in T
    BY <1>1, RankBound
  <2> QED BY <2>1
<1>4. \A a, b \in S : f[a] = f[b] => a = b
  BY RankInjective
<1>5. f \in Injection(S, T)
  BY <1>3, <1>4 DEF Injection, IsInjective
<1>6. f \in Surjection(S, T)
  BY <1>2, <1>5, FS_Injection
<1>7. \A t \in T : \E s \in S : Below(s, S) = t
  BY <1>6 DEF Surjection
<1> QED BY <1>3, <1>7

-----------------------------------------------------------------------------
(* The machine and the discovery of its slots *)

\* A machine that Init allows.
Machines ==
  {m \in [live : [Ccds -> SUBSET Slot], enabled : [Ccds -> SUBSET Slot],
          numbering : Numberings, offline : Places \union {<<>>},
          onlineKnown : BOOLEAN, layoutKnown : BOOLEAN, fuseReadable : BOOLEAN] :
     (\A ccd \in Ccds : m.enabled[ccd] \subseteq m.live[ccd]) /\ m.enabled[0] # {}}

\* The BIOS numbers the cores of a CCD within the CCD's window.
TellTale == Numberings \subseteq {"physical", "perCcd"}

\* A core's number within its window.
Rel(m, p) == IF m.numbering = "physical" THEN p[2] ELSE Below(p[2], m.enabled[p[1]])

\* Sets of slots are finite, and only all of them are as many as all.
LEMMA SlotsFinite ==
  ASSUME NEW S \in SUBSET Slot
  PROVE  /\ S \in SUBSET Int /\ IsFiniteSet(S) /\ Cardinality(S) \in 0 .. Slots
         /\ Cardinality(S) = Slots => S = Slot
<1>1. Slots \in Nat \ {0}
  BY SmuAssumption
<1>2. IsFiniteSet(Slot) /\ Cardinality(Slot) = Slots
  <2>1. Cardinality(0 .. (Slots - 1)) = IF 0 > Slots - 1 THEN 0 ELSE (Slots - 1) - 0 + 1
    BY <1>1, FS_Interval
  <2>2. IsFiniteSet(0 .. (Slots - 1))
    BY <1>1, FS_Interval
  <2> QED BY <1>1, <2>1, <2>2 DEF Slot
<1>3. IsFiniteSet(S) /\ Cardinality(S) <= Slots /\ (Cardinality(S) = Slots => S = Slot)
  BY <1>2, FS_Subset
<1>4. Cardinality(S) \in Nat
  BY <1>3, FS_CardinalityType
<1> QED BY <1>1, <1>3, <1>4 DEF Slot

\* What is enabled is live.
LEMMA EnabledSlots ==
  ASSUME NEW m \in Machines, NEW ccd \in Ccds
  PROVE  m.enabled[ccd] \in SUBSET Slot /\ m.live[ccd] \in SUBSET Slot /\ m.enabled[ccd] \subseteq m.live[ccd]
BY DEF Machines

\* A relative number is below the number of slots.
LEMMA RelInSlots ==
  ASSUME NEW m \in Machines, NEW ccd \in Ccds, NEW s \in m.enabled[ccd]
  PROVE  Rel(m, <<ccd, s>>) \in 0 .. (Slots - 1)
<1>1. m.enabled[ccd] \in SUBSET Slot
  BY EnabledSlots
<1>2. Slots \in Nat
  BY SmuAssumption
<1>3. Below(s, m.enabled[ccd]) \in 0 .. (Slots - 1)
  BY <1>1, <1>2, RankBound, SlotsFinite
<1> QED BY <1>1, <1>3 DEF Rel, Slot

\* A core's number is its CCD's window and its relative number.
LEMMA NumberSplits ==
  ASSUME TellTale, NEW m \in Machines, NEW ccd \in Ccds, NEW s \in m.enabled[ccd]
  PROVE  /\ CoreIdOf(m, <<ccd, s>>) = ccd * Slots + Rel(m, <<ccd, s>>)
         /\ CoreIdOf(m, <<ccd, s>>) \in Int
         /\ CoreIdOf(m, <<ccd, s>>) \div Slots = ccd
         /\ CoreIdOf(m, <<ccd, s>>) % Slots = Rel(m, <<ccd, s>>)
<1>1. CoreIdOf(m, <<ccd, s>>) = ccd * Slots + Rel(m, <<ccd, s>>)
  <2>1. m.numbering \in {"physical", "perCcd"}
    BY DEF TellTale, Machines
  <2> QED BY <2>1 DEF CoreIdOf, Rel
<1>2. Rel(m, <<ccd, s>>) \in 0 .. (Slots - 1)
  BY RelInSlots
<1>3. Slots \in Nat \ {0} /\ ccd \in {0, 1}
  BY SmuAssumption DEF Ccds
<1>4. ccd * Slots + Rel(m, <<ccd, s>>) \in Int
  BY <1>2, <1>3
<1> QED BY <1>1, <1>2, <1>3, <1>4, Window, ZenonT(60)

\* Relative numbers rise with the slot.
LEMMA RelRises ==
  ASSUME NEW m \in Machines, NEW ccd \in Ccds, NEW s \in m.enabled[ccd], NEW t \in m.enabled[ccd], s < t
  PROVE  Rel(m, <<ccd, s>>) < Rel(m, <<ccd, t>>)
<1>1. Below(s, m.enabled[ccd]) < Below(t, m.enabled[ccd])
  BY EnabledSlots, SlotsFinite, RankStrict
<1> QED BY <1>1 DEF Rel

\* A number belongs to one place.
LEMMA NumberUnique ==
  ASSUME TellTale, NEW m \in Machines, NEW c \in Ccds, NEW s \in m.enabled[c],
         NEW d \in Ccds, NEW t \in m.enabled[d],
         CoreIdOf(m, <<c, s>>) = CoreIdOf(m, <<d, t>>)
  PROVE  c = d /\ s = t
<1>1. c = d /\ Rel(m, <<c, s>>) = Rel(m, <<d, t>>)
  BY NumberSplits
<1>2. s \in Int /\ t \in Int
  BY EnabledSlots, SlotsFinite
<1>3. ~(s < t) /\ ~(t < s)
  BY <1>1, RelRises, RelInSlots
<1> QED BY <1>1, <1>2, <1>3

\* No CPU is offline.
Up(m) == m.offline = <<>>

\* With every CPU online, the CPUs are the enabled places.
LEMMA CpusUp ==
  ASSUME NEW m \in Machines, Up(m)
  PROVE  /\ \A c \in Ccds : \A s \in m.enabled[c] : <<c, s>> \in Cpus(m)
         /\ \A p \in Cpus(m) : p[1] \in Ccds /\ p[2] \in m.enabled[p[1]] /\ p = <<p[1], p[2]>>
<1>1. \A p \in Places : p # m.offline
  BY PlaceIsPair DEF Up
<1>2. \A c \in Ccds : \A s \in m.enabled[c] : <<c, s>> \in Places
  BY EnabledSlots DEF Places
<1>3. ASSUME NEW c \in Ccds, NEW s \in m.enabled[c]
      PROVE  <<c, s>> \in Cpus(m)
  <2>1. <<c, s>>[1] = c /\ <<c, s>>[2] = s
    OBVIOUS
  <2> QED BY <1>1, <1>2, <2>1 DEF Cpus
<1>4. ASSUME NEW p \in Cpus(m)
      PROVE  p[1] \in Ccds /\ p[2] \in m.enabled[p[1]] /\ p = <<p[1], p[2]>>
  BY PlaceIsPair DEF Cpus, Ccds
<1> QED BY <1>3, <1>4

\* The index of a populated CCD is its number, since the first is populated.
LEMMA IndexIsCcd ==
  ASSUME NEW m \in Machines, Up(m), NEW p \in Cpus(m)
  PROVE  Below(p[1], {r[1] : r \in Cpus(m)}) = p[1]
<1> DEFINE Seen == {r[1] : r \in Cpus(m)}
<1>1. PICK s \in m.enabled[0] : TRUE
  BY DEF Machines
<1>2. 0 \in Seen
  <2>1. <<0, s>> \in Cpus(m) /\ <<0, s>>[1] = 0
    BY CpusUp DEF Ccds
  <2> QED BY <2>1
<1>3. Seen \subseteq {0, 1}
  BY CpusUp DEF Ccds
<1>4. p[1] \in {0, 1}
  BY CpusUp DEF Ccds
<1>5. CASE p[1] = 0
  <2>1. {x \in Seen : x < p[1]} = {}
    BY <1>3, <1>5
  <2> QED BY <1>5, <2>1, FS_EmptySet DEF Below
<1>6. CASE p[1] = 1
  <2>1. {x \in Seen : x < p[1]} = {0}
    BY <1>2, <1>3, <1>6
  <2> QED BY <1>6, <2>1, FS_Singleton DEF Below
<1> QED BY <1>4, <1>5, <1>6

\* An L3 group is the cores of its CCD.
LEMMA GroupIsCcd ==
  ASSUME NEW m \in Machines, Up(m), NEW ccd \in Ccds
  PROVE  Group(m, ccd) = {CoreIdOf(m, <<ccd, s>>) : s \in m.enabled[ccd]}
<1>1. ASSUME NEW i \in Group(m, ccd)
      PROVE  \E s \in m.enabled[ccd] : i = CoreIdOf(m, <<ccd, s>>)
  <2>1. PICK p \in Cpus(m) : Below(p[1], {r[1] : r \in Cpus(m)}) = ccd /\ i = CoreIdOf(m, p)
    BY <1>1 DEF Group
  <2>2. p[1] = ccd
    BY <2>1, IndexIsCcd
  <2> QED BY <2>1, <2>2, CpusUp
<1>2. ASSUME NEW s \in m.enabled[ccd]
      PROVE  CoreIdOf(m, <<ccd, s>>) \in Group(m, ccd)
  <2>1. <<ccd, s>> \in Cpus(m) /\ <<ccd, s>>[1] = ccd
    BY CpusUp
  <2>2. Below(<<ccd, s>>[1], {r[1] : r \in Cpus(m)}) = ccd
    BY <2>1, IndexIsCcd
  <2> QED BY <2>1, <2>2 DEF Group
<1> QED BY <1>1, <1>2

\* A group is as large as its CCD has enabled slots, and ranks its cores as
\* the CCD ranks their slots.
LEMMA GroupCounts ==
  ASSUME TellTale, NEW m \in Machines, Up(m), NEW ccd \in Ccds
  PROVE  /\ Cardinality(Group(m, ccd)) = Cardinality(m.enabled[ccd])
         /\ \A s \in m.enabled[ccd] :
              Below(CoreIdOf(m, <<ccd, s>>), Group(m, ccd)) = Below(s, m.enabled[ccd])
<1> DEFINE E == m.enabled[ccd]
           f == [s \in E |-> CoreIdOf(m, <<ccd, s>>)]
<1>1. E \in SUBSET Int /\ IsFiniteSet(E)
  BY EnabledSlots, SlotsFinite
<1>2. f \in [E -> Int]
  BY NumberSplits
<1>3. ASSUME NEW a \in E, NEW b \in E, a < b
      PROVE  f[a] < f[b]
  <2>1. Rel(m, <<ccd, a>>) < Rel(m, <<ccd, b>>)
    BY <1>3, RelRises
  <2>2. Rel(m, <<ccd, a>>) \in Int /\ Rel(m, <<ccd, b>>) \in Int /\ ccd * Slots \in Int
    BY RelInSlots, SmuAssumption DEF Ccds
  <2> QED BY <2>1, <2>2, NumberSplits
<1>4. Group(m, ccd) = {f[s] : s \in E}
  BY GroupIsCcd, ZenonT(60)
<1>5. Cardinality({f[s] : s \in E}) = Cardinality(E)
  <2> HIDE DEF f, E
  <2> QED BY <1>1, <1>2, <1>3, CardinalityOfImage
<1>6. \A s \in E : Below(f[s], {f[t] : t \in E}) = Below(s, E)
  <2> HIDE DEF f, E
  <2> QED BY <1>1, <1>2, <1>3, RankOfImage
<1> QED BY <1>4, <1>5, <1>6

\* The numbers of a group within their window.
LEMMA GroupWindow ==
  ASSUME TellTale, NEW m \in Machines, Up(m), NEW ccd \in Ccds
  PROVE  {i % Slots : i \in Group(m, ccd)} = {Rel(m, <<ccd, s>>) : s \in m.enabled[ccd]}
<1>1. \A s \in m.enabled[ccd] : CoreIdOf(m, <<ccd, s>>) % Slots = Rel(m, <<ccd, s>>)
  BY NumberSplits
<1> QED BY <1>1, GroupIsCcd, ZenonT(60)

\* Relative numbers that fill their range from zero to the last slot, or that
\* leave a gap, are the slots.
LEMMA DerivedAreEnabled ==
  ASSUME TellTale, NEW m \in Machines, Up(m), NEW ccd \in Ccds,
         DeriveGroupSlots(Group(m, ccd)) # NoProof
  PROVE  DeriveGroupSlots(Group(m, ccd)) = m.enabled[ccd]
<1> DEFINE E == m.enabled[ccd]
           numbers == Group(m, ccd)
           rel == {i % Slots : i \in numbers}
<1>1. E \in SUBSET Int /\ IsFiniteSet(E) /\ E \in SUBSET Slot
  BY EnabledSlots, SlotsFinite
<1>2. DeriveGroupSlots(numbers) = rel /\ ~(rel = 0 .. (Cardinality(numbers) - 1) /\ Cardinality(numbers) # Slots)
  BY DEF DeriveGroupSlots
<1>3. Cardinality(numbers) = Cardinality(E)
  BY GroupCounts
<1>4. rel = {Rel(m, <<ccd, s>>) : s \in E}
  BY GroupWindow
<1>5. CASE m.numbering = "physical"
  <2>1. \A s \in E : Rel(m, <<ccd, s>>) = s
    BY <1>5 DEF Rel
  <2>2. {Rel(m, <<ccd, s>>) : s \in E} = E
    BY <2>1
  <2> QED BY <1>2, <1>4, <2>2
<1>6. CASE m.numbering # "physical"
  <2>1. \A s \in E : Rel(m, <<ccd, s>>) = Below(s, E)
    BY <1>6 DEF Rel
  <2>2. rel = {Below(s, E) : s \in E}
    BY <1>4, <2>1
  <2>3. rel = 0 .. (Cardinality(E) - 1)
    <3> HIDE DEF E, rel
    <3> QED BY <1>1, <2>2, RanksFill
  <2>4. Cardinality(E) = Slots
    BY <1>2, <1>3, <2>3
  <2>5. E = Slot
    BY <1>1, <2>4, SlotsFinite
  <2> QED BY <1>2, <2>3, <2>4, <2>5 DEF Slot
<1> QED BY <1>5, <1>6

\* A fuse that leaves as many slots as there are cores leaves their slots.
LEMMA FusedAreEnabled ==
  ASSUME TellTale, NEW m \in Machines, Up(m), NEW ccd \in Ccds,
         FuseGroupSlots(m, ccd, Cardinality(Group(m, ccd))) # NoProof
  PROVE  FuseGroupSlots(m, ccd, Cardinality(Group(m, ccd))) = m.enabled[ccd]
<1>1. /\ FuseGroupSlots(m, ccd, Cardinality(Group(m, ccd))) = m.live[ccd]
      /\ Cardinality(m.live[ccd]) = Cardinality(Group(m, ccd))
  BY DEF FuseGroupSlots
<1>2. Cardinality(m.live[ccd]) = Cardinality(m.enabled[ccd])
  BY <1>1, GroupCounts
<1>3. m.enabled[ccd] \in SUBSET m.live[ccd] /\ IsFiniteSet(m.live[ccd])
  BY EnabledSlots, SlotsFinite
<1> QED BY <1>1, <1>2, <1>3, FS_Subset

LEMMA SlotsAreEnabled ==
  ASSUME TellTale, NEW m \in Machines, Up(m), NEW ccd \in Ccds, GroupSlots(m, ccd) # NoProof
  PROVE  GroupSlots(m, ccd) = m.enabled[ccd]
BY DerivedAreEnabled, FusedAreEnabled DEF GroupSlots

\* The map that discovery makes leads every core to its own place.
LEMMA MapLeadsHome ==
  ASSUME TellTale, NEW m \in Machines, CoreMap(m) # Unmapped
  PROVE  /\ Up(m)
         /\ DOMAIN CoreMap(m) = {CoreIdOf(m, p) : p \in Cpus(m)}
         /\ \A p \in Cpus(m) : CoreMap(m)[CoreIdOf(m, p)] = p
<1> DEFINE groups == {ccd \in Ccds : Group(m, ccd) # {}}
           Home(i) == CHOOSE g \in groups : i \in Group(m, g)
           SlotOf(ccd, i) == CHOOSE s \in GroupSlots(m, ccd) :
                               Below(s, GroupSlots(m, ccd)) = Below(i, Group(m, ccd))
<1>1. /\ Up(m)
      /\ \A ccd \in groups : GroupSlots(m, ccd) # NoProof
      /\ CoreMap(m) = [i \in UNION {Group(m, ccd) : ccd \in groups} |-> <<Home(i), SlotOf(Home(i), i)>>]
  BY DEF CoreMap, AllOnline, Up
<1>2. \A ccd \in Ccds : Group(m, ccd) = {CoreIdOf(m, <<ccd, s>>) : s \in m.enabled[ccd]}
  BY <1>1, GroupIsCcd
<1>3. UNION {Group(m, ccd) : ccd \in groups} = {CoreIdOf(m, p) : p \in Cpus(m)}
  <2>1. ASSUME NEW p \in Cpus(m)
        PROVE  CoreIdOf(m, p) \in Group(m, p[1]) /\ p[1] \in groups
    <3>1. p[1] \in Ccds /\ p[2] \in m.enabled[p[1]] /\ p = <<p[1], p[2]>>
      BY <1>1, CpusUp
    <3>2. CoreIdOf(m, p) \in Group(m, p[1])
      BY <1>2, <3>1
    <3> QED BY <3>1, <3>2
  <2>2. ASSUME NEW ccd \in groups, NEW i \in Group(m, ccd)
        PROVE  \E p \in Cpus(m) : i = CoreIdOf(m, p)
    <3>1. PICK s \in m.enabled[ccd] : i = CoreIdOf(m, <<ccd, s>>)
      BY <1>2, <2>2
    <3>2. <<ccd, s>> \in Cpus(m)
      BY <1>1, CpusUp
    <3> QED BY <3>1, <3>2
  <2> QED BY <2>1, <2>2
<1>4. ASSUME NEW p \in Cpus(m)
      PROVE  CoreMap(m)[CoreIdOf(m, p)] = p
  <2> DEFINE i == CoreIdOf(m, p)
             E == m.enabled[p[1]]
  <2>1. p[1] \in Ccds /\ p[2] \in E /\ p = <<p[1], p[2]>>
    BY <1>1, CpusUp
  <2>2. p[1] \in groups /\ i \in Group(m, p[1])
    BY <1>2, <2>1
  <2>3. \A g \in groups : i \in Group(m, g) => g = p[1]
    <3>1. ASSUME NEW g \in groups, i \in Group(m, g)
          PROVE  g = p[1]
      <4>1. PICK s \in m.enabled[g] : i = CoreIdOf(m, <<g, s>>)
        BY <1>2, <3>1
      <4>2. CoreIdOf(m, <<g, s>>) = CoreIdOf(m, <<p[1], p[2]>>)
        BY <2>1, <4>1
      <4> QED BY <2>1, <4>2, NumberUnique
    <3> QED BY <3>1
  <2>4. Home(i) = p[1]
    BY <2>2, <2>3
  <2>5. GroupSlots(m, p[1]) = E
    BY <1>1, <2>2, SlotsAreEnabled
  <2>6. Below(i, Group(m, p[1])) = Below(p[2], E)
    BY <1>1, <2>1, GroupCounts
  <2>7. \A s \in E : Below(s, E) = Below(p[2], E) => s = p[2]
    BY <2>1, EnabledSlots, SlotsFinite, RankInjective
  <2>8. SlotOf(p[1], i) = p[2]
    BY <2>1, <2>5, <2>6, <2>7
  <2>9. CoreMap(m)[i] = <<Home(i), SlotOf(Home(i), i)>>
    <3>1. i \in UNION {Group(m, ccd) : ccd \in groups}
      BY <2>2
    <3> HIDE DEF i, Home, SlotOf, groups
    <3> QED BY <1>1, <3>1
  <2> QED BY <2>1, <2>4, <2>8, <2>9
<1> QED BY <1>1, <1>3, <1>4

\* ... which is the place the property knows it by.
LEMMA PlaceOfIsHome ==
  ASSUME TellTale, machine \in Machines, Up(machine), NEW p \in Cpus(machine)
  PROVE  PlaceOf(CoreIdOf(machine, p)) = p
<1>1. ASSUME NEW q \in Cpus(machine), CoreIdOf(machine, q) = CoreIdOf(machine, p)
      PROVE  q = p
  <2>1. /\ p[1] \in Ccds /\ p[2] \in machine.enabled[p[1]] /\ p = <<p[1], p[2]>>
        /\ q[1] \in Ccds /\ q[2] \in machine.enabled[q[1]] /\ q = <<q[1], q[2]>>
    BY CpusUp
  <2> QED BY <1>1, <2>1, NumberUnique
<1> QED BY <1>1 DEF PlaceOf

-----------------------------------------------------------------------------
(* One write *)

\* What the SMU is sent for an offset in play is read back as that offset.
LEMMA RoundTrip ==
  ASSUME NEW v \in Values
  PROVE  DecodeCoArg(EncodeCoArg(v)) = v
<1>1. v \in -50 .. 0
  BY SmuAssumption DEF Values
<1>2. CASE v = 0
  BY <1>2 DEF DecodeCoArg, EncodeCoArg, Word
<1>3. CASE v # 0
  <2>1. v % 65536 = v + 65536
    BY <1>1, <1>3
  <2> QED BY <1>1, <1>3, <2>1 DEF DecodeCoArg, EncodeCoArg, Word
<1> QED BY <1>2, <1>3

\* What a slot may hold.
Margins == {EncodeCoArg(v) : v \in Values}

LEMMA MarginRead ==
  ASSUME NEW x \in Margins
  PROVE  DecodeCoArg(x) \in Values
BY RoundTrip DEF Margins

\* A plan gives cores of the map offsets in play.
IsPlan(plan) ==
  /\ DOMAIN plan \subseteq DOMAIN core_map
  /\ \A c \in DOMAIN plan : plan[c] \in Values

\* The parts of the inductive invariant: what is there once there is a map.
MapOK == core_map # Unmapped => core_map = CoreMap(machine)
BackupOK == backup # <<>> => Available /\ backup \in [DOMAIN core_map -> Values]
PendingOK == pending # NoPlan => Available /\ IsPlan(pending.plan) /\ pending.take_backup \in BOOLEAN
ReportOK == report # NoReport => Available

\* The inductive invariant.
Inv ==
  /\ machine \in Machines
  /\ hw \in [Places -> Margins]
  /\ MapOK /\ BackupOK /\ PendingOK /\ ReportOK

\* The map of the program is the one the property knows, one core to a place.
LEMMA MapFacts ==
  ASSUME TellTale, Inv, Available
  PROVE  /\ AddressesOwnCore
         /\ \A c \in DOMAIN core_map : core_map[c] = PlaceOf(c) /\ core_map[c] \in Places
         /\ \A c, d \in DOMAIN core_map : core_map[c] = core_map[d] => c = d
<1>1. core_map = CoreMap(machine) /\ CoreMap(machine) # Unmapped /\ machine \in Machines
  BY DEF Inv, MapOK, Available
<1>2. Up(machine) /\ DOMAIN core_map = Cores /\ \A p \in Cpus(machine) : core_map[CoreIdOf(machine, p)] = p
  BY <1>1, MapLeadsHome DEF Cores
<1>3. ASSUME NEW c \in Cores
      PROVE  /\ core_map[c] = PlaceOf(c) /\ core_map[c] \in Places
             /\ c = CoreIdOf(machine, core_map[c])
  <2>1. PICK p \in Cpus(machine) : c = CoreIdOf(machine, p)
    BY DEF Cores
  <2>2. PlaceOf(c) = p
    BY <1>1, <1>2, <2>1, PlaceOfIsHome
  <2>3. p \in Places
    BY DEF Cpus
  <2> QED BY <1>2, <2>1, <2>2, <2>3
<1> QED BY <1>2, <1>3 DEF AddressesOwnCore

\* What is read of a core is an offset in play.
LEMMA ReadsInPlay ==
  ASSUME TellTale, Inv, Available, NEW c \in DOMAIN core_map
  PROVE  Read(c) \in Values
BY MapFacts, MarginRead DEF Inv, Read

\* Whatever the firmware makes of a plan, it stores offsets in play.
LEMMA AnswersInPlay ==
  ASSUME TellTale, Inv, Available, NEW plan, IsPlan(plan), NEW answer \in Answers(plan)
  PROVE  \A c \in DOMAIN plan : answer[c].stored \in Values
<1>1. ASSUME NEW c \in DOMAIN plan
      PROVE  Obeyed(plan[c]).stored \in Values
  BY DEF Obeyed, IsPlan
<1>2. ASSUME NEW c \in DOMAIN plan, NEW f \in Firmware(plan[c], Read(c))
      PROVE  f.stored \in Values
  <2>1. plan[c] \in Values /\ Read(c) \in Values
    BY ReadsInPlay DEF IsPlan
  <2>2. f.stored \in {plan[c], Read(c)} \union Values
    BY DEF Firmware
  <2> QED BY <2>1, <2>2
<1>3. CASE answer = [c \in DOMAIN plan |-> Obeyed(plan[c])]
  BY <1>1, <1>3
<1>4. ASSUME NEW b \in DOMAIN plan, NEW f \in Firmware(plan[b], Read(b)),
             answer = [c \in DOMAIN plan |-> IF c = b THEN f ELSE Obeyed(plan[c])]
      PROVE  \A c \in DOMAIN plan : answer[c].stored \in Values
  <2>1. TAKE c \in DOMAIN plan
  <2>2. CASE c = b
    BY <1>2, <1>4, <2>2
  <2>3. CASE c # b
    BY <1>1, <1>4, <2>3
  <2> QED BY <2>2, <2>3
<1> QED BY <1>3, <1>4 DEF Answers

\* What is written of a plan goes to the places of its cores and no others.
LEMMA WrittenInPlace ==
  ASSUME TellTale, Inv, Available, NEW plan, IsPlan(plan), NEW answer \in Answers(plan)
  PROVE  /\ Written(plan, answer) \in [Places -> Margins]
         /\ \A c \in DOMAIN plan : Written(plan, answer)[PlaceOf(c)] = EncodeCoArg(answer[c].stored)
         /\ \A p \in Places : Written(plan, answer)[p] # hw[p] => \E c \in DOMAIN plan : PlaceOf(c) = p
<1> DEFINE At(p) == CHOOSE c \in DOMAIN plan : core_map[c] = p
<1>1. \A c \in DOMAIN plan : core_map[c] = PlaceOf(c) /\ core_map[c] \in Places /\ At(core_map[c]) = c
  BY MapFacts DEF IsPlan
<1>2. ASSUME NEW p \in Places, NEW c \in DOMAIN plan, core_map[c] = p
      PROVE  Written(plan, answer)[p] = EncodeCoArg(answer[c].stored)
  BY <1>1, <1>2, ZenonT(60) DEF Written
<1>3. ASSUME NEW p \in Places, ~ \E c \in DOMAIN plan : core_map[c] = p
      PROVE  Written(plan, answer)[p] = hw[p]
  BY <1>3 DEF Written
<1>4. ASSUME NEW p \in Places
      PROVE  Written(plan, answer)[p] \in Margins
  BY <1>2, <1>3, AnswersInPlay DEF Inv, Margins
<1>5. DOMAIN Written(plan, answer) = Places /\ Written(plan, answer) = [p \in Places |-> Written(plan, answer)[p]]
  BY DEF Written
<1> QED BY <1>1, <1>2, <1>3, <1>4, <1>5

-----------------------------------------------------------------------------
(* Every step *)

\* The invariant holds at the start: no map, no offset, no question.
LEMMA InitHolds == Init => Inv
<1>1. 0 \in Margins
  <2>1. 0 \in Values
    BY SmuAssumption DEF Values
  <2>2. EncodeCoArg(0) = 0
    BY DEF EncodeCoArg, Word
  <2> QED BY <2>1, <2>2 DEF Margins
<1> QED BY <1>1 DEF Init, Inv, Machines, MapOK, BackupOK, PendingOK, ReportOK, Available

\* A question about a plan keeps the invariant.
LEMMA AskKeeps ==
  ASSUME Inv, NEW plan, NEW take_backup \in BOOLEAN, Available, IsPlan(plan), Ask(plan, take_backup)
  PROVE  Inv'
<1>1. IsPlan(plan)' /\ Available' /\ pending'.plan = plan /\ pending'.take_backup = take_backup
  BY DEF Ask, IsPlan, Available
<1> QED BY <1>1 DEF Ask, Inv, MapOK, BackupOK, PendingOK, ReportOK, IsPlan, Available

\* One core and an offset make a plan.
LEMMA SinglePlan ==
  ASSUME NEW c \in DOMAIN core_map, NEW v \in Values
  PROVE  IsPlan(Only(c, v))
BY DEF IsPlan, Only

\* A backup has an offset in play for every core of the map.
LEMMA BackupTaken ==
  ASSUME TellTale, Inv, Available, NEW unread, TakeBackup(unread)
  PROVE  backup' \in [DOMAIN core_map -> Values]
BY ReadsInPlay DEF TakeBackup

\* So does what becomes of a plan ...
LEMMA WriteCoPlanKeeps ==
  ASSUME TellTale, Inv, WriteCoPlan
  PROVE  Inv'
<1>1. Available /\ IsPlan(pending.plan) /\ pending.take_backup \in BOOLEAN
  BY DEF WriteCoPlan, Inv, PendingOK
<1>2. hw' \in [Places -> Margins]
  BY <1>1, WrittenInPlace DEF WriteCoPlan
<1>3. BackupOK'
  BY <1>1, BackupTaken DEF WriteCoPlan, Inv, BackupOK, Available
<1> QED
  BY <1>1, <1>2, <1>3 DEF WriteCoPlan, Inv, MapOK, PendingOK, ReportOK, Available

\* ... of the tuner's own offset ...
LEMMA TunerWritesKeeps ==
  ASSUME TellTale, Inv, TunerWrites
  PROVE  Inv'
<1>1. hw' \in [Places -> Margins]
  BY SinglePlan, WrittenInPlace DEF TunerWrites
<1> QED
  BY <1>1 DEF TunerWrites, Inv, MapOK, BackupOK, PendingOK, ReportOK, IsPlan, Available

\* ... and a loss of power.
LEMMA PowerLostKeeps ==
  ASSUME Inv, PowerLost
  PROVE  Inv'
<1>1. 0 \in Margins
  <2>1. 0 \in Values
    BY SmuAssumption DEF Values
  <2>2. EncodeCoArg(0) = 0
    BY DEF EncodeCoArg, Word
  <2> QED BY <2>1, <2>2 DEF Margins
<1> QED
  BY <1>1 DEF PowerLost, Inv, MapOK, BackupOK, PendingOK, ReportOK, IsPlan, Available

\* Every step keeps the invariant.
LEMMA NextKeeps ==
  ASSUME TellTale, Inv, [Next]_vars
  PROVE  Inv'
<1>1. CASE SetTopology
  BY <1>1 DEF SetTopology, Inv, MapOK, BackupOK, PendingOK, ReportOK, Available
<1>2. CASE ApplySingle
  BY <1>2, SinglePlan, AskKeeps DEF ApplySingle
<1>3. CASE ApplyAll
  <2>1. PICK v \in Values : Ask([c \in DOMAIN core_map |-> v], TRUE)
    BY <1>3 DEF ApplyAll
  <2>2. IsPlan([c \in DOMAIN core_map |-> v])
    BY DEF IsPlan
  <2> QED BY <1>3, <2>1, <2>2, AskKeeps DEF ApplyAll
<1>4. CASE RestoreCo
  <2>1. Available /\ IsPlan(backup)
    BY <1>4 DEF RestoreCo, Inv, BackupOK, IsPlan
  <2> QED BY <1>4, <2>1, AskKeeps DEF RestoreCo
<1>5. CASE BackupCo
  <2>1. Available /\ backup' \in [DOMAIN core_map -> Values]
    BY <1>5, BackupTaken DEF BackupCo, WriteUnavailable
  <2> QED BY <1>5, <2>1 DEF BackupCo, Inv, MapOK, BackupOK, PendingOK, ReportOK, Available
<1>6. CASE Dismiss
  BY <1>6 DEF Dismiss, Inv, MapOK, BackupOK, PendingOK, ReportOK, Available
<1>7. CASE WriteCoPlan
  BY <1>7, WriteCoPlanKeeps
<1>8. CASE ToggleDryRun \/ TunerRuns \/ UNCHANGED vars
  BY <1>8 DEF ToggleDryRun, TunerRuns, vars, Inv, MapOK, BackupOK, PendingOK, ReportOK, IsPlan, Available
<1>9. CASE TunerWrites \/ PowerLost
  BY <1>9, TunerWritesKeeps, PowerLostKeeps
<1> QED
  BY <1>1, <1>2, <1>3, <1>4, <1>5, <1>6, <1>7, <1>8, <1>9 DEF Next

\* A report is new only where a plan was written.
LEMMA ReportIsNews ==
  ASSUME Inv, [Next]_vars, report' # NoReport, ~WriteCoPlan
  PROVE  UNCHANGED vars
BY DEF Next, vars, ApplySingle, ApplyAll, RestoreCo, Ask, BackupCo, Dismiss, ToggleDryRun, TunerRuns,
       TunerWrites, PowerLost, SetTopology, Inv, ReportOK, Available

\* A plan that is written lands where it was told to.
LEMMA WriteLands ==
  ASSUME TellTale, Inv, WriteCoPlan
  PROVE  /\ \A c \in DOMAIN report'.plan \ report'.failed : DecodeCoArg(hw'[PlaceOf(c)]) = report'.plan[c]
         /\ \A p \in Places : hw'[p] # hw[p] => \E c \in DOMAIN report'.plan : PlaceOf(c) = p
<1>1. Available /\ IsPlan(pending.plan)
  BY DEF WriteCoPlan, Inv, PendingOK
<1>2. PICK answer \in Answers(pending.plan) :
        /\ hw' = Written(pending.plan, answer)
        /\ report' = [plan |-> pending.plan, restored |-> ~pending.take_backup,
                      failed |-> {c \in DOMAIN pending.plan : ~SetCoOffset(pending.plan[c], answer[c])}]
  BY DEF WriteCoPlan
<1>3. ASSUME NEW c \in DOMAIN pending.plan, SetCoOffset(pending.plan[c], answer[c])
      PROVE  DecodeCoArg(hw'[PlaceOf(c)]) = pending.plan[c]
  BY <1>1, <1>2, <1>3, WrittenInPlace DEF SetCoOffset
<1>4. \A p \in Places : hw'[p] # hw[p] => \E c \in DOMAIN pending.plan : PlaceOf(c) = p
  BY <1>1, <1>2, WrittenInPlace
<1> QED
  BY <1>2, <1>3, <1>4

\* A plan that is not a restore is written after a backup of every core.
LEMMA WriteIsBackedUp ==
  ASSUME TellTale, Inv, WriteCoPlan
  PROVE  report'.restored \/ (\A c \in Cores : c \in DOMAIN backup' /\ backup'[c] = DecodeCoArg(hw[PlaceOf(c)]))
<1>1. Available /\ pending.take_backup \in BOOLEAN
  BY DEF WriteCoPlan, Inv, PendingOK
<1>2. report'.restored = ~pending.take_backup
  BY DEF WriteCoPlan
<1>3. CASE pending.take_backup
  <2>1. backup' = [c \in DOMAIN core_map |-> Read(c)]
    BY <1>3 DEF WriteCoPlan, TakeBackup
  <2>2. DOMAIN core_map = Cores /\ \A c \in Cores : core_map[c] = PlaceOf(c)
    BY <1>1, MapFacts DEF AddressesOwnCore, Available
  <2> QED BY <2>1, <2>2 DEF Read
<1> QED BY <1>1, <1>2, <1>3

-----------------------------------------------------------------------------
(* Theorems *)

\* The invariant that the theorems below are read off.
THEOREM AccessIsInvariant ==
  ASSUME TellTale
  PROVE  Spec => []Inv
<1> QED BY InitHolds, NextKeeps, PTL DEF Spec

\* A core map that set_topology accepts names the slot of every core the
\* system sees, whatever is fused off or disabled, as long as the numbers of a
\* CCD stay in its window (engine/topology.py).
THEOREM CoresKeepTheirSlots ==
  ASSUME TellTale
  PROVE  Spec => []AddressesOwnCore
<1>1. Inv => AddressesOwnCore
  BY MapFacts DEF AddressesOwnCore, Available
<1> QED BY <1>1, AccessIsInvariant, PTL

\* A core that the tab does not report as failed holds the plan's offset in its
\* own slot, and no core outside the plan is written (gui/smu_tab.py,
\* smu/driver.py set_co_offset).
THEOREM WritesLand ==
  ASSUME TellTale
  PROVE  Spec => WritesLandWhereTold
<1>1. Inv /\ [Next]_vars =>
        [report' # NoReport =>
           /\ \A c \in DOMAIN report'.plan \ report'.failed : DecodeCoArg(hw'[PlaceOf(c)]) = report'.plan[c]
           /\ \A p \in Places : hw'[p] # hw[p] => \E c \in DOMAIN report'.plan : PlaceOf(c) = p]_vars
  BY WriteLands, ReportIsNews
<1> QED BY <1>1, AccessIsInvariant, PTL DEF Spec, WritesLandWhereTold

\* Before Apply and Reset write, the backup holds the offset of every core
\* (gui/smu_tab.py _write_co_plan).
THEOREM UndoIsThere ==
  ASSUME TellTale
  PROVE  Spec => UndoBeforeTouch
<1>1. Inv /\ [Next]_vars =>
        [report' # NoReport /\ hw' # hw =>
           report'.restored \/ (\A c \in Cores : c \in DOMAIN backup' /\ backup'[c] = DecodeCoArg(hw[PlaceOf(c)]))]_vars
  BY WriteIsBackedUp, ReportIsNews
<1> QED BY <1>1, AccessIsInvariant, PTL DEF Spec, UndoBeforeTouch
-----------------------------------------------------------------------------
(* The history database: what every database satisfies *)

\* A table: ids from 1 on, and finitely many of them.
Table(t, Rows) ==
    /\ \E n \in Nat : DOMAIN t \subseteq 1 .. n
    /\ t \in [DOMAIN t -> Rows]

RunRows == [context : Nat \union {NoContext}, status : {"running", "ended"},
            origin : {"user", "root"} \X Nat, point : Points \union {NoContext}]
SessionRows == [context : Nat,
                status : {"unfinished", "quarantined", "profile_quarantined", "completed"},
                contract : {0, Contract}, origin : {"user", "root"} \X Nat,
                point : Points, legacy : BOOLEAN]

Fields == {"version", "contexts", "runs", "sessions", "banks"}

\* The fields of a database have their types.
Formed(db) ==
    /\ DOMAIN db = Fields
    /\ db.version \in 4 .. Latest
    /\ Table(db.contexts, Points)
    /\ Table(db.runs, RunRows)
    /\ Table(db.sessions, SessionRows)
    /\ db.banks \in [DOMAIN db.banks -> [Points -> Nat]]

\* A row is listed under the context of the point it ran at.
Under(row, contexts) ==
    IF row.point = NoContext THEN row.context = NoContext
    ELSE /\ row.context \in DOMAIN contexts
         /\ contexts[row.context] = row.point
Listed(db) ==
    /\ \A r \in DOMAIN db.runs : Under(db.runs[r], db.contexts)
    /\ \A s \in DOMAIN db.sessions : Under(db.sessions[s], db.contexts)

\* Since version 5 a point has one context.
Distinct(db) ==
    db.version >= 5 =>
        \A c, d \in DOMAIN db.contexts : db.contexts[c] = db.contexts[d] => c = d

\* Since version 16 a session of an older contract says so.
Retired(db) ==
    db.version >= 16 =>
        \A s \in DOMAIN db.sessions : db.sessions[s].legacy => db.sessions[s].contract = 0

\* What is banked was measured where the bank says: under its hash, and
\* since version 20 at its context.
Credited(db) ==
    IF db.version < 20
    THEN \A h \in DOMAIN db.banks : \A p \in Points :
             db.banks[h][p] > 0 =>
                 p[1] = h /\ \E c \in DOMAIN db.contexts : db.contexts[c] = p
    ELSE \A c \in DOMAIN db.banks :
             /\ c \in DOMAIN db.contexts
             /\ \A p \in Points : db.banks[c][p] > 0 => p = db.contexts[c]

Sound(db) == Formed(db) /\ Listed(db) /\ Distinct(db) /\ Retired(db)

-----------------------------------------------------------------------------
(* The history database: the invariant *)

StartUp == {"off", "open", "adopt", "rename", "recover", "purge", "up"}

\* The database is current once it is open, and only a program that is up has
\* a run or a session of its own.
Started ==
    /\ pc \in StartUp /\ point \in Points
    /\ run \in Nat \union {NoContext} /\ session \in Nat \union {NoContext}
    /\ pc \notin {"off", "open"} => user.version = Latest
    /\ pc = "rename" => root.version = Latest
    /\ pc # "up" => run = NoContext /\ session = NoContext

\* No id of a table is beyond the last one it handed out.
Numbered ==
    /\ ids \in [contexts : Nat, runs : Nat, sessions : Nat]
    /\ \A c \in DOMAIN user.contexts : c <= ids.contexts
    /\ \A r \in DOMAIN user.runs : r <= ids.runs
    /\ \A s \in DOMAIN user.sessions : s <= ids.sessions

\* The session of the tuner is one that goes on, and of the current contract.
HeldSession ==
    session # NoContext =>
        /\ session \in DOMAIN user.sessions
        /\ user.sessions[session].status = "unfinished"
        /\ user.sessions[session].contract = Contract

\* No run of an earlier process counts as running after the recovery.
Recovered ==
    /\ pc = "purge" => Running(user) = {}
    /\ pc = "up" => Running(user) \subseteq {run}

\* Everything in the other database is here.
Taken ==
    /\ \A r \in DOMAIN root.runs : HasCopy(root.runs[r], user.runs)
    /\ \A s \in DOMAIN root.sessions : HasCopy(root.sessions[s], user.sessions)
    /\ \A c \in DOMAIN root.banks : \A p \in Points :
           root.banks[c][p] <= BankOf(user, ContextAt(user, root.contexts[c]))[p]

HistoryInv ==
    /\ Sound(user) /\ Sound(root) /\ Credited(root)
    /\ Started /\ Numbered /\ HeldSession /\ Recovered
    /\ pc = "rename" => Taken

\* With sessions resumed where they began, the session is at the point the
\* machine runs at, and so is what it banks.
AtHome == session # NoContext => user.sessions[session].point = point
Evidence == Credited(user) /\ AtHome
-----------------------------------------------------------------------------
(* The history database: tables *)

\* Min finds the least of a nonempty set of naturals.
LEMMA LeastId ==
  ASSUME NEW T \in SUBSET Nat, T # {}
  PROVE  Min(T) \in T /\ \A y \in T : Min(T) <= y
<1>1. PICK x \in T : \A y \in T : <<y, x>> \notin OpToRel(<, Nat)
  BY NatLessThanWellFounded, WFMin, Zenon
<1>2. \A y \in T : <<y, x>> \in Nat \X Nat /\ <<y, x>>[1] = y /\ <<y, x>>[2] = x
  OBVIOUS
<1>3. \A y \in T : ~(y < x)
  BY <1>1, <1>2, Zenon DEF OpToRel
<1>4. \E z \in T : \A y \in T : z <= y
  BY <1>3
<1> QED
  BY <1>4 DEF Min

\* Max finds the greatest of a nonempty bounded set of naturals.
LEMMA GreatestId ==
  ASSUME NEW n \in Nat, NEW T \in SUBSET (0 .. n), T # {}
  PROVE  Max(T) \in T /\ \A y \in T : y <= Max(T)
<1> DEFINE U == {u \in Nat : \A y \in T : y <= u}
<1>1. n \in U
  OBVIOUS
<1>2. U \in SUBSET Nat /\ U # {}
  BY <1>1
<1>3. PICK m \in U : \A u \in U : m <= u
  BY <1>2, LeastId
<1>4. m \in T
  <2> SUFFICES ASSUME m \notin T PROVE FALSE
    OBVIOUS
  <2>1. m \in Nat /\ \A y \in T : y <= m /\ y # m
    BY <1>3
  <2>2. m # 0
    <3>1. PICK y \in T : TRUE
      OBVIOUS
    <3>2. y \in Nat /\ y <= m /\ y # m
      BY <2>1
    <3> QED
      BY <3>2
  <2>3. m - 1 \in U
    BY <2>1, <2>2
  <2> QED
    BY <2>1, <2>3, <1>3
<1>5. \E z \in T : \A y \in T : z >= y
  BY <1>3, <1>4
<1> QED
  BY <1>5 DEF Max

\* Max of two numbers.
LEMMA LargerOf ==
  ASSUME NEW a \in Nat, NEW b \in Nat
  PROVE  Max({a, b}) \in {a, b} /\ a <= Max({a, b}) /\ b <= Max({a, b})
<1>1. {a, b} \in SUBSET (0 .. (a + b)) /\ {a, b} # {}
  OBVIOUS
<1> QED
  BY <1>1, GreatestId

\* LastId is the last id of a table, 0 of an empty one.
LEMMA LastIds ==
  ASSUME NEW t, NEW R, Table(t, R)
  PROVE  /\ LastId(t) \in Nat
         /\ \A i \in DOMAIN t : i <= LastId(t)
         /\ DOMAIN t # {} => LastId(t) \in DOMAIN t
<1>1. PICK n \in Nat : DOMAIN t \subseteq 1 .. n
  BY DEF Table
<1>2. CASE DOMAIN t = {}
  BY <1>2 DEF LastId
<1>3. CASE DOMAIN t # {}
  <2>1. DOMAIN t \in SUBSET (0 .. n)
    BY <1>1
  <2>2. Max(DOMAIN t) \in DOMAIN t /\ \A i \in DOMAIN t : i <= Max(DOMAIN t)
    BY <1>3, <2>1, GreatestId
  <2> QED
    BY <1>1, <1>3, <2>2 DEF LastId
<1> QED
  BY <1>2, <1>3

\* Ids are positive numbers, and rows are rows.
LEMMA TableIds ==
  ASSUME NEW t, NEW R, Table(t, R), NEW i \in DOMAIN t
  PROVE  i \in Nat \ {0} /\ t[i] \in R
BY DEF Table

\* A table without some rows.
LEMMA TableWithout ==
  ASSUME NEW t, NEW R, Table(t, R), NEW gone
  PROVE  /\ Table(Without(t, gone), R)
         /\ DOMAIN Without(t, gone) = DOMAIN t \ gone
         /\ \A i \in DOMAIN t \ gone : Without(t, gone)[i] = t[i]
BY DEF Table, Without, Restrict

\* What a table is with one more row, or another one.
Extended(t, R, id, row, u) ==
    /\ Table(u, R)
    /\ DOMAIN u = DOMAIN t \union {id}
    /\ u[id] = row
    /\ \A i \in DOMAIN t \ {id} : u[i] = t[i]

\* With makes it.
LEMMA TableWith ==
  ASSUME NEW t, NEW R, Table(t, R), NEW id \in Nat \ {0}, NEW row \in R
  PROVE  Extended(t, R, id, row, With(t, id, row))
<1>1. PICK n \in Nat : DOMAIN t \subseteq 1 .. n
  BY DEF Table
<1>2. n + id \in Nat /\ DOMAIN t \union {id} \subseteq 1 .. (n + id)
  BY <1>1
<1>3. DOMAIN With(t, id, row) = DOMAIN t \union {id}
  BY DEF With
<1>4. \A i \in DOMAIN t \union {id} : With(t, id, row)[i] = IF i = id THEN row ELSE t[i]
  BY DEF With
<1>5. With(t, id, row) \in [DOMAIN t \union {id} -> R]
  BY DEF With, Table
<1>6. \E m \in Nat : DOMAIN With(t, id, row) \subseteq 1 .. m
  BY <1>2, <1>3
<1>7. Table(With(t, id, row), R)
  BY <1>3, <1>5, <1>6 DEF Table
<1> QED
  BY <1>3, <1>4, <1>7 DEF Extended

\* A table whose rows were rewritten one by one.
LEMMA TableMapped ==
  ASSUME NEW t, NEW R, Table(t, R), NEW u, NEW Q,
         DOMAIN u = DOMAIN t, u \in [DOMAIN t -> Q]
  PROVE  Table(u, Q)
BY DEF Table

\* The rows of two tables.
LEMMA TableJoined ==
  ASSUME NEW s, NEW t, NEW R, Table(s, R), Table(t, R)
  PROVE  /\ Table(Joined(s, t), R)
         /\ DOMAIN Joined(s, t) = DOMAIN s \union DOMAIN t
         /\ \A i \in DOMAIN s : Joined(s, t)[i] = s[i]
         /\ \A i \in DOMAIN t \ DOMAIN s : Joined(s, t)[i] = t[i]
<1>1. PICK n \in Nat : DOMAIN t \subseteq 1 .. n
  BY DEF Table
<1>2. PICK m \in Nat : DOMAIN s \subseteq 1 .. m
  BY DEF Table
<1>3. n + m \in Nat /\ DOMAIN s \union DOMAIN t \subseteq 1 .. (n + m)
  BY <1>1, <1>2
<1>4. DOMAIN Joined(s, t) = DOMAIN s \union DOMAIN t
  BY DEF Joined
<1>5. \A i \in DOMAIN s \union DOMAIN t :
          Joined(s, t)[i] = IF i \in DOMAIN s THEN s[i] ELSE t[i]
  BY DEF Joined
<1>6. Joined(s, t) \in [DOMAIN s \union DOMAIN t -> R]
  BY DEF Joined, Table
<1>7. \E k \in Nat : DOMAIN Joined(s, t) \subseteq 1 .. k
  BY <1>3, <1>4
<1>8. Table(Joined(s, t), R)
  BY <1>4, <1>6, <1>7 DEF Table
<1> QED
  BY <1>4, <1>5, <1>8

\* A table with its ids shifted.
LEMMA TableShifted ==
  ASSUME NEW t, NEW R, Table(t, R), NEW by \in Nat
  PROVE  /\ Table(Shift(t, by), R)
         /\ DOMAIN Shift(t, by) = {j + by : j \in DOMAIN t}
         /\ \A j \in DOMAIN t : Shift(t, by)[j + by] = t[j]
<1>1. PICK n \in Nat : DOMAIN t \subseteq 1 .. n
  BY DEF Table
<1>2. DOMAIN Shift(t, by) = {j + by : j \in DOMAIN t}
  BY DEF Shift
<1>3. n + by \in Nat /\ {j + by : j \in DOMAIN t} \subseteq 1 .. (n + by)
  BY <1>1
<1>4. ASSUME NEW i \in {j + by : j \in DOMAIN t}
      PROVE  i - by \in DOMAIN t /\ Shift(t, by)[i] = t[i - by]
  <2>1. PICK j \in DOMAIN t : i = j + by
    OBVIOUS
  <2>2. i - by = j
    BY <1>1, <2>1
  <2> QED
    BY <2>1, <2>2 DEF Shift
<1>5. Shift(t, by) \in [{j + by : j \in DOMAIN t} -> R]
  BY <1>4 DEF Shift, Table
<1>6. \E k \in Nat : DOMAIN Shift(t, by) \subseteq 1 .. k
  BY <1>2, <1>3
<1>7. Table(Shift(t, by), R)
  BY <1>2, <1>5, <1>6 DEF Table
<1>8. ASSUME NEW j \in DOMAIN t PROVE Shift(t, by)[j + by] = t[j]
  <2>1. (j + by) - by = j
    BY <1>1
  <2> QED
    BY <1>4, <2>1
<1> QED
  BY <1>2, <1>7, <1>8

\* The context row of a point, when there is one.
LEMMA ContextFound ==
  ASSUME NEW db, Table(db.contexts, Points), NEW p, NEW c \in DOMAIN db.contexts,
         db.contexts[c] = p
  PROVE  ContextAt(db, p) \in DOMAIN db.contexts /\ db.contexts[ContextAt(db, p)] = p
<1> DEFINE rows == {d \in DOMAIN db.contexts : db.contexts[d] = p}
<1>1. rows \in SUBSET Nat /\ rows # {}
  BY DEF Table
<1>2. Min(rows) \in rows
  BY <1>1, LeastId
<1>3. ContextAt(db, p) = Min(rows)
  BY <1>1 DEF ContextAt
<1> QED
  BY <1>2, <1>3

\* A point without a context row.
LEMMA ContextMissing ==
  ASSUME NEW db, Table(db.contexts, Points), NEW p
  PROVE  ContextAt(db, p) = NoContext <=> \A c \in DOMAIN db.contexts : db.contexts[c] # p
<1>1. CASE \A c \in DOMAIN db.contexts : db.contexts[c] # p
  BY <1>1 DEF ContextAt
<1>2. CASE ~ \A c \in DOMAIN db.contexts : db.contexts[c] # p
  <2>1. ContextAt(db, p) \in DOMAIN db.contexts
    BY <1>2, ContextFound
  <2>2. ContextAt(db, p) \in Nat
    BY <2>1 DEF Table
  <2> QED
    BY <1>2, <2>2, HistoryAssumption
<1> QED
  BY <1>1, <1>2
-----------------------------------------------------------------------------
(* The history database: migrations *)

\* A run listed under another context is otherwise the same.
LEMMA RunMoved ==
  ASSUME NEW row \in RunRows, NEW x \in Nat \union {NoContext}
  PROVE  /\ [row EXCEPT !.context = x] \in RunRows
         /\ [row EXCEPT !.context = x].context = x
         /\ [row EXCEPT !.context = x].status = row.status
         /\ [row EXCEPT !.context = x].origin = row.origin
         /\ [row EXCEPT !.context = x].point = row.point
BY DEF RunRows

\* So is a session.
LEMMA SessionMoved ==
  ASSUME NEW row \in SessionRows, NEW x \in Nat
  PROVE  /\ [row EXCEPT !.context = x] \in SessionRows
         /\ [row EXCEPT !.context = x].context = x
         /\ [row EXCEPT !.context = x].status = row.status
         /\ [row EXCEPT !.context = x].contract = row.contract
         /\ [row EXCEPT !.context = x].origin = row.origin
         /\ [row EXCEPT !.context = x].point = row.point
         /\ [row EXCEPT !.context = x].legacy = row.legacy
BY DEF SessionRows

\* A run that ended is otherwise the same.
LEMMA RunEnded ==
  ASSUME NEW row \in RunRows, NEW x \in {"running", "ended"}
  PROVE  /\ [row EXCEPT !.status = x] \in RunRows
         /\ [row EXCEPT !.status = x].status = x
         /\ [row EXCEPT !.status = x].context = row.context
         /\ [row EXCEPT !.status = x].point = row.point
BY DEF RunRows

\* A session in another status is otherwise the same.
LEMMA SessionTurned ==
  ASSUME NEW row \in SessionRows,
         NEW x \in {"unfinished", "quarantined", "profile_quarantined", "completed"}
  PROVE  /\ [row EXCEPT !.status = x] \in SessionRows
         /\ [row EXCEPT !.status = x].status = x
         /\ [row EXCEPT !.status = x].context = row.context
         /\ [row EXCEPT !.status = x].contract = row.contract
         /\ [row EXCEPT !.status = x].point = row.point
         /\ [row EXCEPT !.status = x].legacy = row.legacy
BY DEF SessionRows

\* A session marked with no contract is otherwise the same.
LEMMA SessionMarked ==
  ASSUME NEW row \in SessionRows
  PROVE  /\ [row EXCEPT !.contract = 0] \in SessionRows
         /\ [row EXCEPT !.contract = 0].contract = 0
         /\ [row EXCEPT !.contract = 0].status = row.status
         /\ [row EXCEPT !.contract = 0].context = row.context
         /\ [row EXCEPT !.contract = 0].point = row.point
BY DEF SessionRows

\* Where a sound database lists a row.
LEMMA RowsListed ==
  ASSUME NEW db, Formed(db), Listed(db)
  PROVE  /\ \A r \in DOMAIN db.runs :
                /\ db.runs[r] \in RunRows
                /\ db.runs[r].context \in DOMAIN db.contexts \union {NoContext}
         /\ \A s \in DOMAIN db.sessions :
                /\ db.sessions[s] \in SessionRows
                /\ db.sessions[s].context \in DOMAIN db.contexts
                /\ db.contexts[db.sessions[s].context] = db.sessions[s].point
<1>1. \A r \in DOMAIN db.runs : db.runs[r] \in RunRows
  BY TableIds DEF Formed
<1>2. \A s \in DOMAIN db.sessions : db.sessions[s] \in SessionRows
  BY TableIds DEF Formed
<1>3. \A s \in DOMAIN db.sessions : db.sessions[s].point # NoContext
  BY <1>2, HistoryAssumption DEF SessionRows, Points
<1> QED
  BY <1>1, <1>2, <1>3 DEF Listed, Under

\* A deduplicated context is the first of those of its point.
LEMMA SurvivorOf ==
  ASSUME NEW db, Formed(db)
  PROVE  /\ Survivor(db, NoContext) = NoContext
         /\ \A c \in DOMAIN db.contexts :
                /\ Survivor(db, c) \in DOMAIN db.contexts
                /\ db.contexts[Survivor(db, c)] = db.contexts[c]
<1>1. Survivor(db, NoContext) = NoContext
  BY DEF Survivor
<1>2. ASSUME NEW c \in DOMAIN db.contexts
      PROVE  /\ Survivor(db, c) \in DOMAIN db.contexts
             /\ db.contexts[Survivor(db, c)] = db.contexts[c]
  <2>1. c # NoContext
    BY HistoryAssumption, TableIds DEF Formed
  <2>2. Survivor(db, c) = ContextAt(db, db.contexts[c])
    BY <2>1 DEF Survivor
  <2>3. Table(db.contexts, Points)
    BY DEF Formed
  <2> QED
    BY <2>2, <2>3, ContextFound
<1> QED
  BY <1>1, <1>2

\* Version 5 keeps a database sound.
LEMMA DeduplicatedSound ==
  ASSUME NEW db, Sound(db), db.version < 5
  PROVE  Sound(Deduplicated(db))
<1> DEFINE e == Deduplicated(db)
           kept == {Survivor(db, c) : c \in DOMAIN db.contexts}
<1>a. Formed(db) /\ Listed(db)
  BY DEF Sound
<1>b. /\ Table(db.contexts, Points) /\ Table(db.runs, RunRows)
      /\ Table(db.sessions, SessionRows)
  BY <1>a DEF Formed
<1>c. /\ Survivor(db, NoContext) = NoContext
      /\ \A c \in DOMAIN db.contexts :
             /\ Survivor(db, c) \in DOMAIN db.contexts
             /\ db.contexts[Survivor(db, c)] = db.contexts[c]
  BY <1>a, SurvivorOf
<1>s. DOMAIN db = Fields
  BY DEF Sound, Formed
<1>1. /\ DOMAIN e = Fields
      /\ e.version = 5 /\ e.banks = db.banks
      /\ e.contexts = Restrict(db.contexts, kept)
      /\ e.runs = [r \in DOMAIN db.runs |-> Reassigned(db, db.runs[r])]
      /\ e.sessions = [s \in DOMAIN db.sessions |-> Reassigned(db, db.sessions[s])]
  BY <1>s DEF Deduplicated, Fields
<1> HIDE DEF e
<1>2. kept \subseteq DOMAIN db.contexts
  BY <1>c
<1>3. /\ DOMAIN e.contexts = kept
      /\ \A c \in kept : e.contexts[c] = db.contexts[c]
  BY <1>1 DEF Restrict
<1>4. Table(e.contexts, Points)
  BY <1>b, <1>1, <1>2, <1>3 DEF Table, Restrict
<1>5. ASSUME NEW r \in DOMAIN db.runs
      PROVE  e.runs[r] \in RunRows /\ Under(e.runs[r], e.contexts)
  <2> DEFINE c == db.runs[r].context
  <2>1. db.runs[r] \in RunRows /\ c \in DOMAIN db.contexts \union {NoContext}
    BY <1>a, RowsListed
  <2>2. Survivor(db, c) \in Nat \union {NoContext}
    BY <2>1, <1>b, <1>c, TableIds
  <2>3. e.runs[r] = [db.runs[r] EXCEPT !.context = Survivor(db, c)]
    BY <1>1 DEF Reassigned
  <2>4. /\ e.runs[r] \in RunRows /\ e.runs[r].context = Survivor(db, c)
        /\ e.runs[r].point = db.runs[r].point
    BY <2>1, <2>2, <2>3, RunMoved
  <2>5. Under(db.runs[r], db.contexts)
    BY <1>a DEF Listed
  <2> QED
    BY <2>1, <2>4, <2>5, <1>c, <1>3 DEF Under
<1>6. ASSUME NEW s \in DOMAIN db.sessions
      PROVE  /\ e.sessions[s] \in SessionRows /\ Under(e.sessions[s], e.contexts)
  <2> DEFINE c == db.sessions[s].context
  <2>1. db.sessions[s] \in SessionRows /\ c \in DOMAIN db.contexts
    BY <1>a, RowsListed
  <2>2. Survivor(db, c) \in Nat
    BY <2>1, <1>b, <1>c, TableIds
  <2>3. e.sessions[s] = [db.sessions[s] EXCEPT !.context = Survivor(db, c)]
    BY <1>1 DEF Reassigned
  <2>4. /\ e.sessions[s] \in SessionRows /\ e.sessions[s].context = Survivor(db, c)
        /\ e.sessions[s].point = db.sessions[s].point
    BY <2>1, <2>2, <2>3, SessionMoved
  <2>5. Under(db.sessions[s], db.contexts)
    BY <1>a DEF Listed
  <2>6. c # NoContext
    BY <2>1, <1>b, TableIds, HistoryAssumption
  <2> QED
    BY <2>1, <2>4, <2>5, <2>6, <1>c, <1>3 DEF Under
<1>7. DOMAIN e.runs = DOMAIN db.runs /\ DOMAIN e.sessions = DOMAIN db.sessions
  BY <1>1
<1>8. e.runs \in [DOMAIN db.runs -> RunRows] /\ e.sessions \in [DOMAIN db.sessions -> SessionRows]
  BY <1>1, <1>5, <1>6
<1>9. Table(e.runs, RunRows) /\ Table(e.sessions, SessionRows)
  BY <1>b, <1>7, <1>8, TableMapped
<1>10. Formed(e)
  BY <1>a, <1>1, <1>4, <1>9 DEF Formed, Latest
<1>11. Listed(e)
  BY <1>5, <1>6, <1>7 DEF Listed
<1>12. Distinct(e)
  <2> SUFFICES ASSUME NEW c \in kept, NEW d \in kept, e.contexts[c] = e.contexts[d]
               PROVE  c = d
    BY <1>3 DEF Distinct
  <2>1. PICK a \in DOMAIN db.contexts : c = Survivor(db, a)
    OBVIOUS
  <2>2. PICK b \in DOMAIN db.contexts : d = Survivor(db, b)
    OBVIOUS
  <2>3. db.contexts[a] = db.contexts[b]
    BY <2>1, <2>2, <1>3, <1>c
  <2>4. a # NoContext /\ b # NoContext
    BY <1>b, TableIds, HistoryAssumption
  <2> QED
    BY <2>1, <2>2, <2>3, <2>4 DEF Survivor
<1>13. Retired(e)
  BY <1>1 DEF Retired
<1> QED
  BY <1>10, <1>11, <1>12, <1>13 DEF Sound, e

\* Version 16 keeps a database sound, and retires every session there is.
LEMMA MarkedSound ==
  ASSUME NEW db, Sound(db), db.version \in 5 .. 15
  PROVE  Sound(MarkedLegacy(db))
<1> DEFINE e == MarkedLegacy(db)
<1>a. Formed(db) /\ Listed(db) /\ Distinct(db)
  BY DEF Sound
<1>s. DOMAIN db = Fields
  BY DEF Sound, Formed
<1>1. /\ DOMAIN e = Fields
      /\ e.version = 16 /\ e.banks = db.banks /\ e.contexts = db.contexts /\ e.runs = db.runs
      /\ e.sessions = [s \in DOMAIN db.sessions |-> [db.sessions[s] EXCEPT !.contract = 0]]
  BY <1>s DEF MarkedLegacy, Fields
<1> HIDE DEF e
<1>2. ASSUME NEW s \in DOMAIN db.sessions
      PROVE  /\ e.sessions[s] \in SessionRows /\ e.sessions[s].contract = 0
             /\ Under(e.sessions[s], e.contexts)
  <2>1. db.sessions[s] \in SessionRows
    BY <1>a, RowsListed
  <2>2. /\ e.sessions[s] \in SessionRows /\ e.sessions[s].contract = 0
        /\ e.sessions[s].context = db.sessions[s].context
        /\ e.sessions[s].point = db.sessions[s].point
    BY <1>1, <2>1, SessionMarked
  <2>3. Under(db.sessions[s], db.contexts)
    BY <1>a DEF Listed
  <2> QED
    BY <1>1, <2>2, <2>3 DEF Under
<1>3. DOMAIN e.sessions = DOMAIN db.sessions /\ e.sessions \in [DOMAIN db.sessions -> SessionRows]
  BY <1>1, <1>2
<1>4. Table(e.sessions, SessionRows)
  BY <1>3, <1>a, TableMapped DEF Formed
<1>5. Formed(e)
  BY <1>a, <1>1, <1>4 DEF Formed, Latest
<1>6. Listed(e)
  BY <1>a, <1>1, <1>2, <1>3 DEF Listed
<1>7. Distinct(e) /\ Retired(e)
  BY <1>a, <1>1, <1>2, <1>3 DEF Distinct, Retired
<1> QED
  BY <1>5, <1>6, <1>7 DEF Sound, e

\* A context with a hash nobody else has.
LEMMA LoneOwner ==
  ASSUME NEW db, Formed(db), NEW h, Cardinality(Owners(db, h)) = 1
  PROVE  \E c : Owners(db, h) = {c}
<1>1. PICK n \in Nat : DOMAIN db.contexts \subseteq 1 .. n
  BY DEF Formed, Table
<1>2. IsFiniteSet(1 .. n) /\ Owners(db, h) \in SUBSET (1 .. n)
  BY <1>1, FS_Interval DEF Owners
<1>3. IsFiniteSet(Owners(db, h))
  BY <1>2, FS_Subset
<1> QED
  BY <1>3, FS_Singleton

\* What the re-keying makes of the banks.
LEMMA RekeyedFields ==
  ASSUME NEW db, Formed(db)
  PROVE  /\ DOMAIN Rekeyed(db) = Fields /\ Rekeyed(db).version = 20
         /\ Rekeyed(db).contexts = db.contexts /\ Rekeyed(db).runs = db.runs
         /\ Rekeyed(db).sessions = db.sessions
         /\ Rekeyed(db).banks = [c \in DOMAIN Rekeyed(db).banks |-> Rekeyed(db).banks[c]]
         /\ \A c \in DOMAIN Rekeyed(db).banks :
                /\ c \in DOMAIN db.contexts
                /\ db.contexts[c][1] \in DOMAIN db.banks
                /\ Owners(db, db.contexts[c][1]) = {c}
                /\ Rekeyed(db).banks[c] = db.banks[db.contexts[c][1]]
<1> DEFINE kept == {h \in DOMAIN db.banks : Cardinality(Owners(db, h)) = 1}
           whose == UNION {Owners(db, h) : h \in kept}
<1>s. DOMAIN db = Fields
  BY DEF Formed
<1>1. /\ DOMAIN Rekeyed(db) = Fields /\ Rekeyed(db).version = 20
      /\ Rekeyed(db).contexts = db.contexts /\ Rekeyed(db).runs = db.runs
      /\ Rekeyed(db).sessions = db.sessions
      /\ Rekeyed(db).banks = [c \in whose |-> db.banks[db.contexts[c][1]]]
  BY <1>s DEF Rekeyed, Fields
<1>2. ASSUME NEW c \in whose
      PROVE  /\ c \in DOMAIN db.contexts
             /\ db.contexts[c][1] \in DOMAIN db.banks
             /\ Owners(db, db.contexts[c][1]) = {c}
  <2>1. PICK h \in kept : c \in Owners(db, h)
    OBVIOUS
  <2>2. c \in DOMAIN db.contexts /\ db.contexts[c][1] = h
    BY <2>1 DEF Owners
  <2>3. PICK d : Owners(db, h) = {d}
    BY LoneOwner
  <2> QED
    BY <2>1, <2>2, <2>3
<1> HIDE DEF whose
<1>3. DOMAIN Rekeyed(db).banks = whose
  BY <1>1
<1>4. \A c \in whose : Rekeyed(db).banks[c] = db.banks[db.contexts[c][1]]
  BY <1>1
<1>5. Rekeyed(db).banks = [c \in DOMAIN Rekeyed(db).banks |-> Rekeyed(db).banks[c]]
  BY <1>1
<1> QED
  BY <1>1, <1>2, <1>3, <1>4, <1>5

\* Version 20 keeps a database sound.
LEMMA RekeyedSound ==
  ASSUME NEW db, Sound(db), db.version \in 16 .. 19
  PROVE  Sound(Rekeyed(db))
<1> DEFINE e == Rekeyed(db)
<1>a. Formed(db) /\ Listed(db) /\ Distinct(db) /\ Retired(db)
  BY DEF Sound
<1>1. /\ DOMAIN e = Fields /\ e.version = 20 /\ e.contexts = db.contexts
      /\ e.runs = db.runs /\ e.sessions = db.sessions
      /\ e.banks = [c \in DOMAIN e.banks |-> e.banks[c]]
      /\ \A c \in DOMAIN e.banks :
             /\ db.contexts[c][1] \in DOMAIN db.banks
             /\ e.banks[c] = db.banks[db.contexts[c][1]]
  BY <1>a, RekeyedFields
<1> HIDE DEF e
<1>2. db.banks \in [DOMAIN db.banks -> [Points -> Nat]]
  BY <1>a DEF Formed
<1>3. e.banks \in [DOMAIN e.banks -> [Points -> Nat]]
  BY <1>1, <1>2
<1>4. Formed(e)
  BY <1>a, <1>1, <1>3 DEF Formed, Latest
<1>5. Listed(e) /\ Distinct(e) /\ Retired(e)
  BY <1>a, <1>1 DEF Listed, Distinct, Retired
<1> QED
  BY <1>4, <1>5 DEF Sound, e

\* Version 22 keeps a database sound.
LEMMA RenamedSound ==
  ASSUME NEW db, Sound(db), db.version >= 20
  PROVE  Sound(Renamed(db))
<1> DEFINE e == Renamed(db)
<1>a. Formed(db) /\ Listed(db) /\ Distinct(db) /\ Retired(db)
  BY DEF Sound
<1>s. DOMAIN db = Fields
  BY DEF Sound, Formed
<1>1. /\ DOMAIN e = Fields
      /\ e.version = Latest /\ e.banks = db.banks /\ e.contexts = db.contexts
      /\ e.runs = db.runs
      /\ e.sessions = [s \in DOMAIN db.sessions |-> InNewWords(db.sessions[s])]
  BY <1>s DEF Renamed, Fields
<1> HIDE DEF e
<1>2. ASSUME NEW s \in DOMAIN db.sessions
      PROVE  /\ e.sessions[s] \in SessionRows
             /\ e.sessions[s].contract = db.sessions[s].contract
             /\ e.sessions[s].legacy = db.sessions[s].legacy
             /\ Under(e.sessions[s], e.contexts)
  <2> DEFINE x == IF db.sessions[s].status = "quarantined" THEN "profile_quarantined"
                  ELSE db.sessions[s].status
  <2>1. db.sessions[s] \in SessionRows
    BY <1>a, RowsListed
  <2>2. x \in {"unfinished", "quarantined", "profile_quarantined", "completed"}
    BY <2>1 DEF SessionRows
  <2>3. e.sessions[s] = [db.sessions[s] EXCEPT !.status = x]
    BY <1>1 DEF InNewWords
  <2> HIDE DEF x
  <2>4. /\ e.sessions[s] \in SessionRows
        /\ e.sessions[s].contract = db.sessions[s].contract
        /\ e.sessions[s].context = db.sessions[s].context
        /\ e.sessions[s].point = db.sessions[s].point
        /\ e.sessions[s].legacy = db.sessions[s].legacy
    <3>1. /\ [db.sessions[s] EXCEPT !.status = x] \in SessionRows
          /\ [db.sessions[s] EXCEPT !.status = x].status = x
          /\ [db.sessions[s] EXCEPT !.status = x].context = db.sessions[s].context
          /\ [db.sessions[s] EXCEPT !.status = x].contract = db.sessions[s].contract
          /\ [db.sessions[s] EXCEPT !.status = x].point = db.sessions[s].point
          /\ [db.sessions[s] EXCEPT !.status = x].legacy = db.sessions[s].legacy
      BY <2>1, <2>2, SessionTurned, Zenon
    <3> QED
      BY <2>3, <3>1, Zenon
  <2>5. Under(db.sessions[s], db.contexts)
    BY <1>a DEF Listed
  <2> QED
    BY <1>1, <2>4, <2>5 DEF Under
<1>3. DOMAIN e.sessions = DOMAIN db.sessions /\ e.sessions \in [DOMAIN db.sessions -> SessionRows]
  BY <1>1, <1>2
<1>4. Table(e.sessions, SessionRows)
  BY <1>3, <1>a, TableMapped DEF Formed
<1>5. Formed(e)
  BY <1>a, <1>1, <1>4 DEF Formed, Latest
<1>6. Listed(e)
  BY <1>a, <1>1, <1>2, <1>3 DEF Listed
<1>7. db.version >= 5 /\ db.version >= 16
  BY <1>a DEF Formed
<1>8. Distinct(e) /\ Retired(e)
  BY <1>a, <1>1, <1>2, <1>3, <1>7, Zenon DEF Distinct, Retired
<1> QED
  BY <1>5, <1>6, <1>8 DEF Sound, e

\* A migration keeps a database sound.
LEMMA MigratedSound ==
  ASSUME NEW db, Sound(db)
  PROVE  Sound(Migrated(db))
<1>1. db.version \in 4 .. Latest
  BY DEF Sound, Formed
<1>2. CASE db.version < 5
  BY <1>1, <1>2, DeduplicatedSound DEF Migrated
<1>3. CASE db.version \in 5 .. 15
  <2>1. ~(db.version < 5)
    BY <1>3
  <2> QED
    BY <2>1, <1>3, MarkedSound DEF Migrated
<1>4. CASE db.version \in 16 .. 19
  <2>1. ~(db.version < 5) /\ db.version \notin 5 .. 15
    BY <1>4
  <2> QED
    BY <2>1, <1>4, RekeyedSound DEF Migrated
<1>5. CASE db.version >= 20
  <2>1. ~(db.version < 5) /\ db.version \notin 5 .. 15 /\ db.version \notin 16 .. 19
    BY <1>1, <1>5
  <2> QED
    BY <2>1, <1>5, RenamedSound DEF Migrated
<1> QED
  BY <1>1, <1>2, <1>3, <1>4, <1>5

\* A migration leaves every second with the point it was measured at.
LEMMA MigratedCredited ==
  ASSUME NEW db, Sound(db), Credited(db)
  PROVE  Credited(Migrated(db))
<1>a. Formed(db)
  BY DEF Sound
<1>b. db.version \in 4 .. Latest /\ Table(db.contexts, Points)
  BY <1>a DEF Formed
<1>1. CASE db.version < 5
  <2> DEFINE e == Deduplicated(db)
             kept == {Survivor(db, c) : c \in DOMAIN db.contexts}
  <2>1. Migrated(db) = e
    BY <1>1 DEF Migrated
  <2>2. e.version = 5 /\ e.banks = db.banks /\ e.contexts = Restrict(db.contexts, kept)
    BY <1>a DEF Formed, Deduplicated
  <2> HIDE DEF e
  <2>3. DOMAIN e.contexts = kept /\ \A c \in kept : e.contexts[c] = db.contexts[c]
    BY <2>2 DEF Restrict
  <2>4. \A c \in DOMAIN db.contexts :
            /\ Survivor(db, c) \in DOMAIN e.contexts
            /\ e.contexts[Survivor(db, c)] = db.contexts[c]
    BY <2>3, <1>a, SurvivorOf
  <2>5. ASSUME NEW h \in DOMAIN db.banks, NEW p \in Points, db.banks[h][p] > 0
        PROVE  p[1] = h /\ \E c \in DOMAIN e.contexts : e.contexts[c] = p
    <3>1. p[1] = h /\ \E c \in DOMAIN db.contexts : db.contexts[c] = p
      BY <2>5, <1>1, <1>b DEF Credited
    <3> QED
      BY <3>1, <2>4
  <2>6. \A h \in DOMAIN e.banks : \A p \in Points : e.banks[h][p] > 0 =>
            p[1] = h /\ \E c \in DOMAIN e.contexts : e.contexts[c] = p
    BY <2>2, <2>5
  <2>7. Credited(e)
    BY <2>2, <2>6, 5 < 20, Zenon DEF Credited
  <2> QED
    BY <2>1, <2>7
<1>2. CASE db.version \in 5 .. 15
  <2>1. Migrated(db) = MarkedLegacy(db)
    BY <1>2 DEF Migrated
  <2>2. /\ MarkedLegacy(db).version = 16 /\ MarkedLegacy(db).banks = db.banks
        /\ MarkedLegacy(db).contexts = db.contexts
    BY <1>a DEF Formed, MarkedLegacy
  <2>3. db.version < 20
    BY <1>2
  <2> QED
    BY <2>1, <2>2, <2>3 DEF Credited
<1>3. CASE db.version \in 16 .. 19
  <2> DEFINE e == Rekeyed(db)
  <2>1. Migrated(db) = e
    BY <1>3 DEF Migrated
  <2>2. /\ e.version = 20 /\ e.contexts = db.contexts
        /\ \A c \in DOMAIN e.banks :
               /\ c \in DOMAIN db.contexts
               /\ db.contexts[c][1] \in DOMAIN db.banks
               /\ Owners(db, db.contexts[c][1]) = {c}
               /\ e.banks[c] = db.banks[db.contexts[c][1]]
    BY <1>a, RekeyedFields
  <2> HIDE DEF e
  <2>3. ASSUME NEW c \in DOMAIN e.banks, NEW p \in Points, e.banks[c][p] > 0
        PROVE  p = db.contexts[c]
    <3>1. db.version < 20
      BY <1>3
    <3>2. PICK d \in DOMAIN db.contexts : p[1] = db.contexts[c][1] /\ db.contexts[d] = p
      BY <2>2, <2>3, <3>1 DEF Credited
    <3>3. d \in Owners(db, db.contexts[c][1])
      BY <3>2 DEF Owners
    <3> QED
      BY <2>2, <3>2, <3>3
  <2>4. Credited(e)
    BY <2>2, <2>3 DEF Credited
  <2> QED
    BY <2>1, <2>4
<1>4. CASE db.version >= 20
  <2>1. Migrated(db) = Renamed(db)
    BY <1>4, <1>b DEF Migrated
  <2>2. /\ Renamed(db).version = Latest /\ Renamed(db).banks = db.banks
        /\ Renamed(db).contexts = db.contexts
    BY <1>a DEF Formed, Renamed
  <2>3. ~(db.version < 20) /\ ~(Latest < 20)
    BY <1>4, <1>b DEF Latest
  <2> QED
    BY <2>1, <2>2, <2>3 DEF Credited
<1> QED
  BY <1>b, <1>1, <1>2, <1>3, <1>4
-----------------------------------------------------------------------------
(* The history database: initial states *)

\* An empty table is a table.
LEMMA TableEmpty ==
  ASSUME NEW R
  PROVE  DOMAIN <<>> = {} /\ <<>> \in [DOMAIN <<>> -> R] /\ Table(<<>>, R)
<1>1. DOMAIN <<>> = {} /\ DOMAIN <<>> \subseteq 1 .. 0
  OBVIOUS
<1>2. <<>> \in [DOMAIN <<>> -> R]
  BY <1>1
<1> QED
  BY <1>1, <1>2 DEF Table

\* A new database is sound.
LEMMA FreshSound ==
  Sound(Fresh) /\ Credited(Fresh)
<1>1. /\ DOMAIN Fresh = Fields
      /\ Fresh.version = Latest /\ Fresh.contexts = <<>> /\ Fresh.runs = <<>>
      /\ Fresh.sessions = <<>> /\ Fresh.banks = <<>>
  BY DEF Fresh, Fields
<1>2. DOMAIN <<>> = {}
  OBVIOUS
<1>3. /\ Table(<<>>, Points) /\ Table(<<>>, RunRows) /\ Table(<<>>, SessionRows)
      /\ <<>> \in [DOMAIN <<>> -> [Points -> Nat]]
  BY TableEmpty
<1>4. Formed(Fresh)
  BY <1>1, <1>3 DEF Formed, Latest
<1>5. Listed(Fresh) /\ Distinct(Fresh) /\ Retired(Fresh)
  BY <1>1, <1>2 DEF Listed, Distinct, Retired
<1>6. Credited(Fresh)
  BY <1>1, <1>2 DEF Credited, Latest
<1> QED
  BY <1>4, <1>5, <1>6 DEF Sound

\* What an older version of the program left is sound.
LEMMA LegacySound ==
  ASSUME NEW file \in {"user", "root"}, NEW db \in LegacyDatabases(file)
  PROVE  Sound(db) /\ Credited(db) /\ Points # {}
<1> DEFINE Left(v, contexts, c, d, contract, status) ==
             [version  |-> v,
              contexts |-> contexts,
              runs     |-> [i \in {1} |->
                  [context |-> c, status |-> "running", origin |-> <<file, 1>>,
                   point |-> IF c = NoContext THEN NoContext ELSE contexts[c]]],
              sessions |-> [i \in {1} |->
                  [context |-> d, status |-> status, contract |-> contract,
                   origin |-> <<file, 1>>,
                   point |-> contexts[d], legacy |-> v < 16 \/ contract = 0]],
              banks    |-> LegacyBanks(v, contexts)]
           Endings(contexts) ==
             {"unfinished"} \union
                 (IF Cardinality(DOMAIN contexts) = 1 THEN {"quarantined"} ELSE {})
           OfContexts(v, contexts) ==
             {Left(v, contexts, c, d, contract, status) :
                 c \in {LastId(contexts), NoContext}, d \in DOMAIN contexts,
                 contract \in LegacyContracts(v), status \in Endings(contexts)}
           OfVersion(v) == UNION {OfContexts(v, contexts) : contexts \in LegacyContexts(v)}
<1>0. LegacyDatabases(file) = UNION {OfVersion(v) : v \in LegacyVersions}
  BY DEF LegacyDatabases
<1> HIDE DEF OfVersion
<1>1. PICK v \in LegacyVersions : db \in OfVersion(v)
  BY <1>0
<1> USE DEF OfVersion
<1> HIDE DEF OfContexts
<1>2. PICK contexts \in LegacyContexts(v) : db \in OfContexts(v, contexts)
  BY <1>1
<1> HIDE DEF OfVersion
<1> USE DEF OfContexts
<1> HIDE DEF Left, Endings
<1>x. PICK c \in {LastId(contexts), NoContext}, d \in DOMAIN contexts,
           contract \in LegacyContracts(v), status \in Endings(contexts) :
          db = Left(v, contexts, c, d, contract, status)
  BY <1>2
<1> USE DEF Left, Endings
<1>y. status \in {"unfinished", "quarantined"}
  OBVIOUS
<1> HIDE DEF Endings, OfContexts
<1> DEFINE aRun == [context |-> c, status |-> "running", origin |-> <<file, 1>>,
                    point |-> IF c = NoContext THEN NoContext ELSE contexts[c]]
           aSession == [context |-> d, status |-> status, contract |-> contract,
                        origin |-> <<file, 1>>,
                        point |-> contexts[d], legacy |-> v < 16 \/ contract = 0]
<1>3. v \in {4, 19}
  BY HistoryAssumption
<1>4. /\ DOMAIN contexts \in {{1}, 1 .. 2}
      /\ contexts \in [DOMAIN contexts -> Points]
      /\ v >= 5 => IsInjective(contexts)
  BY <1>3 DEF LegacyContexts
<1>5. Table(contexts, Points)
  <2>1. DOMAIN contexts \subseteq 1 .. 2
    BY <1>4
  <2> QED
    BY <1>4, <2>1 DEF Table
<1>6. c = NoContext \/ c \in DOMAIN contexts
  BY <1>4, <1>5, LastIds
<1>7. Points # {}
  BY <1>4
<1>8. contract \in {0, Contract}
  BY DEF LegacyContracts
<1>9. <<file, 1>> \in {"user", "root"} \X Nat
  OBVIOUS
<1>10. c \in Nat \union {NoContext} /\ d \in Nat /\ c # NoContext => c \in DOMAIN contexts
  BY <1>4, <1>6
<1>11. aRun \in RunRows /\ Under(aRun, contexts)
  <2>1. (IF c = NoContext THEN NoContext ELSE contexts[c]) \in Points \union {NoContext}
    BY <1>4, <1>6
  <2>2. c # NoContext => contexts[c] # NoContext
    BY <1>4, <1>6, HistoryAssumption DEF Points
  <2> QED
    BY <1>6, <1>9, <1>4, <2>1, <2>2 DEF RunRows, Under
<1>12. aSession \in SessionRows /\ Under(aSession, contexts)
  <2>1. contexts[d] \in Points /\ contexts[d] # NoContext
    BY <1>4, HistoryAssumption DEF Points
  <2>2. (v < 16 \/ contract = 0) \in BOOLEAN
    OBVIOUS
  <2>3. d \in Nat
    BY <1>4
  <2> QED
    BY <1>8, <1>9, <1>y, <2>1, <2>2, <2>3 DEF SessionRows, Under
<1>13. aSession.legacy = (v < 16 \/ contract = 0) /\ aSession.contract = contract
  OBVIOUS
<1>14. /\ DOMAIN db = Fields
       /\ db.version = v /\ db.contexts = contexts
       /\ db.runs = [i \in {1} |-> aRun] /\ db.sessions = [i \in {1} |-> aSession]
       /\ db.banks = LegacyBanks(v, contexts)
  BY <1>x DEF Fields
<1> HIDE DEF aRun, aSession, Left
<1>15. Table(db.runs, RunRows) /\ Table(db.sessions, SessionRows)
  <2>1. {1} \subseteq 1 .. 1
    OBVIOUS
  <2> QED
    BY <1>11, <1>12, <1>14, <2>1 DEF Table
<1>16. /\ LegacyBanks(v, contexts) \in [DOMAIN LegacyBanks(v, contexts) -> [Points -> Nat]]
       /\ \A h \in DOMAIN LegacyBanks(v, contexts) : \A p \in Points :
             LegacyBanks(v, contexts)[h][p] > 0 =>
                p[1] = h /\ \E x \in DOMAIN contexts : contexts[x] = p
  <2>1. CASE v = 4
    <3>1. LegacyBanks(v, contexts) = <<>>
      BY <2>1 DEF LegacyBanks
    <3> QED
      BY <3>1, TableEmpty
  <2>2. CASE v = 19
    <3> DEFINE hs == {p[1] : p \in Range(contexts)}
    <3>1. LegacyBanks(v, contexts) =
            [h \in hs |-> [p \in Points |-> IF p[1] = h /\ p \in Range(contexts) THEN 1 ELSE 0]]
      BY <2>2 DEF LegacyBanks
    <3> HIDE DEF hs
    <3>2. \A p \in Range(contexts) : \E x \in DOMAIN contexts : contexts[x] = p
      BY DEF Range
    <3>3. DOMAIN LegacyBanks(v, contexts) = hs
      BY <3>1
    <3>4. \A h \in hs : \A p \in Points :
             LegacyBanks(v, contexts)[h][p] = IF p[1] = h /\ p \in Range(contexts) THEN 1 ELSE 0
      BY <3>1
    <3>5. LegacyBanks(v, contexts) \in [hs -> [Points -> Nat]]
      BY <3>1
    <3> QED
      BY <3>2, <3>3, <3>4, <3>5
  <2> QED
    BY <1>3, <2>1, <2>2
<1>17. Formed(db)
  BY <1>3, <1>5, <1>14, <1>15, <1>16 DEF Formed, Latest
<1>18. Listed(db)
  BY <1>11, <1>12, <1>14 DEF Listed
<1>19. Distinct(db)
  BY <1>4, <1>14 DEF Distinct, IsInjective
<1>20. Retired(db)
  <2>1. CASE v = 19
    <3>1. DOMAIN db.sessions = {1} /\ db.sessions[1] = aSession
      BY <1>14
    <3>2. ~(v < 16)
      BY <2>1
    <3>3. aSession.legacy => aSession.contract = 0
      BY <1>13, <3>2, Zenon
    <3> QED
      BY <3>1, <3>3, Zenon DEF Retired
  <2>2. CASE v = 4
    BY <1>14, <2>2 DEF Retired
  <2> QED
    BY <1>3, <2>1, <2>2
<1>21. Credited(db)
  BY <1>3, <1>14, <1>16 DEF Credited
<1> QED
  BY <1>7, <1>17, <1>18, <1>19, <1>20, <1>21 DEF Sound

\* The invariant holds when the program is first started.
LEMMA HistoryStarts ==
  ASSUME HistoryInit
  PROVE  HistoryInv /\ Evidence
<1>1. /\ Sound(user) /\ Sound(root) /\ Credited(user) /\ Credited(root)
      /\ Points # {}
  BY FreshSound, LegacySound, Zenon DEF HistoryInit
<1>2. /\ pc = "off" /\ run = NoContext /\ session = NoContext
      /\ point = (CHOOSE p \in Points : TRUE)
      /\ ids = [contexts |-> LastId(user.contexts), runs |-> LastId(user.runs),
                sessions |-> LastId(user.sessions)]
  BY Zenon DEF HistoryInit
<1>3. point \in Points
  BY <1>1, <1>2
<1>4. /\ LastId(user.contexts) \in Nat /\ LastId(user.runs) \in Nat /\ LastId(user.sessions) \in Nat
      /\ \A c \in DOMAIN user.contexts : c <= LastId(user.contexts)
      /\ \A r \in DOMAIN user.runs : r <= LastId(user.runs)
      /\ \A s \in DOMAIN user.sessions : s <= LastId(user.sessions)
  BY <1>1, LastIds DEF Sound, Formed
<1>5. Started
  BY <1>2, <1>3 DEF Started, StartUp
<1>6. Numbered
  BY <1>2, <1>4 DEF Numbered
<1>7. HeldSession /\ Recovered /\ AtHome
  BY <1>2 DEF HeldSession, Recovered, AtHome
<1>8. pc # "rename"
  BY <1>2
<1> QED
  BY <1>1, <1>5, <1>6, <1>7, <1>8 DEF HistoryInv, Evidence
-----------------------------------------------------------------------------
(* The history database: deletions *)

\* What goes on keeps its rows.
KeepsGoing(db, e) ==
    /\ Running(db) \subseteq DOMAIN e.runs
    /\ Unfinished(db) \subseteq DOMAIN e.sessions

\* Contexts with their banks, runs and sessions are gone, and nothing else.
Pruned(db, e, cs, rs, ss) ==
    /\ DOMAIN e = Fields /\ e.version = db.version
    /\ e.contexts = Without(db.contexts, cs) /\ e.banks = Without(db.banks, cs)
    /\ e.runs = Without(db.runs, rs) /\ e.sessions = Without(db.sessions, ss)

\* No row that stays is listed under a context that goes.
Sweeps(db, cs, rs, ss) ==
    /\ \A r \in DOMAIN db.runs \ rs : db.runs[r].context \notin cs
    /\ \A s \in DOMAIN db.sessions \ ss : db.sessions[s].context \notin cs

\* Banks are left as tables are.
LEMMA BanksWithout ==
  ASSUME NEW b, NEW R, b \in [DOMAIN b -> R], NEW gone
  PROVE  /\ Without(b, gone) \in [DOMAIN Without(b, gone) -> R]
         /\ DOMAIN Without(b, gone) = DOMAIN b \ gone
         /\ \A i \in DOMAIN b \ gone : Without(b, gone)[i] = b[i]
BY DEF Without, Restrict

\* Leaving nothing out changes nothing.
LEMMA WithoutNothing ==
  ASSUME NEW b, NEW R, b \in [DOMAIN b -> R]
  PROVE  Without(b, {}) = b
BY DEF Without, Restrict

\* The rows that are left.
Remains(db, e, cs, rs, ss) ==
    /\ DOMAIN e.contexts = DOMAIN db.contexts \ cs
    /\ \A c \in DOMAIN e.contexts : e.contexts[c] = db.contexts[c]
    /\ DOMAIN e.banks = DOMAIN db.banks \ cs
    /\ \A c \in DOMAIN e.banks : e.banks[c] = db.banks[c]
    /\ DOMAIN e.runs = DOMAIN db.runs \ rs
    /\ \A r \in DOMAIN e.runs : e.runs[r] = db.runs[r]
    /\ DOMAIN e.sessions = DOMAIN db.sessions \ ss
    /\ \A s \in DOMAIN e.sessions : e.sessions[s] = db.sessions[s]

\* What is left of a pruned database.
LEMMA PrunedFields ==
  ASSUME NEW db, Formed(db), NEW e, NEW cs, NEW rs, NEW ss, Pruned(db, e, cs, rs, ss)
  PROVE  Formed(e) /\ Remains(db, e, cs, rs, ss)
<1>1. /\ Table(db.contexts, Points) /\ Table(db.runs, RunRows)
      /\ Table(db.sessions, SessionRows)
      /\ db.banks \in [DOMAIN db.banks -> [Points -> Nat]]
  BY DEF Formed
<1>p. /\ DOMAIN e = Fields /\ e.version = db.version
      /\ e.contexts = Without(db.contexts, cs) /\ e.banks = Without(db.banks, cs)
      /\ e.runs = Without(db.runs, rs) /\ e.sessions = Without(db.sessions, ss)
  BY DEF Pruned
<1>2. /\ Table(e.contexts, Points)
      /\ DOMAIN e.contexts = DOMAIN db.contexts \ cs
      /\ \A c \in DOMAIN e.contexts : e.contexts[c] = db.contexts[c]
  <2>1. /\ Table(Without(db.contexts, cs), Points)
        /\ DOMAIN Without(db.contexts, cs) = DOMAIN db.contexts \ cs
        /\ \A i \in DOMAIN db.contexts \ cs : Without(db.contexts, cs)[i] = db.contexts[i]
    BY <1>1, TableWithout, Zenon
  <2> QED
    BY <2>1, <1>p
<1>3. /\ Table(e.runs, RunRows)
      /\ DOMAIN e.runs = DOMAIN db.runs \ rs
      /\ \A r \in DOMAIN e.runs : e.runs[r] = db.runs[r]
  <2>1. /\ Table(Without(db.runs, rs), RunRows)
        /\ DOMAIN Without(db.runs, rs) = DOMAIN db.runs \ rs
        /\ \A i \in DOMAIN db.runs \ rs : Without(db.runs, rs)[i] = db.runs[i]
    BY <1>1, TableWithout, Zenon
  <2> QED
    BY <2>1, <1>p
<1>4. /\ Table(e.sessions, SessionRows)
      /\ DOMAIN e.sessions = DOMAIN db.sessions \ ss
      /\ \A s \in DOMAIN e.sessions : e.sessions[s] = db.sessions[s]
  <2>1. /\ Table(Without(db.sessions, ss), SessionRows)
        /\ DOMAIN Without(db.sessions, ss) = DOMAIN db.sessions \ ss
        /\ \A i \in DOMAIN db.sessions \ ss : Without(db.sessions, ss)[i] = db.sessions[i]
    BY <1>1, TableWithout, Zenon
  <2> QED
    BY <2>1, <1>p
<1>5. /\ e.banks \in [DOMAIN e.banks -> [Points -> Nat]]
      /\ DOMAIN e.banks = DOMAIN db.banks \ cs
      /\ \A c \in DOMAIN e.banks : e.banks[c] = db.banks[c]
  <2>1. /\ Without(db.banks, cs) \in [DOMAIN Without(db.banks, cs) -> [Points -> Nat]]
        /\ DOMAIN Without(db.banks, cs) = DOMAIN db.banks \ cs
        /\ \A i \in DOMAIN db.banks \ cs : Without(db.banks, cs)[i] = db.banks[i]
    BY <1>1, BanksWithout, Zenon
  <2> QED
    BY <2>1, <1>p
<1>6. Formed(e)
  BY <1>p, <1>2, <1>3, <1>4, <1>5 DEF Formed
<1> QED
  BY <1>2, <1>3, <1>4, <1>5, <1>6 DEF Remains

\* A pruned database is sound, and its banks stay credited.
LEMMA PrunedSound ==
  ASSUME NEW db, Sound(db), NEW e, NEW cs, NEW rs, NEW ss, Pruned(db, e, cs, rs, ss),
         Sweeps(db, cs, rs, ss)
  PROVE  /\ Sound(e)
         /\ db.version >= 20 /\ Credited(db) => Credited(e)
<1>a. Formed(db) /\ Listed(db) /\ Distinct(db) /\ Retired(db)
  BY DEF Sound
<1>v. e.version = db.version /\ db.version \in 4 .. Latest
  BY <1>a DEF Formed, Pruned
<1>1. /\ Formed(e)
      /\ DOMAIN e.contexts = DOMAIN db.contexts \ cs
      /\ \A c \in DOMAIN e.contexts : e.contexts[c] = db.contexts[c]
      /\ DOMAIN e.banks = DOMAIN db.banks \ cs
      /\ \A c \in DOMAIN e.banks : e.banks[c] = db.banks[c]
      /\ DOMAIN e.runs = DOMAIN db.runs \ rs
      /\ \A r \in DOMAIN e.runs : e.runs[r] = db.runs[r]
      /\ DOMAIN e.sessions = DOMAIN db.sessions \ ss
      /\ \A s \in DOMAIN e.sessions : e.sessions[s] = db.sessions[s]
  BY <1>a, PrunedFields, ZenonT(60) DEF Remains
<1>2. ASSUME NEW r \in DOMAIN e.runs PROVE Under(e.runs[r], e.contexts)
  BY <1>a, <1>1 DEF Listed, Under, Sweeps
<1>3. ASSUME NEW s \in DOMAIN e.sessions PROVE Under(e.sessions[s], e.contexts)
  BY <1>a, <1>1 DEF Listed, Under, Sweeps
<1>4. Listed(e)
  BY <1>2, <1>3 DEF Listed
<1>5. Distinct(e)
  BY <1>a, <1>v, <1>1 DEF Distinct
<1>6. Retired(e)
  <2> SUFFICES ASSUME e.version >= 16, NEW s \in DOMAIN e.sessions, e.sessions[s].legacy
               PROVE  e.sessions[s].contract = 0
    BY DEF Retired
  <2> QED
    BY <1>a, <1>v, <1>1, Zenon DEF Retired
<1>7. ASSUME db.version >= 20, Credited(db) PROVE Credited(e)
  <2>1. ~(db.version < 20) /\ ~(e.version < 20)
    BY <1>7, <1>v
  <2>2. \A c \in DOMAIN db.banks :
            /\ c \in DOMAIN db.contexts
            /\ \A p \in Points : db.banks[c][p] > 0 => p = db.contexts[c]
    BY <1>7, <2>1, Zenon DEF Credited
  <2>3. \A c \in DOMAIN e.banks :
            /\ c \in DOMAIN e.contexts
            /\ \A p \in Points : e.banks[c][p] > 0 => p = e.contexts[c]
    BY <1>1, <2>2
  <2> QED
    BY <2>1, <2>3, Zenon DEF Credited
<1> QED
  BY <1>1, <1>4, <1>5, <1>6, <1>7 DEF Sound

\* A batch deletes nothing it is refused.
LEMMA BatchSpares ==
  ASSUME NEW chosen, NEW refused, NEW gone, NEW after, NEW sweep,
         Batch(chosen, refused, gone, after, sweep)
  PROVE  gone \intersect refused = {} /\ (user' = sweep \/ user' = after)
BY DEF Batch

\* What deletes rows and contexts: an overdue run, or what the tab asks for.
Deletion ==
    \E cs, rs, ss :
        /\ Pruned(user, user', cs, rs, ss)
        /\ Sweeps(user, cs, rs, ss)
        /\ rs \intersect Running(user) = {}
        /\ ss \intersect Unfinished(user) = {}

\* Sweeping the orphans away leaves the contexts of every row.
LEMMA SweptPruned ==
  ASSUME NEW db, Formed(db), NEW e, NEW rs, NEW ss, Pruned(db, e, {}, rs, ss)
  PROVE  /\ Pruned(db, Swept(e), DOMAIN e.contexts \ Used(e), rs, ss)
         /\ Sweeps(db, DOMAIN e.contexts \ Used(e), rs, ss)
<1> DEFINE cs == DOMAIN e.contexts \ Used(e)
<1>1. /\ DOMAIN e.runs = DOMAIN db.runs \ rs
      /\ \A r \in DOMAIN e.runs : e.runs[r] = db.runs[r]
      /\ DOMAIN e.sessions = DOMAIN db.sessions \ ss
      /\ \A s \in DOMAIN e.sessions : e.sessions[s] = db.sessions[s]
  <2>1. Remains(db, e, {}, rs, ss)
    BY PrunedFields, Zenon
  <2> QED
    BY <2>1, Zenon DEF Remains
<1>2. e.contexts = db.contexts /\ e.banks = db.banks
  BY WithoutNothing DEF Pruned, Formed, Table
<1>3. DOMAIN e = Fields
  BY DEF Pruned
<1>4. /\ DOMAIN Swept(e) = Fields /\ Swept(e).version = e.version
      /\ Swept(e).contexts = Without(e.contexts, cs) /\ Swept(e).banks = Without(e.banks, cs)
      /\ Swept(e).runs = e.runs /\ Swept(e).sessions = e.sessions
  BY <1>3 DEF Swept, DropContexts, Fields
<1>5. Pruned(db, Swept(e), cs, rs, ss)
  BY <1>2, <1>4 DEF Pruned
<1>6. Sweeps(db, cs, rs, ss)
  <2>1. ASSUME NEW r \in DOMAIN db.runs \ rs PROVE db.runs[r].context \in Used(e)
    BY <1>1 DEF Used
  <2>2. ASSUME NEW s \in DOMAIN db.sessions \ ss PROVE db.sessions[s].context \in Used(e)
    BY <1>1 DEF Used
  <2> QED
    BY <2>1, <2>2 DEF Sweeps
<1> QED
  BY <1>5, <1>6

\* purge_before deletes runs only, and when it runs none is running.
LEMMA PurgeDeletes ==
  ASSUME HistoryInv, Purge
  PROVE  Deletion
<1>1. PICK old \in SUBSET DOMAIN user.runs : user' = [user EXCEPT !.runs = Without(@, old)]
  BY Zenon DEF Purge
<1>2. Formed(user) /\ Running(user) = {}
  BY DEF HistoryInv, Sound, Recovered, Purge
<1>3. DOMAIN user = Fields
  BY <1>2 DEF Formed
<1>4. /\ DOMAIN user' = Fields /\ user'.version = user.version
      /\ user'.contexts = user.contexts /\ user'.banks = user.banks
      /\ user'.runs = Without(user.runs, old) /\ user'.sessions = user.sessions
  BY <1>1, <1>3 DEF Fields
<1>5. /\ Without(user.contexts, {}) = user.contexts /\ Without(user.banks, {}) = user.banks
      /\ Without(user.sessions, {}) = user.sessions
  BY <1>2, WithoutNothing DEF Formed, Table
<1>6. Pruned(user, user', {}, old, {})
  BY <1>4, <1>5 DEF Pruned
<1>7. Sweeps(user, {}, old, {})
  BY DEF Sweeps
<1> QED
  BY <1>2, <1>6, <1>7 DEF Deletion

\* delete_run: what is running is refused.
LEMMA RunsDelete ==
  ASSUME HistoryInv, DeleteRuns
  PROVE  Deletion
<1> DEFINE After(gone) == [user EXCEPT !.runs = Without(@, gone)]
<1>1. PICK gone : /\ gone \intersect Running(user) = {}
                  /\ user' = Swept(After(gone)) \/ user' = After(gone)
  <2>1. PICK chosen \in SUBSET DOMAIN user.runs : \E gone \in SUBSET chosen :
            Batch(chosen, Running(user), gone, After(gone), Swept(After(gone)))
    BY Zenon DEF DeleteRuns
  <2> HIDE DEF After
  <2> QED
    BY <2>1, BatchSpares
<1>2. Formed(user)
  BY DEF HistoryInv, Sound
<1>3. DOMAIN user = Fields
  BY <1>2 DEF Formed
<1> DEFINE e == After(gone)
<1>4. /\ DOMAIN e = Fields /\ e.version = user.version
      /\ e.contexts = user.contexts /\ e.banks = user.banks
      /\ e.runs = Without(user.runs, gone) /\ e.sessions = user.sessions
  BY <1>3 DEF Fields
<1>5. /\ Without(user.contexts, {}) = user.contexts /\ Without(user.banks, {}) = user.banks
      /\ Without(user.sessions, {}) = user.sessions
  BY <1>2, WithoutNothing DEF Formed, Table
<1> HIDE DEF After, e
<1>6. Pruned(user, e, {}, gone, {})
  BY <1>4, <1>5 DEF Pruned
<1>7. Sweeps(user, {}, gone, {})
  BY DEF Sweeps
<1>8. /\ Pruned(user, Swept(e), DOMAIN e.contexts \ Used(e), gone, {})
      /\ Sweeps(user, DOMAIN e.contexts \ Used(e), gone, {})
  BY <1>2, <1>6, SweptPruned, Zenon
<1>9. user' = Swept(e) \/ user' = e
  BY <1>1 DEF e
<1> QED
  BY <1>1, <1>6, <1>7, <1>8, <1>9, ZenonT(60) DEF Deletion

\* delete_tuner_session: what can still go on is refused.
LEMMA SessionsDelete ==
  ASSUME HistoryInv, DeleteSessions
  PROVE  Deletion
<1> DEFINE After(gone) == [user EXCEPT !.sessions = Without(@, gone)]
<1>1. PICK gone : /\ gone \intersect Unfinished(user) = {}
                  /\ user' = Swept(After(gone)) \/ user' = After(gone)
  <2>1. PICK chosen \in SUBSET DOMAIN user.sessions : \E gone \in SUBSET chosen :
            Batch(chosen, Unfinished(user), gone, After(gone), Swept(After(gone)))
    BY Zenon DEF DeleteSessions
  <2> HIDE DEF After
  <2> QED
    BY <2>1, BatchSpares
<1>2. Formed(user)
  BY DEF HistoryInv, Sound
<1>3. DOMAIN user = Fields
  BY <1>2 DEF Formed
<1> DEFINE e == After(gone)
<1>4. /\ DOMAIN e = Fields /\ e.version = user.version
      /\ e.contexts = user.contexts /\ e.banks = user.banks
      /\ e.runs = user.runs /\ e.sessions = Without(user.sessions, gone)
  BY <1>3 DEF Fields
<1>5. /\ Without(user.contexts, {}) = user.contexts /\ Without(user.banks, {}) = user.banks
      /\ Without(user.runs, {}) = user.runs
  BY <1>2, WithoutNothing DEF Formed, Table
<1> HIDE DEF After, e
<1>6. Pruned(user, e, {}, {}, gone)
  BY <1>4, <1>5 DEF Pruned
<1>7. Sweeps(user, {}, {}, gone)
  BY DEF Sweeps
<1>8. /\ Pruned(user, Swept(e), DOMAIN e.contexts \ Used(e), {}, gone)
      /\ Sweeps(user, DOMAIN e.contexts \ Used(e), {}, gone)
  BY <1>2, <1>6, SweptPruned, Zenon
<1>9. user' = Swept(e) \/ user' = e
  BY <1>1 DEF e
<1> QED
  BY <1>1, <1>6, <1>7, <1>8, <1>9, Zenon DEF Deletion

\* delete_context_cascade takes the rows of a context along, unless one of
\* them is in flight.
LEMMA ContextsDelete ==
  ASSUME HistoryInv, DeleteContexts
  PROVE  Deletion
<1> DEFINE After(gone) == [DropContexts(user, gone) EXCEPT
                              !.runs = Without(@, OfContext(@, gone)),
                              !.sessions = Without(@, OfContext(@, gone))]
<1>1. PICK gone : gone \intersect Occupied = {} /\ user' = After(gone)
  <2>1. PICK chosen \in SUBSET DOMAIN user.contexts : \E gone \in SUBSET chosen :
            Batch(chosen, Occupied, gone, After(gone), After(gone))
    BY Zenon DEF DeleteContexts
  <2> HIDE DEF After
  <2> QED
    BY <2>1, BatchSpares
<1>2. Formed(user)
  BY DEF HistoryInv, Sound
<1>3. DOMAIN user = Fields
  BY <1>2 DEF Formed
<1> DEFINE rs == OfContext(user.runs, gone)
           ss == OfContext(user.sessions, gone)
<1>4. Pruned(user, user', gone, rs, ss)
  <2> DEFINE d == DropContexts(user, gone)
  <2>1. /\ DOMAIN d = Fields /\ d.version = user.version
        /\ d.contexts = Without(user.contexts, gone) /\ d.banks = Without(user.banks, gone)
        /\ d.runs = user.runs /\ d.sessions = user.sessions
    BY <1>3 DEF DropContexts, Fields
  <2>2. user' = [d EXCEPT !.runs = Without(@, OfContext(@, gone)),
                          !.sessions = Without(@, OfContext(@, gone))]
    BY <1>1
  <2> HIDE DEF d
  <2> QED
    BY <2>1, <2>2 DEF Pruned, Fields
<1>5. Sweeps(user, gone, rs, ss)
  BY DEF Sweeps, OfContext
<1>6. rs \intersect Running(user) = {}
  BY <1>1 DEF OfContext, Occupied
<1>7. ss \intersect Unfinished(user) = {}
  BY <1>1 DEF OfContext, Occupied
<1> HIDE DEF rs, ss
<1> QED
  BY <1>4, <1>5, <1>6, <1>7, Zenon DEF Deletion

\* A deletion keeps the database sound, and the rows of what goes on.
LEMMA DeletionKeeps ==
  ASSUME Sound(user), Deletion
  PROVE  /\ Sound(user') /\ KeepsGoing(user, user')
         /\ user.version >= 20 /\ Credited(user) => Credited(user')
         /\ user'.version = user.version
         /\ DOMAIN user'.contexts \subseteq DOMAIN user.contexts
         /\ DOMAIN user'.runs \subseteq DOMAIN user.runs
         /\ DOMAIN user'.sessions \subseteq DOMAIN user.sessions
         /\ \A r \in DOMAIN user'.runs : user'.runs[r] = user.runs[r]
         /\ \A s \in DOMAIN user'.sessions : user'.sessions[s] = user.sessions[s]
<1>1. PICK cs, rs, ss :
        /\ Pruned(user, user', cs, rs, ss) /\ Sweeps(user, cs, rs, ss)
        /\ rs \intersect Running(user) = {} /\ ss \intersect Unfinished(user) = {}
  BY Zenon DEF Deletion
<1>2. Formed(user)
  BY DEF Sound
<1>3. /\ Sound(user')
      /\ user.version >= 20 /\ Credited(user) => Credited(user')
  BY <1>1, PrunedSound, Zenon
<1>4. /\ DOMAIN user'.contexts = DOMAIN user.contexts \ cs
      /\ DOMAIN user'.runs = DOMAIN user.runs \ rs
      /\ \A r \in DOMAIN user'.runs : user'.runs[r] = user.runs[r]
      /\ DOMAIN user'.sessions = DOMAIN user.sessions \ ss
      /\ \A s \in DOMAIN user'.sessions : user'.sessions[s] = user.sessions[s]
  <2>1. Remains(user, user', cs, rs, ss)
    BY <1>1, <1>2, PrunedFields, Zenon
  <2> QED
    BY <2>1, Zenon DEF Remains
<1>5. KeepsGoing(user, user')
  BY <1>1, <1>4 DEF KeepsGoing, Running, Unfinished
<1>6. user'.version = user.version
  BY <1>1 DEF Pruned
<1> QED
  BY <1>3, <1>4, <1>5, <1>6
-----------------------------------------------------------------------------
(* The history database: steps that keep the invariant *)

\* What is credited depends on the contexts and the banks.
LEMMA SameCredit ==
  ASSUME NEW db, NEW e, e.version = db.version, e.contexts = db.contexts, e.banks = db.banks,
         Credited(db)
  PROVE  Credited(e)
BY DEF Credited

\* Who is retired depends on the sessions.
LEMMA SameContracts ==
  ASSUME NEW db, NEW e, e.version = db.version, e.sessions = db.sessions, Retired(db)
  PROVE  Retired(e)
BY Zenon DEF Retired

\* Steps that leave the rows of both databases alone.
QuietStep == Launch \/ Opened \/ RenameRoot \/ AdoptionFails \/ Die \/ Reconfigure

\* The launch, the open, the rename, a failed adoption and a death.
LEMMA QuietKeeps ==
  ASSUME HistoryInv, QuietStep
  PROVE  HistoryInv' /\ KeepsGoing(user, user') /\ (Evidence => Evidence')
<1>1. UNCHANGED <<user, root, ids>>
  BY Zenon DEF QuietStep, Launch, Opened, RenameRoot, AdoptionFails, Die, Reconfigure
<1>2. /\ pc' \in StartUp \ {"rename", "purge", "up"} /\ point' \in Points
      /\ run' = NoContext /\ session' = NoContext
      /\ pc' \notin {"off", "open"} => user.version = Latest
  <2>1. CASE Launch
    BY <2>1 DEF HistoryInv, Started, Launch, StartUp
  <2>2. CASE Opened
    BY <2>2 DEF HistoryInv, Started, Opened, StartUp
  <2>3. CASE RenameRoot
    BY <2>3 DEF HistoryInv, Started, RenameRoot, StartUp
  <2>4. CASE AdoptionFails
    BY <2>4 DEF HistoryInv, Started, AdoptionFails, StartUp
  <2>5. CASE Die
    BY <2>5 DEF HistoryInv, Started, Die, StartUp
  <2>6. CASE Reconfigure
    <3>1. PICK b \in Bios \ {point[2]} : point' = <<point[1], b>>
      BY <2>6 DEF Reconfigure
    <3>2. point' \in Points
      BY <3>1 DEF HistoryInv, Started, Points
    <3> QED
      BY <2>6, <3>2 DEF HistoryInv, Started, Reconfigure, StartUp
  <2> QED
    BY <2>1, <2>2, <2>3, <2>4, <2>5, <2>6 DEF QuietStep
<1>3. Sound(user)' /\ Sound(root)' /\ Credited(root)' /\ (Credited(user) => Credited(user)')
  BY <1>1 DEF HistoryInv
<1>4. Started'
  BY <1>1, <1>2 DEF Started
<1>5. Numbered'
  BY <1>1 DEF HistoryInv, Numbered
<1>6. HeldSession' /\ Recovered' /\ AtHome'
  BY <1>2 DEF HeldSession, Recovered, AtHome
<1>7. KeepsGoing(user, user')
  BY <1>1 DEF KeepsGoing, Running, Unfinished
<1>8. pc' # "rename"
  BY <1>2
<1> QED
  BY <1>3, <1>4, <1>5, <1>6, <1>7, <1>8 DEF HistoryInv, Evidence

\* A migration keeps the ids of rows, and makes no context.
LEMMA MigratedRows ==
  ASSUME NEW db, Formed(db)
  PROVE  /\ DOMAIN Migrated(db).runs = DOMAIN db.runs
         /\ DOMAIN Migrated(db).sessions = DOMAIN db.sessions
         /\ DOMAIN Migrated(db).contexts \subseteq DOMAIN db.contexts
<1>1. DOMAIN db = Fields /\ db.version \in 4 .. Latest
  BY DEF Formed
<1>2. CASE db.version < 5
  <2>1. Migrated(db) = Deduplicated(db)
    BY <1>2 DEF Migrated
  <2>2. /\ DOMAIN Deduplicated(db).runs = DOMAIN db.runs
        /\ DOMAIN Deduplicated(db).sessions = DOMAIN db.sessions
        /\ Deduplicated(db).contexts =
               Restrict(db.contexts, {Survivor(db, c) : c \in DOMAIN db.contexts})
    BY <1>1 DEF Deduplicated, Fields
  <2>3. {Survivor(db, c) : c \in DOMAIN db.contexts} \subseteq DOMAIN db.contexts
    BY SurvivorOf
  <2> QED
    BY <2>1, <2>2, <2>3 DEF Restrict
<1>3. CASE db.version \in 5 .. 15
  <2>1. Migrated(db) = MarkedLegacy(db)
    BY <1>3 DEF Migrated
  <2> QED
    BY <1>1, <2>1 DEF MarkedLegacy, Fields
<1>4. CASE db.version \in 16 .. 19
  <2>1. Migrated(db) = Rekeyed(db)
    BY <1>4 DEF Migrated
  <2> QED
    BY <1>1, <2>1 DEF Rekeyed, Fields
<1>5. CASE db.version >= 20
  <2>1. Migrated(db) = Renamed(db)
    BY <1>1, <1>5 DEF Migrated
  <2> QED
    BY <1>1, <2>1 DEF Renamed, Fields
<1> QED
  BY <1>1, <1>2, <1>3, <1>4, <1>5

\* _migrate of the user's database
LEMMA MigrateUserKeeps ==
  ASSUME HistoryInv, MigrateUser
  PROVE  HistoryInv' /\ KeepsGoing(user, user') /\ (Evidence => Evidence')
<1>1. user' = Migrated(user) /\ UNCHANGED <<root, pc, point, run, session, ids>> /\ pc = "open"
  BY DEF MigrateUser
<1>2. Sound(user) /\ session = NoContext
  BY <1>1 DEF HistoryInv, Started
<1>3. Sound(user') /\ (Credited(user) => Credited(user'))
  BY <1>1, <1>2, MigratedSound, MigratedCredited
<1>4. /\ DOMAIN user'.runs = DOMAIN user.runs
      /\ DOMAIN user'.sessions = DOMAIN user.sessions
      /\ DOMAIN user'.contexts \subseteq DOMAIN user.contexts
  BY <1>1, <1>2, MigratedRows DEF Sound
<1>5. Sound(user)' /\ Sound(root)' /\ Credited(root)' /\ (Credited(user) => Credited(user)')
  BY <1>1, <1>3 DEF HistoryInv
<1>6. Started'
  BY <1>1 DEF HistoryInv, Started
<1>7. Numbered'
  BY <1>1, <1>4 DEF HistoryInv, Numbered
<1>8. HeldSession' /\ Recovered' /\ AtHome' /\ pc' # "rename"
  BY <1>1, <1>2 DEF HeldSession, Recovered, AtHome
<1>9. KeepsGoing(user, user')
  BY <1>4 DEF KeepsGoing, Running, Unfinished
<1> QED
  BY <1>5, <1>6, <1>7, <1>8, <1>9 DEF HistoryInv, Evidence

\* _migrate of the database in /root
LEMMA MigrateRootKeeps ==
  ASSUME HistoryInv, MigrateRoot
  PROVE  HistoryInv' /\ KeepsGoing(user, user') /\ (Evidence => Evidence')
<1>1. root' = Migrated(root) /\ UNCHANGED <<user, pc, point, run, session, ids>> /\ pc = "adopt"
  BY DEF MigrateRoot
<1>2. Sound(root) /\ Credited(root) /\ session = NoContext
  BY <1>1 DEF HistoryInv, Started
<1>3. Sound(root') /\ Credited(root')
  BY <1>1, <1>2, MigratedSound, MigratedCredited
<1>5. Sound(user)' /\ Sound(root)' /\ Credited(root)' /\ (Credited(user) => Credited(user)')
  BY <1>1, <1>3 DEF HistoryInv
<1>6. Started'
  BY <1>1 DEF HistoryInv, Started
<1>7. Numbered'
  BY <1>1 DEF HistoryInv, Numbered
<1>8. HeldSession' /\ Recovered' /\ AtHome' /\ pc' # "rename"
  BY <1>1, <1>2 DEF HeldSession, Recovered, AtHome
<1>9. KeepsGoing(user, user')
  BY <1>1 DEF KeepsGoing, Running, Unfinished
<1> QED
  BY <1>5, <1>6, <1>7, <1>8, <1>9 DEF HistoryInv, Evidence

\* A deletion while the program is up, and the purge before.
LEMMA DeletionStep ==
  ASSUME HistoryInv, Deletion, pc \in {"purge", "up"}, pc' = "up",
         UNCHANGED <<root, point, run, session, ids>>
  PROVE  HistoryInv' /\ KeepsGoing(user, user') /\ (Evidence => Evidence')
<1>1. Sound(user) /\ user.version = Latest
  BY DEF HistoryInv, Started
<1>2. /\ Sound(user') /\ KeepsGoing(user, user')
      /\ user.version >= 20 /\ Credited(user) => Credited(user')
      /\ user'.version = user.version
      /\ DOMAIN user'.contexts \subseteq DOMAIN user.contexts
      /\ DOMAIN user'.runs \subseteq DOMAIN user.runs
      /\ DOMAIN user'.sessions \subseteq DOMAIN user.sessions
      /\ \A r \in DOMAIN user'.runs : user'.runs[r] = user.runs[r]
      /\ \A s \in DOMAIN user'.sessions : user'.sessions[s] = user.sessions[s]
  BY <1>1, DeletionKeeps, Zenon
<1>3. Credited(user) => Credited(user')
  BY <1>1, <1>2 DEF Latest
<1>4. Sound(user)' /\ Sound(root)' /\ Credited(root)' /\ (Credited(user) => Credited(user)')
  BY <1>2, <1>3 DEF HistoryInv
<1>5. Started'
  BY <1>1, <1>2 DEF HistoryInv, Started, StartUp
<1>6. Numbered'
  BY <1>2 DEF HistoryInv, Numbered
<1>7. session # NoContext => session \in DOMAIN user'.sessions
  BY <1>2 DEF HistoryInv, HeldSession, KeepsGoing, Unfinished, InFlight
<1>8. HeldSession'
  BY <1>2, <1>7 DEF HistoryInv, HeldSession
<1>9. Recovered'
  BY <1>2 DEF HistoryInv, Recovered, Running
<1>10. AtHome => AtHome'
  BY <1>2, <1>7 DEF AtHome
<1> QED
  BY <1>2, <1>4, <1>5, <1>6, <1>8, <1>9, <1>10 DEF HistoryInv, Evidence

\* purge_before and the deletions of the history tab
LEMMA DeletionsKeep ==
  ASSUME HistoryInv, Purge \/ DeleteRuns \/ DeleteSessions \/ DeleteContexts
  PROVE  HistoryInv' /\ KeepsGoing(user, user') /\ (Evidence => Evidence')
<1>1. Deletion
  BY PurgeDeletes, RunsDelete, SessionsDelete, ContextsDelete, Zenon
<1>2. /\ pc \in {"purge", "up"} /\ pc' = "up"
      /\ UNCHANGED <<root, point, run, session, ids>>
  <2>1. CASE Purge
    BY <2>1, Zenon DEF Purge
  <2>2. CASE DeleteRuns
    BY <2>2, Zenon DEF DeleteRuns
  <2>3. CASE DeleteSessions
    BY <2>3, Zenon DEF DeleteSessions
  <2>4. CASE DeleteContexts
    BY <2>4, Zenon DEF DeleteContexts
  <2> QED
    BY <2>1, <2>2, <2>3, <2>4
<1> QED
  BY <1>1, <1>2, DeletionStep, Zenon

\* recover_incomplete_runs
LEMMA RecoverKeeps ==
  ASSUME HistoryInv, Recover
  PROVE  HistoryInv' /\ KeepsGoing(user, user') /\ (Evidence => Evidence')
<1>1. /\ user' = [user EXCEPT !.runs = [r \in DOMAIN user.runs |-> Ended(user.runs[r])]]
      /\ UNCHANGED <<root, point, run, session, ids>> /\ pc = "recover" /\ pc' = "purge"
  BY DEF Recover
<1>2. /\ Formed(user) /\ Listed(user) /\ Distinct(user) /\ Retired(user)
      /\ user.version = Latest /\ run = NoContext /\ session = NoContext
  BY <1>1 DEF HistoryInv, Sound, Started
<1>s. DOMAIN user = Fields
  BY <1>2 DEF Formed
<1>3. /\ DOMAIN user' = Fields /\ user'.version = user.version
      /\ user'.contexts = user.contexts /\ user'.banks = user.banks
      /\ user'.sessions = user.sessions
      /\ user'.runs = [r \in DOMAIN user.runs |-> Ended(user.runs[r])]
  BY <1>1, <1>s DEF Fields
<1>4. ASSUME NEW r \in DOMAIN user.runs
      PROVE  /\ user'.runs[r] \in RunRows /\ user'.runs[r].status = "ended"
             /\ Under(user'.runs[r], user'.contexts)
  <2> DEFINE x == IF user.runs[r].status = "running" THEN "ended" ELSE user.runs[r].status
  <2>1. user.runs[r] \in RunRows
    BY <1>2, TableIds DEF Formed
  <2>2. x = "ended"
    BY <2>1 DEF RunRows
  <2>3. user'.runs[r] = [user.runs[r] EXCEPT !.status = x]
    BY <1>3 DEF Ended
  <2> HIDE DEF x
  <2>4. /\ [user.runs[r] EXCEPT !.status = x] \in RunRows
        /\ [user.runs[r] EXCEPT !.status = x].status = x
        /\ [user.runs[r] EXCEPT !.status = x].context = user.runs[r].context
        /\ [user.runs[r] EXCEPT !.status = x].point = user.runs[r].point
    BY <2>1, <2>2, RunEnded, ZenonT(60)
  <2>5. Under(user.runs[r], user.contexts)
    BY <1>2 DEF Listed
  <2> QED
    BY <1>3, <2>2, <2>3, <2>4, <2>5, ZenonT(60) DEF Under
<1>5. DOMAIN user'.runs = DOMAIN user.runs /\ user'.runs \in [DOMAIN user.runs -> RunRows]
  BY <1>3, <1>4
<1>6. Table(user'.runs, RunRows)
  BY <1>2, <1>5, TableMapped DEF Formed
<1>7. Formed(user')
  BY <1>2, <1>3, <1>6 DEF Formed
<1>8. Listed(user')
  BY <1>2, <1>3, <1>4, <1>5 DEF Listed
<1>9. Distinct(user') /\ Retired(user') /\ (Credited(user) => Credited(user'))
  BY <1>2, <1>3, SameCredit, SameContracts DEF Distinct
<1>10. Sound(user)' /\ Sound(root)' /\ Credited(root)' /\ (Credited(user) => Credited(user)')
  BY <1>1, <1>7, <1>8, <1>9 DEF HistoryInv, Sound
<1>11. Started'
  BY <1>1, <1>2, <1>3 DEF HistoryInv, Started, StartUp
<1>12. Numbered'
  BY <1>1, <1>3, <1>5 DEF HistoryInv, Numbered
<1>13. HeldSession' /\ AtHome' /\ pc' # "rename"
  BY <1>1, <1>2 DEF HeldSession, AtHome
<1>14. Recovered'
  BY <1>1, <1>4, <1>5 DEF Recovered, Running
<1>15. KeepsGoing(user, user')
  BY <1>3, <1>5 DEF KeepsGoing, Running, Unfinished
<1> QED
  BY <1>10, <1>11, <1>12, <1>13, <1>14, <1>15 DEF HistoryInv, Evidence
-----------------------------------------------------------------------------
(* The history database: tests and the tuner *)

\* A table of contexts that has become longer, and still has one per point.
Grown(cs, ds) ==
    /\ Table(ds, Points)
    /\ DOMAIN cs \subseteq DOMAIN ds
    /\ \A c \in DOMAIN cs : ds[c] = cs[c]
    /\ \A c, d \in DOMAIN ds : ds[c] = ds[d] => c = d

\* A row stays listed when contexts are added.
LEMMA UnderGrown ==
  ASSUME NEW cs, NEW ds, Grown(cs, ds), NEW row, Under(row, cs)
  PROVE  Under(row, ds)
BY DEF Grown, Under

\* So does what is banked.
LEMMA CreditGrown ==
  ASSUME NEW db, NEW e, db.version = Latest, e.version = Latest, e.banks = db.banks,
         Grown(db.contexts, e.contexts), Credited(db)
  PROVE  Credited(e)
<1>1. ~(Latest < 20)
  BY DEF Latest
<1> QED
  BY <1>1 DEF Credited, Grown

\* get_or_create_context finds the context of the operating point or adds it.
LEMMA ContextReady ==
  ASSUME HistoryInv, user.version = Latest
  PROVE  /\ Grown(user.contexts, With(user.contexts, ContextId, point))
         /\ DOMAIN With(user.contexts, ContextId, point) = DOMAIN user.contexts \union {ContextId}
         /\ With(user.contexts, ContextId, point)[ContextId] = point
         /\ ContextId \in Nat \ {0} /\ ContextId # NoContext
<1> DEFINE cs == With(user.contexts, ContextId, point)
<1>1. /\ Table(user.contexts, Points) /\ point \in Points /\ ids.contexts \in Nat
      /\ \A c \in DOMAIN user.contexts : c <= ids.contexts
      /\ \A c, d \in DOMAIN user.contexts : user.contexts[c] = user.contexts[d] => c = d
  BY DEF HistoryInv, Sound, Formed, Distinct, Latest, Started, Numbered
<1>2. /\ ContextId \in Nat \ {0}
      /\ \A d \in DOMAIN user.contexts : user.contexts[d] = point => d = ContextId
      /\ ContextId \in DOMAIN user.contexts => user.contexts[ContextId] = point
  <2>1. CASE ContextAt(user, point) = NoContext
    <3>1. \A d \in DOMAIN user.contexts : user.contexts[d] # point
      BY <1>1, <2>1, ContextMissing
    <3>2. ContextId = ids.contexts + 1
      BY <2>1 DEF ContextId
    <3>3. ids.contexts + 1 \notin DOMAIN user.contexts
      BY <1>1
    <3> QED
      BY <1>1, <3>1, <3>2, <3>3
  <2>2. CASE ContextAt(user, point) # NoContext
    <3>1. PICK d \in DOMAIN user.contexts : user.contexts[d] = point
      BY <1>1, <2>2, ContextMissing
    <3>2. ContextId = ContextAt(user, point)
      BY <2>2 DEF ContextId
    <3>3. ContextId \in DOMAIN user.contexts /\ user.contexts[ContextId] = point
      BY <1>1, <3>1, <3>2, ContextFound
    <3> QED
      BY <1>1, <3>3, TableIds
  <2> QED
    BY <2>1, <2>2
<1>3. /\ Table(cs, Points)
      /\ DOMAIN cs = DOMAIN user.contexts \union {ContextId}
      /\ cs[ContextId] = point
      /\ \A i \in DOMAIN user.contexts \ {ContextId} : cs[i] = user.contexts[i]
  <2>1. Table(user.contexts, Points)
    BY <1>1
  <2>2. ContextId \in Nat \ {0}
    BY <1>2
  <2>3. point \in Points
    BY <1>1
  <2>4. Extended(user.contexts, Points, ContextId, point, cs)
    BY <2>1, <2>2, <2>3, TableWith
  <2> QED
    BY <2>4 DEF Extended
<1> HIDE DEF cs
<1>4. \A c \in DOMAIN user.contexts : cs[c] = user.contexts[c]
  BY <1>2, <1>3
<1>5. \A c, d \in DOMAIN cs : cs[c] = cs[d] => c = d
  BY <1>1, <1>2, <1>3, <1>4
<1>6. Grown(user.contexts, cs)
  BY <1>3, <1>4, <1>5 DEF Grown
<1>7. ContextId # NoContext
  BY <1>2, HistoryAssumption
<1> QED
  BY <1>2, <1>3, <1>6, <1>7 DEF cs

\* create_run of a new test
LEMMA StartTestKeeps ==
  ASSUME HistoryInv, StartTest
  PROVE  HistoryInv' /\ KeepsGoing(user, user') /\ (Evidence => Evidence')
<1> DEFINE row == [context |-> ContextId, status |-> "running",
                   origin |-> <<"user", run'>>, point |-> point]
<1>1. /\ pc = "up" /\ session = NoContext /\ run = NoContext
      /\ run' = ids.runs + 1
      /\ user' = [user EXCEPT !.contexts = With(@, ContextId, point),
                              !.runs = With(@, run', row)]
      /\ ids' = [ids EXCEPT !.runs = run', !.contexts = Max({@, ContextId})]
      /\ UNCHANGED <<root, pc, point, session>>
  BY Zenon DEF StartTest
<1>2. /\ Formed(user) /\ Listed(user) /\ Distinct(user) /\ Retired(user)
      /\ user.version = Latest /\ point \in Points
      /\ ids \in [contexts : Nat, runs : Nat, sessions : Nat]
  BY <1>1 DEF HistoryInv, Sound, Started, Numbered
<1>s. DOMAIN user = Fields
  BY <1>2 DEF Formed
<1>3. /\ Grown(user.contexts, With(user.contexts, ContextId, point))
      /\ DOMAIN With(user.contexts, ContextId, point) = DOMAIN user.contexts \union {ContextId}
      /\ With(user.contexts, ContextId, point)[ContextId] = point
      /\ ContextId \in Nat \ {0} /\ ContextId # NoContext
  BY <1>2, ContextReady, Zenon
<1>4. run' \in Nat \ {0}
  BY <1>1, <1>2
<1>5. /\ row \in RunRows /\ row.context = ContextId /\ row.point = point
  <2>1. <<"user", run'>> \in {"user", "root"} \X Nat
    BY <1>4
  <2> QED
    BY <1>2, <1>3, <2>1 DEF RunRows
<1> HIDE DEF row
<1>6. /\ DOMAIN user' = Fields /\ user'.version = user.version
      /\ user'.contexts = With(user.contexts, ContextId, point)
      /\ user'.banks = user.banks /\ user'.sessions = user.sessions
      /\ user'.runs = With(user.runs, run', row)
  BY <1>1, <1>s DEF Fields
<1>7. /\ Table(user'.runs, RunRows)
      /\ DOMAIN user'.runs = DOMAIN user.runs \union {run'}
      /\ user'.runs[run'] = row
      /\ \A r \in DOMAIN user.runs \ {run'} : user'.runs[r] = user.runs[r]
  <2>1. Table(user.runs, RunRows)
    BY <1>2 DEF Formed
  <2>r. row \in RunRows
    BY <1>5
  <2>2. Extended(user.runs, RunRows, run', row, With(user.runs, run', row))
    BY <1>4, <2>1, <2>r, TableWith
  <2> QED
    BY <1>6, <2>2 DEF Extended
<1>8. /\ Grown(user.contexts, user'.contexts)
      /\ DOMAIN user'.contexts = DOMAIN user.contexts \union {ContextId}
      /\ user'.contexts[ContextId] = point
  BY <1>3, <1>6
<1>9. Formed(user')
  BY <1>2, <1>6, <1>7, <1>8 DEF Formed, Grown
<1>10. Listed(user')
  <2>1. ASSUME NEW r \in DOMAIN user'.runs PROVE Under(user'.runs[r], user'.contexts)
    <3>1. CASE r = run'
      <4>1. point # NoContext
        BY <1>2, HistoryAssumption DEF Points
      <4>2. user'.runs[r] = row
        BY <1>7, <3>1
      <4>3. row.point = point /\ row.context = ContextId
        BY <1>5
      <4>4. ContextId \in DOMAIN user'.contexts /\ user'.contexts[ContextId] = point
        BY <1>8
      <4> QED
        BY <4>1, <4>2, <4>3, <4>4 DEF Under
    <3>2. CASE r # run'
      BY <1>2, <1>7, <1>8, <3>2, UnderGrown DEF Listed
    <3> QED
      BY <3>1, <3>2
  <2>2. ASSUME NEW s \in DOMAIN user'.sessions PROVE Under(user'.sessions[s], user'.contexts)
    BY <1>2, <1>6, <1>8, UnderGrown DEF Listed
  <2> QED
    BY <2>1, <2>2 DEF Listed
<1>11. Distinct(user') /\ Retired(user')
  BY <1>2, <1>6, <1>8, SameContracts DEF Distinct, Grown
<1>12. Credited(user) => Credited(user')
  BY <1>2, <1>6, <1>8, CreditGrown
<1>13. Sound(user)' /\ Sound(root)' /\ Credited(root)' /\ (Credited(user) => Credited(user)')
  BY <1>1, <1>9, <1>10, <1>11, <1>12 DEF HistoryInv, Sound
<1>14. Started'
  BY <1>1, <1>2, <1>4, <1>6 DEF HistoryInv, Started
<1>15. Numbered'
  <2>1. Max({ids.contexts, ContextId}) \in Nat /\ ids.contexts <= Max({ids.contexts, ContextId})
        /\ ContextId <= Max({ids.contexts, ContextId})
    BY <1>2, <1>3, LargerOf
  <2>2. ids' = [ids EXCEPT !.runs = run', !.contexts = Max({ids.contexts, ContextId})]
    BY <1>1
  <2>3. /\ ids' \in [contexts : Nat, runs : Nat, sessions : Nat]
        /\ ids'.contexts = Max({ids.contexts, ContextId})
        /\ ids'.runs = ids.runs + 1 /\ ids'.sessions = ids.sessions
    BY <1>1, <1>2, <1>4, <2>1, <2>2
  <2>4. \A c \in DOMAIN user'.contexts : c <= ids'.contexts
    <3> SUFFICES ASSUME NEW c \in DOMAIN user'.contexts PROVE c <= ids'.contexts
      OBVIOUS
    <3>1. CASE c = ContextId
      BY <2>1, <2>3, <3>1
    <3>2. CASE c \in DOMAIN user.contexts
      <4>1. c \in Nat /\ c <= ids.contexts
        BY <1>2, <3>2, TableIds DEF HistoryInv, Numbered, Formed
      <4> QED
        BY <1>2, <2>1, <2>3, <4>1
    <3> QED
      BY <1>8, <3>1, <3>2
  <2>5. \A r \in DOMAIN user'.runs : r <= ids'.runs
    <3> SUFFICES ASSUME NEW r \in DOMAIN user'.runs PROVE r <= ids'.runs
      OBVIOUS
    <3>1. CASE r = run'
      BY <1>1, <1>2, <2>3, <3>1
    <3>2. CASE r \in DOMAIN user.runs
      <4>1. r \in Nat /\ r <= ids.runs
        BY <1>2, <3>2, TableIds DEF HistoryInv, Numbered, Formed
      <4> QED
        BY <1>2, <2>3, <4>1
    <3> QED
      BY <1>7, <3>1, <3>2
  <2>6. \A s \in DOMAIN user'.sessions : s <= ids'.sessions
    BY <1>6, <2>3 DEF HistoryInv, Numbered
  <2> QED
    BY <2>3, <2>4, <2>5, <2>6 DEF Numbered
<1>16. HeldSession' /\ AtHome' /\ pc' # "rename"
  BY <1>1 DEF HeldSession, AtHome
<1>17. Recovered'
  <2>1. Running(user) \subseteq {NoContext}
    BY <1>1 DEF HistoryInv, Recovered
  <2>2. \A r \in DOMAIN user.runs : r # NoContext
    BY <1>2, TableIds, HistoryAssumption DEF Formed
  <2>3. \A r \in DOMAIN user.runs : user.runs[r].status # "running"
    BY <2>1, <2>2 DEF Running
  <2>4. Running(user)' \subseteq {run'}
    BY <1>7, <2>3 DEF Running
  <2> QED
    BY <1>1, <2>4 DEF Recovered
<1>18. KeepsGoing(user, user')
  BY <1>6, <1>7 DEF KeepsGoing, Running, Unfinished
<1> QED
  BY <1>13, <1>14, <1>15, <1>16, <1>17, <1>18 DEF HistoryInv, Evidence

\* create_tuner_session
LEMMA StartTunerKeeps ==
  ASSUME HistoryInv, StartTuner
  PROVE  HistoryInv' /\ KeepsGoing(user, user') /\ (Evidence => Evidence')
<1> DEFINE row == [context |-> ContextId, status |-> "unfinished", contract |-> Contract,
                   origin |-> <<"user", session'>>, point |-> point, legacy |-> FALSE]
<1>1. /\ pc = "up" /\ session = NoContext /\ run = NoContext
      /\ session' = ids.sessions + 1
      /\ user' = [user EXCEPT !.contexts = With(@, ContextId, point),
                              !.sessions = With(@, session', row)]
      /\ ids' = [ids EXCEPT !.sessions = session', !.contexts = Max({@, ContextId})]
      /\ UNCHANGED <<root, pc, point, run>>
  BY Zenon DEF StartTuner
<1>2. /\ Formed(user) /\ Listed(user) /\ Distinct(user) /\ Retired(user)
      /\ user.version = Latest /\ point \in Points
      /\ ids \in [contexts : Nat, runs : Nat, sessions : Nat]
  BY <1>1 DEF HistoryInv, Sound, Started, Numbered
<1>s. DOMAIN user = Fields
  BY <1>2 DEF Formed
<1>3. /\ Grown(user.contexts, With(user.contexts, ContextId, point))
      /\ DOMAIN With(user.contexts, ContextId, point) = DOMAIN user.contexts \union {ContextId}
      /\ With(user.contexts, ContextId, point)[ContextId] = point
      /\ ContextId \in Nat \ {0} /\ ContextId # NoContext
  BY <1>2, ContextReady, Zenon
<1>4. session' \in Nat \ {0}
  BY <1>1, <1>2
<1>5. /\ row \in SessionRows /\ row.context = ContextId /\ row.point = point
      /\ row.status = "unfinished" /\ row.contract = Contract /\ row.legacy = FALSE
  <2>1. <<"user", session'>> \in {"user", "root"} \X Nat
    BY <1>4
  <2> QED
    BY <1>2, <1>3, <2>1 DEF SessionRows
<1> HIDE DEF row
<1>6. /\ DOMAIN user' = Fields /\ user'.version = user.version
      /\ user'.contexts = With(user.contexts, ContextId, point)
      /\ user'.banks = user.banks /\ user'.runs = user.runs
      /\ user'.sessions = With(user.sessions, session', row)
  BY <1>1, <1>s DEF Fields
<1>7. /\ Table(user'.sessions, SessionRows)
      /\ DOMAIN user'.sessions = DOMAIN user.sessions \union {session'}
      /\ user'.sessions[session'] = row
      /\ \A s \in DOMAIN user.sessions \ {session'} : user'.sessions[s] = user.sessions[s]
  <2>1. Table(user.sessions, SessionRows)
    BY <1>2 DEF Formed
  <2>r. row \in SessionRows
    BY <1>5
  <2>2. Extended(user.sessions, SessionRows, session', row, With(user.sessions, session', row))
    BY <1>4, <2>1, <2>r, TableWith
  <2> QED
    BY <1>6, <2>2 DEF Extended
<1>8. /\ Grown(user.contexts, user'.contexts)
      /\ DOMAIN user'.contexts = DOMAIN user.contexts \union {ContextId}
      /\ user'.contexts[ContextId] = point
  BY <1>3, <1>6
<1>9. Formed(user')
  BY <1>2, <1>6, <1>7, <1>8 DEF Formed, Grown
<1>10. Listed(user')
  <2>1. ASSUME NEW s \in DOMAIN user'.sessions PROVE Under(user'.sessions[s], user'.contexts)
    <3>1. CASE s = session'
      <4>1. point # NoContext
        BY <1>2, HistoryAssumption DEF Points
      <4>2. user'.sessions[s] = row
        BY <1>7, <3>1
      <4>3. row.point = point /\ row.context = ContextId
        BY <1>5
      <4>4. ContextId \in DOMAIN user'.contexts /\ user'.contexts[ContextId] = point
        BY <1>8
      <4> QED
        BY <4>1, <4>2, <4>3, <4>4 DEF Under
    <3>2. CASE s # session'
      BY <1>2, <1>7, <1>8, <3>2, UnderGrown DEF Listed
    <3> QED
      BY <3>1, <3>2
  <2>2. ASSUME NEW r \in DOMAIN user'.runs PROVE Under(user'.runs[r], user'.contexts)
    BY <1>2, <1>6, <1>8, UnderGrown DEF Listed
  <2> QED
    BY <2>1, <2>2 DEF Listed
<1>11. Distinct(user')
  BY <1>2, <1>6, <1>8 DEF Distinct, Grown
<1>r. Retired(user')
  <2> SUFFICES ASSUME NEW s \in DOMAIN user'.sessions, user'.sessions[s].legacy
               PROVE  user'.sessions[s].contract = 0
    BY DEF Retired
  <2>1. s # session'
    BY <1>5, <1>7
  <2>2. s \in DOMAIN user.sessions /\ user'.sessions[s] = user.sessions[s]
    BY <1>7, <2>1
  <2>3. user.version >= 16
    BY <1>2 DEF Latest
  <2> QED
    BY <1>2, <2>2, <2>3, Zenon DEF Retired
<1>12. Credited(user) => Credited(user')
  BY <1>2, <1>6, <1>8, CreditGrown
<1>13. Sound(user)' /\ Sound(root)' /\ Credited(root)' /\ (Credited(user) => Credited(user)')
  BY <1>1, <1>9, <1>10, <1>11, <1>r, <1>12 DEF HistoryInv, Sound
<1>14. Started'
  BY <1>1, <1>2, <1>4, <1>6 DEF HistoryInv, Started
<1>15. Numbered'
  <2>1. Max({ids.contexts, ContextId}) \in Nat /\ ids.contexts <= Max({ids.contexts, ContextId})
        /\ ContextId <= Max({ids.contexts, ContextId})
    BY <1>2, <1>3, LargerOf
  <2>2. ids' = [ids EXCEPT !.sessions = session', !.contexts = Max({ids.contexts, ContextId})]
    BY <1>1
  <2>3. /\ ids' \in [contexts : Nat, runs : Nat, sessions : Nat]
        /\ ids'.contexts = Max({ids.contexts, ContextId})
        /\ ids'.sessions = ids.sessions + 1 /\ ids'.runs = ids.runs
    BY <1>1, <1>2, <1>4, <2>1, <2>2
  <2>4. \A c \in DOMAIN user'.contexts : c <= ids'.contexts
    <3> SUFFICES ASSUME NEW c \in DOMAIN user'.contexts PROVE c <= ids'.contexts
      OBVIOUS
    <3>1. CASE c = ContextId
      BY <2>1, <2>3, <3>1
    <3>2. CASE c \in DOMAIN user.contexts
      <4>1. c \in Nat /\ c <= ids.contexts
        BY <1>2, <3>2, TableIds DEF HistoryInv, Numbered, Formed
      <4> QED
        BY <1>2, <2>1, <2>3, <4>1
    <3> QED
      BY <1>8, <3>1, <3>2
  <2>5. \A s \in DOMAIN user'.sessions : s <= ids'.sessions
    <3> SUFFICES ASSUME NEW s \in DOMAIN user'.sessions PROVE s <= ids'.sessions
      OBVIOUS
    <3>1. CASE s = session'
      BY <1>1, <1>2, <2>3, <3>1
    <3>2. CASE s \in DOMAIN user.sessions
      <4>1. s \in Nat /\ s <= ids.sessions
        BY <1>2, <3>2, TableIds DEF HistoryInv, Numbered, Formed
      <4> QED
        BY <1>2, <2>3, <4>1
    <3> QED
      BY <1>7, <3>1, <3>2
  <2>6. \A r \in DOMAIN user'.runs : r <= ids'.runs
    BY <1>6, <2>3 DEF HistoryInv, Numbered
  <2> QED
    BY <2>3, <2>4, <2>5, <2>6 DEF Numbered
<1>16. HeldSession' /\ AtHome' /\ pc' # "rename"
  BY <1>1, <1>5, <1>7 DEF HeldSession, AtHome
<1>17. Recovered'
  BY <1>1, <1>6 DEF HistoryInv, Recovered, Running
<1>18. KeepsGoing(user, user')
  BY <1>6, <1>7 DEF KeepsGoing, Running, Unfinished
<1> QED
  BY <1>13, <1>14, <1>15, <1>16, <1>17, <1>18 DEF HistoryInv, Evidence
-----------------------------------------------------------------------------
(* The history database: what a test and the tuner write later *)

\* Put changes one status.
LEMMA StatusPut ==
  ASSUME NEW t, NEW id \in DOMAIN t, NEW x
  PROVE  /\ DOMAIN Put(t, id, "status", x) = DOMAIN t
         /\ Put(t, id, "status", x)[id] = [t[id] EXCEPT !.status = x]
         /\ \A i \in DOMAIN t \ {id} : Put(t, id, "status", x)[i] = t[i]
BY DEF Put

\* finish_run
LEMMA FinishTestKeeps ==
  ASSUME HistoryInv, FinishTest
  PROVE  HistoryInv' /\ KeepsGoing(user, user') /\ (Evidence => Evidence')
<1>1. /\ pc = "up" /\ run # NoContext /\ run' = NoContext
      /\ UNCHANGED <<root, pc, point, session, ids>>
  BY DEF FinishTest
<1>2. /\ Formed(user) /\ Listed(user) /\ Distinct(user) /\ Retired(user)
      /\ user.version = Latest
  BY <1>1 DEF HistoryInv, Sound, Started
<1>s. DOMAIN user = Fields
  BY <1>2 DEF Formed
<1>3. Running(user) \subseteq {run}
  BY <1>1 DEF HistoryInv, Recovered
<1>4. CASE run \notin Running(user)
  <2>1. user' = user /\ Running(user) = {}
    BY <1>3, <1>4 DEF FinishTest
  <2>2. Sound(user)' /\ Sound(root)' /\ Credited(root)' /\ (Credited(user) => Credited(user)')
    BY <1>1, <2>1 DEF HistoryInv
  <2>3. Started' /\ Numbered'
    BY <1>1, <1>2, <2>1 DEF HistoryInv, Started, Numbered
  <2>4. HeldSession' /\ (AtHome => AtHome') /\ pc' # "rename"
    BY <1>1, <2>1 DEF HistoryInv, HeldSession, AtHome
  <2>5. Recovered'
    BY <1>1, <2>1 DEF Recovered, Running
  <2>6. KeepsGoing(user, user')
    BY <2>1 DEF KeepsGoing, Running, Unfinished
  <2> QED
    BY <2>2, <2>3, <2>4, <2>5, <2>6 DEF HistoryInv, Evidence
<1>5. CASE run \in Running(user)
  <2>1. user' = [user EXCEPT !.runs = Put(user.runs, run, "status", "ended")]
    BY <1>5 DEF FinishTest
  <2>2. run \in DOMAIN user.runs
    BY <1>5 DEF Running
  <2>3. /\ DOMAIN user' = Fields /\ user'.version = user.version
        /\ user'.contexts = user.contexts /\ user'.banks = user.banks
        /\ user'.sessions = user.sessions
        /\ user'.runs = Put(user.runs, run, "status", "ended")
    BY <1>s, <2>1 DEF Fields
  <2>4. /\ DOMAIN user'.runs = DOMAIN user.runs
        /\ user'.runs[run] = [user.runs[run] EXCEPT !.status = "ended"]
        /\ \A r \in DOMAIN user.runs \ {run} : user'.runs[r] = user.runs[r]
    BY <2>2, <2>3, StatusPut
  <2>5. /\ user'.runs[run] \in RunRows /\ user'.runs[run].status = "ended"
        /\ user'.runs[run].context = user.runs[run].context
        /\ user'.runs[run].point = user.runs[run].point
    <3>1. user.runs[run] \in RunRows
      BY <1>2, <2>2, TableIds DEF Formed
    <3> QED
      BY <2>4, <3>1, RunEnded, ZenonT(60)
  <2>6. ASSUME NEW r \in DOMAIN user.runs
        PROVE  user'.runs[r] \in RunRows /\ Under(user'.runs[r], user'.contexts)
    <3>1. Under(user.runs[r], user.contexts) /\ user.runs[r] \in RunRows
      BY <1>2, TableIds DEF Listed, Formed
    <3>2. CASE r = run
      BY <2>3, <2>5, <3>1, <3>2 DEF Under
    <3>3. CASE r # run
      BY <2>3, <2>4, <3>1, <3>3
    <3> QED
      BY <3>2, <3>3
  <2>7. user'.runs \in [DOMAIN user.runs -> RunRows]
    BY <2>3, <2>4, <2>6 DEF Put
  <2>8. Table(user'.runs, RunRows)
    BY <1>2, <2>4, <2>7, TableMapped DEF Formed
  <2>9. Formed(user')
    BY <1>2, <2>3, <2>8 DEF Formed
  <2>10. Listed(user')
    BY <1>2, <2>3, <2>4, <2>6 DEF Listed
  <2>11. Distinct(user') /\ Retired(user') /\ (Credited(user) => Credited(user'))
    BY <1>2, <2>3, SameCredit, SameContracts DEF Distinct
  <2>12. Sound(user)' /\ Sound(root)' /\ Credited(root)' /\ (Credited(user) => Credited(user)')
    BY <1>1, <2>9, <2>10, <2>11 DEF HistoryInv, Sound
  <2>13. Started'
    BY <1>1, <1>2, <2>3 DEF HistoryInv, Started
  <2>14. Numbered'
    BY <1>1, <2>3, <2>4 DEF HistoryInv, Numbered
  <2>15. HeldSession' /\ (AtHome => AtHome') /\ pc' # "rename"
    BY <1>1, <2>3 DEF HistoryInv, HeldSession, AtHome
  <2>16. Recovered'
    <3>1. \A r \in DOMAIN user'.runs : user'.runs[r].status # "running"
      BY <1>3, <2>4, <2>5 DEF Running
    <3> QED
      BY <1>1, <3>1 DEF Recovered, Running
  <2>17. KeepsGoing(user, user')
    BY <2>3, <2>4 DEF KeepsGoing, Running, Unfinished
  <2> QED
    BY <2>12, <2>13, <2>14, <2>15, <2>16, <2>17 DEF HistoryInv, Evidence
<1> QED
  BY <1>4, <1>5

\* What writing the status of one session leaves as it is.
Turned(s, x) ==
    /\ Sound(user') /\ Numbered' /\ Recovered'
    /\ Credited(user) => Credited(user')
    /\ KeepsGoing(user, user')
    /\ user'.version = user.version /\ s \in DOMAIN user'.sessions
    /\ user'.sessions[s].status = x
    /\ user'.sessions[s].contract = user.sessions[s].contract
    /\ user'.sessions[s].point = user.sessions[s].point

\* update_tuner_session_status: the row of the session, and nothing else.
LEMMA SessionPut ==
  ASSUME HistoryInv, pc = "up", UNCHANGED <<pc, run, ids>>, NEW s \in DOMAIN user.sessions,
         NEW x \in {"unfinished", "quarantined", "profile_quarantined", "completed"},
         user' = [user EXCEPT !.sessions = Put(user.sessions, s, "status", x)]
  PROVE  Turned(s, x)
<1>2. /\ Formed(user) /\ Listed(user) /\ Distinct(user) /\ Retired(user)
      /\ user.version = Latest
  BY DEF HistoryInv, Sound, Started
<1>s. DOMAIN user = Fields
  BY <1>2 DEF Formed
<1>3. /\ DOMAIN user' = Fields /\ user'.version = user.version
      /\ user'.contexts = user.contexts /\ user'.banks = user.banks
      /\ user'.runs = user.runs
      /\ user'.sessions = Put(user.sessions, s, "status", x)
  BY <1>s DEF Fields
<1>4. /\ DOMAIN user'.sessions = DOMAIN user.sessions
      /\ user'.sessions[s] = [user.sessions[s] EXCEPT !.status = x]
      /\ \A i \in DOMAIN user.sessions \ {s} : user'.sessions[i] = user.sessions[i]
  BY <1>3, StatusPut
<1>5. /\ user'.sessions[s] \in SessionRows /\ user'.sessions[s].status = x
      /\ user'.sessions[s].context = user.sessions[s].context
      /\ user'.sessions[s].contract = user.sessions[s].contract
      /\ user'.sessions[s].point = user.sessions[s].point
      /\ user'.sessions[s].legacy = user.sessions[s].legacy
  <2>1. user.sessions[s] \in SessionRows
    BY <1>2, TableIds DEF Formed
  <2>2. /\ [user.sessions[s] EXCEPT !.status = x] \in SessionRows
        /\ [user.sessions[s] EXCEPT !.status = x].status = x
        /\ [user.sessions[s] EXCEPT !.status = x].context = user.sessions[s].context
        /\ [user.sessions[s] EXCEPT !.status = x].contract = user.sessions[s].contract
        /\ [user.sessions[s] EXCEPT !.status = x].point = user.sessions[s].point
        /\ [user.sessions[s] EXCEPT !.status = x].legacy = user.sessions[s].legacy
    BY <2>1, SessionTurned, Zenon
  <2> QED
    BY <1>4, <2>2, Zenon
<1>6. ASSUME NEW i \in DOMAIN user.sessions
      PROVE  user'.sessions[i] \in SessionRows /\ Under(user'.sessions[i], user'.contexts)
  <2>1. Under(user.sessions[i], user.contexts) /\ user.sessions[i] \in SessionRows
    BY <1>2, TableIds DEF Listed, Formed
  <2>2. CASE i = s
    BY <1>3, <1>5, <2>1, <2>2 DEF Under
  <2>3. CASE i # s
    BY <1>3, <1>4, <2>1, <2>3
  <2> QED
    BY <2>2, <2>3
<1>7. user'.sessions \in [DOMAIN user.sessions -> SessionRows]
  BY <1>3, <1>4, <1>6 DEF Put
<1>8. Table(user'.sessions, SessionRows)
  BY <1>2, <1>4, <1>7, TableMapped DEF Formed
<1>9. Formed(user')
  BY <1>2, <1>3, <1>8 DEF Formed
<1>10. Listed(user')
  BY <1>2, <1>3, <1>4, <1>6 DEF Listed
<1>11. Distinct(user') /\ (Credited(user) => Credited(user'))
  BY <1>2, <1>3, SameCredit, ZenonT(60) DEF Distinct
<1>12. Retired(user')
  <2> SUFFICES ASSUME NEW i \in DOMAIN user'.sessions, user'.sessions[i].legacy
               PROVE  user'.sessions[i].contract = 0
    BY DEF Retired
  <2>1. /\ i \in DOMAIN user.sessions
        /\ user'.sessions[i].legacy = user.sessions[i].legacy
        /\ user'.sessions[i].contract = user.sessions[i].contract
    <3>1. CASE i = s
      BY <1>5, <3>1, Zenon
    <3>2. CASE i # s
      BY <1>4, <3>2
    <3> QED
      BY <3>1, <3>2
  <2>2. user.version >= 16
    BY <1>2 DEF Latest
  <2>3. user.sessions[i].legacy
    BY <2>1, Zenon
  <2> QED
    BY <1>2, <2>1, <2>2, <2>3, Zenon DEF Retired
<1>13. Numbered' /\ Recovered'
  BY <1>3, <1>4 DEF HistoryInv, Numbered, Recovered, Running
<1>14. KeepsGoing(user, user')
  BY <1>3, <1>4 DEF KeepsGoing, Running, Unfinished
<1> QED
  BY <1>3, <1>4, <1>5, <1>9, <1>10, <1>11, <1>12, <1>13, <1>14 DEF Sound, Turned

\* get_tuner_session(resumable=True); a session resumed where it began is at
\* home there.
LEMMA ResumeTunerKeeps ==
  ASSUME HistoryInv, ResumeTuner
  PROVE  HistoryInv' /\ KeepsGoing(user, user') /\ (Elsewhere = FALSE /\ Evidence => Evidence')
<1>1. PICK s \in DOMAIN user.sessions :
          /\ Resumable(s)
          /\ Elsewhere \/ user.sessions[s].point = point
          /\ session' = s
          /\ user' = [user EXCEPT !.sessions = Put(@, s, "status", "unfinished")]
  BY Zenon DEF ResumeTuner
<1>2. pc = "up" /\ run = NoContext /\ UNCHANGED <<root, pc, point, run, ids>>
  BY DEF ResumeTuner
<1>3. Turned(s, "unfinished")
  BY <1>1, <1>2, SessionPut
<1>4. user.version = Latest /\ user.sessions[s] \in SessionRows /\ s \in Nat
  BY <1>2, TableIds DEF HistoryInv, Started, Sound, Formed
<1>5. user.sessions[s].contract = Contract
  BY <1>1, <1>4 DEF Resumable, SessionRows, Contract
<1>6. Sound(user)' /\ Sound(root)' /\ Credited(root)' /\ (Credited(user) => Credited(user)')
  BY <1>2, <1>3 DEF HistoryInv, Turned
<1>7. Started'
  BY <1>1, <1>2, <1>3, <1>4 DEF HistoryInv, Started, Turned
<1>8. HeldSession' /\ pc' # "rename"
  BY <1>1, <1>2, <1>3, <1>5 DEF HeldSession, Turned
<1>9. Elsewhere = FALSE => AtHome'
  BY <1>1, <1>2, <1>3 DEF AtHome, Turned
<1>10. Numbered' /\ Recovered' /\ KeepsGoing(user, user')
  BY <1>3 DEF Turned
<1> QED
  BY <1>6, <1>7, <1>8, <1>9, <1>10 DEF HistoryInv, Evidence

\* update_tuner_session_status at the end of a session
LEMMA EndTunerKeeps ==
  ASSUME HistoryInv, NEW x \in {"profile_quarantined", "completed"}, EndTuner(x)
  PROVE  HistoryInv' /\ KeepsGoing(user, user') /\ (Evidence => Evidence')
<1>1. /\ user' = [user EXCEPT !.sessions = Put(user.sessions, session, "status", x)]
      /\ session # NoContext /\ session' = NoContext
      /\ pc = "up" /\ UNCHANGED <<root, pc, point, run, ids>>
  BY DEF EndTuner
<1>2. session \in DOMAIN user.sessions /\ user.version = Latest
  BY <1>1 DEF HistoryInv, HeldSession, Started
<1>3. Turned(session, x)
  BY <1>1, <1>2, SessionPut
<1>4. Sound(user)' /\ Sound(root)' /\ Credited(root)' /\ (Credited(user) => Credited(user)')
  BY <1>1, <1>3 DEF HistoryInv, Turned
<1>5. Started'
  BY <1>1, <1>2, <1>3 DEF HistoryInv, Started, Turned
<1>6. HeldSession' /\ AtHome' /\ pc' # "rename"
  BY <1>1 DEF HeldSession, AtHome
<1>7. Numbered' /\ Recovered' /\ KeepsGoing(user, user')
  BY <1>3 DEF Turned
<1> QED
  BY <1>4, <1>5, <1>6, <1>7 DEF HistoryInv, Evidence

\* Steps of the tuner that write the banks only.
LEMMA BanksStep ==
  ASSUME HistoryInv, pc = "up", UNCHANGED <<root, pc, point, run, session, ids>>,
         NEW b, user' = [user EXCEPT !.banks = b], b \in [DOMAIN b -> [Points -> Nat]]
  PROVE  /\ HistoryInv' /\ KeepsGoing(user, user') /\ (AtHome => AtHome')
         /\ user'.version = user.version
         /\ user'.contexts = user.contexts /\ user'.banks = b
<1>1. Formed(user) /\ Listed(user) /\ Distinct(user) /\ Retired(user)
  BY DEF HistoryInv, Sound
<1>2. DOMAIN user = Fields
  BY <1>1 DEF Formed
<1>3. /\ DOMAIN user' = Fields /\ user'.version = user.version
      /\ user'.contexts = user.contexts /\ user'.banks = b
      /\ user'.runs = user.runs /\ user'.sessions = user.sessions
  BY <1>2 DEF Fields
<1>4. Formed(user')
  BY <1>1, <1>3 DEF Formed
<1>5. Listed(user') /\ Distinct(user') /\ Retired(user')
  BY <1>1, <1>3, SameContracts, ZenonT(60) DEF Listed, Distinct
<1>6. Sound(user)' /\ Sound(root)' /\ Credited(root)'
  BY <1>4, <1>5 DEF HistoryInv, Sound
<1>7. Started' /\ Numbered'
  BY <1>3 DEF HistoryInv, Started, Numbered
<1>8. HeldSession' /\ (AtHome => AtHome') /\ pc' # "rename"
  BY <1>3 DEF HistoryInv, HeldSession, AtHome
<1>9. Recovered'
  BY <1>3 DEF HistoryInv, Recovered, Running
<1>10. KeepsGoing(user, user')
  BY <1>3 DEF KeepsGoing, Running, Unfinished
<1> QED
  BY <1>3, <1>6, <1>7, <1>8, <1>9, <1>10 DEF HistoryInv

\* One more unit at one point.
LEMMA OneMoreThere ==
  ASSUME NEW bank \in [Points -> Nat], NEW p \in Points
  PROVE  /\ OneMore(bank, p) \in [Points -> Nat]
         /\ \A q \in Points \ {p} : OneMore(bank, p)[q] = bank[q]
BY DEF OneMore

\* What is banked at a context of the user's database is a bank.
LEMMA BankTyped ==
  ASSUME NEW db, db.banks \in [DOMAIN db.banks -> [Points -> Nat]], NEW c
  PROVE  /\ BankOf(db, c) \in [Points -> Nat]
         /\ c \in DOMAIN db.banks => BankOf(db, c) = db.banks[c]
         /\ c \notin DOMAIN db.banks => \A p \in Points : BankOf(db, c)[p] = 0
<1>1. CASE c \in DOMAIN db.banks
  BY <1>1 DEF BankOf
<1>2. CASE c \notin DOMAIN db.banks
  BY <1>2 DEF BankOf, Unmeasured
<1> QED
  BY <1>1, <1>2

\* bank_regime_time: what is banked at home was measured there.
LEMMA BankTimeKeeps ==
  ASSUME HistoryInv, BankTime
  PROVE  HistoryInv' /\ KeepsGoing(user, user') /\ (Evidence => Evidence')
<1> DEFINE c == user.sessions[session].context
           more == OneMore(BankOf(user, c), point)
           b == With(user.banks, c, more)
<1>1. /\ pc = "up" /\ session # NoContext
      /\ user' = [user EXCEPT !.banks = b]
      /\ UNCHANGED <<root, pc, point, run, session, ids>>
  BY DEF BankTime
<1>2. Formed(user) /\ Listed(user) /\ session \in DOMAIN user.sessions /\ point \in Points
  BY <1>1 DEF HistoryInv, Sound, HeldSession, Started
<1>3. user.banks \in [DOMAIN user.banks -> [Points -> Nat]]
  BY <1>2 DEF Formed
<1>4. BankOf(user, c) \in [Points -> Nat]
  BY <1>3, BankTyped
<1>5. more \in [Points -> Nat] /\ \A q \in Points \ {point} : more[q] = BankOf(user, c)[q]
  BY <1>2, <1>4, OneMoreThere
<1> HIDE DEF more
<1>6. /\ DOMAIN b = DOMAIN user.banks \union {c} /\ b[c] = more
      /\ \A d \in DOMAIN user.banks \ {c} : b[d] = user.banks[d]
  BY DEF With
<1>7. b \in [DOMAIN b -> [Points -> Nat]]
  BY <1>3, <1>5 DEF With
<1> HIDE DEF b
<1>8. /\ HistoryInv' /\ KeepsGoing(user, user') /\ (AtHome => AtHome')
      /\ user'.version = user.version
      /\ user'.contexts = user.contexts /\ user'.banks = b
  BY <1>1, <1>7, BanksStep
<1>9. ASSUME Credited(user), AtHome PROVE Credited(user')
  <2>1. user.version = Latest /\ ~(Latest < 20)
    BY <1>1 DEF HistoryInv, Started, Latest
  <2>2. user.sessions[session].point = point
    BY <1>1, <1>9 DEF AtHome
  <2>3. c \in DOMAIN user.contexts /\ user.contexts[c] = point
    <3>1. point # NoContext
      BY <1>2, HistoryAssumption DEF Points
    <3>2. Under(user.sessions[session], user.contexts)
      BY <1>2 DEF Listed
    <3> QED
      BY <2>2, <3>1, <3>2 DEF Under
  <2> HIDE DEF c
  <2>4. \A d \in DOMAIN user.banks :
            /\ d \in DOMAIN user.contexts
            /\ \A p \in Points : user.banks[d][p] > 0 => p = user.contexts[d]
    BY <1>9, <2>1 DEF Credited
  <2>5. ASSUME NEW d \in DOMAIN b
        PROVE  /\ d \in DOMAIN user.contexts
               /\ \A p \in Points : b[d][p] > 0 => p = user.contexts[d]
    <3>1. CASE d # c
      BY <1>6, <2>4, <3>1
    <3>2. CASE d = c
      <4> SUFFICES ASSUME NEW p \in Points, more[p] > 0, p # point PROVE FALSE
        BY <1>6, <2>3, <3>2
      <4>1. BankOf(user, c)[p] > 0
        BY <1>5
      <4>2. c \in DOMAIN user.banks /\ user.banks[c][p] > 0
        BY <1>3, <4>1, BankTyped
      <4> QED
        BY <2>3, <2>4, <4>2
    <3> QED
      BY <3>1, <3>2
  <2> QED
    BY <1>8, <2>1, <2>5 DEF Credited
<1> QED
  BY <1>8, <1>9 DEF Evidence

\* clear_regime_banks
LEMMA ClearBankKeeps ==
  ASSUME HistoryInv, ClearBank
  PROVE  HistoryInv' /\ KeepsGoing(user, user') /\ (Evidence => Evidence')
<1> DEFINE b == Without(user.banks, {user.sessions[session].context})
<1>1. /\ pc = "up" /\ user' = [user EXCEPT !.banks = b]
      /\ UNCHANGED <<root, pc, point, run, session, ids>>
  BY DEF ClearBank
<1>2. user.banks \in [DOMAIN user.banks -> [Points -> Nat]]
  BY DEF HistoryInv, Sound, Formed
<1>3. /\ b \in [DOMAIN b -> [Points -> Nat]]
      /\ DOMAIN b \subseteq DOMAIN user.banks
      /\ \A d \in DOMAIN b : b[d] = user.banks[d]
  BY <1>2 DEF Without, Restrict
<1> HIDE DEF b
<1>4. /\ HistoryInv' /\ KeepsGoing(user, user') /\ (AtHome => AtHome')
      /\ user'.version = user.version
      /\ user'.contexts = user.contexts /\ user'.banks = b
  BY <1>1, <1>3, BanksStep
<1>5. Credited(user) => Credited(user')
  <2>1. user.version = Latest /\ ~(Latest < 20)
    BY <1>1 DEF HistoryInv, Started, Latest
  <2> QED
    BY <1>3, <1>4, <2>1 DEF Credited
<1> QED
  BY <1>4, <1>5 DEF Evidence
-----------------------------------------------------------------------------
(* The history database: the adoption *)

\* The rank of a member among a finite set of ids.
LEMMA Ranked ==
  ASSUME NEW n \in Nat, NEW T \in SUBSET (1 .. n), NEW c \in T
  PROVE  /\ Cardinality(T) \in Nat
         /\ Cardinality({d \in T : d <= c}) \in Nat \ {0}
         /\ Cardinality({d \in T : d <= c}) <= Cardinality(T)
<1> DEFINE L == {d \in T : d <= c}
<1>1. IsFiniteSet(1 .. n)
  BY FS_Interval
<1>2. IsFiniteSet(T)
  BY <1>1, FS_Subset
<1>3. L \in SUBSET T /\ c \in L
  OBVIOUS
<1> HIDE DEF L
<1>4. IsFiniteSet(L) /\ Cardinality(L) <= Cardinality(T)
  BY <1>2, <1>3, FS_Subset
<1>5. Cardinality(T) \in Nat /\ Cardinality(L) \in Nat
  BY <1>2, <1>4, FS_CardinalityType
<1>6. Cardinality(L) # 0
  BY <1>3, <1>4, FS_EmptySet
<1>7. Cardinality(L) \in Nat \ {0}
  BY <1>5, <1>6
<1> QED
  BY <1>4, <1>5, <1>7 DEF L

\* Two members have different ranks.
LEMMA RanksDiffer ==
  ASSUME NEW n \in Nat, NEW T \in SUBSET (1 .. n), NEW c \in T, NEW e \in T, c < e
  PROVE  Cardinality({d \in T : d <= c}) # Cardinality({d \in T : d <= e})
<1> DEFINE L == {d \in T : d <= c}
           M == {d \in T : d <= e}
<1>1. IsFiniteSet(1 .. n)
  BY FS_Interval
<1>2. IsFiniteSet(T)
  BY <1>1, FS_Subset
<1>3. M \in SUBSET T /\ L \in SUBSET M /\ e \in M /\ e \notin L
  <2>1. \A d \in T : d \in Int /\ (d <= c => d <= e)
    OBVIOUS
  <2>2. e \in T /\ e <= e /\ ~(e <= c)
    OBVIOUS
  <2> QED
    BY <2>1, <2>2
<1> HIDE DEF L, M
<1>4. IsFiniteSet(M)
  BY <1>2, <1>3, FS_Subset
<1>5. Cardinality(M) = Cardinality(L) => M = L
  BY <1>3, <1>4, FS_Subset
<1>6. Cardinality(L) # Cardinality(M)
  BY <1>3, <1>5
<1> QED
  BY <1>6 DEF L, M

\* When the databases may be merged: both are current.
Mergeable ==
    /\ Sound(user) /\ Sound(root) /\ Credited(root) /\ Numbered
    /\ user.version = Latest /\ root.version = Latest

\* What is known of the contexts of both.
LEMMA BothContexts ==
  ASSUME Mergeable
  PROVE  /\ Table(user.contexts, Points) /\ Table(root.contexts, Points)
         /\ \A c, d \in DOMAIN user.contexts : user.contexts[c] = user.contexts[d] => c = d
         /\ \A c, d \in DOMAIN root.contexts : root.contexts[c] = root.contexts[d] => c = d
         /\ ids.contexts \in Nat
         /\ \A c \in DOMAIN user.contexts : c <= ids.contexts
BY DEF Mergeable, Sound, Formed, Distinct, Numbered, Latest

\* A context that is new here gets an id of its own.
LEMMA NewIds ==
  ASSUME Mergeable
  PROVE  /\ Unknown \subseteq DOMAIN root.contexts
         /\ \A c \in Unknown : Remapped(c) \in Nat /\ ids.contexts < Remapped(c)
         /\ \A c, d \in Unknown : Remapped(c) = Remapped(d) => c = d
         /\ \E m \in Nat : \A c \in Unknown : Remapped(c) <= m
<1> DEFINE Rank(c) == Cardinality({d \in Unknown : d <= c})
<1>1. Table(root.contexts, Points) /\ ids.contexts \in Nat
  BY BothContexts
<1>2. PICK n \in Nat : DOMAIN root.contexts \subseteq 1 .. n
  BY <1>1 DEF Table
<1>3. Unknown \subseteq DOMAIN root.contexts
  BY DEF Unknown
<1>4. Unknown \in SUBSET (1 .. n)
  BY <1>2, <1>3
<1>5. \A c \in Unknown : Remapped(c) = ids.contexts + Rank(c)
  BY <1>3 DEF Remapped
<1>6. \A c \in Unknown : /\ Cardinality(Unknown) \in Nat
                         /\ Rank(c) \in Nat \ {0}
                         /\ Rank(c) <= Cardinality(Unknown)
  BY <1>2, <1>4, Ranked
<1>r. \A c, e \in Unknown : c < e => Rank(c) # Rank(e)
  BY <1>2, <1>4, RanksDiffer
<1> HIDE DEF Rank
<1>7. \A c \in Unknown : Remapped(c) \in Nat /\ ids.contexts < Remapped(c)
  BY <1>1, <1>5, <1>6
<1>8. \A c, d \in Unknown : Remapped(c) = Remapped(d) => c = d
  <2> SUFFICES ASSUME NEW c \in Unknown, NEW e \in Unknown, Remapped(c) = Remapped(e), c < e
               PROVE  FALSE
    BY <1>4
  <2>1. Rank(c) # Rank(e)
    BY <1>r
  <2>2. Rank(c) \in Nat /\ Rank(e) \in Nat
    BY <1>6
  <2>3. /\ Remapped(c) = ids.contexts + Rank(c)
        /\ Remapped(e) = ids.contexts + Rank(e)
    BY <1>5
  <2>4. ids.contexts + Rank(c) = ids.contexts + Rank(e)
    BY <2>3, Zenon
  <2>5. \A k, a, b \in Nat : k + a = k + b => a = b
    OBVIOUS
  <2> QED
    BY <1>1, <2>1, <2>2, <2>4, <2>5, Zenon
<1>9. \E m \in Nat : \A c \in Unknown : Remapped(c) <= m
  <2>1. CASE Unknown = {}
    BY <2>1
  <2>2. CASE Unknown # {}
    <3>1. Cardinality(Unknown) \in Nat
      BY <1>6, <2>2
    <3>2. ids.contexts + Cardinality(Unknown) \in Nat
      BY <1>1, <3>1
    <3>3. \A c \in Unknown : Remapped(c) <= ids.contexts + Cardinality(Unknown)
      BY <1>1, <1>5, <1>6
    <3> QED
      BY <3>2, <3>3
  <2> QED
    BY <2>1, <2>2
<1> QED
  BY <1>3, <1>7, <1>8, <1>9

\* The contexts that come along.
NewContexts == [i \in {Remapped(c) : c \in Unknown} |->
                    root.contexts[CHOOSE c \in Unknown : Remapped(c) = i]]

\* Each keeps its point.
LEMMA NewContextsTable ==
  ASSUME Mergeable
  PROVE  /\ Table(NewContexts, Points)
         /\ DOMAIN NewContexts = {Remapped(c) : c \in Unknown}
         /\ \A c \in Unknown : NewContexts[Remapped(c)] = root.contexts[c]
<1>1. Unknown \subseteq DOMAIN root.contexts
  BY NewIds
<1>2. \A c \in Unknown : Remapped(c) \in Nat /\ ids.contexts < Remapped(c)
  BY NewIds
<1>3. \A c, d \in Unknown : Remapped(c) = Remapped(d) => c = d
  BY NewIds
<1>4. PICK m \in Nat : \A c \in Unknown : Remapped(c) <= m
  BY NewIds
<1>5. Table(root.contexts, Points) /\ ids.contexts \in Nat
  BY BothContexts
<1>6. DOMAIN NewContexts = {Remapped(c) : c \in Unknown}
  BY DEF NewContexts
<1>7. ASSUME NEW c \in Unknown PROVE NewContexts[Remapped(c)] = root.contexts[c]
  <2>1. (CHOOSE d \in Unknown : Remapped(d) = Remapped(c)) = c
    BY <1>3
  <2>2. Remapped(c) \in {Remapped(d) : d \in Unknown}
    OBVIOUS
  <2> QED
    BY <2>1, <2>2 DEF NewContexts
<1>8. \A i \in DOMAIN NewContexts : NewContexts[i] \in Points
  BY <1>1, <1>5, <1>6, <1>7 DEF Table
<1>9. DOMAIN NewContexts \subseteq 1 .. m
  BY <1>2, <1>4, <1>5, <1>6
<1>10. NewContexts \in [DOMAIN NewContexts -> Points]
  BY <1>8 DEF NewContexts
<1>11. Table(NewContexts, Points)
  BY <1>4, <1>9, <1>10 DEF Table
<1> QED
  BY <1>6, <1>7, <1>11

\* A context of the other database is here under the same point.
LEMMA ContextsMerged ==
  ASSUME Mergeable
  PROVE  /\ Grown(user.contexts, MergedContexts)
         /\ \A c \in DOMAIN root.contexts :
                /\ Remapped(c) \in DOMAIN MergedContexts
                /\ MergedContexts[Remapped(c)] = root.contexts[c]
<1>1. /\ Table(user.contexts, Points) /\ Table(root.contexts, Points)
      /\ \A c, d \in DOMAIN user.contexts : user.contexts[c] = user.contexts[d] => c = d
      /\ \A c, d \in DOMAIN root.contexts : root.contexts[c] = root.contexts[d] => c = d
      /\ ids.contexts \in Nat
      /\ \A c \in DOMAIN user.contexts : c <= ids.contexts
  BY BothContexts, Zenon
<1>2. /\ Table(NewContexts, Points)
      /\ DOMAIN NewContexts = {Remapped(c) : c \in Unknown}
      /\ \A c \in Unknown : NewContexts[Remapped(c)] = root.contexts[c]
  BY NewContextsTable, Zenon
<1>3. MergedContexts = Joined(NewContexts, user.contexts)
  BY DEF MergedContexts, NewContexts
<1>t. Table(NewContexts, Points) /\ Table(user.contexts, Points)
  BY <1>1, <1>2
<1> HIDE DEF NewContexts
<1>4. /\ Table(MergedContexts, Points)
      /\ DOMAIN MergedContexts = DOMAIN NewContexts \union DOMAIN user.contexts
      /\ \A i \in DOMAIN NewContexts : MergedContexts[i] = NewContexts[i]
      /\ \A i \in DOMAIN user.contexts \ DOMAIN NewContexts : MergedContexts[i] = user.contexts[i]
  <2>1. /\ Table(Joined(NewContexts, user.contexts), Points)
        /\ DOMAIN Joined(NewContexts, user.contexts) = DOMAIN NewContexts \union DOMAIN user.contexts
        /\ \A i \in DOMAIN NewContexts : Joined(NewContexts, user.contexts)[i] = NewContexts[i]
        /\ \A i \in DOMAIN user.contexts \ DOMAIN NewContexts :
               Joined(NewContexts, user.contexts)[i] = user.contexts[i]
    BY <1>t, TableJoined
  <2> QED
    BY <1>3, <2>1
<1>5. Unknown \subseteq DOMAIN root.contexts
  BY NewIds
<1>6. \A c \in Unknown : Remapped(c) \in Nat /\ ids.contexts < Remapped(c)
  BY NewIds
<1>7. DOMAIN NewContexts \intersect DOMAIN user.contexts = {}
  <2> SUFFICES ASSUME NEW i \in DOMAIN user.contexts, i \in DOMAIN NewContexts PROVE FALSE
    OBVIOUS
  <2>1. i \in Nat /\ i <= ids.contexts
    BY <1>1, TableIds
  <2>2. PICK c \in Unknown : i = Remapped(c)
    BY <1>2
  <2> QED
    BY <1>1, <1>6, <2>1, <2>2
<1>8. \A c \in DOMAIN user.contexts : MergedContexts[c] = user.contexts[c]
  BY <1>4, <1>7
<1>9. \A c \in Unknown : /\ Remapped(c) \in DOMAIN MergedContexts
                         /\ MergedContexts[Remapped(c)] = root.contexts[c]
  BY <1>2, <1>4
<1>10. \A c \in Unknown : \A d \in DOMAIN user.contexts : user.contexts[d] # root.contexts[c]
  <2> SUFFICES ASSUME NEW c \in Unknown
               PROVE  \A d \in DOMAIN user.contexts : user.contexts[d] # root.contexts[c]
    OBVIOUS
  <2>1. ContextAt(user, root.contexts[c]) = NoContext
    BY DEF Unknown
  <2> QED
    BY <1>1, <2>1, ContextMissing
<1>11. ASSUME NEW i \in DOMAIN MergedContexts, NEW j \in DOMAIN MergedContexts,
              MergedContexts[i] = MergedContexts[j]
       PROVE  i = j
  <2>1. CASE i \in DOMAIN user.contexts /\ j \in DOMAIN user.contexts
    BY <1>1, <1>8, <1>11, <2>1
  <2>2. CASE i \in DOMAIN NewContexts /\ j \in DOMAIN NewContexts
    <3>1. PICK c \in Unknown : i = Remapped(c)
      BY <1>2, <2>2
    <3>2. PICK d \in Unknown : j = Remapped(d)
      BY <1>2, <2>2
    <3>3. root.contexts[c] = root.contexts[d]
      BY <1>9, <1>11, <3>1, <3>2
    <3> QED
      BY <1>1, <1>5, <3>1, <3>2, <3>3
  <2>3. CASE i \in DOMAIN NewContexts /\ j \in DOMAIN user.contexts
    <3>1. PICK c \in Unknown : i = Remapped(c)
      BY <1>2, <2>3
    <3> QED
      BY <1>8, <1>9, <1>10, <1>11, <2>3, <3>1
  <2>4. CASE j \in DOMAIN NewContexts /\ i \in DOMAIN user.contexts
    <3>1. PICK c \in Unknown : j = Remapped(c)
      BY <1>2, <2>4
    <3> QED
      BY <1>8, <1>9, <1>10, <1>11, <2>4, <3>1
  <2> QED
    BY <1>4, <2>1, <2>2, <2>3, <2>4
<1>12. Grown(user.contexts, MergedContexts)
  BY <1>4, <1>8, <1>11 DEF Grown
<1>13. ASSUME NEW c \in DOMAIN root.contexts, c \notin Unknown
       PROVE  /\ Remapped(c) \in DOMAIN MergedContexts
              /\ MergedContexts[Remapped(c)] = root.contexts[c]
  <2>1. Remapped(c) = ContextAt(user, root.contexts[c])
    BY <1>13 DEF Remapped
  <2>2. ContextAt(user, root.contexts[c]) # NoContext
    BY <1>13 DEF Unknown
  <2>3. PICK d \in DOMAIN user.contexts : user.contexts[d] = root.contexts[c]
    BY <1>1, <2>2, ContextMissing
  <2>4. /\ ContextAt(user, root.contexts[c]) \in DOMAIN user.contexts
        /\ user.contexts[ContextAt(user, root.contexts[c])] = root.contexts[c]
    BY <1>1, <2>3, ContextFound
  <2> QED
    BY <1>4, <1>8, <2>1, <2>4
<1> QED
  BY <1>9, <1>12, <1>13

\* Contexts that differ there differ here.
LEMMA RemapsApart ==
  ASSUME Mergeable, NEW c \in DOMAIN root.contexts, NEW d \in DOMAIN root.contexts,
         Remapped(c) = Remapped(d)
  PROVE  c = d
BY ContextsMerged, BothContexts

\* A row of the other database, listed under its point here.
LEMMA RunAdopted ==
  ASSUME Mergeable, NEW r \in DOMAIN root.runs
  PROVE  /\ Adopted(root.runs[r]) \in RunRows
         /\ Under(Adopted(root.runs[r]), MergedContexts)
         /\ Adopted(root.runs[r]).origin = root.runs[r].origin
         /\ Adopted(root.runs[r]).status = root.runs[r].status
         /\ Adopted(root.runs[r]).point = root.runs[r].point
<1> DEFINE row == root.runs[r]
           x == Remapped(row.context)
<1>1. row \in RunRows /\ Under(row, root.contexts) /\ Table(root.contexts, Points)
  BY TableIds DEF Mergeable, Sound, Formed, Listed
<1>2. Grown(user.contexts, MergedContexts)
  BY ContextsMerged
<1>3. \A c \in DOMAIN root.contexts : /\ Remapped(c) \in DOMAIN MergedContexts
                                      /\ MergedContexts[Remapped(c)] = root.contexts[c]
  BY ContextsMerged
<1>4. /\ x \in Nat \union {NoContext}
      /\ IF row.point = NoContext THEN x = NoContext
         ELSE x \in DOMAIN MergedContexts /\ MergedContexts[x] = row.point
  <2>1. CASE row.point = NoContext
    <3>1. row.context = NoContext
      BY <1>1, <2>1 DEF Under
    <3>2. NoContext \notin DOMAIN root.contexts
      BY <1>1, HistoryAssumption DEF Table
    <3> QED
      BY <2>1, <3>1, <3>2 DEF Remapped
  <2>2. CASE row.point # NoContext
    <3>1. row.context \in DOMAIN root.contexts /\ root.contexts[row.context] = row.point
      BY <1>1, <2>2 DEF Under
    <3>2. x \in DOMAIN MergedContexts /\ MergedContexts[x] = row.point
      BY <1>3, <3>1
    <3>3. x \in Nat
      BY <1>2, <3>2, TableIds DEF Grown
    <3> QED
      BY <2>2, <3>2, <3>3
  <2> QED
    BY <2>1, <2>2
<1>5. Adopted(row) = [row EXCEPT !.context = x]
  BY DEF Adopted
<1> HIDE DEF x, row
<1>6. /\ [row EXCEPT !.context = x] \in RunRows
      /\ [row EXCEPT !.context = x].context = x
      /\ [row EXCEPT !.context = x].status = row.status
      /\ [row EXCEPT !.context = x].origin = row.origin
      /\ [row EXCEPT !.context = x].point = row.point
  BY <1>1, <1>4, RunMoved
<1>7. Under(Adopted(row), MergedContexts)
  BY <1>4, <1>5, <1>6 DEF Under
<1> QED
  BY <1>5, <1>6, <1>7 DEF row

\* So with sessions.
LEMMA SessionAdopted ==
  ASSUME Mergeable, NEW s \in DOMAIN root.sessions
  PROVE  /\ Adopted(root.sessions[s]) \in SessionRows
         /\ Under(Adopted(root.sessions[s]), MergedContexts)
         /\ Adopted(root.sessions[s]).origin = root.sessions[s].origin
         /\ Adopted(root.sessions[s]).status = root.sessions[s].status
         /\ Adopted(root.sessions[s]).point = root.sessions[s].point
         /\ Adopted(root.sessions[s]).contract = root.sessions[s].contract
         /\ Adopted(root.sessions[s]).legacy = root.sessions[s].legacy
<1> DEFINE row == root.sessions[s]
           x == Remapped(row.context)
<1>1. row \in SessionRows /\ Under(row, root.contexts)
  BY TableIds DEF Mergeable, Sound, Formed, Listed
<1>2. Grown(user.contexts, MergedContexts)
  BY ContextsMerged
<1>3. \A c \in DOMAIN root.contexts : /\ Remapped(c) \in DOMAIN MergedContexts
                                      /\ MergedContexts[Remapped(c)] = root.contexts[c]
  BY ContextsMerged
<1>4. row.point # NoContext
  <2>1. row.point \in Points
    BY <1>1 DEF SessionRows
  <2> QED
    BY <2>1, HistoryAssumption DEF Points
<1>5. row.context \in DOMAIN root.contexts /\ root.contexts[row.context] = row.point
  BY <1>1, <1>4 DEF Under
<1>6. x \in DOMAIN MergedContexts /\ MergedContexts[x] = row.point
  BY <1>3, <1>5
<1>7. x \in Nat
  BY <1>2, <1>6, TableIds DEF Grown
<1>8. Adopted(row) = [row EXCEPT !.context = x]
  BY DEF Adopted
<1> HIDE DEF x, row
<1>9. /\ [row EXCEPT !.context = x] \in SessionRows
      /\ [row EXCEPT !.context = x].context = x
      /\ [row EXCEPT !.context = x].status = row.status
      /\ [row EXCEPT !.context = x].contract = row.contract
      /\ [row EXCEPT !.context = x].origin = row.origin
      /\ [row EXCEPT !.context = x].point = row.point
      /\ [row EXCEPT !.context = x].legacy = row.legacy
  BY <1>1, <1>7, SessionMoved, Zenon
<1>10. Under(Adopted(row), MergedContexts)
  BY <1>4, <1>6, <1>8, <1>9 DEF Under
<1> QED
  BY <1>8, <1>9, <1>10, Zenon DEF row

\* The rows of one table after the adoption: its own, and the other one's
\* beyond the last id.
RowsOfBoth(mine, theirs, last, R, u) ==
    /\ Table(u, R)
    /\ \A i \in DOMAIN u : i \in DOMAIN mine \/ \E j \in DOMAIN theirs : i = j + last
    /\ \A i \in DOMAIN mine : i \in DOMAIN u /\ u[i] = mine[i]
    /\ \A j \in DOMAIN theirs : j + last \in DOMAIN u /\ u[j + last] = Adopted(theirs[j])

\* merge_from: no id is given twice.
LEMMA RowsMerged ==
  ASSUME NEW mine, NEW theirs, NEW last \in Nat, NEW R, Table(mine, R),
         \E n \in Nat : DOMAIN theirs \subseteq 1 .. n,
         \A j \in DOMAIN theirs : Adopted(theirs[j]) \in R,
         \A i \in DOMAIN mine : i <= last
  PROVE  RowsOfBoth(mine, theirs, last, R, MergedRows(mine, theirs, last))
<1> DEFINE taken == [i \in DOMAIN theirs |-> Adopted(theirs[i])]
           moved == Shift(taken, last)
           u == Joined(moved, mine)
<1>1. taken \in [DOMAIN theirs -> R] /\ DOMAIN taken = DOMAIN theirs
  OBVIOUS
<1>2. Table(taken, R)
  BY <1>1 DEF Table
<1>3. \A j \in DOMAIN theirs : taken[j] = Adopted(theirs[j])
  OBVIOUS
<1>4. u = MergedRows(mine, theirs, last)
  BY DEF MergedRows
<1> HIDE DEF taken
<1>5. /\ Table(moved, R)
      /\ DOMAIN moved = {j + last : j \in DOMAIN taken}
      /\ \A j \in DOMAIN taken : moved[j + last] = taken[j]
  BY <1>2, TableShifted
<1> HIDE DEF moved
<1>t. Table(moved, R)
  BY <1>5
<1>6. /\ Table(u, R)
      /\ DOMAIN u = DOMAIN moved \union DOMAIN mine
      /\ \A i \in DOMAIN moved : u[i] = moved[i]
      /\ \A i \in DOMAIN mine \ DOMAIN moved : u[i] = mine[i]
  BY <1>t, TableJoined
<1> HIDE DEF u
<1>7. DOMAIN mine \intersect DOMAIN moved = {}
  <2> SUFFICES ASSUME NEW i \in DOMAIN mine, i \in DOMAIN moved PROVE FALSE
    OBVIOUS
  <2>1. i \in Nat /\ i <= last
    BY TableIds
  <2>2. PICK j \in DOMAIN theirs : i = j + last
    BY <1>1, <1>5
  <2>3. j \in Nat /\ j > 0
    OBVIOUS
  <2> QED
    BY <2>1, <2>2, <2>3
<1>8. \A i \in DOMAIN u : i \in DOMAIN mine \/ \E j \in DOMAIN theirs : i = j + last
  BY <1>1, <1>5, <1>6
<1>9. \A i \in DOMAIN mine : i \in DOMAIN u /\ u[i] = mine[i]
  BY <1>6, <1>7
<1>10. \A j \in DOMAIN theirs : j + last \in DOMAIN u /\ u[j + last] = Adopted(theirs[j])
  BY <1>1, <1>3, <1>5, <1>6
<1>11. RowsOfBoth(mine, theirs, last, R, u)
  BY <1>6, <1>8, <1>9, <1>10 DEF RowsOfBoth
<1> QED
  BY <1>4, <1>11

\* No merged id is beyond the last one of the two tables together.
LEMMA MergedLast ==
  ASSUME NEW mine, NEW theirs, NEW last \in Nat, NEW R, NEW Q, NEW u,
         RowsOfBoth(mine, theirs, last, R, u), Table(theirs, Q), Table(mine, R),
         \A i \in DOMAIN mine : i <= last
  PROVE  /\ last + LastId(theirs) \in Nat
         /\ \A i \in DOMAIN u : i <= last + LastId(theirs)
<1>1. LastId(theirs) \in Nat /\ \A j \in DOMAIN theirs : j <= LastId(theirs)
  BY LastIds
<1>2. ASSUME NEW i \in DOMAIN u PROVE i <= last + LastId(theirs)
  <2>1. i \in DOMAIN mine \/ \E j \in DOMAIN theirs : i = j + last
    BY DEF RowsOfBoth
  <2>2. CASE i \in DOMAIN mine
    <3>1. i \in Nat /\ i <= last
      BY <2>2, TableIds
    <3> QED
      BY <1>1, <3>1
  <2>3. ASSUME NEW j \in DOMAIN theirs, i = j + last PROVE i <= last + LastId(theirs)
    <3>1. j \in Nat /\ j <= LastId(theirs)
      BY <1>1, TableIds
    <3> QED
      BY <1>1, <2>3, <3>1
  <2> QED
    BY <2>1, <2>2, <2>3
<1> QED
  BY <1>1, <1>2

\* What the banks of both hold at a context.
BanksOfBoth(b) ==
    /\ b \in [DOMAIN b -> [Points -> Nat]]
    /\ \A c \in DOMAIN user.banks : c \in DOMAIN b
    /\ \A d \in DOMAIN root.banks :
           /\ Remapped(d) \in DOMAIN b
           /\ \A p \in Points : b[Remapped(d)][p] = BankOf(user, Remapped(d))[p] + root.banks[d][p]
    /\ \A c \in DOMAIN b :
           \/ c \in DOMAIN user.banks /\ b[c] = user.banks[c]
           \/ \E d \in DOMAIN root.banks : c = Remapped(d)

\* Two banks together.
LEMMA PlusThere ==
  ASSUME NEW b \in [Points -> Nat], NEW d \in [Points -> Nat]
  PROVE  /\ Plus(b, d) \in [Points -> Nat]
         /\ \A p \in Points : Plus(b, d)[p] = b[p] + d[p]
BY DEF Plus

\* Each bank of the other database is one of a context it knows.
LEMMA BanksKnown ==
  ASSUME Mergeable
  PROVE  /\ \A d \in DOMAIN root.banks :
                /\ d \in DOMAIN root.contexts /\ d \in Nat
                /\ Remapped(d) # NoContext
                /\ root.banks[d] \in [Points -> Nat]
                /\ \A p \in Points : root.banks[d][p] > 0 => p = root.contexts[d]
         /\ \A d, e \in DOMAIN root.banks : Remapped(d) = Remapped(e) => d = e
<1>1. ~(root.version < 20) /\ Table(root.contexts, Points)
      /\ root.banks \in [DOMAIN root.banks -> [Points -> Nat]] /\ Credited(root)
  BY DEF Mergeable, Latest, Sound, Formed
<1>2. \A d \in DOMAIN root.banks :
          /\ d \in DOMAIN root.contexts
          /\ \A p \in Points : root.banks[d][p] > 0 => p = root.contexts[d]
  BY <1>1 DEF Credited
<1>3. \A d \in DOMAIN root.banks : d \in Nat
  BY <1>1, <1>2, TableIds
<1>4. Grown(user.contexts, MergedContexts)
  BY ContextsMerged
<1>5. \A d \in DOMAIN root.banks : Remapped(d) \in DOMAIN MergedContexts
  BY <1>2, ContextsMerged
<1>6. \A d \in DOMAIN root.banks : Remapped(d) # NoContext
  <2> SUFFICES ASSUME NEW d \in DOMAIN root.banks PROVE Remapped(d) # NoContext
    OBVIOUS
  <2>1. Remapped(d) \in Nat
    BY <1>4, <1>5, TableIds DEF Grown
  <2> QED
    BY <2>1, HistoryAssumption
<1>7. \A d, e \in DOMAIN root.banks : Remapped(d) = Remapped(e) => d = e
  BY <1>2, RemapsApart
<1> QED
  BY <1>1, <1>2, <1>3, <1>6, <1>7

\* merge_from: the seconds of both sides add up, each at its context.
LEMMA BanksMerged ==
  ASSUME Mergeable
  PROVE  BanksOfBoth(MergedBanks)
<1> DEFINE moved == {c \in DOMAIN root.banks : Remapped(c) # NoContext}
           Theirs(c) == {d \in moved : Remapped(d) = c}
           D == DOMAIN user.banks \union {Remapped(d) : d \in moved}
           At(c) == IF Theirs(c) = {} THEN user.banks[c]
                    ELSE Plus(BankOf(user, c), root.banks[Min(Theirs(c))])
<1>1. /\ \A d \in DOMAIN root.banks :
             /\ d \in DOMAIN root.contexts /\ d \in Nat
             /\ Remapped(d) # NoContext
             /\ root.banks[d] \in [Points -> Nat]
             /\ \A p \in Points : root.banks[d][p] > 0 => p = root.contexts[d]
      /\ \A d, e \in DOMAIN root.banks : Remapped(d) = Remapped(e) => d = e
  BY BanksKnown, Zenon
<1>2. moved = DOMAIN root.banks
  BY <1>1
<1>3. MergedBanks = [c \in D |-> At(c)]
  BY DEF MergedBanks
<1>4. user.banks \in [DOMAIN user.banks -> [Points -> Nat]]
  BY DEF Mergeable, Sound, Formed
<1> HIDE DEF moved
<1>5. ASSUME NEW d \in DOMAIN root.banks
      PROVE  /\ Remapped(d) \in D
             /\ At(Remapped(d)) = Plus(BankOf(user, Remapped(d)), root.banks[d])
             /\ At(Remapped(d)) \in [Points -> Nat]
             /\ \A p \in Points :
                    At(Remapped(d))[p] = BankOf(user, Remapped(d))[p] + root.banks[d][p]
  <2>1. Theirs(Remapped(d)) = {d}
    BY <1>1, <1>2
  <2>2. {d} \in SUBSET Nat /\ {d} # {}
    BY <1>1
  <2>3. Min({d}) = d
    BY <2>2, LeastId
  <2>4. At(Remapped(d)) = Plus(BankOf(user, Remapped(d)), root.banks[d])
    BY <2>1, <2>3
  <2>5. BankOf(user, Remapped(d)) \in [Points -> Nat] /\ root.banks[d] \in [Points -> Nat]
    BY <1>1, <1>4, BankTyped
  <2> HIDE DEF At
  <2> QED
    BY <1>2, <2>4, <2>5, PlusThere
<1>6. ASSUME NEW c \in D, \A d \in DOMAIN root.banks : Remapped(d) # c
      PROVE  c \in DOMAIN user.banks /\ At(c) = user.banks[c]
  <2>1. Theirs(c) = {}
    BY <1>2, <1>6
  <2> QED
    BY <1>2, <1>6, <2>1
<1> HIDE DEF At
<1>7. ASSUME NEW c \in D PROVE At(c) \in [Points -> Nat]
  <2>1. CASE \E d \in DOMAIN root.banks : Remapped(d) = c
    BY <1>5, <2>1
  <2>2. CASE \A d \in DOMAIN root.banks : Remapped(d) # c
    BY <1>4, <1>6, <2>2
  <2> QED
    BY <2>1, <2>2
<1>8. \A c \in DOMAIN user.banks : c \in D
  OBVIOUS
<1> HIDE DEF D
<1>9. /\ DOMAIN MergedBanks = D
      /\ \A c \in D : MergedBanks[c] = At(c)
      /\ MergedBanks \in [D -> [Points -> Nat]]
  BY <1>3, <1>7
<1> HIDE DEF MergedBanks
<1>10. \A d \in DOMAIN root.banks :
           /\ Remapped(d) \in DOMAIN MergedBanks
           /\ \A p \in Points :
                  MergedBanks[Remapped(d)][p] = BankOf(user, Remapped(d))[p] + root.banks[d][p]
  BY <1>5, <1>9
<1>11. \A c \in DOMAIN MergedBanks :
           \/ c \in DOMAIN user.banks /\ MergedBanks[c] = user.banks[c]
           \/ \E d \in DOMAIN root.banks : c = Remapped(d)
  BY <1>6, <1>9
<1> QED
  BY <1>8, <1>9, <1>10, <1>11 DEF BanksOfBoth

\* What is credited after the adoption was measured where it says.
LEMMA CreditMerged ==
  ASSUME Mergeable, Credited(user), NEW e, e.version = Latest,
         e.contexts = MergedContexts, e.banks = MergedBanks
  PROVE  Credited(e)
<1>1. /\ \A d \in DOMAIN root.banks :
             /\ d \in DOMAIN root.contexts /\ d \in Nat
             /\ Remapped(d) # NoContext
             /\ root.banks[d] \in [Points -> Nat]
             /\ \A p \in Points : root.banks[d][p] > 0 => p = root.contexts[d]
      /\ \A d, f \in DOMAIN root.banks : Remapped(d) = Remapped(f) => d = f
  BY BanksKnown, Zenon
<1>2. BanksOfBoth(MergedBanks)
  BY BanksMerged
<1>3. Grown(user.contexts, MergedContexts)
  BY ContextsMerged
<1>4. \A c \in DOMAIN root.contexts : /\ Remapped(c) \in DOMAIN MergedContexts
                                      /\ MergedContexts[Remapped(c)] = root.contexts[c]
  BY ContextsMerged
<1>5. \A c \in DOMAIN user.banks :
          /\ c \in DOMAIN user.contexts
          /\ \A p \in Points : user.banks[c][p] > 0 => p = user.contexts[c]
  BY DEF Credited, Mergeable, Latest
<1>6. user.banks \in [DOMAIN user.banks -> [Points -> Nat]]
  BY DEF Mergeable, Sound, Formed
<1>7. ASSUME NEW c \in DOMAIN MergedBanks
      PROVE  /\ c \in DOMAIN MergedContexts
             /\ \A p \in Points : MergedBanks[c][p] > 0 => p = MergedContexts[c]
  <2>1. CASE c \in DOMAIN user.banks /\ MergedBanks[c] = user.banks[c]
    BY <1>3, <1>5, <2>1 DEF Grown
  <2>2. ASSUME NEW d \in DOMAIN root.banks, c = Remapped(d)
        PROVE  /\ c \in DOMAIN MergedContexts
               /\ \A p \in Points : MergedBanks[c][p] > 0 => p = MergedContexts[c]
    <3>1. c \in DOMAIN MergedContexts /\ MergedContexts[c] = root.contexts[d]
      BY <1>1, <1>4, <2>2
    <3>2. ASSUME NEW p \in Points, MergedBanks[c][p] > 0, p # MergedContexts[c] PROVE FALSE
      <4>1. MergedBanks[c][p] = BankOf(user, c)[p] + root.banks[d][p]
        BY <1>2, <2>2 DEF BanksOfBoth
      <4>2. root.banks[d][p] \in Nat /\ ~(root.banks[d][p] > 0)
        BY <1>1, <3>1, <3>2
      <4>3. BankOf(user, c) \in [Points -> Nat]
        BY <1>6, BankTyped
      <4>4. BankOf(user, c)[p] > 0
        BY <3>2, <4>1, <4>2, <4>3
      <4>5. c \in DOMAIN user.banks /\ user.banks[c][p] > 0
        BY <1>6, <4>4, BankTyped
      <4>6. p = user.contexts[c] /\ c \in DOMAIN user.contexts
        BY <1>5, <4>5
      <4> QED
        BY <1>3, <3>2, <4>6 DEF Grown
    <3> QED
      BY <3>1, <3>2
  <2> QED
    BY <1>2, <2>1, <2>2 DEF BanksOfBoth
<1> QED
  BY <1>7 DEF Credited, Latest

\* merge_from: everything of the other database is here, in one transaction.
LEMMA MergeKeeps ==
  ASSUME HistoryInv, Merge
  PROVE  HistoryInv' /\ KeepsGoing(user, user') /\ (Evidence => Evidence')
<1>1. /\ pc = "adopt" /\ root.version = Latest
      /\ user' = [user EXCEPT !.contexts = MergedContexts,
                              !.runs = MergedRows(user.runs, root.runs, ids.runs),
                              !.sessions = MergedRows(user.sessions, root.sessions, ids.sessions),
                              !.banks = MergedBanks]
      /\ ids' = MergedIds /\ pc' = "rename" /\ UNCHANGED <<root, point, run, session>>
  BY DEF Merge
<1>2. /\ user.version = Latest /\ run = NoContext /\ session = NoContext
      /\ Mergeable
  BY <1>1 DEF HistoryInv, Started, Mergeable
<1>3. /\ Formed(user) /\ Listed(user) /\ Distinct(user) /\ Retired(user)
      /\ Formed(root) /\ Listed(root) /\ Retired(root)
  BY <1>2 DEF Mergeable, Sound
<1>s. DOMAIN user = Fields
  BY <1>3 DEF Formed
<1>4. /\ DOMAIN user' = Fields /\ user'.version = user.version
      /\ user'.contexts = MergedContexts /\ user'.banks = MergedBanks
      /\ user'.runs = MergedRows(user.runs, root.runs, ids.runs)
      /\ user'.sessions = MergedRows(user.sessions, root.sessions, ids.sessions)
  BY <1>1, <1>s DEF Fields
<1>n. /\ ids \in [contexts : Nat, runs : Nat, sessions : Nat]
      /\ \A r \in DOMAIN user.runs : r <= ids.runs
      /\ \A s \in DOMAIN user.sessions : s <= ids.sessions
  BY DEF HistoryInv, Numbered
<1>t. /\ Table(user.runs, RunRows) /\ Table(root.runs, RunRows)
      /\ Table(user.sessions, SessionRows) /\ Table(root.sessions, SessionRows)
  BY <1>3 DEF Formed
<1>5. Grown(user.contexts, MergedContexts)
  BY <1>2, ContextsMerged
<1>6. RowsOfBoth(user.runs, root.runs, ids.runs, RunRows, user'.runs)
  <2>1. \A r \in DOMAIN root.runs : Adopted(root.runs[r]) \in RunRows
    BY <1>2, RunAdopted
  <2>2. \E n \in Nat : DOMAIN root.runs \subseteq 1 .. n
    BY <1>t DEF Table
  <2>3. ids.runs \in Nat
    BY <1>n
  <2>4. RowsOfBoth(user.runs, root.runs, ids.runs, RunRows,
                   MergedRows(user.runs, root.runs, ids.runs))
    BY <1>n, <1>t, <2>1, <2>2, <2>3, RowsMerged
  <2> QED
    BY <1>4, <2>4
<1>7. RowsOfBoth(user.sessions, root.sessions, ids.sessions, SessionRows, user'.sessions)
  <2>1. \A s \in DOMAIN root.sessions : Adopted(root.sessions[s]) \in SessionRows
    BY <1>2, SessionAdopted
  <2>2. \E n \in Nat : DOMAIN root.sessions \subseteq 1 .. n
    BY <1>t DEF Table
  <2>3. ids.sessions \in Nat
    BY <1>n
  <2>4. RowsOfBoth(user.sessions, root.sessions, ids.sessions, SessionRows,
                   MergedRows(user.sessions, root.sessions, ids.sessions))
    BY <1>n, <1>t, <2>1, <2>2, <2>3, RowsMerged
  <2> QED
    BY <1>4, <2>4
<1>8. BanksOfBoth(MergedBanks)
  BY <1>2, BanksMerged
<1>9. Formed(user')
  <2>1. MergedBanks \in [DOMAIN MergedBanks -> [Points -> Nat]]
    BY <1>8 DEF BanksOfBoth
  <2>2. Table(user'.contexts, Points) /\ Table(user'.runs, RunRows) /\ Table(user'.sessions, SessionRows)
    BY <1>4, <1>5, <1>6, <1>7 DEF Grown, RowsOfBoth
  <2> QED
    BY <1>3, <1>4, <2>1, <2>2 DEF Formed
<1>10. ASSUME NEW r \in DOMAIN user'.runs PROVE Under(user'.runs[r], user'.contexts)
  <2>1. CASE r \in DOMAIN user.runs
    <3>1. user'.runs[r] = user.runs[r]
      BY <1>6, <2>1 DEF RowsOfBoth
    <3>2. Under(user.runs[r], user.contexts)
      BY <1>3, <2>1 DEF Listed
    <3> QED
      BY <1>4, <1>5, <3>1, <3>2, UnderGrown
  <2>2. ASSUME NEW j \in DOMAIN root.runs, r = j + ids.runs
        PROVE  Under(user'.runs[r], user'.contexts)
    <3>1. user'.runs[r] = Adopted(root.runs[j])
      BY <1>6, <2>2 DEF RowsOfBoth
    <3>2. Under(Adopted(root.runs[j]), MergedContexts)
      BY <1>2, RunAdopted
    <3> QED
      BY <1>4, <3>1, <3>2
  <2> QED
    BY <1>6, <2>1, <2>2 DEF RowsOfBoth
<1>11. ASSUME NEW s \in DOMAIN user'.sessions
       PROVE  /\ Under(user'.sessions[s], user'.contexts)
              /\ user'.sessions[s].legacy => user'.sessions[s].contract = 0
  <2>v. user.version >= 16 /\ root.version >= 16
    BY <1>1, <1>2 DEF Latest
  <2>1. CASE s \in DOMAIN user.sessions
    <3>1. user'.sessions[s] = user.sessions[s]
      BY <1>7, <2>1 DEF RowsOfBoth
    <3>2. Under(user.sessions[s], user.contexts)
      BY <1>3, <2>1 DEF Listed
    <3>3. user.sessions[s].legacy => user.sessions[s].contract = 0
      BY <1>3, <2>v, <2>1, Zenon DEF Retired
    <3>4. Under(user'.sessions[s], user'.contexts)
      BY <1>4, <1>5, <3>1, <3>2, UnderGrown
    <3> QED
      BY <3>1, <3>3, <3>4, Zenon
  <2>2. ASSUME NEW j \in DOMAIN root.sessions, s = j + ids.sessions
        PROVE  /\ Under(user'.sessions[s], user'.contexts)
               /\ user'.sessions[s].legacy => user'.sessions[s].contract = 0
    <3>1. user'.sessions[s] = Adopted(root.sessions[j])
      BY <1>7, <2>2 DEF RowsOfBoth
    <3>2. /\ Adopted(root.sessions[j]) \in SessionRows
          /\ Under(Adopted(root.sessions[j]), MergedContexts)
          /\ Adopted(root.sessions[j]).origin = root.sessions[j].origin
          /\ Adopted(root.sessions[j]).status = root.sessions[j].status
          /\ Adopted(root.sessions[j]).point = root.sessions[j].point
          /\ Adopted(root.sessions[j]).contract = root.sessions[j].contract
          /\ Adopted(root.sessions[j]).legacy = root.sessions[j].legacy
      BY <1>2, SessionAdopted, Zenon
    <3>3. root.sessions[j].legacy => root.sessions[j].contract = 0
      BY <1>3, <2>v, Zenon DEF Retired
    <3>4. Under(user'.sessions[s], user'.contexts)
      BY <1>4, <3>1, <3>2
    <3> QED
      BY <3>1, <3>2, <3>3, <3>4, Zenon
  <2> QED
    BY <1>7, <2>1, <2>2, Zenon DEF RowsOfBoth
<1>12. Listed(user')
  BY <1>10, <1>11, Zenon DEF Listed
<1>13. Retired(user')
  BY <1>11, Zenon DEF Retired
<1>14. Distinct(user')
  BY <1>4, <1>5 DEF Distinct, Grown
<1>15. Credited(user) => Credited(user')
  BY <1>2, <1>4, CreditMerged
<1>16. Sound(user)' /\ Sound(root)' /\ Credited(root)' /\ (Credited(user) => Credited(user)')
  BY <1>1, <1>9, <1>12, <1>13, <1>14, <1>15 DEF HistoryInv, Sound
<1>17. Started'
  BY <1>1, <1>2, <1>4 DEF HistoryInv, Started, StartUp
<1>18. HeldSession' /\ AtHome' /\ Recovered'
  BY <1>1, <1>2 DEF HeldSession, AtHome, Recovered
<1>19. Numbered'
  <2>1. LastId(MergedContexts) \in Nat /\ \A c \in DOMAIN MergedContexts : c <= LastId(MergedContexts)
    <3>1. Table(MergedContexts, Points)
      BY <1>5 DEF Grown
    <3> QED
      BY <3>1, LastIds
  <2> DEFINE top == Max({ids.contexts, LastId(MergedContexts)})
  <2>2. top \in Nat /\ LastId(MergedContexts) <= top
    BY <1>n, <2>1, LargerOf
  <2>3. /\ ids.runs + LastId(root.runs) \in Nat
        /\ \A i \in DOMAIN user'.runs : i <= ids.runs + LastId(root.runs)
    <3>1. ids.runs \in Nat
      BY <1>n
    <3> QED
      BY <1>n, <1>t, <1>6, <3>1, MergedLast
  <2>4. /\ ids.sessions + LastId(root.sessions) \in Nat
        /\ \A i \in DOMAIN user'.sessions : i <= ids.sessions + LastId(root.sessions)
    <3>1. ids.sessions \in Nat
      BY <1>n
    <3> QED
      BY <1>n, <1>t, <1>7, <3>1, MergedLast
  <2>5. /\ ids' \in [contexts : Nat, runs : Nat, sessions : Nat]
        /\ ids'.contexts = top
        /\ ids'.runs = ids.runs + LastId(root.runs)
        /\ ids'.sessions = ids.sessions + LastId(root.sessions)
    BY <1>1, <2>2, <2>3, <2>4 DEF MergedIds
  <2> HIDE DEF top
  <2>6. \A c \in DOMAIN MergedContexts : c <= top
    <3> SUFFICES ASSUME NEW c \in DOMAIN MergedContexts PROVE c <= top
      OBVIOUS
    <3>1. c \in Nat
      BY <1>5, TableIds DEF Grown
    <3> QED
      BY <2>1, <2>2, <3>1
  <2> QED
    BY <1>4, <2>3, <2>4, <2>5, <2>6 DEF Numbered
<1>20. KeepsGoing(user, user')
  BY <1>6, <1>7 DEF KeepsGoing, Running, Unfinished, RowsOfBoth
<1>21. Taken'
  <2>1. ASSUME NEW r \in DOMAIN root.runs PROVE HasCopy(root.runs[r], user'.runs)
    <3> DEFINE i == r + ids.runs
    <3>1. i \in DOMAIN user'.runs /\ user'.runs[i] = Adopted(root.runs[r])
      BY <1>6 DEF RowsOfBoth
    <3>2. /\ Adopted(root.runs[r]).origin = root.runs[r].origin
          /\ Adopted(root.runs[r]).status = root.runs[r].status
          /\ Adopted(root.runs[r]).point = root.runs[r].point
      BY <1>2, RunAdopted
    <3>3. user'.runs[i] \in Range(user'.runs)
      BY <3>1 DEF Range
    <3> QED
      BY <3>1, <3>2, <3>3 DEF HasCopy
  <2>2. ASSUME NEW s \in DOMAIN root.sessions PROVE HasCopy(root.sessions[s], user'.sessions)
    <3> DEFINE i == s + ids.sessions
    <3>1. i \in DOMAIN user'.sessions /\ user'.sessions[i] = Adopted(root.sessions[s])
      BY <1>7 DEF RowsOfBoth
    <3>2. /\ Adopted(root.sessions[s]) \in SessionRows
          /\ Under(Adopted(root.sessions[s]), MergedContexts)
          /\ Adopted(root.sessions[s]).origin = root.sessions[s].origin
          /\ Adopted(root.sessions[s]).status = root.sessions[s].status
          /\ Adopted(root.sessions[s]).point = root.sessions[s].point
          /\ Adopted(root.sessions[s]).contract = root.sessions[s].contract
          /\ Adopted(root.sessions[s]).legacy = root.sessions[s].legacy
      BY <1>2, SessionAdopted, Zenon
    <3>3. user'.sessions[i] \in Range(user'.sessions)
      BY <3>1 DEF Range
    <3> QED
      BY <3>1, <3>2, <3>3, Zenon DEF HasCopy
  <2>3. ASSUME NEW c \in DOMAIN root.banks, NEW p \in Points
        PROVE  root.banks[c][p] <= BankOf(user', ContextAt(user', root.contexts[c]))[p]
    <3>1. /\ \A d \in DOMAIN root.banks :
                 /\ d \in DOMAIN root.contexts /\ d \in Nat
                 /\ Remapped(d) # NoContext
                 /\ root.banks[d] \in [Points -> Nat]
                 /\ \A q \in Points : root.banks[d][q] > 0 => q = root.contexts[d]
          /\ \A d, e \in DOMAIN root.banks : Remapped(d) = Remapped(e) => d = e
      BY <1>2, BanksKnown, Zenon
    <3>2. Remapped(c) \in DOMAIN user'.contexts /\ user'.contexts[Remapped(c)] = root.contexts[c]
      BY <1>2, <1>4, <3>1, ContextsMerged
    <3>3. /\ ContextAt(user', root.contexts[c]) \in DOMAIN user'.contexts
          /\ user'.contexts[ContextAt(user', root.contexts[c])] = root.contexts[c]
      <4>1. Table(user'.contexts, Points)
        BY <1>9 DEF Formed
      <4> QED
        BY <3>2, <4>1, ContextFound
    <3>4. ContextAt(user', root.contexts[c]) = Remapped(c)
      BY <1>4, <1>5, <3>2, <3>3 DEF Grown
    <3>5. /\ Remapped(c) \in DOMAIN MergedBanks
          /\ MergedBanks[Remapped(c)][p] = BankOf(user, Remapped(c))[p] + root.banks[c][p]
      BY <1>8 DEF BanksOfBoth
    <3>6. BankOf(user', Remapped(c)) = MergedBanks[Remapped(c)]
      BY <1>4, <3>5 DEF BankOf
    <3>7. user.banks \in [DOMAIN user.banks -> [Points -> Nat]]
      BY <1>3 DEF Formed
    <3>8. BankOf(user, Remapped(c)) \in [Points -> Nat]
      BY <3>7, BankTyped
    <3>9. BankOf(user, Remapped(c))[p] \in Nat /\ root.banks[c][p] \in Nat
      BY <3>1, <3>8
    <3>10. root.banks[c][p] <= MergedBanks[Remapped(c)][p]
      BY <3>5, <3>9
    <3> QED
      BY <3>4, <3>6, <3>10
  <2> QED
    BY <1>1, <2>1, <2>2, <2>3, Zenon DEF Taken
<1> QED
  BY <1>16, <1>17, <1>18, <1>19, <1>20, <1>21 DEF HistoryInv, Evidence
-----------------------------------------------------------------------------
(* The history database: every step, and the theorems *)

\* Every step of the program keeps the invariant and the rows of what goes on;
\* with sessions resumed where they began, what is banked stays what was
\* measured at home.
LEMMA HistoryStep ==
  ASSUME HistoryInv, HistoryNext
  PROVE  /\ HistoryInv' /\ KeepsGoing(user, user')
         /\ Elsewhere = FALSE /\ Evidence => Evidence'
<1>1. CASE QuietStep
  BY <1>1, QuietKeeps, Zenon
<1>2. CASE MigrateUser
  BY <1>2, MigrateUserKeeps, Zenon
<1>3. CASE MigrateRoot
  BY <1>3, MigrateRootKeeps, Zenon
<1>4. CASE Merge
  BY <1>4, MergeKeeps, Zenon
<1>5. CASE Recover
  BY <1>5, RecoverKeeps, Zenon
<1>6. CASE Purge \/ DeleteRuns \/ DeleteSessions \/ DeleteContexts
  BY <1>6, DeletionsKeep, Zenon
<1>7. CASE StartTest
  BY <1>7, StartTestKeeps, Zenon
<1>8. CASE FinishTest
  BY <1>8, FinishTestKeeps, Zenon
<1>9. CASE StartTuner
  BY <1>9, StartTunerKeeps, Zenon
<1>10. CASE ResumeTuner
  BY <1>10, ResumeTunerKeeps, Zenon
<1>11. CASE \E status \in {"profile_quarantined", "completed"} : EndTuner(status)
  BY <1>11, EndTunerKeeps, Zenon
<1>12. CASE BankTime
  BY <1>12, BankTimeKeeps, Zenon
<1>13. CASE ClearBank
  BY <1>13, ClearBankKeeps, Zenon
<1> QED
  BY <1>1, <1>2, <1>3, <1>4, <1>5, <1>6, <1>7, <1>8, <1>9, <1>10, <1>11, <1>12, <1>13, Zenon
     DEF HistoryNext, QuietStep

\* A step that changes nothing keeps it too.
LEMMA HistoryStutter ==
  ASSUME HistoryInv, UNCHANGED historyVars
  PROVE  HistoryInv' /\ (Evidence => Evidence')
<1>1. UNCHANGED <<user, root, pc, point, run, session, ids>>
  BY DEF historyVars
<1>2. Sound(user)' /\ Sound(root)' /\ Credited(root)' /\ (Credited(user) => Credited(user)')
  BY <1>1 DEF HistoryInv
<1>3. Started' /\ Numbered' /\ HeldSession' /\ Recovered' /\ (AtHome => AtHome')
  BY <1>1 DEF HistoryInv, Started, Numbered, HeldSession, Recovered, Running, AtHome
<1>4. pc' = "rename" => Taken'
  BY <1>1 DEF HistoryInv, Taken
<1> QED
  BY <1>2, <1>3, <1>4 DEF HistoryInv, Evidence

\* The invariant holds throughout, whatever the user deletes, whenever the
\* process dies, and whichever version of the program wrote the databases.
THEOREM HistoryIsInvariant == HistorySpec => []HistoryInv
<1>1. HistoryInit => HistoryInv
  BY HistoryStarts
<1>2. HistoryInv /\ [HistoryNext]_historyVars => HistoryInv'
  BY HistoryStep, HistoryStutter, Zenon
<1> QED
  BY <1>1, <1>2, PTL DEF HistorySpec

\* _migrate, merge_from, delete_orphaned_contexts: a run or session is always
\* listed under the operating point it ran at.
THEOREM RowsAreKept == HistorySpec => []RowsKeepTheirContext
<1>1. HistoryInv => RowsKeepTheirContext
  <2> SUFFICES ASSUME HistoryInv, NEW row \in Range(user.runs) \union Range(user.sessions)
               PROVE  Under(row, user.contexts)
    BY DEF RowsKeepTheirContext, Under
  <2>1. Listed(user)
    BY DEF HistoryInv, Sound
  <2> QED
    BY <2>1 DEF Listed, Range
<1> QED
  BY <1>1, HistoryIsInvariant, PTL

\* recover_incomplete_runs: once started, only the run of this process counts
\* as running.
THEOREM NoGhostsRun == HistorySpec => []NoGhostRun
<1>1. HistoryInv => NoGhostRun
  BY DEF HistoryInv, Recovered, NoGhostRun
<1> QED
  BY <1>1, HistoryIsInvariant, PTL

\* get_tuner_session(resumable=True): the session that goes on is never one
\* searched under an older contract.
THEOREM LegacySessionsStayRetired == HistorySpec => []LegacyStaysRetired
<1>1. HistoryInv => LegacyStaysRetired
  <2> SUFFICES ASSUME HistoryInv, session # NoContext, user.sessions[session].legacy
               PROVE  FALSE
    BY Zenon DEF LegacyStaysRetired
  <2>1. session \in DOMAIN user.sessions /\ user.sessions[session].contract = Contract
    BY DEF HistoryInv, HeldSession
  <2>2. user.version >= 16
    <3>1. pc = "up"
      BY DEF HistoryInv, Started
    <3> QED
      BY <3>1 DEF HistoryInv, Started, Latest
  <2>3. user.sessions[session].contract = 0
    BY <2>1, <2>2, Zenon DEF HistoryInv, Sound, Retired
  <2> QED
    BY <2>1, <2>3 DEF Contract
<1> QED
  BY <1>1, HistoryIsInvariant, PTL

\* bank_regime_time: when sessions are resumed at the point they began at, the
\* seconds of one operating point are never lent to another.
THEOREM EvidenceStaysApart ==
  ASSUME Elsewhere = FALSE
  PROVE  HistorySpec => []EvidenceKeptApart
<1>1. HistoryInit => HistoryInv /\ Evidence
  BY HistoryStarts
<1>2. HistoryInv /\ Evidence /\ [HistoryNext]_historyVars => (HistoryInv /\ Evidence)'
  BY HistoryStep, HistoryStutter, Zenon
<1>3. Evidence /\ HistoryInv => EvidenceKeptApart
  <2> SUFFICES ASSUME Evidence, HistoryInv, user.version >= 20 PROVE
               \A c \in DOMAIN user.banks :
                   /\ c \in DOMAIN user.contexts
                   /\ \A p \in Points : user.banks[c][p] > 0 => p = user.contexts[c]
    BY DEF EvidenceKeptApart
  <2>1. user.version \in Nat
    BY DEF HistoryInv, Sound, Formed
  <2> QED
    BY <2>1 DEF Evidence, Credited
<1> QED
  BY <1>1, <1>2, <1>3, PTL DEF HistorySpec

\* merge_from, adopt_legacy_root_db: the database in /root is only put aside
\* when every run, every session and every second banked in it is here.
THEOREM AdoptionsKeepAll == HistorySpec => AdoptionKeepsAll
<1>1. ASSUME HistoryInv, [HistoryNext]_historyVars, rootFile' # rootFile
      PROVE  Taken
  <2>1. RenameRoot
    BY <1>1, Zenon DEF HistoryNext, historyVars, Launch, MigrateUser, Opened, MigrateRoot, Merge,
       AdoptionFails, Recover, Purge, Die, Reconfigure, StartTest, FinishTest, StartTuner,
       ResumeTuner, EndTuner, BankTime, ClearBank, DeleteRuns, DeleteSessions, DeleteContexts
  <2> QED
    BY <1>1, <2>1 DEF RenameRoot, HistoryInv
<1> DEFINE A == rootFile' # rootFile =>
        /\ \A r \in DOMAIN root.runs : HasCopy(root.runs[r], user.runs)
        /\ \A s \in DOMAIN root.sessions : HasCopy(root.sessions[s], user.sessions)
        /\ \A c \in DOMAIN root.banks : \A p \in Points :
               root.banks[c][p] <= BankOf(user, ContextAt(user, root.contexts[c]))[p]
<1>2. HistoryInv /\ [HistoryNext]_historyVars => [A]_historyVars
  BY <1>1, Zenon DEF Taken
<1>3. HistorySpec => [][A]_historyVars
  BY <1>2, HistoryIsInvariant, PTL DEF HistorySpec
<1> QED
  BY <1>3 DEF AdoptionKeepsAll

\* delete_run, delete_tuner_session, delete_context_cascade, purge_before: what
\* goes on keeps its row, and a session that goes on its context.
THEOREM InFlightIsKept == HistorySpec => InFlightKept
<1> DEFINE A == /\ \A r \in Running(user) : r \in DOMAIN user'.runs
                /\ \A s \in Unfinished(user) :
                       /\ s \in DOMAIN user'.sessions
                       /\ user'.sessions[s].context \in DOMAIN user'.contexts
<1>1. ASSUME HistoryInv, HistoryNext PROVE A
  <2>1. HistoryInv' /\ KeepsGoing(user, user')
    BY <1>1, HistoryStep, Zenon
  <2>2. Formed(user') /\ Listed(user')
    BY <2>1 DEF HistoryInv, Sound
  <2>3. \A s \in DOMAIN user'.sessions : user'.sessions[s].context \in DOMAIN user'.contexts
    BY <2>2, RowsListed
  <2> QED
    BY <2>1, <2>3 DEF KeepsGoing
<1>2. HistoryInv /\ [HistoryNext]_historyVars => [A]_historyVars
  BY <1>1, Zenon
<1>3. HistorySpec => [][A]_historyVars
  BY <1>2, HistoryIsInvariant, PTL DEF HistorySpec
<1> QED
  BY <1>3 DEF InFlightKept
=============================================================================
