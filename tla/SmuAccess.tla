------------------------------ MODULE SmuAccess ------------------------------
(***************************************************************************)
(* Which slot of the processor an offset goes to, and what the Curve         *)
(* Optimizer tab promises about the offsets it wrote (smu/driver.py,         *)
(* smu/commands.py, engine/topology.py, gui/smu_tab.py).                     *)
(*                                                                         *)
(* The SMU addresses a core by its CCD and its physical slot there; the      *)
(* program knows it by a number that the BIOS chose.  set_topology finds the *)
(* slots from the numbers alone where they give themselves away, from the    *)
(* CCD's core-disable fuse where they do not, and refuses every access where *)
(* neither will do.  The offsets live in the SMU until it loses power.       *)
(*                                                                         *)
(* A machine is of a generation with uniform CCDs, and its first CCD is       *)
(* populated.  Slots stands for the eight of a CCD.                          *)
(***************************************************************************)
EXTENDS Integers, FiniteSets

CONSTANTS
  Slots,      \* slots of a CCD
  Numberings, \* how the BIOS may number the cores
  Depths,     \* how far below zero the offsets in play are, within co_range
  MaxWrites   \* bound: times anything is written

ASSUME SmuAssumption ==
  /\ Slots \in Nat \ {0} /\ MaxWrites \in Nat
  /\ Numberings \subseteq {"physical", "perCcd", "contiguous"}
  /\ Depths \subseteq 0..50 /\ 0 \in Depths

Values == {-d : d \in Depths}
Ccds == {0, 1}
Slot == 0..(Slots - 1)
Places == Ccds \X Slot
NoPlan == <<>>     \* no dialog is open
NoReport == <<>>
Unmapped == <<>>

VARIABLES
  machine,  \* what the machine is: see Init
  core_map, \* _core_map, or Unmapped while core_map_error stands
  hw,       \* the margin each slot holds
  backup,   \* the tab's _co_backup
  tuning,   \* _tuner_active of the tab
  dry_run,
  pending,  \* the plan a confirmation dialog asks about
  report,   \* the plan the tab just wrote and the cores it says it failed on
  writes

vars == <<machine, core_map, hw, backup, tuning, dry_run, pending, report, writes>>

Below(n, S) == Cardinality({x \in S : x < n})

-----------------------------------------------------------------------------
\* The machine: live is what the fuses leave of each CCD, enabled what the
\* BIOS leaves of that, offline the cores taken offline since.

CoreIdOf(m, p) ==
  LET rank == Below(p[2], m.enabled[p[1]])
  IN CASE m.numbering = "physical"   -> p[1] * Slots + p[2]
       [] m.numbering = "perCcd"     -> p[1] * Slots + rank
       [] m.numbering = "contiguous" -> (IF p[1] = 0 THEN 0 ELSE Cardinality(m.enabled[0])) + rank

Cpus(m) == {p \in Places : p[2] \in m.enabled[p[1]] /\ p # m.offline}
Cores == {CoreIdOf(machine, p) : p \in Cpus(machine)}
PlaceOf(c) == CHOOSE p \in Cpus(machine) : CoreIdOf(machine, p) = c

\* The CCDs are the L3 groups in the order of their ids.
Group(m, ccd) ==
  {CoreIdOf(m, p) : p \in {q \in Cpus(m) : Below(q[1], {r[1] : r \in Cpus(m)}) = ccd}}

\* True only when every present CPU is online, and may stay unknown.
AllOnline(m) == m.offline = <<>> /\ m.onlineKnown

-----------------------------------------------------------------------------
\* Discovery.  A set of slots stands for the list in ascending order.

NoProof == {}

\* Mutated form: the numbers of a group in one window are its slots.
DeriveSlotsOfPrefix(ids) ==
  IF Cardinality({i \div Slots : i \in ids}) = 1 THEN {i % Slots : i \in ids} ELSE NoProof

DeriveGroupSlots(ids) ==
  LET rel == {i % Slots : i \in ids}
  IN IF Cardinality({i \div Slots : i \in ids}) # 1 THEN NoProof
     ELSE IF rel = 0..(Cardinality(ids) - 1) /\ Cardinality(ids) # Slots THEN NoProof
     ELSE rel

FuseGroupSlots(m, ccd, want) ==
  IF m.fuseReadable /\ Cardinality(m.live[ccd]) = want THEN m.live[ccd] ELSE NoProof

GroupSlots(m, ccd) ==
  LET ids == Group(m, ccd)
  IN IF DeriveGroupSlots(ids) # NoProof THEN DeriveGroupSlots(ids)
     ELSE FuseGroupSlots(m, ccd, Cardinality(ids))

CoreMap(m) ==
  LET groups == {ccd \in Ccds : Group(m, ccd) # {}}
  IN IF m.layoutKnown /\ AllOnline(m) /\ \A ccd \in groups : GroupSlots(m, ccd) # NoProof
     THEN [i \in UNION {Group(m, ccd) : ccd \in groups} |->
             LET ccd == CHOOSE g \in groups : i \in Group(m, g)
             IN <<ccd, CHOOSE s \in GroupSlots(m, ccd) : Below(s, GroupSlots(m, ccd)) = Below(i, Group(m, ccd))>>]
     ELSE Unmapped

-----------------------------------------------------------------------------
\* One write and its read-back.

Word == 65536
EncodeCoArg(v) == v % Word
DecodeCoArg(raw) == IF raw < Word \div 2 THEN raw ELSE raw - Word

\* What the firmware does of a write: the offset it stores and whether the
\* command and the read-back are answered.  At most one core of a plan meets
\* anything but the first.
Obeyed(v) == [stored |-> v, answered |-> TRUE, readable |-> TRUE]
Firmware(v, before) ==
  [stored : {v, before} \union Values, answered : BOOLEAN, readable : BOOLEAN]

\* Mutated form: a command that is answered is a core that is set.
SetCoOffsetUnread(v, f) == f.answered

SetCoOffset(v, f) ==
  f.answered /\ f.readable /\ DecodeCoArg(EncodeCoArg(f.stored)) = v

\* The offsets of the plan's cores go out one after the other; answer gives
\* what the firmware makes of each.
Written(plan, answer) ==
  [p \in Places |-> IF \E c \in DOMAIN plan : core_map[c] = p
                    THEN EncodeCoArg(answer[CHOOSE c \in DOMAIN plan : core_map[c] = p].stored)
                    ELSE hw[p]]

Read(c) == DecodeCoArg(hw[core_map[c]])

\* The plan for one core.
Only(c, v) == [x \in {c} |-> v]

\* One core at most meets a fault.
Answers(plan) ==
  {[c \in DOMAIN plan |-> Obeyed(plan[c])]} \union
  UNION {{[c \in DOMAIN plan |-> IF c = b THEN f ELSE Obeyed(plan[c])] : f \in Firmware(plan[b], Read(b))}
         : b \in DOMAIN plan}

-----------------------------------------------------------------------------
Init ==
  /\ machine \in [live : [Ccds -> SUBSET Slot], enabled : [Ccds -> SUBSET Slot],
                  numbering : Numberings, offline : Places \union {<<>>},
                  onlineKnown : BOOLEAN, layoutKnown : BOOLEAN, fuseReadable : BOOLEAN]
  /\ \A ccd \in Ccds : machine.enabled[ccd] \subseteq machine.live[ccd]
  /\ machine.enabled[0] # {}
  /\ machine.offline # <<>> => machine.offline[2] \in machine.enabled[machine.offline[1]]
  /\ Cpus(machine) # {}
  /\ core_map = Unmapped
  /\ hw = [p \in Places |-> 0]
  /\ backup = <<>> /\ tuning = FALSE /\ dry_run = FALSE
  /\ pending = NoPlan /\ report = NoReport /\ writes = 0

\* The program starts: discovery, then the tab.
SetTopology ==
  /\ core_map = Unmapped /\ CoreMap(machine) # Unmapped
  /\ core_map' = CoreMap(machine)
  /\ UNCHANGED <<machine, hw, backup, tuning, dry_run, pending, report, writes>>

Available == core_map # Unmapped
WriteUnavailable == tuning \/ ~Available

\* A click on a write button: the plan is read from the controls
\* before the question is asked.
Ask(plan, take_backup) ==
  /\ ~WriteUnavailable /\ pending = NoPlan
  /\ pending' = [plan |-> plan, take_backup |-> take_backup]
  /\ report' = NoReport
  /\ UNCHANGED <<machine, core_map, hw, backup, tuning, dry_run, writes>>

ApplySingle == Available /\ \E c \in DOMAIN core_map, v \in Values : Ask(Only(c, v), TRUE)
\* Apply All, with one value on all controls, and Reset.
ApplyAll == Available /\ \E v \in Values : Ask([c \in DOMAIN core_map |-> v], TRUE)
RestoreCo == backup # <<>> /\ Ask(backup, FALSE)

\* Mutated form: a core that cannot be read keeps what was known of it.
TakeBackupPartial(unread) ==
  backup' = [c \in DOMAIN core_map |-> IF c \in unread THEN 0 ELSE Read(c)]

\* The cores in unread do not answer: nothing is kept unless every core does.
TakeBackup(unread) ==
  /\ unread = {}
  /\ backup' = [c \in DOMAIN core_map |-> Read(c)]

BackupCo ==
  /\ ~WriteUnavailable /\ pending = NoPlan
  /\ TakeBackup({})
  /\ report' = NoReport
  /\ UNCHANGED <<machine, core_map, hw, tuning, dry_run, pending, writes>>

\* The user declines, the tuner has started under the question, a dry run, or
\* a backup that could not be completed.
Dismiss ==
  /\ pending # NoPlan
  /\ pending' = NoPlan /\ report' = NoReport
  /\ UNCHANGED <<machine, core_map, hw, backup, tuning, dry_run, writes>>

WriteCoPlan ==
  /\ pending # NoPlan /\ ~WriteUnavailable /\ ~dry_run /\ writes < MaxWrites
  /\ IF pending.take_backup THEN \E unread \in {{}} \union {{c} : c \in DOMAIN core_map} : TakeBackup(unread)
     ELSE UNCHANGED backup
  /\ \E answer \in Answers(pending.plan) :
       /\ hw' = Written(pending.plan, answer)
       /\ report' = [plan |-> pending.plan, restored |-> ~pending.take_backup,
                     failed |-> {c \in DOMAIN pending.plan : ~SetCoOffset(pending.plan[c], answer[c])}]
  /\ pending' = NoPlan /\ writes' = writes + 1
  /\ UNCHANGED <<machine, core_map, tuning, dry_run>>

ToggleDryRun ==
  /\ ~tuning /\ pending = NoPlan
  /\ dry_run' = ~dry_run /\ report' = NoReport
  /\ UNCHANGED <<machine, core_map, hw, backup, tuning, pending, writes>>

\* set_tuner_running: the tuner starts, by a timer also under the question, or stops.
TunerRuns ==
  /\ Available
  /\ tuning' = ~tuning /\ report' = NoReport
  /\ UNCHANGED <<machine, core_map, hw, backup, dry_run, pending, writes>>

TunerWrites ==
  /\ tuning /\ Available /\ writes < MaxWrites
  /\ \E c \in DOMAIN core_map, v \in Values : \E answer \in Answers(Only(c, v)) : hw' = Written(Only(c, v), answer)
  /\ report' = NoReport /\ writes' = writes + 1
  /\ UNCHANGED <<machine, core_map, backup, tuning, dry_run, pending>>

\* Sleep, or a reload of the kernel's driver: the SMU forgets.
PowerLost ==
  /\ hw' = [p \in Places |-> 0] /\ report' = NoReport
  /\ UNCHANGED <<machine, core_map, backup, tuning, dry_run, pending, writes>>

Next ==
  \/ SetTopology \/ ApplySingle \/ ApplyAll \/ RestoreCo \/ BackupCo \/ Dismiss \/ WriteCoPlan
  \/ ToggleDryRun \/ TunerRuns \/ TunerWrites \/ PowerLost

Spec == Init /\ [][Next]_vars

-----------------------------------------------------------------------------
(***************************************************************************)
(* Properties                                                              *)
(***************************************************************************)

\* A core map names, for every core the system sees, the slot that core is in:
\* fused-off slots, cores the BIOS disabled, CPUs that are offline and every
\* numbering of Numberings included.  Where that cannot be known there is no map.
AddressesOwnCore ==
  core_map # Unmapped =>
    /\ DOMAIN core_map = Cores
    /\ \A c \in Cores : core_map[c] = PlaceOf(c)

\* After a plan is written, the cores that are not reported as failed hold the
\* plan's offset, in the hardware, and no core outside the plan has changed.
WritesLandWhereTold ==
  [][report' # NoReport =>
       /\ \A c \in DOMAIN report'.plan \ report'.failed : DecodeCoArg(hw'[PlaceOf(c)]) = report'.plan[c]
       /\ \A p \in Places : hw'[p] # hw[p] => \E c \in DOMAIN report'.plan : PlaceOf(c) = p]_vars

\* What Apply and Reset overwrite can be brought back: before the first offset
\* of such a plan is written, the backup holds every core's own offset.
UndoBeforeTouch ==
  [][report' # NoReport /\ hw' # hw =>
       report'.restored \/ (\A c \in Cores : c \in DOMAIN backup' /\ backup'[c] = DecodeCoArg(hw[PlaceOf(c)]))]_vars
=============================================================================
