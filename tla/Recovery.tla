------------------------------ MODULE Recovery ------------------------------
(***************************************************************************)
(* The tuner's search across deaths of the machine and of its own process:   *)
(* the write-ahead journal of the offsets in the hardware, the in-test       *)
(* marks, the boot stamp, and resume, which attributes a crash from the      *)
(* strongest evidence, restores the baselines and goes on (tuner/engine.py,  *)
(* resume and _attribute_crash_after_reboot).  Stepping of one core is in    *)
(* CoreSearch, hunts are in AttributionHunt: here a test moves an offset by  *)
(* one and a hunt ends with an answer.  Baselines are stock, offset 0; a     *)
(* greater offset is a more aggressive one.                                  *)
(***************************************************************************)
EXTENDS CoreOrder

CONSTANTS
  Deep,       \* the most aggressive offset of the search
  Quarantine, \* resume_crash_quarantine_threshold
  MaxDeaths,  \* bound: boots after the first and deaths of the process alone
  MaxTests    \* bound: tests that finish

ASSUME RecoveryAssumption ==
  /\ Deep \in Nat /\ Quarantine \in Nat \ {0}
  /\ MaxDeaths \in Nat /\ MaxTests \in Nat

VARIABLES
  \* in the database
  current, best,  \* offsets of each core
  inTest,         \* cores marked in_test
  journal,        \* the last offset announced for each core
  saved,          \* hunt_state: none, saved or armed
  stamp,          \* boot_id of the session
  streak,         \* resume_crash_streak
  \* in the machine
  boot,           \* this boot
  ended,          \* how the stamped boot ended: up, crash or clean
  hw,             \* the offsets in the hardware
  named,          \* what the kernel log of the stamped boot names, or unreadable
  \* in the process
  app,            \* where it is, off when it is not running
  goal,           \* what the writes under way are for
  owed,           \* cores still to be written or charged
  how,            \* what resume found: same, clean or crash
  pending,        \* pending_hunt
  \* counters and ghosts
  kills, tests,
  intent,         \* the journal when the stamped boot ended
  charged         \* cores charged with the crash of the stamped boot

durable == <<current, best, inTest, journal, saved, stamp, streak>>
machine == <<boot, ended, hw, named>>
process == <<app, goal, owed, how, pending>>
ghosts == <<kills, tests, intent, charged>>
vars == <<ordering, durable, machine, process, ghosts>>

First == IF Deep > 0 THEN 1 ELSE 0  \* where a search starts
Stock == [c \in Cores |-> 0]
Go(a) == app' = a
\* resume returns, or the process is gone: what it found is forgotten.
Forget == how' = "same" /\ pending' = FALSE /\ owed' = {} /\ goal' = "mask"

\* A new session, or one that was resumed when only the first core was left.
Init ==
  /\ OrderInit /\ \E done \in {{}, Cores \ {Lowest(Cores)}} :
       /\ phase = [c \in Cores |-> IF c \in done THEN "confirmed" ELSE "new"]
       /\ best = [c \in Cores |-> IF c \in done THEN First ELSE 0]
  /\ current = [c \in Cores |-> First] /\ inTest = {}
  /\ journal = Stock /\ saved = "none" /\ stamp = 1 /\ streak = 0
  /\ boot = 1 /\ ended = "up" /\ hw = Stock /\ named = {}
  /\ app = "idle" /\ goal = "mask" /\ owed = {} /\ how = "same" /\ pending = FALSE
  /\ kills = 0 /\ tests = 0 /\ intent = Stock /\ charged = {}

-----------------------------------------------------------------------------
\* A slot of the search

\* _run_next: pick, mark, then write the live mask: the others at their best.
RunNext ==
  /\ app = "idle"
  /\ PickNext
  /\ inTest' = inTest \union {last'}
  /\ owed' = {c \in Cores \ {last'} : hw[c] # best[c]} \union {last'}
  /\ goal' = "mask" /\ Go("write")
  /\ UNCHANGED <<current, best, journal, saved, stamp, streak, machine, how, pending,
                 ghosts>>

\* _write_co_verified: the journal first, durably; then the hardware.  The core
\* under test is written last.
NextWrite == IF goal = "mask" /\ owed # {last} THEN Lowest(owed \ {last}) ELSE Lowest(owed)
Target(c) == IF goal # "mask" THEN 0 ELSE IF c = last THEN current[c] ELSE best[c]

WriteIntent ==
  /\ app = "write" /\ owed # {}
  /\ journal' = [journal EXCEPT ![NextWrite] = Target(NextWrite)]
  /\ Go("smu")
  /\ UNCHANGED <<ordering, current, best, inTest, saved, stamp, streak, machine, goal,
                 owed, how, pending, ghosts>>

WriteSmu ==
  /\ app = "smu"
  /\ hw' = [hw EXCEPT ![NextWrite] = Target(NextWrite)]
  /\ owed' = owed \ {NextWrite}
  /\ Go("write")
  /\ UNCHANGED <<ordering, durable, boot, ended, named, goal, how, pending, ghosts>>

Restoring == goal \in {"restore", "refused"}

\* The write is refused three times: stock everywhere, or, when only the revert
\* failed, the offset stays; a pause in either case.
WriteRefused ==
  /\ app = "smu" /\ ~Restoring
  /\ IF goal = "mask" THEN journal' = Stock /\ hw' = Stock ELSE UNCHANGED <<journal, hw>>
  /\ Forget /\ Go("paused")
  /\ UNCHANGED <<ordering, current, best, inTest, saved, stamp, streak, boot, ended, named, ghosts>>

\* _checkpoint_worker and the launch.
Launch ==
  /\ app = "write" /\ owed = {} /\ goal = "mask"
  /\ saved' = IF journal = Stock THEN "none" ELSE "saved"
  /\ Go("test")
  /\ UNCHANGED <<ordering, current, best, inTest, journal, stamp, streak, machine,
                 goal, owed, how, pending, ghosts>>

\* The core's step, after a pass or a failure.
Stepped(c, passed) ==
  LET p == phase[c] v == current[c] IN
  IF passed
  THEN /\ best' = [best EXCEPT ![c] = v]
       /\ \/ p = "search" /\ v < Deep
             /\ phase' = phase /\ current' = [current EXCEPT ![c] = v + 1]
          \/ /\ phase' = [phase EXCEPT ![c] = CASE p = "search" -> "settled"
                                                [] p = "backoff" -> "confirm"
                                                [] OTHER -> "confirmed"]
             /\ UNCHANGED current
  ELSE /\ current' = [current EXCEPT ![c] = IF p = "search" THEN best[c] ELSE Less(v, 1)]
       /\ best' = [best EXCEPT ![c] = IF @ > current'[c] THEN current'[c] ELSE @]
       /\ phase' = [phase EXCEPT ![c] = IF p = "search" THEN "settled" ELSE "backoff"]

\* _on_test_finished with a verdict: the row of the test and the revert, then the
\* step, unless the battery of the slot has regimes left; only the step persists
\* that the core is no longer in_test.
TestFinishes ==
  /\ app = "test" /\ tests < MaxTests /\ tests' = tests + 1
  /\ saved' = "none"
  /\ goal' \in {"passed", "passing", "failed"}
  /\ streak' = IF goal' = "failed" THEN streak ELSE 0
  /\ Finished(last)
  /\ owed' = IF hw[last] = 0 THEN {} ELSE {last}
  /\ Go("write")
  /\ UNCHANGED <<order, phase, crashes, cool, last, lastIn, current, best, inTest, journal, stamp,
                 machine, how, pending, kills, intent, charged>>

\* The test could not run: no verdict, a revert and a pause.
TestWithout ==
  /\ app = "test"
  /\ saved' = "none" /\ inTest' = {}
  /\ owed' = IF hw[last] = 0 THEN {} ELSE {last}
  /\ goal' = "pause" /\ Go("write")
  /\ UNCHANGED <<ordering, current, best, journal, stamp, streak, machine, how, pending, ghosts>>

Written ==
  /\ app = "write" /\ owed = {} /\ goal # "mask"
  /\ IF goal \in {"passed", "failed"} THEN Stepped(last, goal = "passed")
     ELSE UNCHANGED <<current, best, phase>>
  /\ CASE goal = "restore" -> Go("go") /\ UNCHANGED <<inTest, goal, owed, how, pending>>
       [] goal \in {"pause", "refused"} -> Go("paused") /\ Forget /\ UNCHANGED inTest
       [] OTHER -> Go("idle") /\ Forget /\ inTest' = {}
  /\ UNCHANGED <<order, crashes, cool, last, lastIn, finished, skipped, journal, saved, stamp,
                 streak, machine, ghosts>>

\* _complete_session: every core is confirmed.
Complete ==
  /\ app = "idle" /\ Unfinished = {}
  /\ Go("done")
  /\ UNCHANGED <<ordering, durable, machine, goal, owed, how, pending, ghosts>>

\* _apply_crash_penalty: cores that crashed at the offsets v back off and cool down.
Penalized(crashed, v) ==
  /\ current' = [c \in Cores |-> IF c \in crashed THEN Less(v[c], 1) ELSE current[c]]
  /\ best' = [c \in Cores |-> IF c \in crashed /\ best[c] > current'[c] THEN current'[c] ELSE best[c]]
  /\ crashes' = [c \in Cores |-> IF c \in crashed THEN crashes[c] + 1 ELSE crashes[c]]
  /\ cool' = [c \in Cores |-> IF c \in crashed THEN 2 ELSE cool[c]]
  /\ phase' = [c \in Cores |-> IF c \in crashed THEN "backoff" ELSE phase[c]]

-----------------------------------------------------------------------------
\* A hunt, as far as a crash in it concerns resume (see AttributionHunt)

\* The mask of a probe is written, a part of the crash vector; then it is armed.  The
\* core the probe reports on becomes the cursor of the rotation.
HuntMask ==
  /\ app = "hunt"
  /\ last' \in Cores /\ skipped' = Fresh
  /\ \E live \in SUBSET {c \in Cores : best[c] # 0} :
       /\ hw' = [c \in Cores |-> IF c \in live THEN best[c] ELSE 0]
       /\ journal' = hw'
  /\ saved' = "saved" /\ Go("masked")
  /\ UNCHANGED <<order, phase, crashes, cool, lastIn, finished, current, best, inTest, stamp,
                 streak, boot, ended, named, goal, owed, how, pending, ghosts>>

HuntArm ==
  /\ app = "masked"
  /\ saved' = "armed" /\ Go("probe")
  /\ UNCHANGED <<ordering, current, best, inTest, journal, stamp, streak, machine, goal,
                 owed, how, pending, ghosts>>

\* A probe is answered and in the log; the hunt goes on, or ends with culprits, which
\* take the crash penalty, with nobody, when the step the machine died on counts as failed
\* if one core was loaded, or with the platform as the cause; it leaves stock in the
\* hardware.
HuntAnswer ==
  /\ app = "probe" /\ tests < MaxTests /\ tests' = tests + 1
  /\ Logged(last)
  /\ \/ saved' = "saved" /\ Go("hunt")
        /\ UNCHANGED <<phase, crashes, cool, best, current, streak, hw, journal>>
     \/ /\ saved' = "none" /\ hw' = Stock /\ journal' = Stock
        /\ \/ \E culprits \in SUBSET {c \in Cores : best[c] # 0} \ {{}} :
              /\ Penalized(culprits, best)
              /\ streak' = 0 /\ Go("idle")
           \/ /\ phase[last] \in {"search", "confirm", "backoff"} /\ Stepped(last, FALSE)
              /\ Go("idle") /\ UNCHANGED <<crashes, cool, streak>>
           \/ /\ Go("idle") \/ Go("paused")
              /\ UNCHANGED <<phase, crashes, cool, best, current, streak>>
  /\ UNCHANGED <<order, last, lastIn, skipped, inTest, stamp, boot, ended, named, goal, owed, how,
                 pending, kills, intent, charged>>

-----------------------------------------------------------------------------
\* resume

\* Gates, and the branch for the boot: the same, one that ended in order, or a crash.
\* The mutated form takes every reboot for a crash.
ResumeWhere(crashed) ==
  /\ app \in {"off", "paused"}
  /\ how' = IF stamp = boot THEN "same" ELSE IF crashed THEN "crash" ELSE "clean"
  /\ Go(IF how' = "crash" THEN "attribute" ELSE "close")
  /\ pending' = (how' # "crash" /\ saved # "none")
  /\ saved' = IF how' # "crash" /\ saved = "armed" THEN "saved" ELSE saved
  /\ owed' = {} /\ goal' = "restore"
  /\ UNCHANGED <<ordering, current, best, inTest, journal, stamp, streak, machine,
                 ghosts>>
ResumeRebooted == ResumeWhere(TRUE)
Resume == ResumeWhere(ended # "clean")

Residents == {c \in Cores : journal[c] # 0}

\* _attribute_crash_after_reboot: the armed probe first, then the kernel log, then
\* a sole resident; everything else is for a hunt.  The suspects' branch of the
\* code adds nothing to the sole resident: a suspect is a resident.  The mutated
\* form opens a hunt only for a core marked in_test.
AttributeWhere(ambiguous) ==
  /\ app = "attribute"
  /\ \/ saved = "armed" /\ pending' = TRUE /\ owed' = {} /\ Go("close")
     \/ saved # "armed" /\ ~(named \subseteq Residents)
        /\ Go("paused") /\ UNCHANGED <<pending, owed>>
     \/ /\ saved # "armed" /\ named # {} /\ named \subseteq Residents
        /\ owed' = named /\ pending' = FALSE /\ Go("charge")
     \/ /\ saved # "armed" /\ named = {}
        /\ owed' = IF Cardinality(Residents) = 1 THEN Residents ELSE {}
        /\ pending' = (owed' = {} /\ ambiguous)
        /\ Go(IF owed' = {} THEN "close" ELSE "charge")
  /\ UNCHANGED <<ordering, durable, machine, goal, how, ghosts>>
AttributeInTest == AttributeWhere(inTest # {})
Attribute == AttributeWhere(inTest # {} \/ Residents # {} \/ saved # "none")

\* One core is charged, with the offset the journal holds, and that is committed.
\* The row also makes the kernel log before it old.
Charge ==
  LET c == Lowest(owed) IN
  /\ app = "charge"
  /\ Penalized({c}, journal)
  /\ skipped' = [skipped EXCEPT ![c] = 0]
  /\ owed' = owed \ {c} /\ named' = {}
  /\ Go(IF owed' = {} THEN "close" ELSE "charge")
  /\ charged' = charged \union {c}
  /\ UNCHANGED <<order, last, lastIn, finished, inTest, journal, saved, stamp, streak,
                 boot, ended, hw, goal, how, pending, kills, tests, intent>>

\* The marks are cleared; the saved hunt goes if a core was charged.
Close ==
  /\ app = "close"
  /\ inTest' = {}
  /\ saved' = IF pending THEN saved ELSE "none"
  /\ Go("stamp")
  /\ UNCHANGED <<ordering, current, best, journal, stamp, streak, machine, goal, owed,
                 how, pending, ghosts>>

\* set_session_boot: from here on the crash counts as handled.
Stamp ==
  /\ app = "stamp"
  /\ stamp' = boot /\ Go(IF how = "crash" THEN "streak" ELSE "restore")
  /\ named' = {} /\ ended' = "up"
  /\ UNCHANGED <<ordering, current, best, inTest, journal, saved, streak, boot, hw, goal, owed,
                 how, pending, ghosts>>

\* The crash streak: at the threshold the verdicts do not converge, and a hunt opens.
Handled == charged # {} \/ pending
Streak ==
  /\ app = "streak"
  /\ streak' = IF Handled THEN streak + 1 ELSE streak
  /\ IF Handled /\ streak' >= Quarantine /\ ~pending
     THEN saved' = "saved" /\ Go("hunt")
     ELSE UNCHANGED saved /\ Go("restore")
  /\ UNCHANGED <<ordering, current, best, inTest, journal, stamp, machine, goal, owed,
                 how, pending, ghosts>>

\* Every core is written to its baseline; a refusal pauses after the rest.  A
\* write of what is already announced and resident changes nothing and is skipped.
Restore ==
  /\ app = "restore"
  /\ owed' = {c \in Cores : hw[c] # 0 \/ journal[c] # 0} /\ goal' = "restore" /\ Go("write")
  /\ UNCHANGED <<ordering, durable, machine, how, pending, ghosts>>

RestoreRefused ==
  /\ app = "smu" /\ Restoring
  /\ owed' = owed \ {NextWrite} /\ goal' = "refused" /\ Go("write")
  /\ UNCHANGED <<ordering, durable, machine, how, pending, ghosts>>

\* The cursors are rebuilt; then the hunt, or the search.
GoOn ==
  /\ app = "go"
  /\ Reconstructed /\ Forget
  /\ \/ pending /\ saved' = (IF saved = "armed" THEN "armed" ELSE "saved") /\ Go("hunt")
     \/ ~pending /\ UNCHANGED saved /\ Go("idle")
  /\ UNCHANGED <<order, phase, crashes, cool, finished, skipped, current, best, inTest, journal,
                 stamp, streak, machine, ghosts>>

-----------------------------------------------------------------------------
\* Deaths

Deaths == kills + boot - 1
Gone == /\ Go("off") /\ Forget /\ last' = NoCore /\ lastIn' = [d \in {0, 1} |-> NoCore]
        /\ UNCHANGED <<order, phase, crashes, cool, finished, skipped, durable, tests>>

\* The process dies, and the machine stays up.
Kill ==
  /\ app # "off" /\ Deaths < MaxDeaths /\ kills' = kills + 1
  /\ Gone
  /\ UNCHANGED <<machine, intent, charged>>

\* The machine goes down: in order, or by a crash that the kernel may have time to
\* blame on a core with an offset, on a core at stock (NoCore), or on nobody.
\* The log of a boot counts only if the session ran in it.
Down(end) ==
  /\ Deaths < MaxDeaths /\ boot' = boot + 1
  /\ hw' = Stock /\ ended' = IF stamp = boot THEN end ELSE ended
  /\ named' \in IF end = "crash" /\ stamp = boot
                THEN {{NoCore}} \union SUBSET {x \in Cores : hw[x] # 0} ELSE {named}
  /\ IF stamp = boot THEN intent' = journal /\ charged' = {}
                     ELSE UNCHANGED <<intent, charged>>
  /\ Gone /\ UNCHANGED kills

Crash == app # "done" /\ Down("crash")
Reboot == Down("clean")

Next ==
  \/ RunNext \/ WriteIntent \/ WriteSmu \/ WriteRefused \/ Launch \/ TestFinishes \/ TestWithout
  \/ Written \/ Complete \/ HuntMask \/ HuntArm \/ HuntAnswer
  \/ Resume \/ Attribute \/ Charge \/ Close \/ Stamp \/ Streak \/ Restore \/ RestoreRefused \/ GoOn
  \/ Kill \/ Crash \/ Reboot
Spec == Init /\ [][Next]_vars

-----------------------------------------------------------------------------
\* resume charges a core with a crash only if the boot the session ran in crashed, and
\* an offset was announced for the core then; it ends shallower than that.
Backed(c) == ended = "crash" /\ intent[c] # 0
\* (Culprits of a hunt are charged on its own evidence.)
Charges == {c \in Cores : app # "probe" /\ crashes'[c] # crashes[c]}
ChargeIsBacked == [][\A c \in Charges : Backed(c) /\ current'[c] < intent[c]]_vars

\* One crash of the machine charges a core once: "crash handling only applies when
\* the machine actually REBOOTED since the session's last persisted write".
OneChargePerCrash == [][\A c \in Charges : c \notin charged]_vars

\* A crash with offsets in the journal is answered before the search goes on: a
\* core is charged, or a hunt is opened ("the machine died with the profile live").
Answered == charged # {} \/ app' = "hunt"
CrashIsAnswered ==
  [][(app = "go" /\ app' \in {"idle", "hunt"} /\ how = "crash" /\ intent # Stock)
       => Answered]_vars

\* In a slot of the search what the hardware runs is on record, to be suspected by the
\* next boot, but for the core whose announced write is under way; whatever reverts,
\* refusals, deaths and restarts came before (tuner/engine.py, _write_co_verified).
UnderWay(c) == app = "smu" /\ c = NextWrite
SlotIsOnRecord ==
  app \in {"write", "smu", "test"} /\ goal = "mask" =>
    \A c \in Cores : hw[c] # journal[c] => UnderWay(c)
=============================================================================
