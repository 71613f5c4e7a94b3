--------------------------- MODULE HeadlessProofs ---------------------------
(***************************************************************************)
(* What a process that tunes without a window leaves behind, however many    *)
(* signals it gets and wherever in a slot they come.                        *)
(***************************************************************************)
EXTENDS Headless, TLAPS

\* Where the main thread can be.
Places == {"asked", "starting", "started", "picking", "choosing", "writing", "launching",
           "checking", "launched", "judging", "loop", "gone"}

\* In a slot of the engine that has no worker yet.
Slot == {"picking", "choosing", "writing", "launching", "judging"}

\* What has one of several values ...
Kinds ==
  /\ pc \in Places /\ code \in Codes \union {NoCode} /\ thread \in {"none", "running", "ended"}
  /\ status \in Recoverable \union {"idle", "completed"}
  /\ row \in Recoverable \union {"completed"}
  /\ signals \in 0 .. MaxSignals

\* ... and what is set or not, of the command and the engine ...
Flags ==
  /\ exec \in BOOLEAN /\ quit \in BOOLEAN /\ next \in BOOLEAN
  /\ settling \in BOOLEAN /\ paused \in BOOLEAN /\ aborting \in BOOLEAN

\* ... and of the test.
TestFlags ==
  /\ in_test \in BOOLEAN /\ worker \in BOOLEAN /\ resident \in BOOLEAN
  /\ spoiled \in BOOLEAN /\ amid \in BOOLEAN

TypeOK == Kinds /\ Flags /\ TestFlags

\* Nothing has happened before the engine starts.
Fresh ==
  pc \in {"asked", "starting"} =>
    /\ code = NoCode /\ ~settling
    /\ thread = "none" /\ ~worker /\ ~in_test /\ ~resident

\* The event loop runs from the end of the command's start on.
LoopEntered ==
  /\ pc \in {"asked", "starting", "started"} => ~exec
  /\ pc \in {"judging", "loop"} => exec

\* The loop is told to end as soon as there is an exit code.
QuitsWithCode ==
  /\ quit <=> exec /\ code # NoCode
  /\ pc = "gone" => code # NoCode

\* One slot at a time, and none while a worker is out.
OneDispatcher ==
  /\ pc \in Slot \/ next => ~worker /\ thread = "none"
  /\ next => pc \in {"loop", "gone"}

\* A thread is a worker's, and a worker has a thread, except on the way to it
\* and where an interrupt came in between.
ThreadOwned ==
  /\ thread # "none" => worker \/ amid
  /\ worker => pc \in {"checking", "launched"} \/ thread # "none"
  /\ pc \in {"checking", "launched"} => (worker \/ amid) /\ thread = "none"

\* Between slots a core is marked with its offset in the hardware only while
\* its worker is out.
MarkExplained ==
  /\ in_test /\ resident
  /\ pc \in {"started", "loop", "picking", "choosing", "gone"}
  => worker \/ spoiled \/ aborting

\* An abort has its code, which only the end of the session replaces.
AbortCoded ==
  /\ amid => aborting
  /\ aborting => code \in {"signal", "completed"}

\* settle_paused waits for a pause that is in the session's row.
WaitsForAPause == settling => paused /\ (row = "paused" \/ code # NoCode)

\* Once the process is to exit as paused, no worker is started any more.
PausedHolds ==
  code = "paused" =>
    /\ paused /\ thread = "none" /\ pc # "launched"
    /\ worker => pc = "checking"
    /\ spoiled \/ row = "paused"

\* After an interrupt between slots that did all it should, nothing follows
\* but a pause and the exit.
InterruptHolds ==
  code = "signal" /\ ~spoiled /\ ~amid =>
    /\ pc \in {"loop", "gone"} /\ row \in {"aborted", "paused"}
    /\ ~resident /\ ~worker /\ thread = "none"

\* The inductive invariant.
Inv ==
  /\ TypeOK /\ Fresh /\ LoopEntered /\ QuitsWithCode /\ OneDispatcher /\ ThreadOwned
  /\ MarkExplained /\ AbortCoded /\ WaitsForAPause /\ PausedHolds /\ InterruptHolds

USE HeadlessAssumption

-----------------------------------------------------------------------------
(* One lemma for each action. *)

\* The command refuses, or goes on to the engine.
LEMMA PreflightKeeps ==
  ASSUME EarlySignals = FALSE, Inv, Preflight
  PROVE  Inv'
BY DEF Preflight, engine, front, ghosts, Codes, Recoverable, Resumable,
       Inv, TypeOK, Kinds, Flags, TestFlags, Fresh, LoopEntered, QuitsWithCode,
       OneDispatcher, ThreadOwned, MarkExplained, AbortCoded, WaitsForAPause, PausedHolds,
       InterruptHolds, Places, Slot

\* The engine starts with its flags cleared.
LEMMA StartKeeps ==
  ASSUME EarlySignals = FALSE, Inv, Start
  PROVE  Inv'
BY DEF Start, engine, front, ghosts, Codes, Recoverable, Resumable,
       Inv, TypeOK, Kinds, Flags, TestFlags, Fresh, LoopEntered, QuitsWithCode,
       OneDispatcher, ThreadOwned, MarkExplained, AbortCoded, WaitsForAPause, PausedHolds,
       InterruptHolds, Places, Slot

\* The engine refuses to start, or pauses a session that cannot be resumed.
LEMMA RefuseKeeps ==
  ASSUME EarlySignals = FALSE, Inv, Refuse
  PROVE  Inv'
<1> USE DEF Refuse, Pause, SettlePaused, InFlight, Finish, Coded, engine, front, ghosts,
       Codes, Recoverable, Resumable, Inv, TypeOK, Kinds, Flags, TestFlags
<1>1. Kinds'
  BY DEF Places
<1>2. Flags'
  OBVIOUS
<1>3. TestFlags'
  OBVIOUS
<1>4. Fresh'
  BY DEF Fresh
<1>5. LoopEntered'
  BY DEF LoopEntered
<1>6. QuitsWithCode'
  BY DEF QuitsWithCode
<1>7. OneDispatcher'
  BY DEF OneDispatcher, Slot
<1>8. ThreadOwned'
  BY DEF ThreadOwned
<1>9. MarkExplained'
  BY DEF MarkExplained, Fresh
<1>10. AbortCoded'
  BY DEF AbortCoded, Fresh
<1>11. WaitsForAPause'
  BY DEF WaitsForAPause, Fresh
<1>12. PausedHolds'
  BY DEF PausedHolds, Fresh
<1>13. InterruptHolds'
  BY DEF InterruptHolds
<1> QED
  BY <1>1, <1>2, <1>3, <1>4, <1>5, <1>6, <1>7, <1>8, <1>9, <1>10, <1>11, <1>12, <1>13

\* A slot looks at the flags.
LEMMA PickKeeps ==
  ASSUME EarlySignals = FALSE, Inv, Pick
  PROVE  Inv'
BY DEF Pick, Back, engine, front, ghosts, Codes, Recoverable, Resumable,
       Inv, TypeOK, Kinds, Flags, TestFlags, Fresh, LoopEntered, QuitsWithCode,
       OneDispatcher, ThreadOwned, MarkExplained, AbortCoded, WaitsForAPause, PausedHolds,
       InterruptHolds, Places, Slot

\* The session is complete.
LEMMA CompleteKeeps ==
  ASSUME EarlySignals = FALSE, Inv, Complete
  PROVE  Inv'
BY DEF Complete, Back, engine, front, ghosts, Codes, Recoverable, Resumable,
       Inv, TypeOK, Kinds, Flags, TestFlags, Fresh, LoopEntered, QuitsWithCode,
       OneDispatcher, ThreadOwned, MarkExplained, AbortCoded, WaitsForAPause, PausedHolds,
       InterruptHolds, Places, Slot

\* A core is marked as under test.
LEMMA ChooseKeeps ==
  ASSUME EarlySignals = FALSE, Inv, Choose
  PROVE  Inv'
BY DEF Choose, engine, front, ghosts, Codes, Recoverable, Resumable,
       Inv, TypeOK, Kinds, Flags, TestFlags, Fresh, LoopEntered, QuitsWithCode,
       OneDispatcher, ThreadOwned, MarkExplained, AbortCoded, WaitsForAPause, PausedHolds,
       InterruptHolds, Places, Slot

\* Its offset is written.
LEMMA WriteKeeps ==
  ASSUME EarlySignals = FALSE, Inv, Write
  PROVE  Inv'
BY DEF Write, engine, front, ghosts, Codes, Recoverable, Resumable,
       Inv, TypeOK, Kinds, Flags, TestFlags, Fresh, LoopEntered, QuitsWithCode,
       OneDispatcher, ThreadOwned, MarkExplained, AbortCoded, WaitsForAPause, PausedHolds,
       InterruptHolds, Places, Slot

\* A write fails, and parking at stock works or fails too.
LEMMA WriteFailsKeeps ==
  ASSUME EarlySignals = FALSE, Inv, WriteFails
  PROVE  Inv'
<1> USE DEF WriteFails, Back, Pause, SettlePaused, InFlight, Finish, Coded, engine, front,
       ghosts, Codes, Recoverable, Resumable, Inv, TypeOK, Kinds, Flags, TestFlags
<1>1. Kinds'
  BY DEF Places
<1>2. Flags'
  OBVIOUS
<1>3. TestFlags'
  OBVIOUS
<1>4. Fresh'
  BY DEF Fresh
<1>5. LoopEntered'
  BY DEF LoopEntered
<1>6. QuitsWithCode'
  BY DEF QuitsWithCode
<1>7. OneDispatcher'
  BY DEF OneDispatcher, Slot
<1>8. ThreadOwned'
  BY DEF ThreadOwned
<1>9. MarkExplained'
  BY DEF MarkExplained
<1>10. AbortCoded'
  BY DEF AbortCoded
<1>11. WaitsForAPause'
  BY DEF WaitsForAPause
<1>12. PausedHolds'
  BY DEF PausedHolds, OneDispatcher, Slot
<1>13. InterruptHolds'
  BY DEF InterruptHolds
<1> QED
  BY <1>1, <1>2, <1>3, <1>4, <1>5, <1>6, <1>7, <1>8, <1>9, <1>10, <1>11, <1>12, <1>13

\* The worker is announced.
LEMMA AnnounceKeeps ==
  ASSUME EarlySignals = FALSE, Inv, Announce
  PROVE  Inv'
BY DEF Announce, engine, front, ghosts, Codes, Recoverable, Resumable,
       Inv, TypeOK, Kinds, Flags, TestFlags, Fresh, LoopEntered, QuitsWithCode,
       OneDispatcher, ThreadOwned, MarkExplained, AbortCoded, WaitsForAPause, PausedHolds,
       InterruptHolds, Places, Slot

\* A launch that a pause or an abort overtook is dropped.
LEMMA CheckKeeps ==
  ASSUME EarlySignals = FALSE, Inv, Check
  PROVE  Inv'
<1> USE DEF Check, Back, engine, front, ghosts, Codes, Recoverable, Resumable, Inv, TypeOK,
       Kinds, Flags, TestFlags
<1>1. Kinds'
  BY DEF Places
<1>2. Flags'
  OBVIOUS
<1>3. TestFlags'
  OBVIOUS
<1>4. Fresh'
  BY DEF Fresh
<1>5. LoopEntered'
  BY DEF LoopEntered
<1>6. QuitsWithCode'
  BY DEF QuitsWithCode
<1>7. OneDispatcher'
  BY DEF OneDispatcher, Slot
<1>8. ThreadOwned'
  BY DEF ThreadOwned
<1>9. MarkExplained'
  BY DEF MarkExplained
<1>10. AbortCoded'
  BY DEF AbortCoded
<1>11. WaitsForAPause'
  BY DEF WaitsForAPause
<1>12. PausedHolds'
  BY DEF PausedHolds
<1>13. InterruptHolds'
  BY DEF InterruptHolds
<1> QED
  BY <1>1, <1>2, <1>3, <1>4, <1>5, <1>6, <1>7, <1>8, <1>9, <1>10, <1>11, <1>12, <1>13

\* The worker is started.
LEMMA LaunchKeeps ==
  ASSUME EarlySignals = FALSE, Inv, Launch
  PROVE  Inv'
BY DEF Launch, Back, engine, front, ghosts, Codes, Recoverable, Resumable,
       Inv, TypeOK, Kinds, Flags, TestFlags, Fresh, LoopEntered, QuitsWithCode,
       OneDispatcher, ThreadOwned, MarkExplained, AbortCoded, WaitsForAPause, PausedHolds,
       InterruptHolds, Places, Slot

\* A test ends.
LEMMA ThreadEndsKeeps ==
  ASSUME EarlySignals = FALSE, Inv, ThreadEnds
  PROVE  Inv'
BY DEF ThreadEnds, engine, front, ghosts, Codes, Recoverable, Resumable,
       Inv, TypeOK, Kinds, Flags, TestFlags, Fresh, LoopEntered, QuitsWithCode,
       OneDispatcher, ThreadOwned, MarkExplained, AbortCoded, WaitsForAPause, PausedHolds,
       InterruptHolds, Places, Slot

\* The worker is let go of.
LEMMA JudgeKeeps ==
  ASSUME EarlySignals = FALSE, Inv, Judge
  PROVE  Inv'
<1> USE DEF Judge, engine, front, ghosts, Codes, Recoverable, Resumable, Inv, TypeOK, Kinds,
       Flags, TestFlags
<1>1. Kinds'
  BY DEF Places
<1>2. Flags'
  OBVIOUS
<1>3. TestFlags'
  OBVIOUS
<1>4. Fresh'
  BY DEF Fresh
<1>5. LoopEntered'
  BY DEF LoopEntered
<1>6. QuitsWithCode'
  BY DEF QuitsWithCode
<1>7. OneDispatcher'
  BY DEF OneDispatcher, Slot
<1>8. ThreadOwned'
  BY DEF ThreadOwned
<1>9. MarkExplained'
  BY DEF MarkExplained
<1>10. AbortCoded'
  BY DEF AbortCoded
<1>11. WaitsForAPause'
  BY DEF WaitsForAPause
<1>12. PausedHolds'
  BY DEF PausedHolds
<1>13. InterruptHolds'
  BY DEF InterruptHolds
<1> QED
  BY <1>1, <1>2, <1>3, <1>4, <1>5, <1>6, <1>7, <1>8, <1>9, <1>10, <1>11, <1>12, <1>13

\* A result is recorded, or pauses the session.
LEMMA RecordKeeps ==
  ASSUME EarlySignals = FALSE, Inv, Record
  PROVE  Inv'
<1> USE DEF Record, Back, Pause, SettlePaused, InFlight, Finish, Coded, engine, front,
       ghosts, Codes, Recoverable, Resumable, Inv, TypeOK, Kinds, Flags, TestFlags
<1>1. Kinds'
  BY DEF Places
<1>2. Flags'
  OBVIOUS
<1>3. TestFlags'
  OBVIOUS
<1>4. Fresh'
  BY DEF Fresh
<1>5. LoopEntered'
  BY DEF LoopEntered
<1>6. QuitsWithCode'
  BY DEF QuitsWithCode
<1>7. OneDispatcher'
  BY DEF OneDispatcher, LoopEntered, Slot
<1>8. ThreadOwned'
  BY DEF ThreadOwned
<1>9. MarkExplained'
  BY DEF MarkExplained
<1>10. AbortCoded'
  BY DEF AbortCoded
<1>11. WaitsForAPause'
  BY DEF WaitsForAPause
<1>12. PausedHolds'
  BY DEF PausedHolds, OneDispatcher, Slot
<1>13. InterruptHolds'
  BY DEF InterruptHolds
<1> QED
  BY <1>1, <1>2, <1>3, <1>4, <1>5, <1>6, <1>7, <1>8, <1>9, <1>10, <1>11, <1>12, <1>13

\* The queued slot runs.
LEMMA NextSlotKeeps ==
  ASSUME EarlySignals = FALSE, Inv, NextSlot
  PROVE  Inv'
<1> USE DEF NextSlot, engine, front, ghosts, Codes, Recoverable, Resumable, Inv, TypeOK,
       Kinds, Flags, TestFlags
<1>1. Kinds'
  BY DEF Places
<1>2. Flags'
  OBVIOUS
<1>3. TestFlags'
  OBVIOUS
<1>4. Fresh'
  BY DEF Fresh
<1>5. LoopEntered'
  BY DEF LoopEntered
<1>6. QuitsWithCode'
  BY DEF QuitsWithCode
<1>7. OneDispatcher'
  BY DEF OneDispatcher, Slot
<1>8. ThreadOwned'
  BY DEF ThreadOwned
<1>9. MarkExplained'
  BY DEF MarkExplained
<1>10. AbortCoded'
  BY DEF AbortCoded
<1>11. WaitsForAPause'
  BY DEF WaitsForAPause
<1>12. PausedHolds'
  BY DEF PausedHolds
<1>13. InterruptHolds'
  BY DEF InterruptHolds, QuitsWithCode, LoopEntered
<1> QED
  BY <1>1, <1>2, <1>3, <1>4, <1>5, <1>6, <1>7, <1>8, <1>9, <1>10, <1>11, <1>12, <1>13

\* settle_paused looks again.
LEMMA SettleFiresKeeps ==
  ASSUME EarlySignals = FALSE, Inv, SettleFires
  PROVE  Inv'
BY ZenonT(60) DEF SettleFires, SettlePaused, InFlight, Finish, Coded, engine, front, ghosts, Codes,
       Recoverable, Resumable,
       Inv, TypeOK, Kinds, Flags, TestFlags, Fresh, LoopEntered, QuitsWithCode,
       OneDispatcher, ThreadOwned, MarkExplained, AbortCoded, WaitsForAPause, PausedHolds,
       InterruptHolds, Places, Slot

\* The command looks at what its start achieved.
LEMMA StartedKeeps ==
  ASSUME EarlySignals = FALSE, Inv, Started
  PROVE  Inv'
<1> USE DEF Started, Coded, engine, front, ghosts, Codes, Recoverable, Resumable, Inv,
       TypeOK, Kinds, Flags, TestFlags
<1>1. Kinds'
  BY DEF Places
<1>2. Flags'
  OBVIOUS
<1>3. TestFlags'
  OBVIOUS
<1>4. Fresh'
  BY DEF Fresh
<1>5. LoopEntered'
  BY DEF LoopEntered
<1>6. QuitsWithCode'
  BY DEF QuitsWithCode, LoopEntered
<1>7. OneDispatcher'
  BY DEF OneDispatcher, Slot
<1>8. ThreadOwned'
  BY DEF ThreadOwned
<1>9. MarkExplained'
  BY DEF MarkExplained
<1>10. AbortCoded'
  BY DEF AbortCoded
<1>11. WaitsForAPause'
  BY DEF WaitsForAPause
<1>12. PausedHolds'
  BY DEF PausedHolds
<1>13. InterruptHolds'
  BY DEF InterruptHolds
<1> QED
  BY <1>1, <1>2, <1>3, <1>4, <1>5, <1>6, <1>7, <1>8, <1>9, <1>10, <1>11, <1>12, <1>13

\* The loop ends.
LEMMA ExitKeeps ==
  ASSUME EarlySignals = FALSE, Inv, Exit
  PROVE  Inv'
BY DEF Exit, engine, front, ghosts, Codes, Recoverable, Resumable,
       Inv, TypeOK, Kinds, Flags, TestFlags, Fresh, LoopEntered, QuitsWithCode,
       OneDispatcher, ThreadOwned, MarkExplained, AbortCoded, WaitsForAPause, PausedHolds,
       InterruptHolds, Places, Slot

\* SIGTERM pauses, and waits for a test that is out.
LEMMA OnTerminateKeeps ==
  ASSUME EarlySignals = FALSE, Inv, OnTerminate
  PROVE  Inv'
<1> USE DEF OnTerminate, MayCome, Pause, SettlePaused, InFlight, Finish, Coded, engine,
       front, ghosts, Codes, Recoverable, Resumable, Inv, TypeOK, Kinds, Flags, TestFlags
<1>1. Kinds'
  BY DEF Places
<1>2. Flags'
  OBVIOUS
<1>3. TestFlags'
  OBVIOUS
<1>4. Fresh'
  BY DEF Fresh, LoopEntered
<1>5. LoopEntered'
  BY DEF LoopEntered
<1>6. QuitsWithCode'
  BY DEF QuitsWithCode
<1>7. OneDispatcher'
  BY DEF OneDispatcher, Slot
<1>8. ThreadOwned'
  BY DEF ThreadOwned
<1>9. MarkExplained'
  BY DEF MarkExplained
<1>10. AbortCoded'
  BY DEF AbortCoded
<1>11. WaitsForAPause'
  BY DEF WaitsForAPause
<1>12. PausedHolds'
  BY DEF PausedHolds, ThreadOwned, AbortCoded
<1>13. InterruptHolds'
  BY DEF InterruptHolds
<1> QED
  BY <1>1, <1>2, <1>3, <1>4, <1>5, <1>6, <1>7, <1>8, <1>9, <1>10, <1>11, <1>12, <1>13

\* SIGINT stops the worker, reverts and quits.
LEMMA OnInterruptKeeps ==
  ASSUME EarlySignals = FALSE, Inv, OnInterrupt
  PROVE  Inv'
<1> USE DEF OnInterrupt, MayCome, Restored, engine, front, ghosts, Codes, Recoverable,
       Resumable, Inv, TypeOK, Kinds, Flags, TestFlags
<1>1. Kinds'
  BY DEF Places
<1>2. Flags'
  OBVIOUS
<1>3. TestFlags'
  OBVIOUS
<1>4. Fresh'
  BY DEF Fresh, LoopEntered
<1>5. LoopEntered'
  BY DEF LoopEntered
<1>6. QuitsWithCode'
  BY DEF QuitsWithCode
<1>7. OneDispatcher'
  BY DEF OneDispatcher, Slot
<1>8. ThreadOwned'
  BY DEF ThreadOwned
<1>9. MarkExplained'
  BY DEF MarkExplained
<1>10. AbortCoded'
  BY DEF AbortCoded
<1>11. WaitsForAPause'
  BY DEF WaitsForAPause
<1>12. PausedHolds'
  BY DEF PausedHolds
<1>13. InterruptHolds'
  BY DEF InterruptHolds, ThreadOwned, LoopEntered, QuitsWithCode, AbortCoded
<1> QED
  BY <1>1, <1>2, <1>3, <1>4, <1>5, <1>6, <1>7, <1>8, <1>9, <1>10, <1>11, <1>12, <1>13

\* The invariant holds from the start on.
LEMMA InitHolds == Init => Inv
<1> SUFFICES ASSUME Init PROVE Inv
  OBVIOUS
<1>1. Kinds
  BY DEF Init, Codes, Recoverable, Resumable, Kinds, Places
<1>2. Flags
  BY DEF Init, Flags
<1>3. TestFlags
  BY DEF Init, TestFlags
<1>4. Fresh /\ LoopEntered /\ QuitsWithCode /\ OneDispatcher /\ ThreadOwned
  BY DEF Init, Fresh, LoopEntered, QuitsWithCode, OneDispatcher, ThreadOwned, Slot, Codes
<1>5. MarkExplained /\ AbortCoded /\ WaitsForAPause /\ PausedHolds /\ InterruptHolds
  BY DEF Init, MarkExplained, AbortCoded, WaitsForAPause, PausedHolds, InterruptHolds, Codes
<1> QED
  BY <1>1, <1>2, <1>3, <1>4, <1>5 DEF Inv, TypeOK

\* Every step, whichever actor's, keeps it.
LEMMA NextKeeps ==
  ASSUME EarlySignals = FALSE, Inv, [Next]_vars
  PROVE  Inv'
<1>1. CASE Main
  BY <1>1, PreflightKeeps, StartKeeps, RefuseKeeps, PickKeeps, CompleteKeeps, ChooseKeeps,
         WriteKeeps, WriteFailsKeeps, AnnounceKeeps, CheckKeeps, LaunchKeeps, JudgeKeeps,
         RecordKeeps, NextSlotKeeps, SettleFiresKeeps, StartedKeeps, ExitKeeps DEF Main
<1>2. CASE ThreadEnds \/ OnTerminate \/ OnInterrupt
  BY <1>2, ThreadEndsKeeps, OnTerminateKeeps, OnInterruptKeeps
<1>3. CASE UNCHANGED vars
  BY <1>3 DEF vars, engine, front, ghosts, Inv, TypeOK, Kinds, Flags, TestFlags, Fresh,
         LoopEntered, QuitsWithCode, OneDispatcher, ThreadOwned, MarkExplained, AbortCoded,
         WaitsForAPause, PausedHolds, InterruptHolds
<1> QED
  BY <1>1, <1>2, <1>3 DEF Next

-----------------------------------------------------------------------------
(* Theorems, for signals that come once the event loop runs *)

\* The invariant that the theorems below are read off.
THEOREM RunIsInvariant ==
  ASSUME EarlySignals = FALSE
  PROVE  Spec => []Inv
<1> QED
  BY InitHolds, NextKeeps, PTL DEF Spec

\* Every variable keeps its type.
THEOREM RunTypeCorrect ==
  ASSUME EarlySignals = FALSE
  PROVE  Spec => []TypeOK
<1>1. Inv => TypeOK
  BY DEF Inv
<1> QED
  BY <1>1, RunIsInvariant, PTL

\* However many signals come and wherever in a slot, a process that exits as
\* paused (settle_paused) has waited for its test, left no core marked at an
\* offset that is still in the hardware, and left a session that resumes.
THEOREM PausesSettle ==
  ASSUME EarlySignals = FALSE
  PROVE  Spec => []PausedIsSettled
<1>1. Inv => PausedIsSettled
  BY DEF Inv, PausedIsSettled, MarkExplained, AbortCoded, PausedHolds, Resumable
<1> QED
  BY <1>1, RunIsInvariant, PTL

\* A process that an interrupt ended between slots (abort), with its worker
\* stopped and its writes done, leaves the baselines in the hardware.
THEOREM AbortsRevert ==
  ASSUME EarlySignals = FALSE
  PROVE  Spec => []AbortReverts
<1>1. Inv => AbortReverts
  BY DEF Inv, AbortReverts, InterruptHolds
<1> QED
  BY <1>1, RunIsInvariant, PTL
=============================================================================
