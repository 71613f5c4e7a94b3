--------------------------- MODULE AttributionHunt ---------------------------
(***************************************************************************)
(* The engine around the bisection (tuner/engine.py): it writes the mask of *)
(* a probe to the SMU, saves the question, runs the load, folds the answer, *)
(* and survives what interrupts it: a machine crash, a clean reboot, a      *)
(* killed process, a pause, an abort, a refused SMU write, a thermal stop.  *)
(*                                                                         *)
(* History rows are committed to an SQLite WAL with synchronous=NORMAL: a   *)
(* commit survives the process, but not a machine crash until the WAL is    *)
(* checkpointed, which every write-ahead CO intent and every worker launch  *)
(* do.  "durable" holds the rows a crash at this moment may leave behind.   *)
(***************************************************************************)
EXTENDS Bisect

CONSTANTS
  Inherited,       \* cores whose baseline_offset is not stock (inherit_current)
  Launches,        \* launches in the series that answers one probe
  MaxRetries,      \* max_thermal_retries and max_apparatus_retries
  MaxDisruptions   \* bound: interruptions, refused writes and worker faults

ASSUME InheritedAssumption == Inherited \subseteq Cores
ASSUME LaunchesAssumption == Launches \in Nat \ {0}
ASSUME MaxRetriesAssumption == MaxRetries \in Nat
ASSUME MaxDisruptionsAssumption == MaxDisruptions \in Nat

\* Bisect's hunt is _hunt, or NoHunt.  Its clean are the masks whose full series
\* of launches ran clean, its failed those under which the load failed or the
\* machine died.
VARIABLES
  \* the machine
  hw,          \* the offset each core runs at: "stock", "base" or "trial"
  boot,        \* how the boot the session last ran in ended, "same" if it lasts
  \* the history database
  db,          \* the committed rows: [hunt, blamed, quarantined]
  durable,     \* the rows a machine crash may leave, db among them
  journal,     \* the CO write-ahead journal, checkpointed by each intent
  \* the engine
  at,          \* where the engine stands, one of Place
  left,        \* _hunt_launches_left
  paused,      \* _paused
  applied,     \* _co_applied, what the engine believes the SMU holds
  thermals,    \* _validation_thermal_aborts
  faults,      \* _apparatus_fault_streak
  toBlame,     \* culprits of the verdict being acted on
  \* history, for the properties
  lastRun,     \* the mask that ran last and its clean launches in a row
  owed,        \* the armed mask the last crash interrupted, until it is recorded
  abortedLive, \* the operator stopped the armed probe that ran last
  mistaken,    \* a crash was recorded against a mask the machine never died under
  disruptions  \* interruptions so far

machine == <<hw, boot>>
rows == <<db, durable, journal>>
engine == <<at, hunt, left, paused, applied, thermals, faults, toBlame>>
history == <<failed, clean, lastRun, owed, abortedLive, mistaken>>
evars == <<machine, rows, engine, history, disruptions>>

Place == {"slot", "mask", "write", "running", "verdict", "unresolved", "abort",
          "requeue", "idle", "off", "restore", "done"}

NoHunt == [stage |-> "none"]

Rows == [hunt : HuntState \cup {NoHunt}, blamed : SUBSET Cores, quarantined : BOOLEAN]

-----------------------------------------------------------------------------
(* Offsets.  "trial" is the core's value in the vector the machine died     *)
(* under, "base" a baseline_offset that is not stock.                       *)

Offset == {"stock", "base", "trial"}

Stock == [c \in Cores |-> "stock"]

Baseline == [c \in Cores |-> IF c \in Inherited THEN "base" ELSE "stock"]

Unknown == [c \in Cores |-> "unknown"]

\* Mutated form of Mask: the other cores keep their baselines.
MaskOverBaseline(live) == [c \in Cores |-> IF c \in live THEN "trial" ELSE Baseline[c]]

\* The vector of a probe: everyone outside the live set at stock.
Mask(live) == [c \in Cores |-> IF c \in live THEN "trial" ELSE "stock"]

\* The machine runs the trial offsets of exactly these cores, the others at stock.
MachineRuns(live) == \A c \in Cores : hw[c] = (IF c \in live THEN "trial" ELSE "stock")

-----------------------------------------------------------------------------
(* Rows *)

\* A commit: it reaches the disk at the next checkpoint, or by chance earlier.
Save(row) == db' = row /\ durable' = durable \cup {row}

\* A commit followed by a full WAL checkpoint.
SaveDurably(row) == db' = row /\ durable' = {row}

WithHunt(h) == [db EXCEPT !.hunt = h]

Disarmed(h) == [h EXCEPT !.armed = FALSE]

-----------------------------------------------------------------------------
(* _write_co_verified over several cores *)

\* Every write is read back; the intents leave nothing undurable behind them.
WriteAll(vector) ==
  /\ hw' = vector /\ applied' = vector /\ journal' = vector
  /\ durable' = {db} /\ UNCHANGED db

\* The cores in "refused" kept the value of "resident" in spite of three attempts.
WriteRefused(resident, vector, refused) ==
  /\ hw' = [c \in Cores |-> IF c \in refused THEN resident[c] ELSE vector[c]]
  /\ applied' = [c \in Cores |-> IF c \in refused THEN applied[c] ELSE vector[c]]
  /\ journal' = vector

Disrupt == disruptions < MaxDisruptions /\ disruptions' = disruptions + 1

-----------------------------------------------------------------------------
(* _start_hunt: a failure named no core, a hunt over the live vector opens *)

EngineInit ==
  /\ \E candidates, loaded \in (SUBSET Cores) \ {{}} :
       /\ hunt = Begin(candidates, loaded)
       /\ hw \in {Baseline, Mask(candidates)}
  /\ applied = hw
  /\ journal = hw
  /\ boot = "same"
  /\ db = [hunt |-> hunt, blamed |-> {}, quarantined |-> FALSE]
  /\ durable = {db, [db EXCEPT !.hunt = NoHunt]}
  /\ at = "slot" /\ left = 0 /\ paused = FALSE
  /\ thermals = 0 /\ faults = 0 /\ toBlame = {}
  /\ failed = {} /\ clean = {} /\ lastRun = [mask |-> {}, launches |-> 0]
  /\ owed = {} /\ abortedLive = FALSE /\ mistaken = FALSE
  /\ disruptions = 0

-----------------------------------------------------------------------------
(* _run_next_hunt_slot *)

\* Mutated form of Requeued: the interrupted probe counts as a reproduction.
RequeuedAsFailure(h) == Record([h EXCEPT !.armed = FALSE], TRUE)
\* _requeue_hunt_probe: the probe stays in flight, unanswered.
Requeued(h) == Disarmed(h)

\* The slot finds the engine paused; a series cut short is left in flight.
SlotStops ==
  /\ at = "slot" /\ paused
  /\ at' = "idle"
  /\ IF left > 0
       THEN hunt' = Requeued(hunt) /\ Save(WithHunt(hunt'))
       ELSE UNCHANGED <<hunt, db, durable>>
  /\ left' = 0
  /\ UNCHANGED <<machine, journal, paused, applied, thermals, faults, toBlame, history, disruptions>>

\* The launches of the series that follow the next one.
LaunchesDue(h) == IF h.launchesDone < Launches THEN Launches - 1 - h.launchesDone ELSE 0

\* The next launch of the series, or the next question of the hunt.
SlotProbes ==
  /\ at = "slot" /\ ~paused
  /\ ~Terminal(NextLiveSet(hunt))
  /\ IF left > 0
       THEN left' = left - 1 /\ hunt' = Disarmed(hunt)
       ELSE hunt' = Disarmed(NextLiveSet(hunt)) /\ left' = LaunchesDue(hunt')
  /\ Save(WithHunt(hunt'))
  /\ at' = "mask"
  /\ UNCHANGED <<machine, journal, paused, applied, thermals, faults, toBlame, history, disruptions>>

\* The cores a verdict charges: the culprits, or after an exhausted hunt at
\* most one core, the one that stands out by its suspicion.
Charged(found) ==
  IF found # {} THEN {found} ELSE {{}} \cup {{c} : c \in Cores}

\* _resolve_hunt first drops the hunt, then acts on its verdict.
SlotResolves ==
  /\ at = "slot" /\ ~paused
  /\ Terminal(NextLiveSet(hunt))
  /\ toBlame' \in Charged(NextLiveSet(hunt).found)
  /\ hunt' = NoHunt
  /\ Save(WithHunt(NoHunt))
  /\ at' = IF toBlame' = {} THEN "unresolved" ELSE "verdict"
  /\ UNCHANGED <<machine, journal, left, paused, applied, thermals, faults, history, disruptions>>

\* _blame_core, for each core that is charged.
Blame ==
  /\ at = "verdict" /\ toBlame # {}
  /\ \E c \in toBlame :
       /\ toBlame' = toBlame \ {c}
       /\ Save([db EXCEPT !.blamed = @ \cup {c}])
  /\ UNCHANGED <<machine, journal, at, hunt, left, paused, applied, thermals, faults, history, disruptions>>

\* _restore_hunt_stock, when some core refuses stock: the session is quarantined.
Quarantine(resident, refused, row) ==
  /\ WriteRefused(resident, Stock, refused)
  /\ db' = [row EXCEPT !.quarantined = TRUE]
  /\ durable' = {row, db'}
  /\ at' = "idle"

\* _after_hunt_resume: stock is restored and the search goes on; or the search
\* step nobody answers for fails, and that pauses the session.
AfterHunt ==
  /\ at \in {"verdict", "unresolved"} /\ toBlame = {}
  /\ \/ WriteAll(Stock) /\ at' = "done" /\ UNCHANGED <<paused, disruptions>>
     \/ /\ at = "unresolved" /\ Disrupt
        /\ WriteAll(Stock) /\ at' = "idle" /\ paused' = TRUE
     \/ Disrupt /\ (\E c \in Cores : Quarantine(hw, {c}, db)) /\ UNCHANGED paused
  /\ UNCHANGED <<boot, hunt, left, thermals, faults, toBlame, history>>

-----------------------------------------------------------------------------
(* _apply_hunt_mask, one core after the other *)

Stale == {c \in Cores : applied[c] # Mask(hunt.inFlight)[c]}

NextCore == CHOOSE c \in Stale : \A d \in Stale : c <= d

\* journal_co_intent: the value is on disk before it is in the SMU.
MaskIntent ==
  /\ at = "mask" /\ Stale # {}
  /\ journal' = [journal EXCEPT ![NextCore] = Mask(hunt.inFlight)[NextCore]]
  /\ durable' = {db}
  /\ at' = "write"
  /\ UNCHANGED <<machine, db, hunt, left, paused, applied, thermals, faults, toBlame, history, disruptions>>

MaskWrite ==
  /\ at = "write"
  /\ hw' = [hw EXCEPT ![NextCore] = Mask(hunt.inFlight)[NextCore]]
  /\ applied' = [applied EXCEPT ![NextCore] = Mask(hunt.inFlight)[NextCore]]
  /\ at' = "mask"
  /\ UNCHANGED <<boot, rows, hunt, left, paused, thermals, faults, toBlame, history, disruptions>>

\* Three attempts that were refused, or whose read-back differed: stock is
\* restored and the session pauses, or is quarantined if stock is refused too.
MaskRefused ==
  /\ at = "write" /\ Disrupt
  /\ \/ WriteAll(Stock) /\ at' = "idle" /\ paused' = TRUE
     \/ /\ \E c \in Cores, resident \in {hw, [hw EXCEPT ![NextCore] = Mask(hunt.inFlight)[NextCore]]} :
             Quarantine(resident, {c}, db)
        /\ UNCHANGED paused
  /\ UNCHANGED <<boot, hunt, left, thermals, faults, toBlame, history>>

\* _checkpoint_worker and _launch_worker: the question is armed and on disk
\* before the load starts.
Launch ==
  /\ at = "mask" /\ Stale = {}
  /\ hunt' = [hunt EXCEPT !.armed = TRUE]
  /\ SaveDurably(WithHunt(hunt'))
  /\ at' = "running"
  /\ abortedLive' = FALSE
  /\ UNCHANGED <<machine, journal, left, paused, applied, thermals, faults, toBlame,
                 failed, clean, lastRun, owed, mistaken, disruptions>>

-----------------------------------------------------------------------------
(* _on_test_finished.  The answer of the worker is disarmed first; nothing  *)
(* below checkpoints it before the next write or launch does.               *)

InFlight == hunt.inFlight

\* Both commits of a handler: the disarmed probe, then what became of it.
SaveAnswer(h) ==
  /\ db' = WithHunt(h)
  /\ durable' = durable \cup {WithHunt(Disarmed(hunt)), db'}

\* Another clean launch; the series is the mask's as long as no other ran.
CleanLaunch ==
  /\ lastRun' = [mask |-> InFlight,
                 launches |-> 1 + (IF lastRun.mask = InFlight THEN lastRun.launches ELSE 0)]
  /\ clean' = IF lastRun'.launches >= Launches THEN clean \cup {InFlight} ELSE clean

\* Mutated form of AfterClean: the first clean launch answers the probe.
AfterCleanOnce(h) == Record(h, FALSE)

\* _on_hunt_slot_finished: the series goes on, or its last launch answers.
AfterClean(h) ==
  IF left > 0 THEN [h EXCEPT !.launchesDone = @ + 1] ELSE Record(h, FALSE)

FinishClean ==
  /\ at = "running"
  /\ CleanLaunch
  /\ hunt' = AfterClean(Disarmed(hunt))
  /\ SaveAnswer(hunt')
  /\ faults' = 0
  /\ at' = "slot"
  /\ UNCHANGED <<machine, journal, left, paused, applied, thermals, toBlame,
                 failed, owed, abortedLive, mistaken, disruptions>>

\* A wrong result, or a machine check that names cores of the mask.
FinishFailed ==
  /\ at = "running"
  /\ failed' = failed \cup {InFlight}
  /\ hunt' = Record(Disarmed(hunt), TRUE)
  /\ left' = 0
  /\ SaveAnswer(hunt')
  /\ faults' = 0
  /\ at' = "slot"
  /\ UNCHANGED <<machine, journal, paused, applied, thermals, toBlame,
                 clean, lastRun, owed, abortedLive, mistaken, disruptions>>

\* Hardware evidence on a core that sits at stock: no answer, and a pause.
FinishInconsistent ==
  /\ at = "running" /\ Disrupt
  /\ hunt' = Requeued(hunt) /\ left' = 0 /\ SaveAnswer(hunt')
  /\ faults' = 0
  /\ paused' = TRUE /\ at' = "idle"
  /\ UNCHANGED <<machine, journal, applied, thermals, toBlame, history>>

\* The load could not start: nothing ran; stock is restored and a pause.
FinishStartup ==
  /\ at = "running" /\ Disrupt
  /\ hunt' = Requeued(hunt) /\ left' = 0
  /\ \/ /\ hw' = Stock /\ applied' = Stock /\ journal' = Stock
        /\ SaveDurably(WithHunt(hunt'))
        /\ paused' = TRUE /\ at' = "idle"
     \/ \E c \in Cores : Quarantine(hw, {c}, WithHunt(hunt')) /\ UNCHANGED paused
  /\ UNCHANGED <<boot, thermals, faults, toBlame, history>>

\* A thermal stop, or a stalled, killed or unknown worker: the same probe again,
\* until the retries are used up and the engine aborts the session.
Retry(count) ==
  IF count > MaxRetries
    THEN /\ hunt' = Disarmed(hunt) /\ at' = "abort" /\ UNCHANGED left
         /\ Save(WithHunt(hunt'))
    ELSE hunt' = Requeued(hunt) /\ left' = 0 /\ SaveAnswer(hunt') /\ at' = "slot"

FinishThermal ==
  /\ at = "running" /\ Disrupt
  /\ thermals' = thermals + 1
  /\ Retry(thermals')
  /\ UNCHANGED <<machine, journal, paused, applied, faults, toBlame, history>>

FinishApparatus ==
  /\ at = "running" /\ Disrupt
  /\ faults' = faults + 1
  /\ Retry(faults')
  /\ UNCHANGED <<machine, journal, paused, applied, thermals, toBlame, history>>

-----------------------------------------------------------------------------
(* The operator and _stop_and_restore *)

Pause ==
  /\ at \in {"slot", "running"} /\ ~paused /\ Disrupt
  /\ paused' = TRUE
  /\ UNCHANGED <<machine, rows, at, hunt, left, applied, thermals, faults, toBlame, history>>

\* abort stops the worker, which will not report any more.
Abort ==
  /\ at \in {"slot", "running"} /\ Disrupt
  /\ at' = "abort"
  /\ UNCHANGED <<machine, rows, hunt, left, paused, applied, thermals, faults, toBlame, history>>

\* The baselines are restored under intents of their own, and only then is the
\* probe requeued; if a baseline is refused the probe is left as it is.
AbortRestores ==
  /\ at = "abort"
  /\ \/ WriteAll(Baseline) /\ at' = "requeue" /\ UNCHANGED disruptions
     \/ /\ Disrupt
        /\ \/ /\ hw' = Stock /\ applied' = Stock /\ journal' = Stock
              /\ db' = [db EXCEPT !.quarantined = TRUE]
              /\ durable' = {db, db'}
              /\ at' = "idle"
           \/ \E c \in Cores : Quarantine(hw, {c}, db)
  /\ abortedLive' = (abortedLive \/ hunt.armed)
  /\ UNCHANGED <<boot, hunt, left, paused, thermals, faults, toBlame, failed, clean, lastRun,
                 owed, mistaken>>

AbortRequeues ==
  /\ at = "requeue"
  /\ hunt' = Requeued(hunt) /\ left' = 0 /\ Save(WithHunt(hunt'))
  /\ at' = "idle"
  /\ UNCHANGED <<machine, journal, paused, applied, thermals, faults, toBlame, history, disruptions>>

\* The process is gone; the workers die with it, the offsets stay.
ProcessGone ==
  /\ at' = "off" /\ hunt' = NoHunt /\ left' = 0 /\ paused' = FALSE
  /\ applied' = Unknown /\ thermals' = 0 /\ faults' = 0 /\ toBlame' = {}

Kill ==
  /\ at \notin {"off", "done"} /\ Disrupt
  /\ ProcessGone
  /\ UNCHANGED <<machine, rows, history>>

-----------------------------------------------------------------------------
(* The machine *)

\* An orderly shutdown writes back everything; the offsets do not last.
CleanReboot ==
  /\ at # "done" /\ Disrupt
  /\ ProcessGone
  /\ hw' = Stock
  /\ boot' = IF boot = "same" THEN "clean" ELSE boot
  /\ durable' = {db}
  /\ UNCHANGED <<db, journal, history>>

\* The machine dies.  If a mask was live, it was live when the machine died.
Crash ==
  /\ at # "done"
  /\ IF at = "running" THEN UNCHANGED disruptions ELSE Disrupt
  /\ ProcessGone
  /\ \E row \in durable :
       /\ db' = row /\ durable' = {row}
       /\ owed' = IF row.hunt # NoHunt /\ row.hunt.armed /\ boot = "same"
                    THEN row.hunt.inFlight ELSE owed
  /\ failed' = failed \cup {live \in (SUBSET Cores) \ {{}} : MachineRuns(live)}
  /\ hw' = Stock
  /\ boot' = IF boot = "same" THEN "crashed" ELSE boot
  /\ UNCHANGED <<journal, clean, lastRun, abortedLive, mistaken>>

-----------------------------------------------------------------------------
(* resume *)

Resumable == at \in {"idle", "off"}

\* What resume takes for a reboot; a quarantined session is reopened as if the
\* boot had lasted.
Rebooted == IF db.quarantined THEN "same" ELSE boot

\* The boot is stamped on the session, durably, before anything is repaired.
Stamp(row) == boot' = "same" /\ SaveDurably(row) /\ at' = "restore"

Loaded(row) == hunt' = row.hunt /\ left' = 0 /\ paused' = FALSE /\ toBlame' = {}

\* The boot lasted, or ended in an orderly shutdown: the probe is requeued.
ResumeRequeues ==
  /\ Resumable /\ db.hunt # NoHunt
  /\ Rebooted \in {"same", "clean"}
  /\ LET row == [hunt |-> Requeued(db.hunt), blamed |-> db.blamed, quarantined |-> FALSE]
     IN  Loaded(row) /\ Stamp(row)
  /\ UNCHANGED <<hw, journal, applied, thermals, faults, history, disruptions>>

\* The machine died under an armed probe: the probe owns the crash.
ResumeAfterProbe ==
  /\ Resumable /\ db.hunt # NoHunt
  /\ Rebooted = "crashed" /\ db.hunt.armed
  /\ Loaded(db) /\ Stamp(db)
  /\ UNCHANGED <<hw, journal, applied, thermals, faults, history, disruptions>>

LiveInJournal == {c \in Cores : journal[c] # "stock"}

\* It died between probes, and nothing names a core: the hunt goes on.
ResumeAfterCrash ==
  /\ Resumable /\ db.hunt # NoHunt
  /\ Rebooted = "crashed" /\ ~db.hunt.armed
  /\ Cardinality(LiveInJournal) # 1
  /\ Loaded(db) /\ Stamp(db)
  /\ UNCHANGED <<hw, journal, applied, thermals, faults, history, disruptions>>

\* The kernel names live cores, or the journal knows only one: these are
\* penalized and the hunt is dropped.
ResumeBlames ==
  /\ Resumable /\ db.hunt # NoHunt
  /\ Rebooted = "crashed" /\ ~db.hunt.armed
  /\ \E named \in (SUBSET LiveInJournal) \ {{}} :
       LET row == [db EXCEPT !.hunt = NoHunt, !.blamed = @ \cup named]
       IN  Loaded(row) /\ Stamp(row)
  /\ UNCHANGED <<hw, journal, applied, thermals, faults, history, disruptions>>

\* The kernel journal is missing, or names a core at stock: the session pauses,
\* and the next resume asks the same question.
ResumePauses ==
  /\ Resumable /\ db.hunt # NoHunt /\ Disrupt
  /\ Rebooted = "crashed" /\ ~db.hunt.armed
  /\ hunt' = db.hunt /\ left' = 0 /\ paused' = TRUE /\ toBlame' = {} /\ at' = "idle"
  /\ UNCHANGED <<machine, rows, applied, thermals, faults, history>>

\* The hunt is gone from the session: the search goes on without it.
ResumeWithoutHunt ==
  /\ Resumable /\ db.hunt = NoHunt
  /\ Loaded(db) /\ Stamp(db)
  /\ UNCHANGED <<hw, journal, applied, thermals, faults, history, disruptions>>

\* Mutated form of Reproduced: the crash only puts the probe back.
ReproducedRequeued(h) == Disarmed(h)

\* The reproduction of the armed probe is recorded once the baselines are back.
Reproduced(h) == Record(Disarmed(h), TRUE)

Restore ==
  /\ at = "restore"
  /\ hw' = Baseline /\ applied' = Baseline /\ journal' = Baseline
  /\ IF hunt # NoHunt /\ hunt.armed
       THEN /\ hunt' = Reproduced(hunt)
            /\ db' = WithHunt(hunt') /\ durable' = {db, db'}
            /\ owed' = {}
            /\ mistaken' = (mistaken \/ hunt.inFlight \notin failed)
       ELSE hunt' = hunt /\ UNCHANGED <<db, owed, mistaken>> /\ durable' = {db}
  /\ at' = IF hunt = NoHunt THEN "done" ELSE "slot"
  /\ UNCHANGED <<boot, left, paused, thermals, faults, toBlame, failed, clean, lastRun,
                 abortedLive, disruptions>>

\* A baseline is refused: the session pauses with the hunt as it was saved.
RestoreRefused ==
  /\ at = "restore" /\ Disrupt
  /\ \E c \in Cores : \E resident \in {hw, [hw EXCEPT ![c] = Baseline[c]]} :
       WriteRefused(resident, Baseline, {c})
  /\ durable' = {db}
  /\ paused' = TRUE /\ at' = "idle"
  /\ UNCHANGED <<boot, db, hunt, left, thermals, faults, toBlame, history>>

-----------------------------------------------------------------------------

Slot == SlotStops \/ SlotProbes \/ SlotResolves

Verdict == Blame \/ AfterHunt

WriteMask == MaskIntent \/ MaskWrite \/ MaskRefused \/ Launch

Finish ==
  FinishClean \/ FinishFailed \/ FinishInconsistent \/ FinishStartup \/ FinishThermal \/ FinishApparatus

Aborting == AbortRestores \/ AbortRequeues

Resume ==
  \/ ResumeRequeues \/ ResumeAfterProbe \/ ResumeAfterCrash
  \/ ResumeBlames \/ ResumePauses \/ ResumeWithoutHunt

Restoring == Restore \/ RestoreRefused

EngineNext ==
  \/ Slot \/ Verdict \/ WriteMask \/ Finish \/ Pause \/ Abort \/ Aborting
  \/ Kill \/ CleanReboot \/ Crash \/ Resume \/ Restoring

EngineSpec == EngineInit /\ [][EngineNext]_evars

\* Every queued slot runs, every synchronous step ends, every worker reports
\* after its bounded duration, and the session is resumed: by the operator, or
\* by the service that reopens an active session at boot.
Fairness ==
  WF_evars(Slot \/ Verdict \/ WriteMask \/ Finish \/ Aborting \/ Resume \/ Restoring)

FairEngineSpec == EngineSpec /\ Fairness

-----------------------------------------------------------------------------
(* Properties *)

EngineTypeOK ==
  /\ hw \in [Cores -> Offset] /\ boot \in {"same", "crashed", "clean"}
  /\ db \in durable /\ durable \subseteq Rows
  /\ journal \in [Cores -> Offset]
  /\ at \in Place
  /\ hunt \in HuntState \cup {NoHunt}
  /\ left \in 0..(Launches - 1) /\ paused \in BOOLEAN
  /\ applied \in [Cores -> Offset \cup {"unknown"}]
  /\ thermals \in 0..MaxDisruptions /\ faults \in 0..MaxDisruptions
  /\ toBlame \subseteq Cores
  /\ failed \subseteq SUBSET Cores /\ clean \subseteq SUBSET Cores
  /\ lastRun \in [mask : SUBSET Cores, launches : Nat]
  /\ owed \subseteq Cores /\ abortedLive \in BOOLEAN /\ mistaken \in BOOLEAN
  /\ disruptions \in 0..MaxDisruptions

\* While a probe runs, the machine runs exactly its mask, every other core at
\* stock, and the armed question is on disk with no older row behind it
\* (engine.py:2584-2607, 1554-1579).
ProbeRunsItsMask ==
  at = "running" =>
    /\ MachineRuns(InFlight)
    /\ durable = {db} /\ db.hunt = hunt /\ hunt.armed

\* An armed row is evidence: if the machine dies now, its mask is what the
\* machine runs, or it has died under that mask before; unless the operator
\* stopped the probe (engine.py:1168-1197, 2777-2788).
ArmedIsEvidence ==
  \A row \in durable :
    row.hunt # NoHunt /\ row.hunt.armed =>
      \/ MachineRuns(row.hunt.inFlight)
      \/ row.hunt.inFlight \in failed
      \/ boot = "clean"
      \/ abortedLive

\* A conviction that is saved rests on masks the machine really failed and
\* really passed under, whatever interrupted the hunt in between
\* (bisect.py:423-477, engine.py:2749-2829).
ConvictionReal ==
  ~mistaken =>
    \A row \in durable :
      row.hunt # NoHunt =>
        \A c \in row.hunt.found : ConvictedBy(row.hunt, c, clean, failed)

\* A core a saved hunt no longer suspects has really run a full series of
\* launches clean in some mask (engine.py:2767-2775).
ExonerationReal ==
  \A row \in durable :
    row.hunt # NoHunt /\ ~Terminal(row.hunt) => Cleared(row.hunt, clean)

\* What the answers of a hunt may rest on: once a reproduction was recorded for a
\* mask the machine never failed under, on any mask.
Evidence == IF mistaken THEN SUBSET Cores ELSE failed

\* A hunt that the engine holds, or that a row may bring back: C are the masks that
\* ran clean, F those a reproduction may rest on, and the launches it counts are
\* the last ones that ran, in a row, under its mask.
Sound(h, C, F, last) ==
  /\ HuntInv(h, C, F)
  /\ ~Terminal(h) => Cleared(h, C)
  /\ h.armed => h.inFlight # {}
  /\ h.launchesDone > 0 =>
       h.inFlight # {} /\ last.mask = h.inFlight /\ h.launchesDone <= last.launches

\* What holds where the engine stands.  From the mask to the end of a launch the
\* launches that are counted and those still due make up a whole series.
Standing ==
  /\ at \in {"slot", "mask", "write", "running", "abort", "requeue"} => hunt # NoHunt
  /\ at \in {"slot", "mask", "write", "running"} => applied = hw
  /\ at \in {"mask", "write", "running"} =>
       ~Terminal(hunt) /\ hunt.inFlight # {} /\ hunt.launchesDone + left >= Launches - 1
  /\ at = "slot" /\ left > 0 => hunt.inFlight # {} /\ hunt.launchesDone + left >= Launches
  /\ at = "restore" => left = 0

\* The inductive invariant behind the three: it speaks of every row a crash may
\* bring back, not only of the last one.
EngineInvariant ==
  /\ EngineTypeOK /\ thermals <= disruptions /\ faults <= disruptions
  /\ \A row \in durable : row.hunt # NoHunt => Sound(row.hunt, clean, Evidence, lastRun)
  /\ hunt # NoHunt => Sound(hunt, clean, Evidence, lastRun)
  /\ Standing
  /\ ProbeRunsItsMask

\* What keeps an armed row evidence: the last row of a probe is the hunt that is
\* held, a machine that went down stands at stock until its session is resumed,
\* and a crash that is about to be recorded was under its mask.
Followed ==
  /\ boot # "same" => hw = Stock /\ at \in {"off", "idle"}
  /\ at \in {"slot", "mask", "write", "running", "restore", "abort", "requeue"} => db.hunt = hunt
  /\ at \in {"slot", "mask", "write"} => ~hunt.armed
  /\ at = "write" => durable = {db}
  /\ at \in {"verdict", "unresolved"} => db.hunt = NoHunt
  /\ at = "restore" /\ hunt # NoHunt /\ hunt.armed => hunt.inFlight \in failed \/ abortedLive

Evident == ArmedIsEvidence /\ Followed

\* A reproduction is recorded for a mask the machine never failed under only
\* after the operator stopped a probe that was armed: its row stays armed until
\* the baselines are back, and may outlive them (engine.py:1168-1197, 2777-2788).
OnlyAbortsMislead == [][mistaken' => mistaken \/ abortedLive]_evars

\* Whatever interrupts it, a hunt ends: neither the crashes it provokes nor the
\* resumes between them repeat one question for ever (engine.py:2749-2861).
HuntEnds == <>(at = "done")

\* What docs/tuner-state-spec.md:139-140 says: a crash under an armed probe
\* advances the hunt, so no later probe runs before it is recorded.
CrashAdvancesHunt == at = "running" => owed = {}

\* What engine.py:2780-2782 says: an interrupted probe is no answer, so no
\* reproduction is recorded for a mask the machine never failed under.
NoFalseReproduction == ~mistaken
=============================================================================
