# Verification of the CoreCycler tuner

CoreCycler searches, for every core of a Ryzen CPU, the most aggressive Curve
Optimizer (CO) offset under which the machine stays stable. An offset that is
too aggressive fails a stress test, raises a machine check, or freezes the
machine. So the program must survive the crashes it provokes: most of its state
is in an SQLite history, and after each reboot `TunerEngine.resume` decides from
that state who caused the crash and where the search goes on.

This directory holds TLA+ models of the parts of the program that carry this
logic, TLC runs that check them on small instances, and proofs checked by TLAPS
for all instances. Paths below are relative to the repository; `engine.py`,
`bisect.py`, `state.py` are in `src/corecycler/tuner/`.

1. [Inventory](#1-inventory)
2. [Modules and how they correspond to the code](#2-modules-and-how-they-correspond-to-the-code)
3. [Runs](#3-runs)
4. [Fairness](#4-fairness)
5. [Proofs](#5-proofs)
6. [Disagreements between code and documentation](#6-disagreements-between-code-and-documentation)
7. [What is not modelled](#7-what-is-not-modelled)
8. [Plan](#8-plan)

## 1. Inventory

| Component | Code | State | Operations | Status |
|---|---|---|---|---|
| Attribution bisection | `bisect.py` | `HuntState`: stage, pending sets, open split, found | `begin`, `next_live_set`, `record`, JSON in and out | modelled, proved |
| Attribution hunt driver | `engine.py` 2524-3028, 807-1134 | `_hunt`, launches left, applied offsets, saved row | slots, mask writes, arming, answers, requeue, resume | modelled, proved |
| Per-core search | `engine.py` 1259-2024, `state.py` | `CoreState`: phase, current/best/baseline, bounds, counters | `_advance_core`, `_apply_crash_penalty`, `_resolve_anneal`, ... | modelled in part, proved |
| Validation and endurance | `engine.py` 3505-5045 | cursor, dirty flag, retest queue, round | stages, retests, soak, completion, rounds | modelled in part, proved |
| Crash recovery, CO journal | `engine.py` 807-1134, 2135-2462, `history/db.py` 1591-1700 | one row per core: value, survived; boot stamp; streak | intent, attribution, charge, restore, streak | modelled in part, proved |
| Test order | `engine.py` 3056-3326 | last core, cooldowns, position per CCD | five orders, reconstruction after a reboot | modelled, proved |
| Execution supervisor | `engine/execution.py`, `duty.py`, `containment.py` | lanes, processes, verdicts, stop event | launch, poll, teardown, classify | modelled in part, proved |
| Run schedulers | `engine/scheduler.py`, `parallel.py` | stop event, lifecycle lock, progress | `run`, `stop`, variable load, transitions, soak | modelled in part, proved |
| Error detector | `engine/detector.py` | seen kernel records | `check_mce`, `reset` | as a reading |
| Stress backends | `engine/backends/` | none | command lines, output parsing | as a process |
| History database | `history/db.py` | SQLite in WAL mode | migrations, merge, contexts, banks, retention, deletion | modelled in part, proved |
| Run logger and context | `history/logger.py`, `context.py` | one row per run | start, finish, capture | modelled in part, proved |
| SMU access | `smu/`, `gui/smu_tab.py` | core map, backup, plan | map, read, write, backup, apply, undo | modelled in part, proved |
| Workload ownership | `gui/main_window.py` and the tabs | owner, running workers | start, stop, derive owner, close, auto-resume | modelled in part, proved |
| Command line | `cli.py` tune, resume | exit code, event loop | start, settle a pause, abort, exit | modelled in part, proved |
| Sleep inhibitor | `inhibit.py` | holders, process | claim, drop, watch | no |
| Monitor, settings, report, widgets | the rest | presentation or pure reads | | no |

**How they interact.** The engine lives in the Qt event loop. It starts one
worker thread per slot and gets one queued signal back (`_on_test_finished`);
every next step is a `QTimer.singleShot`. The worker owns a scheduler, the
scheduler a supervisor, and the supervisor the processes of a stress backend. The
engine writes offsets through the SMU driver, one core at a time with read-back,
and before each write it records its intent in the database. Pause takes effect
after the current test; abort stops the worker and restores the baselines. A
machine crash can come at every point and loses the process, the offsets in the
SMU, and whatever SQLite had committed but not checkpointed.

**What is hard.**

- *Crash and restart.* A row must say what the machine was doing when it died.
  `checkpoint()` and the intents are what makes a row durable, and their order
  relative to the hardware writes is what makes it true.
- *Answers and calls out of order.* Timers cannot be cancelled, a worker's answer
  is queued, pause and resume reset parts of the state only.
- *Several-step handlers.* Masks are written core by core; the verdict of a hunt
  is cleared before it is acted on; a demoted offset and the cursor are two rows.
- *Intermittent hardware.* The same question may be answered differently twice;
  the search and the bisection must neither diverge nor convict without evidence.
- *Termination.* Every loop (retries, fresh passes, annealing, rounds of the
  bisection) runs on evidence that need not be consistent.

- *Threads.* `stop` and `force_teardown` come from the GUI while the worker launches,
  polls or judges; signal handlers run in the middle of a slot; dialogs run an event
  loop of their own.
- *Data that outlives its context.* Evidence is valid for one BIOS; rows are migrated,
  merged, re-keyed and deleted.

**What makes the components correct.** The bisection convicts on evidence only,
clears on evidence only, and ends. The driver runs the mask it asks about and
counts a crash only for a probe whose mask was live. The search keeps its bounds
ordered, never forgets a failure, confirms only what passed, and on steady silicon
comes to rest. Validation never skips a slot, never declares a profile proven
before a clean pass, loads a changed core alone before it loads it together with
others, and comes to an end. Recovery charges only what was resident, and no crash
goes unanswered. The supervisor passes a lane only if it ran to its end, and a
confirmed teardown leaves no process. One kind of workload has the hardware at a time,
and its offsets stand while it runs. Evidence stays with the operating point it was
measured at, and nothing in progress is deleted. A write goes to the core it names.

## 2. Modules and how they correspond to the code

| Module | Role |
|---|---|
| `Attribution` | abstract: what a hunt promises its caller |
| `Bisect` | the automaton of `bisect.py` under arbitrary answers |
| `BisectFault` | the automaton on a machine with a steady fault, or with no rule |
| `MCBisect` | the refinement mapping from `Bisect` to `Attribution`, on `BisectFault` |
| `AttributionHunt` | the engine around the automaton: extends `Bisect` |
| `AttributionHuntProofs` | theorems about all four |
| `CoreSearch` | the search of one core under arbitrary events |
| `CoreSearchSteady` | the same search, also on silicon with a fixed edge |
| `CoreSearchProofs` | theorems about `CoreSearch` |
| `Validation`, `MCValidation` | validation and endurance of the profile; values for its constants |
| `ValidationProofs` | theorems about `Validation` |
| `CoreOrder` | which core is tested next |
| `Recovery` | the search across crashes: extends `CoreOrder` |
| `RecoveryProofs` | theorems about both |
| `Supervisor` | one batch of stress processes |
| `Stress` | what starts and stops batches: extends `Supervisor` |
| `StressProofs` | theorems about both |
| `Desktop`, `DesktopProofs` | the main window, its three workloads and its dialogs; theorems |
| `History` | the database: start-up, rows, deletion |
| `SmuAccess` | core addressing, and the writes of the SMU tab |
| `SmuAndHistoryProofs` | theorems about the two |
| `Headless`, `HeadlessProofs` | the `tune` and `resume` commands under signals; theorems |

`PROJECT.json` maps every definition to the lines it models.

### Bisect

`hunt` is the `HuntState` record; sets of cores stand for sorted lists, sequences
for lists whose order matters (`pending`, `queue`, `guilty_halves`). `Dispatch` is
`next_live_set` as `_run_next_hunt_slot` calls it, `Answer(reproduced)` is `record`.
`ValidState` is `_validate_state`, without the checks of JSON types. `clean` and
`failed` are history: the masks that ran clean and those that failed. Vector and
workload are payload and left out. `armed` and `launches_done` belong to the
driver and are constant here. `BisectFault` draws at the start the faults of the machine:
minimal sets of cores that fail together, or none, and then any answer may come.

### AttributionHunt

`hunt` of `Bisect` is the engine's `_hunt`, or `NoHunt`; what `Bisect` calls `Init`, `Next` and
`Spec` are the bare automaton's, the engine's are `EngineInit`, `EngineNext` and `EngineSpec`.
`at` is the program counter of the engine, `db` the committed rows, `durable` the
set of rows a machine crash may leave: a commit adds one, a checkpoint leaves only
the last. A crash picks one of them. `hw` is what the SMU holds, `applied` what the
engine believes (`_co_applied`), `journal` the intents.

- `SlotStops`, `SlotProbes`, `SlotResolves`: the three outcomes of `_run_next_hunt_slot`.
- `MaskIntent`, `MaskWrite`, `MaskRefused`, `Launch`: `_apply_hunt_mask` one core
  after the other, each write an intent and a hardware write, then `_checkpoint_worker`.
- `Finish...`: `_on_test_finished` for each kind of answer.
- `Pause`, `Abort`, `AbortRestores`, `AbortRequeues`: the operator; `Kill`,
  `CleanReboot`, `Crash`: the environment.
- `Resume...`, `Restore`, `RestoreRefused`: `resume`, split at the boot stamp.

Handlers that write several rows, other than the mask and the abort, are one step;
`durable` holds the rows in between, so a crash inside them is covered as far as
the rows go. Quarantine and aborted sessions can be resumed, as in the code.

### CoreSearch

Offsets are depths (offset times direction): deeper is more aggressive, 0 is stock.
`PassOf(phase)` and `FailOf(phase)` are the branches of `_advance_core`, `Penalty` is
`_apply_crash_penalty`, `FinishRegime`/`FinishPass`/`FinishFail` are
`_on_test_finished` with the battery of regimes, `ApparatusFail` is `_apparatus_suspect`,
which delivers a failure by itself and pauses. The rest of the system appears as
events: a charge by the kernel journal or a hunt (`Charge`, `Charged`), an unanswered
step (`Unanswered`), a failed validation (`ValidationFails`), a slot of a hunt or of the
endurance that is logged for the core (`OtherSlot`), a quarantine that is re-opened (`Reopen`).

Of the battery the code keeps an index, and so does the model (`core.battery`). `order` is the set of
regimes that the frozen order puts before the index; it is good for one phase and offset
(`Frozen`), and a restart forgets it. `Orders` makes it again as `_slot_regimes` does: as many
regimes as the index counts, those with a logged pass at the offset (`Known`) first, then by
yields, which may be any. So a slot offers a regime that is behind the index (`Offered`), be it one that
passed before. `covered`, what really passed at the offset, and `carried`, that an index
came from another offset, are history; `Carry` says where they change. `Reconciled` is what a resume does to a confirmation that no pass
backs; its branch only runs on a database changed from outside, and
`ConfirmationIsBacked` says so.

`CoreSearchSteady` adds the silicon. Either its edge fixes, per regime, the deepest
offset it survives (a test within it passes, one beyond it fails or kills the
machine), or it has no rule (`edge = None`) and every event of `CoreSearch` may happen.

### Validation

`pos` is the cursor in memory, `row` the saved one. `workers` are the threads that
have not answered, `calls` the pending timers by kind: at once, or after a cooldown.
`Dispatch` is the event loop running one pending call (`_run_validation_next`,
`_run_validation_requeue`, `_run_next`), `Verdict` is `_on_test_finished` for each kind
of answer, `Disruption` is pause, abort, kill, crash and resume. The search and the
hunt appear as the one step in which they end. `Torn` is a death between the commit of
a demoted offset and the save of the cursor. `passed`, `taint`, `proven` and `early`
are history.

A resume calls the dispatcher directly; the model schedules it as a call that is due
at once, which allows the same orders. The answer of a worker is delivered in the
step in which the worker ends.

### CoreOrder and Recovery

`PickNext` is `_pick_next_core`: cores in cooldown are left out, cooldowns drain until one
is free, and `Pick` is one branch per test order. `skipped` counts, per core, the tests of
others since its own, in the round that is going on. `last` and `lastIn` are the cursors in memory,
`finished` the last tests in the log; `Reconstructed` rebuilds the first from the second, as a
resume does. A hunt moves the cursor to the core whose test opened it, and its probes are rows of
the log too.

In `Recovery` the search of a core is a step of one and a hunt is one answer; what is
modelled in full is how offsets get to the hardware and who answers for a crash.

- `RunNext`, `WriteIntent`, `WriteSmu`, `WriteRefused`, `Written`, `Launch`: a slot, its intents
  before its writes. A write that was already announced and is resident is skipped, as
  in the code.
- `TestFinishes`, `TestWithout`, `Complete`, `HuntMask`, `HuntArm`, `HuntAnswer`: what ends a slot.
- `Resume`, `Attribute`, `Charge`, `Close`, `Stamp`, `Streak`, `Restore`, `RestoreRefused`, `GoOn`:
  `resume` in the order of its durable steps, so that a death falls between any two.
- `Kill`, `Crash`, `Reboot`: the process or the machine dies. The kernel log may name any
  live cores, a core at stock, or nobody.

Database writes are durable when made (the WAL is in `AttributionHunt`). `Init` is a new session,
or one resumed when only its first core was left. There are two CCDs.

### Supervisor and Stress

`run[l]` is the `_LaneRun` of a lane: its process group, exit code, verdict. `at` is the place
of the worker in `Supervisor.run`, from the thermal check through launches and poll rounds
to the classification; each poll (exits, errors, kernel log, heat, deadline) is a step in the
code's order. `closer` is another thread that calls `stop`, or `stop` and then `force_teardown`,
which takes `_teardown_lock` lane by lane. `Machine` is the environment: processes die or
err, the kernel logs, duty drivers freeze and thaw, kills fail.

`Stress` adds the drivers: `CoreScheduler.run` with settle, batch, variable load and idle
for each core, `ParallelStress`, rapid transitions, the combined soak, and the report
to the tuner. `code` says how the leader of a payload ended: by itself, by a signal of ours, or by a
SIGKILL or SIGTERM from outside (`killed`, `termed`). `TearDown` also signals what is left of the group of a
leader that is dead already, and the return code then matches a signal of ours (`claimed`), as in
`_termination_matches_returncode`. A payload runs until it is killed, as all backends do; one cycle; stopping at an error
is a choice; a failure to drain output is left out.

### Desktop

`win` is the state of the widgets and flags from which the code derives who owns the
hardware; `thread` says for each worker whether it drives the machine; `queue` holds the
signals the GUI thread has not handled. `Owned`/`Refreshed` are `_apply_workload_owner` and `_refresh_workload_owner`, and `Shown` the buttons it enables: an action is enabled as its
button is. Auto-resume is a timer that may fire inside a start or a close dialog. Queued
signals are delivered before the next click. A test of the tuner ends with any answer.

`resident` is whose offsets are in the hardware. Dry run, SIGTERM and the exception hook are left
out.

### History

Two databases, the user's and root's, are functions from ids to rows. A row carries, as
history, the operating point it was made at (`point`), so that properties can compare it with
the context it is listed under, and its `origin`. `Launch`, `MigrateUser`, `Opened`, `MigrateRoot`,
`Merge`, `RenameRoot`, `Recover`, `Purge` are the start of the program, and `Die` may come between any
two. `Deduplicated`, `MarkedLegacy`, `Rekeyed`, `Renamed` are the migrations that move rows; those that
add columns or rewrite saved hunts are left out. `Reconfigure` is a BIOS update between two starts; with
`Elsewhere = FALSE` a session is only resumed at the operating point it began at (section 6). A bank's core, regime and offset are one value each, as
its rows are kept apart by their key and no operation mixes them.

### SmuAccess

A machine is drawn at the start: enabled and offline slots of two CCDs, the numbering of its
cores, and whether L3 groups, the online mask and the fuse can be read. `CoreMap` is
`RyzenSMU.set_topology, _group_cores` with `DeriveGroupSlots` and the fuse. `EncodeCoArg` and `DecodeCoArg` keep their 16 bits. `Firmware` is
what the processor does of a write: obey, ignore, clamp, refuse, or stop answering; at most one core
of a plan meets a fault. `Ask`, `Dismiss`, `WriteCoPlan` are the dialog of the SMU tab, with the tuner beside it.

### Headless

`pc` is the main thread: in the preflight, at each step of a slot (`Pick`, `Choose`, `Write`, `Announce`,
`Check`, `Launch`), in an answer (`Judge`, `Record`), or in the event loop. `OnTerminate` and `OnInterrupt` are the Python
signal handlers, which run whole between any two of these. Signals come once the event loop
was entered (`EarlySignals = FALSE`; see section 6 for what happens before).

## 3. Runs

| Run | Distinct states | What it shows |
|---|---|---|
| `Bisect_safety` | 724 000 | With any answers: convictions have their evidence; each answer uses up part of a probe budget, so every hunt ends; the automaton implements `Attribution`. With a steady fault: the verdict explains the failure; lone faults are convicted exactly. |
| `Hunt_safety` | 958 000 | Under interruptions: a running probe runs its mask, convictions and exonerations rest on masks that really failed and really ran a whole clean series; a hunt ends in spite of crashes, as long as interruptions from outside end. |
| `Search_safety` | 4 142 000 | With any events: a PASS covers the whole battery at its offset, unless another offset left the index behind; a fail bound is never forgotten; a confirmation stays backed by the log. On steady silicon the search comes to rest. |
| `Validation_safety` | 1 138 000 | An answer is charged to its slot; a changed core passes alone first; completion follows a clean pass; validation ends. |
| `Stress_safety` | 1 074 000 | A lane passes only without an error, and if it ran to its end or died of a signal that matches ours; a confirmed teardown leaves no process; a recorded pass ran every phase; every run reports. |
| `Recovery_safety` | 12 114 000 | While a core waits in a rotation, each other finishes at most one test, or one in turn with a core of the other CCD, in a round no hunt interrupts; a crash is charged only to a core for which an offset was announced when the machine died, and lowers it below that offset; every crash has a consequence. |
| `Desktop_safety` | 1 250 000 | One kind of workload at a time; offsets stand under a test; closing leaves nothing running; the first verdict stays; the manual tab is released. |
| `History_safety` | 4 688 000 | Evidence stays with its operating point; rows keep their context; no ghost runs; adoption keeps all; nothing unfinished is deleted. |
| `SmuAccess_safety` | 2 656 000 | A core map names every core's own slot; a write the program believes in has landed, and only there; nothing is overwritten before it is backed up. |
| `Headless_safety` | 812 | A paused exit is settled; an interrupt between slots reverts; every signal ends the process. |
| `Stress_invented`, `Headless_interrupt` | | Disagreements, see section 6. |

**Bounds and why they are enough.**

- Bisection: five cores and two clean rounds. Five cores split unevenly twice (3+2,
  2+1), so an open split waits above a pending sibling, and whole-set probes occur at
  every level. Two rounds are what it takes for a retry before the whole-set probe.
  Faults: at most two minimal sets of one or two cores: two lone faults, overlapping
  pairs, a pair and a lone core.
- Hunt: three cores, one with an inherited baseline, a series of two launches, one
  retry, two disruptions. Two disruptions are an interruption and a second one during
  the recovery from the first, which is what each of the disagreements took. A crash
  under a running probe is not a disruption: there may be any number of them.
- Search: depths up to 6 with coarse step 3 and fine step 2; a core that starts at stock
  or at an inherited depth of 4, a seed of 3; one confirm retry, a
  jump after two failures, penalties of two steps, two annealing strikes, two regimes
  of which the coarse search runs one, and an apparatus suspected at the second contradiction.
  `CoreSearch_apparatus` and `CoreSearch_carried` (section 6) have both regimes in the coarse search, where a battery is
  cut short soonest; `CoreSearchProofs` has no bounds. The grid has gaps of less and of more than a fine step
  between the bounds, odd and even, and steps that land on, before and past
  the limit. The counters are those of the code with small limits; `fails` is
  bounded by neither code nor model, since the jump resets it.
- Validation: two cores, one step deep, halves of one core each, the configuration with
  every stage and no endurance, and the one with nothing optional but endurance; two
  endurance workloads, one of them the spectrum; one thermal and one apparatus retry;
  the unattributed-incident limit 2; one disruption. A demotion, a retest and a fresh
  pass need no disruption, so the disruption can hit any of them.
- Recovery: three cores, two of them on the first CCD, so that rounds and CCDs are uneven;
  the two rotations, which are the orders with a promise (`Recovery_twice` has the other three);
  offsets 0 and 1; two deaths, the second of which may fall into
  the recovery from the first; three tests; a streak limit of two. `RecoveryProofs` has no bounds.
- Stress: two cores (a lane that fails and one that must be stopped), one poll round to the
  deadline, two segments, one failure of the machine; all four drivers, with and without
  a duty cycle, stop and teardown at every step.
- Desktop: one manual test, two sessions (one to replace the other), auto-resume off and on, one
  death and restart.
- History: one hash with two BIOS versions, a root database of an old schema (4: before the
  contract mark and the deduplication; 19: just before the re-keying) with one or two
  contexts, two rows of each kind, two launches.
- SMU: three slots per CCD (a prefix, an internal hole and a full group all occur), physical and
  per-CCD numbers, two values, two writes.
- Headless: three signals: one to pause, one to abort, and one after either.

`CHECK_DEADLOCK FALSE` is set where the system may really stop: a hunt with a
verdict, a search at rest on the edge, a validation or a session that completed, a run that reported, a
process that has exited, a closed window. Some bounded counters (deaths, writes, rows) also
end a behaviour; no property depends on what comes after.

`Validation_safety` sets `ResumeInCooldown = FALSE`: the operator does not resume
before a thermal cooldown is over. Without that restriction two workers may run (section 6), and
everything the run says about answers is conditional on it.

`SmuAccess_safety` leaves out globally contiguous core numbers on two CCDs, with which
`AddressesOwnCore` does not hold (section 6).

`PassIsEarned` leaves out lanes of a batch that another lane ended, or that another thread tears down:
that is the disagreement of `Stress_invented`; and it grants lanes whose end is `claimed`: that is the one of
`Stress_outside`. `PassIsComplete` grants a PASS whose index was `carried`: that is the one of `CoreSearch_carried`. `AbortReverts` leaves out
interrupts in the middle of a slot (`amid`): that is the one of `Headless_interrupt`. `RoundIsFair` counts rounds that
start anew after a hunt, or, in `ccd_round_robin`, when no core is left in the CCD of the last test. `CrashIsAnswered`
speaks of the resume that found the crash: a death after its stamp (`engine.py:971`) and before
the hunt it decided on is opened forgets an ambiguous crash.

`ConvictionReal` has the guard `~mistaken`: once a crash was recorded under a mask that
was no longer live (the disagreement of `Hunt_abort`), a conviction can rest on it.

`AloneBeforeTogether` leaves out cores demoted while the saved stage was 1 (`early`): see
section 6.

## 4. Fairness

- `BisectFault`: weak fairness of the next step, for the refinement. The driver keeps asking and
  every probe is answered (in `AttributionHunt`, where interruptions exist, this is not assumed).
- `AttributionHunt`: weak fairness of the engine's own steps (the event
  loop, the worker's answer) and of the resume. The operator resumes a paused session or
  restarts the program; no fairness on pause, abort, kill, crash or refused writes, of
  which there are finitely many, except crashes under a probe, which are answers.
- `CoreSearchSteady`: weak fairness of dispatching, of the end of a slot, and of taking up
  a paused session, and only on steady silicon.
- `Validation`: `WF(Dispatch)`, since the event loop fires pending timers, and
  `WF(Verdict)`, since a worker always answers: every slot has a duration and every stall,
  thermal stop or failed start is an answer of its own. No fairness on the operator:
  validation that is paused, or whose process is gone, may stay so, and
  `ValidationSettles` says so. Nothing is assumed of the answers.
- `Stress`: weak fairness of the worker, whose loops all poll with a timeout, and of the thread
  that stops it. None of the machine: payloads need neither die nor err.
- `Desktop`: weak fairness of the window's clock (`Watchdog`) and of the delivery of posted signals: both
  are the Qt event loop. None of the user, of tests or of the tuner.
- `Headless`: weak fairness of the main thread, of the polling timer, and of the end of a test, which has
  a duration. None of the signals.
- `Recovery`, `History`, `SmuAccess`: safety only, no fairness.

## 5. Proofs

TLAPS checks about 23 300 obligations in eight modules. What is proved holds for all values of the
constants within their assumptions: any number of cores, slots, interruptions, deaths, tests and
sessions. Every theorem about a state follows from an inductive invariant, which TLC was asked
about before it was proved; none of the checked properties is inductive by itself.

| Module | Theorems | Properties of runs among them | Under |
|---|---|---|---|
| `AttributionHuntProofs` | 17 | `ConvictionSound`, `ProbeBudgetShrinks`, `ImplementsAttribution`, `VerdictExplainsFailure`, `LoneFaultsConvictedExactly`, `ProbeRunsItsMask`, `ConvictionReal`, `ExonerationReal` | |
| `CoreSearchProofs` | 5 | `PassIsComplete`, `ConfirmationIsBacked`, `FailBoundStands` | `OriginsOnTrialSide` |
| `ValidationProofs` | 7 | `AnswerMeetsItsSlot`, `CompletionIsClean`, `AloneBeforeTogether` | `ResumeInCooldown = FALSE` |
| `StressProofs` | 5 | `TeardownConfirmed`, `RecordedPassIsWhole`, `PassIsEarned` | |
| `RecoveryProofs` | 7 | `RoundIsFair`, `ChargeIsBacked`, `CrashIsAnswered` | |
| `DesktopProofs` | 5 | `KindsExclusive`, `OffsetsStandUnderTest`, `CloseIsClean`, `VerdictKept` | `CloseIsClean`: `"close" \notin AutoResume` |
| `SmuAndHistoryProofs` | 11 | `AddressesOwnCore`, `WritesLandWhereTold`, `UndoBeforeTouch` | `TellTale` |
| | | `RowsKeepTheirContext`, `NoGhostRun`, `AdoptionKeepsAll`, `InFlightKept`, `EvidenceKeptApart` | the last: `Elsewhere = FALSE` |
| `HeadlessProofs` | 4 | `PausedIsSettled`, `AbortReverts` | `EarlySignals = FALSE` |

The hypotheses are those of the runs, and without each there is a counterexample of section 6 or
section 3: inherited offsets beyond stock (`OriginsOnTrialSide`), globally contiguous core numbers
(`TellTale`), an auto-resume under the close question, signals before the event loop, a resume within
a cooldown that a pause left (`ResumeInCooldown`), a session resumed under another BIOS (`Elsewhere`).

**`AttributionHuntProofs`**, of the automaton:

- `HuntIsInvariant`: `HuntInv` says, per stage, that the sets
  waiting in `pending` are apart from each other, from the open split and from the
  convicted, that a lone one has already failed, and that an open split stands at one of
  six positions (a half in flight or between two probes, the whole set waiting or in
  flight), with the answers that position tells of. That a lone head of `pending` may be convicted
  without a probe needs to know how it got there, and that the whole-set probe is a conjunction
  needs to know that both halves ran clean. `TypeCorrect`, `StatesWellFormed` (a state always
  passes the validator that reads it back) and `ConvictionsAreSound` follow from it.
- `BudgetShrinks`: what the sets in `pending` can still cost is a function that recurs on the length of the
  sequence (`CostOf`). That this function exists, and what it does with the head of a sequence, is
  proved by least counterexamples (`AddsExists`, `CostOfFront`, `CostOfSplit`). The budget never turns negative
  because the clean rounds of a split stay on account (`OnAccount`): a guilty half has reset them, and
  between two splits some set of `pending` will be split again and pays for them (`IdleBudget`). Then
  a dispatch is free (`NextLiveSetBudget`) and an answer costs at least its probe (`RecordBudget`).
  This is the safety half of termination, for any number of cores; that the steps are taken is `HuntEnds`.
- `HuntImplementsAttribution`: a dispatch only moves sets between `pending`, the split and the mask
  (`Moved`), an answer only drops, splits or convicts what was suspected (`Answered`); both are
  steps `Narrow` or `Conclude` of `Attribution`, or stutter.
- `FaultIsInvariant`: on a machine with a steady fault the answers are true, so every set that waits, is
  split or was convicted fails (`FaultTold`): a hunt never ends empty-handed. When the
  faults are single cores, each of them is convicted or still waits, and nobody else is
  convicted (`LoneKept`). `FailuresAreExplained` and `LoneFaultsAreConvicted` follow.

The lemmas have one for each operator: the halves of a set are proper and non-empty,
the level of a split stays within its bounds, and each of `Begin`, `SplitNext`,
`NextLiveSet`, `RecordLead`, `RecordWholeSet`, `FoldSplit` and `Record` keeps the invariant.

Of the engine, the same operator lemmas serve a hunt that is saved, armed,
disarmed, requeued and brought back.

- `EngineIsInvariant`: a crash may bring back any row that is not checkpointed away, so
  `EngineInvariant` asks of every one of them what it asks of the hunt in memory (`Sound`): the
  bisection's invariant on the masks that really ran clean and really failed, every core that
  is not suspected any more among those clean, and the launches that are counted the last ones that
  ran under the mask. From the mask to the end of a launch those counted and those still due are a
  whole series (`Standing`), which is why a clean answer stands for `Launches` runs whatever
  interrupted it. `EngineTypeCorrect`, `ProbesRunTheirMasks`, `ConvictionsAreReal` and
  `ExonerationsAreReal` follow.
- `EngineIsEvident`: the last row of a probe is the hunt that is held, the mask is written while no
  row on disk is armed, and a machine that went down stands at stock until the session is resumed. So
  `ArmedRowsAreEvidence`: whenever a crash may read an armed row, its mask is live or the machine
  has died under it, unless the machine was shut down in order or the operator stopped the probe.
- `AbortsAloneMislead`: the false reproductions of `AttributionHunt_abort` (section 6) have no
  other cause than that stop.

**`CoreSearchProofs`** needs `OriginsOnTrialSide`: the start
offset and the inherited offsets are not beyond stock on the safe side. (For an
inherited offset of the opposite sign the crash penalty moves towards stock, which there
is the aggressive direction; see section 6.)

- `SearchIsInvariant`: the invariant joins the types, the order of the bounds, that a core in
  back-off or at rest has a best offset, that a core under confirmation tests its
  best, and that a confirmed or annealing core is backed by the log. It is inductive with
  one lemma per branch of `_advance_core` and one per event. `BoundsStayOrdered`,
  `ConfirmationsStayBacked` and, as an action property, `FailBoundsStand` follow.
- `PassesAreComplete`: unless the index was carried, `battery_index` counts regimes that passed at the
  offset, and the order puts exactly these before it, however often it is made again (`Battery`). With `Known`
  as large as the index there is one way to fill the places before it, which is why the yields do not matter.

**`ValidationProofs`** needs `ResumeInCooldown = FALSE`: a cooldown timer cannot be cancelled, and a resume
within one leaves two dispatchers (`Validation_timers`, section 3).

- `RunIsOrderly`: one worker is out or one call is due, never both and never two (`Token`), and the cursor
  in memory is the saved one, at the slot a worker runs (`Flow`). Neither is inductive without the other:
  that an answer finds the cursor at its slot needs that nothing else was there to move it.
  `ValidationTypeCorrect` and `AnswersMeetTheirSlots` follow.
- A second layer, on the first, says that every slot behind the saved cursor passed (`Backed`), that in a clean pass
  no offset moved but where a death cut a handler short (`Untainted`), and that a core that lost its
  confirmation leaves the pass dirty (`Owing`): `CompletionsAreClean`, `CursorIsBacked`.
- A third says what the log shows of each core alone (`Record`) and which cores still have a turn of their own to
  come (`Owed`), through demotions, torn saves and rounds: `AloneComesFirst`. `InFlightIsOwned` says that the
  engine knows of its worker until the answer is processed.

**`StressProofs`**: the invariant of the drivers, the supervisor and the thread that stops them (`RunIsInvariant`). What
the teardown has still to visit holds every payload that is alive and the one being launched, the
launch is checked under `_teardown_lock`, and no later step clears the stop event of a run that
is torn down: hence `TeardownStands`. A lane passes in the last step of a batch, killed
by it after the last round or after another lane failed, or in a poll that found it dead and claims its
end: `PassesAreEarned`.

**`RecoveryProofs`**: `RoundsAreFair` is about two cursors, the one in memory and the one a restart rebuilds
from the log. A core that waits was passed once by each core between itself and the cursor
(`Round`, `Rounds`), and the two agree while nothing is under test. `ChargesAreBacked` and
`CrashesAreAnswered` rest on `Boots` and `Blame`: until a resume stamps the boot nothing is announced,
so the journal is what the crash left. `PicksAreAvailable`: a slot starts on an unfinished core
out of cooldown. `SlotsAreOnRecord` needs what is owed while a slot or a restore writes, and that the write under way
is the one that was announced (`Recorded`). It speaks of slots: between them, a revert that was announced and refused
leaves an offset resident of which the journal says stock, until a resume has written it.

**`DesktopProofs`**: the window decides by its controls, and these follow the owner as it was when they were
last set. `Good` says what each still stands for while signals of threads that ended are queued,
the auto-resume timer fires, or a dialog is open.

**`SmuAndHistoryProofs`**, of SMU access: a core's number gives its CCD and a relative number that rises with the slot; relative numbers
that are taken for slots are the slots, and a fuse that leaves as many slots as there are cores
leaves theirs (`CoresKeepTheirSlots`, by counting). With that map one core is one place, and `WritesLand` and
`UndoIsThere` hold of every plan and firmware.

Of the database, for any number of contexts, rows, versions and deaths:

- `HistoryIsInvariant`: both databases are `Sound` at whichever version they have: the rows are listed under
  the context of their point, since version 5 a point has one context, since version 16 a session of
  an older contract says so. The same lemmas carry `Sound` over the migrations of either. No id is beyond the last
  one handed out (`Numbered`), so a merge puts no row on another; new contexts get the ranks of their old ids on
  top, which differ. Between the merge and the rename everything of the other database is here (`Taken`). `RowsAreKept`,
  `NoGhostsRun`, `LegacySessionsStayRetired` and, as action properties, `AdoptionsKeepAll` and `InFlightIsKept` follow.
- `EvidenceStaysApart` needs in addition that the tuner's session is at the point the machine runs at (`AtHome`),
  hence `Elsewhere = FALSE`. What is banked is keyed by hash before version 20 and by context since, and `Credited`
  says of each what it was measured at.

**`HeadlessProofs`**: one dispatcher, a thread that is its worker's, and an exit code that ends the
loop; a core is marked with its offset in the hardware only while its worker is out, which is
what a paused exit relies on.

**Only model-checked:** what is liveness under
fairness, out of the prover's reach with ENABLED: `HuntEnds`, `ComesToRest`, `ValidationSettles`, `RunReports`,
`ManualReleased`, `SignalHeeded`. The type invariants and the inductive invariants are proved, and no run
repeats them. The modules that are proved about use recursive functions, not RECURSIVE operators.

## 6. Disagreements between code and documentation

Two runs end in a counterexample, each to a sentence of a doc or a comment.

| Run | The sentence | What the code does |
|---|---|---|
| `Stress_invented` | `parallel.py:29-31`: lanes without a verdict when the batch stops stay absent from the results rather than being invented | `execution.py:507`: a verdict of a lane whose process ended does not set the stop event; the lanes that are then killed early are classified as not interrupted, hence PASS |
| `Headless_interrupt` | `docs/usage.md:381`: an interrupt reverts every core to its session baseline | `cli.py:540`: the handler aborts in the middle of a slot, which then goes on and writes its offset (and may start its worker); the process exits 130 with it resident |

Thirteen more configurations show others; TLC finds the counterexample with `tlc -config <file> <module>`.

| Configuration (module) | Property | The sentence | What the code does |
|---|---|---|---|
| `Bisect_lone` (`Bisect`) | `LoneReproducerConvicted` | `docs/tuner-state-spec.md:162-164`: a lone core that reproduces is a culprit | `bisect.py:475`: a clean whole-set probe drops every pending set, lone reproducers among them |
| `AttributionHunt_crash` (`AttributionHunt`) | `CrashAdvancesHunt` | `docs/tuner-state-spec.md:139-140`: an in-flight hunt owns the crash | `engine.py:971`: the boot is stamped before the reproduction is recorded (1102); a refused baseline in between loses the answer |
| `AttributionHunt_abort` (`AttributionHunt`) | `NoFalseReproduction` | `engine.py:2780-2782`: an interrupted probe is not an answer | `engine.py:1189-1196`: baselines are restored and checkpointed while the probe is armed; a crash after the abort counts as a reproduction |
| `CoreSearch_reopen` (`CoreSearch`) | `ReopensOnProvenGround` | `engine.py:2241-2247`: a quarantine re-opens at the most aggressive survived value | `engine.py:2255`: the journal keeps the last write, and a quarantine has written stock |
| `CoreSearch_apparatus` (`CoreSearch`) | `FailEmptiesBattery` | `docs/tuner-state-spec.md:52-54`: a FAIL resets `battery_index` and delivers one FAIL | `engine.py:2070`: `_apparatus_suspect` delivers the FAIL and returns (3744) before the index and the frozen order are reset (3831-3832) |
| `CoreSearch_carried` (`CoreSearch`) | `PassCoversBattery` | `docs/tuner-state-spec.md:37-38`: a PASS means that the current offset passed every regime | `engine.py:2254`: re-opening a quarantine changes the offset and keeps `battery_index`; the order is made again from fewer passes than it counts (1287-1308), so a regime is skipped and the PASS delivered |
| `Validation_timers` (`MCValidation`) | `InFlightUntilProcessed` | `engine.py:634-636`: a test is in flight until its result is processed | `engine.py:3978`: a cooldown timer is not cancelled; pause and resume leave two workers |
| `Stress_stop` (`Stress`) | `StopIsHeeded` | `tests/test_scheduler.py:266`, 577: a stop before the run is honoured | `scheduler.py:142`, 178: a stop between the creation of the worker and the clear of the event in `run` is lost |
| `Stress_outside` (`Stress`) | `OutsideKillIsNoPass` | `docs/usage.md:104-106`: an external kill is an apparatus fault, retried without a verdict | `execution.py:704`: a leader killed from outside by SIGTERM, whose children are then sent our SIGTERM (212-217), has a return code that matches a signal of ours; the lane is classified as not interrupted, hence PASS before its time |
| `Recovery_twice` (`Recovery`) | `OneChargePerCrash` | `engine.py:935-939`: crash handling only applies when the machine rebooted since the session's last persisted write | `engine.py:971`, 2312-2385: cores are charged before the boot is stamped; a death in between charges them again |
| `History_bios` (`History`) | `EvidenceKeptApart` | `db.py:1861-1865`: clean seconds count for one operating point | `engine.py:860-871`: the context of a resumed session is captured but its time is banked under the context the session began with |
| `History_twice` (`History`) | `MergedOnce` | `db.py:54-56`: the root database can never be merged twice | `db.py:69-70`: the merge is committed before the rename; a death in between merges it again |
| `SmuAccess_numbers` (`SmuAccess`) | `AddressesOwnCore` | `driver.py:241-246`: only a hole internal to the group's own window proves physical numbering; `docs/hardware.md`: disabled rather than written to the wrong core | `driver.py:254`: with globally contiguous numbers a second CCD's group that fits one window but does not start it is trusted as physical |

Others were met while modelling and have no configuration of their own:

| Where | The sentence | What the code does |
|---|---|---|
| `engine.py:2016` | 1325-1327: a failed anneal probe returns to the proven offset | a penalty leaves an annealing core annealing and lowers `best_offset` to an unproven value, to which a failure then confirms it |
| `engine.py:1664` | `docs/tuner-state-spec.md:105-106`: a pass cannot widen the bounds past a failure | the fail bound is consulted in back-off only: a core charged before its search starts can pass and be confirmed beyond it |
| `engine.py:1981` | `docs/tuner-state-spec.md:82-83`: a penalty backs off without crossing stock | an inherited offset beyond stock on the safe side moves to stock, which is more aggressive |
| `engine.py:1823` | `docs/tuner-state-spec.md:113`: offset limits are clamped | midpoints of the back-off are not, and a baseline inherited beyond the limit can become a bound |
| `engine.py:1788` | `config.py:117`: jump after this many *consecutive* back-off failures | no pass resets the counter |
| `engine.py:4877`, 4979 | `docs/usage.md:106-107`: any back-off marks the pass dirty, completion needs a clean pass | the demotion is committed before the dirty flag is saved; a death in between forgets it. `CompletionIsClean` allows this one taint (`torn`) |
| `engine.py:4151` | 4119-4122: cores whose offset changed are requeued for a solo re-test | on resume only from stage 2 on: a core demoted while stage 1 stood beyond it is not. `AloneBeforeTogether` leaves these cores out (`early`) |
| `cli.py:540`, `engine.py:659`, 821 | `docs/usage.md:380`: SIGTERM finishes the test, exits 3 | a SIGTERM before `start` or `resume` has run is cleared by it; one during it exits "refused" with a worker running (`Headless` with `EarlySignals = TRUE` violates `PausedIsSettled`) |
| `main_window.py:902-907` | `docs/architecture.md:24-25`: one owner of the hardware | auto-resume that fires under the close question starts a session on a window that goes on closing (`Desktop` with "close" in `AutoResume` violates `CloseIsClean`; the run leaves it out) |
| `tuner_tab.py:780-792` | 980-982: the buttons follow the engine | after an abort that failed the buttons are off while the engine still runs |
| `history/logger.py:190-201` | `main_window.py:614-616`: a core without a verdict is not tested, and not failed | the logger refuses results in which a core has an empty list, so a run that stopped at an error is recorded as crashed |
| `execution.py:507` | as `Stress_invented` | a forced teardown in the middle of a poll round makes a pass too; a failed teardown or duty driver replaces a verdict "computation error" by "startup" |

Facts worth knowing that contradict nothing: a third CCD would starve under `ccd_round_robin`; the branch
`_handle_journal_suspects` takes without a hunt or an ambiguity is never reached; a death
between the stamp and the start of a hunt forgets that one was due; after a failed revert the journal says
stock while an offset is resident; legacy sessions left "paused" can be neither resumed nor
deleted; adopted sessions get higher ids and are preferred by auto-resume; an abort that fails still exits 130; a refused offset write
pauses the session with the core still marked in test (`engine.py:5082-5088`); a retest is logged under the stage that
asked for it, so a resume repeats some retests; the failure of a tested core is dropped
when evidence names another core; the apparatus streak is not reset by a resume.

## 7. What is not modelled

- *Of the search:* `proven_offset`, `backoff_mode`, cooldowns, crash counts and
  consecutive start failures, the annealing bar in hours (a probe may start at any time),
  suspicion scores (after an exhausted hunt any one core may be charged), the workloads of a
  regime (a failure may or may not contradict a pass of its workload), and the repair of a persisted back-off without a best offset.
- *Of the validation:* re-opening a quarantine and the crash streak; a refusal to restore
  on abort, a refused final profile write; logged passes of single lanes in a parallel slot
  that failed; annealing strikes and fail bounds; pauses for missing forensics or for
  evidence on a stock core; behaviour once two workers run. `_finalize_session` refuses a
  dirty profile; no step of the model gets there dirty.
- *Of recovery:* sessions that share a journal, missing forensics, more than one hunt, more than two
  CCDs, suspicion scores.
- *Of supervision:* the deduplication and parsing of kernel records, thermal sensors
  beyond safe or not, load telemetry, a failure while output is drained, backends that end by
  themselves, cycles after the first.
- *Of the desktop:* dry run, SIGTERM, the exception hook, the contents of the tabs.
- *Of the history:* columns and hunts that migrations rewrite, more than one bank per context, queries, export.
- *Of SMU access:* the timing of the mailbox, PBO limits, boost and scalar commands, older generations
  with other addressing, commands that no part of the program calls.
- *Of the command line:* `status`, `list`, `doctor`, `report`, parsing, privileges.
- *Time.* Durations are abstracted to the order of events; a cooldown is a call that comes
  later.
- *Other components:* the sleep inhibitor is small and apart from the rest; monitor, settings,
  report and widgets are input, output or pure reads. Scripts under `scripts/` exercise the program on
  real hardware.

## 8. Plan

1. `Validation`: deliver a worker's answer in a step of its own, so that a resume can
   fall between the end of a worker and its answer (`engine.py:813`).
2. `AttributionHunt`: the suspicion scores (`engine.py:2956`), with ties.
3. `CoreSearch`: the annealing bar in hours, and with it the banks of `History`.
4. The sleep inhibitor, if its races grow.
