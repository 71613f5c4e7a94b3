--------------------------- MODULE DesktopProofs ----------------------------
(***************************************************************************)
(* Proofs about Desktop, for every number of manual tests, tuner sessions and *)
(* deaths, and under whichever dialogs the auto-resume timer fires: the three *)
(* workloads never drive the machine together, the offsets under a test of   *)
(* the tuner are the tuner's, a closed window leaves nothing behind and the  *)
(* verdict of a run stays.                                                   *)
(*                                                                         *)
(* The window decides by its controls, and these follow the owner as it was  *)
(* when they were last set.  The invariant (Good) says what each control     *)
(* still stands for when it is used: signals of threads that have ended may  *)
(* be in the queue, the timer may come before them, and a dialog may have    *)
(* been opened before or after.                                              *)
(***************************************************************************)
EXTENDS Desktop, TLAPS

\* The fields of the window, and v as w in all but the fields F.
Fields == {"owner", "worker", "logger", "wired", "closing", "busy", "dialog", "timer", "engine",
           "session", "held", "next", "deaf", "start", "stop", "external", "tune", "memory",
           "locked", "pause", "abort", "validate", "resume"}
Controls == {"start", "stop", "external", "tune", "memory", "locked"}
Buttons == {"pause", "resume", "abort", "validate"}
IsWindow(w) == w = [f \in Fields |-> w[f]]
SameBut(v, w, F) == IsWindow(v) /\ \A f \in Fields \ F : v[f] = w[f]

\* Signals, the stages of a thread, and the rows of runs and sessions.
Messages == [kind : {"completed"}, test : Tests, whole : BOOLEAN]
            \union [kind : {"crashed", "finished"}, test : Tests] \union [kind : {"memory", "answer"}]
Stages == {"none", "driving", "ending", "over", "gone"}
Runs == [Tests -> {"none", "running", "stopped", "completed", "crashed"}]
Rows == [Sessions -> {"none", "running", "paused", "ended"}]

TypeOK ==
  /\ IsWindow(win) /\ win.worker \in Tests \union {NoTest}
  /\ thread \in [Workers -> Stages]
  /\ queue \in Seq(Messages)
  /\ run \in Runs
  /\ session \in Rows

\* A signal of kind k is in the queue; and at most one is the end of a memory stress.
Queued(q, k) == \E i \in 1..Len(q) : q[i].kind = k
Single(q) == \A i, j \in 1..Len(q) : q[i].kind = "memory" /\ q[j].kind = "memory" => i = j

\* The engine has a session in hand; a memory stress owns the machine, runs, or has its
\* end unanswered; no session waits to be resumed.
Busied(w) == w.engine \in Active \/ w.held
Stressed(w, t, q) == w.owner = "memory" \/ Alive(t, "memory") \/ Queued(q, "memory")
Settled(s) == \A x \in Sessions : s[x] \notin Active

\* A manual test that drives the machine is the worker of the window, and a test that
\* is over leaves the machine to no memory stress before it has been cleaned up.
TestOwned(w, t, q) ==
  \A x \in Tests : t[x] \in {"driving", "ending"} => w.worker = x /\ ~Queued(q, "finished")
TestAlone(w, t, q) ==
  /\ w.worker # NoTest => w.owner = "manual" /\ ~w.memory /\ ~Stressed(w, t, q)
  /\ Queued(q, "finished") => ~Stressed(w, t, q)

\* The tuner neither runs nor can be started beside a test or a memory stress.
TunerWaits(w, t, q, s) == w.worker # NoTest \/ Stressed(w, t, q) =>
  /\ w.external /\ ~w.tune /\ ~Busied(w) /\ ~w.pause /\ ~w.abort /\ w.dialog # "start"
  /\ w.dialog = "close" => "tuner" \notin w.busy
  /\ Settled(s)

\* A memory stress is offered where nothing runs or waits to be resumed.
MemoryOffered(w, s) == w.memory => w.worker = NoTest /\ ~Busied(w) /\ Settled(s)

\* Where the tuner can be paused or aborted, nothing else can be started; the end of
\* an earlier test that arrives then finds the engine at work.
TunerShown(w, q) == w.pause \/ w.abort =>
  ~w.start /\ ~w.memory /\ (Queued(q, "finished") => w.engine \in Active)

\* A test of the tuner that drives the machine is the engine's, on its offsets, and
\* the Curve Optimizer tab is locked.
TunerOwned(w, t, r) ==
  t["tuner"] = "driving" => w.held /\ w.engine \in Active /\ w.locked /\ r = "tuner"

\* One engine holds the worker of the tuner, and one end of a memory stress is posted.
OneAnswer(w, t, q) ==
  /\ w.held => w.engine # "none"
  /\ Single(q)
  /\ t["memory"] = "driving" => ~Queued(q, "memory")

\* The close question names every workload that runs while it is open.
Asked(w, t) == w.dialog = "close" =>
  /\ w.worker # NoTest /\ Alive(t, w.worker) => "manual" \in w.busy
  /\ Alive(t, "memory") => "memory" \in w.busy
  /\ "close" \notin AutoResume /\ Busied(w) => "tuner" \in w.busy

\* What the window w may rely on with threads t, signals q, rows s and r in the hardware.
Good(w, t, q, r, s) ==
  /\ TestOwned(w, t, q) /\ TestAlone(w, t, q) /\ TunerWaits(w, t, q, s) /\ MemoryOffered(w, s)
  /\ TunerShown(w, q) /\ TunerOwned(w, t, r) /\ OneAnswer(w, t, q) /\ Asked(w, t)

\* A process that ended with its window closed left nothing, if no timer fires under
\* the close question.
Clean == closed =>
  /\ ~up
  /\ "close" \notin AutoResume =>
       (\A x \in Workers : thread[x] # "driving") /\ ~win.held /\ win.engine # "running"

\* The inductive invariant.
Inv == TypeOK /\ (up => Good(win, thread, queue, resident, session)) /\ Clean

\* Whom the controls are for when p is the owner on record.
OwnerWith(p, w, t, s) ==
  IF p # "none" THEN p
  ELSE IF w.worker # NoTest /\ Alive(t, w.worker) THEN "manual"
  ELSE IF Busied(w) \/ \E x \in Sessions : s[x] \in Active THEN "tuner"
  ELSE IF Alive(t, "memory") THEN "memory" ELSE "none"

\* The controls of window v are those for the owner o.
Follows(v, o, t) ==
  /\ v.start <=> o = "none"
  /\ v.external <=> o \in {"manual", "memory"}
  /\ v.memory <=> o \notin {"manual", "tuner"} /\ ~Alive(t, "memory")
  /\ v.locked <=> o = "tuner"
  /\ o \in {"manual", "memory"} => ~v.tune

-----------------------------------------------------------------------------
USE DesktopAssumption

\* _apply_workload_owner sets the controls and nothing else (main_window.py:358-364).
LEMMA AppliedIs ==
  ASSUME NEW w, IsWindow(w), NEW t, NEW s
  PROVE  /\ SameBut(Applied(w, t, s), w, Controls)
         /\ Follows(Applied(w, t, s), ActiveOwner(w, t, s), t)
<1> DEFINE o == ActiveOwner(w, t, s)
           v == Applied(w, t, s)
<1>1. v = [w EXCEPT !.start = o = "none",
               !.stop = o = "manual",
               !.external = o \in {"manual", "memory"},
               !.tune = o \notin {"manual", "memory"} /\ w.engine \notin Active,
               !.memory = o \notin {"manual", "tuner"} /\ ~Alive(t, "memory"),
               !.locked = o = "tuner"]
  BY DEF Applied
<1> HIDE DEF o, v
<1>2. SameBut(v, w, Controls)
  <2>1. IsWindow(v)
    BY <1>1, ZenonT(60) DEF IsWindow, Fields
  <2>2. ASSUME NEW f \in Fields \ Controls PROVE v[f] = w[f]
    BY <1>1, <2>2 DEF IsWindow, Controls
  <2> QED BY <2>1, <2>2 DEF SameBut
<1>3. Follows(v, o, t)
  BY <1>1 DEF IsWindow, Fields, Follows
<1> QED
  BY <1>2, <1>3 DEF o, v

\* _set_workload_owner records the owner first (main_window.py:354-356).
LEMMA OwnedIs ==
  ASSUME NEW w, IsWindow(w), NEW t, NEW s, NEW p
  PROVE  /\ SameBut(Owned(w, p, t, s), w, Controls \union {"owner"}) /\ Owned(w, p, t, s).owner = p
         /\ Follows(Owned(w, p, t, s), OwnerWith(p, w, t, s), t)
<1> DEFINE u == [w EXCEPT !.owner = p]
<1>1. SameBut(u, w, {"owner"}) /\ u.owner = p /\ IsWindow(u)
  BY DEF IsWindow, Fields, SameBut
<1>2. u.worker = w.worker /\ u.engine = w.engine /\ u.held = w.held
  BY <1>1 DEF SameBut, Fields
<1>3. Owned(w, p, t, s) = Applied(u, t, s)
  BY DEF Owned
<1> HIDE DEF u
<1>4. OwnerWith(p, w, t, s) = ActiveOwner(u, t, s)
  BY <1>1, <1>2 DEF ActiveOwner, Busied, OwnerWith
<1>5. /\ SameBut(Applied(u, t, s), u, Controls)
      /\ Follows(Applied(u, t, s), ActiveOwner(u, t, s), t)
  BY <1>1, AppliedIs
<1>6. SameBut(Applied(u, t, s), w, Controls \union {"owner"}) /\ Applied(u, t, s).owner = p
  BY <1>1, <1>5 DEF SameBut, Controls, Fields
<1> QED BY <1>3, <1>4, <1>5, <1>6

\* _refresh_workload_owner, where no owner is on record (main_window.py:350-352).
LEMMA RefreshedIs ==
  ASSUME NEW w, IsWindow(w), NEW t, NEW s, w.owner = "none"
  PROVE  /\ SameBut(Refreshed(w, t, s), w, Controls \union {"owner"})
         /\ Refreshed(w, t, s).owner = OwnerWith("none", w, t, s)
         /\ Follows(Refreshed(w, t, s), OwnerWith("none", w, t, s), t)
<1> DEFINE o == OwnerWith("none", w, t, s)
<1>1. o = ActiveOwner(w, t, s)
  BY DEF ActiveOwner, Busied, OwnerWith
<1>2. Refreshed(w, t, s) = Owned(w, o, t, s)
  BY <1>1 DEF Refreshed
<1>3. OwnerWith(o, w, t, s) = o
  BY DEF OwnerWith
<1> HIDE DEF o
<1>4. /\ SameBut(Owned(w, o, t, s), w, Controls \union {"owner"}) /\ Owned(w, o, t, s).owner = o
      /\ Follows(Owned(w, o, t, s), OwnerWith(o, w, t, s), t)
  BY OwnedIs
<1> QED BY <1>2, <1>3, <1>4 DEF o

\* The owner of a window without a test after the tab has shown whether the tuner runs.
LEMMA TuningIs ==
  ASSUME NEW w, IsWindow(w), NEW running, NEW t, NEW s,
         NEW o, o = IF running THEN "tuner" ELSE OwnerWith("none", w, t, s)
  PROVE  /\ SameBut(Tuning(w, running, t, s), w, Controls \union Buttons \union {"owner"})
         /\ Tuning(w, running, t, s).owner = o /\ Follows(Tuning(w, running, t, s), o, t)
         /\ Tuning(w, running, t, s).pause <=> running
         /\ Tuning(w, running, t, s).abort <=> running
<1> DEFINE v == Tuning(w, running, t, s)
           u == [w EXCEPT !.tune = ~running, !.pause = running, !.resume = FALSE, !.abort = running,
                     !.validate = @ /\ ~running]
<1>1. SameBut(u, w, {"tune"} \union Buttons) /\ IsWindow(u)
  <2>1. IsWindow(u)
    BY ZenonT(60) DEF IsWindow, Fields
  <2>2. ASSUME NEW f \in Fields \ ({"tune"} \union Buttons) PROVE u[f] = w[f]
    BY <2>2 DEF IsWindow, Buttons
  <2> QED BY <2>1, <2>2 DEF SameBut
<1>2. (u.pause <=> running) /\ (u.abort <=> running)
  BY DEF IsWindow, Fields
<1>3. v = IF running THEN Owned(u, "tuner", t, s) ELSE Refreshed(Owned(u, "none", t, s), t, s)
  BY DEF Tuning
<1> HIDE DEF u, v
<1>4. u.worker = w.worker /\ u.engine = w.engine /\ u.held = w.held
  BY <1>1 DEF SameBut, Fields, Buttons
<1>5. CASE running
  <2>1. /\ SameBut(v, u, Controls \union {"owner"}) /\ v.owner = "tuner"
        /\ Follows(v, OwnerWith("tuner", u, t, s), t)
    <3>1. v = Owned(u, "tuner", t, s)
      BY <1>3, <1>5
    <3>2. SameBut(Owned(u, "tuner", t, s), u, Controls \union {"owner"})
      BY <1>1, OwnedIs
    <3>3. Owned(u, "tuner", t, s).owner = "tuner"
      BY <1>1, OwnedIs
    <3>4. Follows(Owned(u, "tuner", t, s), OwnerWith("tuner", u, t, s), t)
      BY <1>1, OwnedIs
    <3> QED BY <3>1, <3>2, <3>3, <3>4
  <2>2. Follows(v, o, t) /\ v.owner = o
    BY <1>5, <2>1 DEF OwnerWith
  <2>3. SameBut(v, w, Controls \union Buttons \union {"owner"}) /\ v.pause = u.pause /\ v.abort = u.abort
    BY <1>1, <2>1 DEF SameBut, Fields, Controls, Buttons
  <2> QED BY <1>2, <2>2, <2>3 DEF v
<1>6. CASE ~running
  <2> DEFINE y == Owned(u, "none", t, s)
  <2>1. SameBut(y, u, Controls \union {"owner"}) /\ y.owner = "none"
    <3>1. IsWindow(u)
      BY <1>1
    <3>2. SameBut(Owned(u, "none", t, s), u, Controls \union {"owner"})
      BY <3>1, OwnedIs
    <3>3. Owned(u, "none", t, s).owner = "none"
      BY <3>1, OwnedIs
    <3> QED BY <3>2, <3>3
  <2>2. v = Refreshed(y, t, s)
    BY <1>3, <1>6
  <2> HIDE DEF y
  <2>3. IsWindow(y) /\ y.worker = w.worker /\ y.engine = w.engine /\ y.held = w.held
    BY <1>4, <2>1 DEF SameBut, Fields, Controls
  <2>4. o = OwnerWith("none", y, t, s)
    BY <1>6, <2>3 DEF OwnerWith, Busied
  <2>5. SameBut(v, y, Controls \union {"owner"}) /\ v.owner = o /\ Follows(v, o, t)
    BY <2>1, <2>2, <2>3, <2>4, RefreshedIs
  <2>6. SameBut(v, w, Controls \union Buttons \union {"owner"}) /\ v.pause = u.pause /\ v.abort = u.abort
    BY <1>1, <2>1, <2>5 DEF SameBut, Fields, Controls, Buttons
  <2> QED BY <1>2, <2>5, <2>6 DEF v
<1> QED BY <1>5, <1>6

-----------------------------------------------------------------------------
(* Windows that show the tuner *)

\* A window of which the tuner tab may show the status: no test and no memory stress.
Fit(w, t, q, r) ==
  /\ IsWindow(w) /\ w.worker = NoTest /\ ~Alive(t, "memory") /\ ~Queued(q, "memory")
  /\ \A x \in Tests : t[x] \notin {"driving", "ending"}
  /\ t["tuner"] = "driving" => w.held /\ w.engine \in Active /\ r = "tuner"
  /\ w.held => w.engine # "none"
  /\ (w.dialog = "close" /\ "close" \notin AutoResume /\ Busied(w)) => "tuner" \in w.busy

\* What the tab shows goes with who has the machine.
LEMMA TuningFits ==
  ASSUME NEW w, NEW t, NEW q, NEW r, NEW s, NEW running, Fit(w, t, q, r),
         running => w.engine \in Active
  PROVE  /\ Good(Tuning(w, running, t, s), t, q, r, s)
         /\ IsWindow(Tuning(w, running, t, s)) /\ Tuning(w, running, t, s).worker = NoTest
<1> DEFINE v == Tuning(w, running, t, s)
           o == IF running THEN "tuner" ELSE OwnerWith("none", w, t, s)
<1>0. IsWindow(w)
  BY DEF Fit
<1>1. SameBut(v, w, Controls \union Buttons \union {"owner"})
  BY <1>0, TuningIs
<1>2. v.owner = o
  BY <1>0, TuningIs
<1>3. Follows(v, o, t)
  BY <1>0, TuningIs
<1>4. (v.pause <=> running) /\ (v.abort <=> running)
  <2>1. v.pause <=> running
    BY <1>0, TuningIs
  <2>2. v.abort <=> running
    BY <1>0, TuningIs
  <2> QED BY <2>1, <2>2
<1> HIDE DEF v
<1>5. /\ IsWindow(v) /\ v.worker = w.worker /\ v.engine = w.engine /\ v.held = w.held
      /\ v.dialog = w.dialog /\ v.busy = w.busy
  BY <1>1 DEF SameBut, Fields, Controls, Buttons
<1>6. /\ o \in {"tuner", "none"} /\ (Busied(w) => o = "tuner")
      /\ o # "tuner" => Settled(s)
  BY DEF Fit, OwnerWith, Busied, Settled
<1> HIDE DEF o
<1> USE DEF Fit, Follows, Busied
<1>7. TestOwned(v, t, q)
  BY DEF TestOwned
<1>8. TunerWaits(v, t, q, s) /\ TestAlone(v, t, q)
  BY <1>2, <1>5, <1>6 DEF TunerWaits, TestAlone, Stressed
<1>9. MemoryOffered(v, s)
  BY <1>3, <1>5, <1>6 DEF MemoryOffered
<1>10. TunerShown(v, q)
  BY <1>3, <1>4, <1>5, <1>6 DEF TunerShown
<1>11. TunerOwned(v, t, r)
  BY <1>3, <1>5, <1>6 DEF TunerOwned
<1>12. OneAnswer(v, t, q)
  BY <1>5 DEF OneAnswer, Queued, Alive, Single
<1>13. Asked(v, t)
  BY <1>5 DEF Asked
<1> QED
  BY <1>5, <1>7, <1>8, <1>9, <1>10, <1>11, <1>12, <1>13 DEF Good, v

\* Nothing is added to what the window answers for: its fields but those of the engine
\* stand, workloads end, and no signal is posted but answers and results.
Kept == {"owner", "worker", "start", "memory", "external", "tune", "locked", "pause", "abort"}
Calmer(w, t, q, s, v, u, p, a, b) ==
  /\ IsWindow(v) /\ \A f \in Kept : v[f] = w[f]
  /\ v.dialog \in {"none", "co"} \/ (v.dialog = w.dialog /\ v.busy = w.busy)
  /\ (v.held => w.held /\ v.engine # "none") /\ (v.engine \in Active => w.engine \in Active)
  /\ \A x \in Tests :
       /\ Alive(u, x) => Alive(t, x)
       /\ u[x] \in {"driving", "ending"} => t[x] \in {"driving", "ending"}
  /\ Alive(u, "memory") => Alive(t, "memory")
  /\ u["memory"] = "driving" => t["memory"] = "driving"
  /\ u["tuner"] = "driving" => v.held /\ v.engine \in Active /\ a = "tuner" /\ v.locked
  /\ Queued(p, "memory") => Queued(q, "memory")
  /\ Queued(p, "finished") => Queued(q, "finished") /\ (v.pause \/ v.abort => v.engine \in Active)
  /\ Single(p)
  /\ \A x \in Sessions : b[x] \in Active => s[x] \in Active

\* What Good asks for still holds then.
LEMMA Eases ==
  ASSUME NEW w, NEW t, NEW q, NEW r, NEW s, NEW v, NEW u, NEW p, NEW a, NEW b,
         Good(w, t, q, r, s), w.worker \in Tests \union {NoTest}, Calmer(w, t, q, s, v, u, p, a, b)
  PROVE  Good(v, u, p, a, b)
<1>1. /\ v.owner = w.owner /\ v.worker = w.worker /\ v.start = w.start /\ v.memory = w.memory
      /\ v.external = w.external /\ v.tune = w.tune
      /\ v.locked = w.locked /\ v.pause = w.pause /\ v.abort = w.abort
  BY DEF Kept, Calmer
<1>2. (Busied(v) => Busied(w)) /\ (Settled(s) => Settled(b))
  BY DEF Calmer, Busied, Settled
<1>3. Stressed(v, u, p) => Stressed(w, t, q)
  BY <1>1 DEF Calmer, Stressed
<1>4. v.dialog \in {"none", "co"} \/ (v.dialog = w.dialog /\ v.busy = w.busy)
  BY DEF Calmer
<1>5. TestOwned(v, u, p)
  <2> SUFFICES ASSUME NEW x \in Tests, u[x] \in {"driving", "ending"}
               PROVE  v.worker = x /\ ~Queued(p, "finished")
    BY DEF TestOwned
  <2>1. t[x] \in {"driving", "ending"}
    BY DEF Calmer
  <2>2. w.worker = x /\ ~Queued(q, "finished")
    BY <2>1 DEF Good, TestOwned
  <2> QED BY <1>1, <2>2 DEF Calmer
<1>6. TestAlone(v, u, p)
  BY <1>1, <1>3 DEF Good, TestAlone, Calmer
<1>7. TunerWaits(v, u, p, b)
  BY <1>1, <1>2, <1>3, <1>4 DEF Good, TunerWaits
<1>8. MemoryOffered(v, b)
  BY <1>1, <1>2 DEF Good, MemoryOffered
<1>9. TunerShown(v, p)
  BY <1>1 DEF Good, TunerShown, Calmer
<1>10. TunerOwned(v, u, a)
  BY DEF TunerOwned, Calmer
<1>11. OneAnswer(v, u, p)
  BY DEF Good, OneAnswer, Calmer
<1>12. Asked(v, u)
  <2>1. v.worker # NoTest /\ Alive(u, v.worker) => Alive(t, w.worker)
    BY <1>1 DEF Calmer
  <2>2. Alive(u, "memory") => Alive(t, "memory")
    BY DEF Calmer
  <2> QED BY <1>1, <1>2, <1>4, <2>1, <2>2 DEF Good, Asked
<1> QED
  BY <1>5, <1>6, <1>7, <1>8, <1>9, <1>10, <1>11, <1>12 DEF Good

\* The status of an engine is shown as it is.
LEMMA ShownFits ==
  ASSUME NEW w, NEW t, NEW q, NEW r, NEW s, Fit(w, t, q, r)
  PROVE  /\ Good(Shown(w, t, s), t, q, r, s)
         /\ IsWindow(Shown(w, t, s)) /\ Shown(w, t, s).worker = NoTest
<1>1. CASE w.engine = "running"
  <2>1. Shown(w, t, s) = Tuning(w, TRUE, t, s)
    BY <1>1 DEF Shown
  <2> QED BY <2>1, <1>1, TuningFits, ZenonT(60) DEF Active
<1>2. CASE w.engine = "paused"
  <2> DEFINE u == Tuning(w, TRUE, t, s)
             v == [u EXCEPT !.pause = FALSE, !.resume = TRUE]
  <2>1. Shown(w, t, s) = v
    BY <1>2 DEF Shown
  <2>2. Good(u, t, q, r, s) /\ IsWindow(u) /\ u.worker = NoTest
    BY <1>2, TuningFits DEF Active
  <2>3. u.abort
    BY TuningIs DEF Fit
  <2> HIDE DEF u
  <2>4. /\ IsWindow(v) /\ v.owner = u.owner /\ v.worker = u.worker /\ v.engine = u.engine /\ v.held = u.held
      /\ v.start = u.start /\ v.memory = u.memory /\ v.external = u.external /\ v.tune = u.tune
      /\ v.locked = u.locked /\ ~v.pause /\ v.abort = u.abort /\ v.dialog = u.dialog /\ v.busy = u.busy
    BY <2>2, ZenonT(60) DEF IsWindow, Fields
  <2> HIDE DEF v
  <2>5. Good(v, t, q, r, s)
    <3>1. TunerShown(v, q)
      BY <2>2, <2>3, <2>4 DEF Good, TunerShown
    <3>2. TunerWaits(v, t, q, s) /\ TestAlone(v, t, q) /\ TestOwned(v, t, q)
      BY <2>2, <2>4 DEF Good, TunerWaits, TestAlone, TestOwned, Stressed, Busied
    <3> QED
      BY <2>2, <2>4, <3>1, <3>2 DEF Good, MemoryOffered, TunerOwned, OneAnswer, Asked, Busied
  <2> QED BY <2>1, <2>2, <2>4, <2>5
<1>3. CASE w.engine \notin Active
  <2>1. Shown(w, t, s) = Tuning(w, FALSE, t, s)
    BY <1>3 DEF Shown, Active
  <2> QED BY <2>1, <1>3, TuningFits
<1> QED BY <1>1, <1>2, <1>3 DEF Active

-----------------------------------------------------------------------------
(* Signals *)

\* A signal that is posted is in the queue with those before it.
LEMMA PostedIs ==
  ASSUME NEW q \in Seq(Messages), NEW m \in Messages
  PROVE  /\ Append(q, m) \in Seq(Messages)
         /\ \A k : Queued(Append(q, m), k) => Queued(q, k) \/ m.kind = k
         /\ Single(q) /\ (m.kind = "memory" => ~Queued(q, "memory")) => Single(Append(q, m))
<1>1. Append(q, m) \in Seq(Messages) /\ Len(Append(q, m)) = Len(q) + 1 /\ Len(q) \in Nat
  OBVIOUS
<1>2. \A i \in 1..Len(Append(q, m)) : Append(q, m)[i] = IF i = Len(q) + 1 THEN m ELSE q[i]
  OBVIOUS
<1>3. \A i \in 1..Len(Append(q, m)) : i = Len(q) + 1 \/ i \in 1..Len(q)
  BY <1>1
<1> DEFINE a == Append(q, m)
<1> HIDE DEF a
<1>4. \A k : Queued(a, k) => Queued(q, k) \/ m.kind = k
  BY <1>1, <1>2, <1>3 DEF Queued, a
<1>5. ASSUME Single(q), m.kind = "memory" => ~Queued(q, "memory") PROVE Single(a)
  <2> SUFFICES ASSUME NEW i \in 1..Len(a), NEW j \in 1..Len(a), a[i].kind = "memory", a[j].kind = "memory"
               PROVE  i = j
    BY DEF Single
  <2>1. CASE i = Len(q) + 1 /\ j # Len(q) + 1
    <3>1. m.kind = "memory" /\ j \in 1..Len(q) /\ q[j].kind = "memory"
      BY <1>2, <1>3, <2>1 DEF a
    <3> QED BY <3>1, <1>5 DEF Queued
  <2>2. CASE j = Len(q) + 1 /\ i # Len(q) + 1
    <3>1. m.kind = "memory" /\ i \in 1..Len(q) /\ q[i].kind = "memory"
      BY <1>2, <1>3, <2>2 DEF a
    <3> QED BY <3>1, <1>5 DEF Queued
  <2>3. CASE i # Len(q) + 1 /\ j # Len(q) + 1
    <3>1. i \in 1..Len(q) /\ j \in 1..Len(q) /\ q[i].kind = "memory" /\ q[j].kind = "memory"
      BY <1>2, <1>3, <2>3 DEF a
    <3> QED BY <3>1, <1>5 DEF Single
  <2> QED BY <2>1, <2>2, <2>3
<1> QED
  BY <1>1, <1>4, <1>5 DEF a

\* A signal that is delivered leaves those behind it.
LEMMA DeliveredIs ==
  ASSUME NEW q \in Seq(Messages), q # <<>>
  PROVE  /\ Tail(q) \in Seq(Messages) /\ Head(q) \in Messages
         /\ Queued(q, Head(q).kind)
         /\ \A k : Queued(Tail(q), k) => Queued(q, k)
         /\ Single(q) => Single(Tail(q)) /\ (Head(q).kind = "memory" => ~Queued(Tail(q), "memory"))
<1>1. /\ Tail(q) \in Seq(Messages) /\ Len(Tail(q)) = Len(q) - 1 /\ Len(q) \in Nat /\ Len(q) >= 1
      /\ Head(q) = q[1] /\ Head(q) \in Messages
  OBVIOUS
<1>2. \A i \in 1..Len(Tail(q)) : Tail(q)[i] = q[i + 1] /\ i + 1 \in 1..Len(q)
  OBVIOUS
<1>3. 1 \in 1..Len(q)
  BY <1>1
<1> DEFINE a == Tail(q)
           b == Head(q)
<1> HIDE DEF a, b
<1>4. \A k : Queued(a, k) => Queued(q, k)
  BY <1>2 DEF Queued, a
<1>5. Queued(q, b.kind)
  BY <1>1, <1>3 DEF Queued, b
<1>6. Single(q) => Single(a)
  <2> SUFFICES ASSUME Single(q), NEW i \in 1..Len(a), NEW j \in 1..Len(a),
                      a[i].kind = "memory", a[j].kind = "memory"
               PROVE  i = j
    BY DEF Single
  <2>1. i + 1 = j + 1
    BY <1>2 DEF a, Single
  <2> QED BY <1>1, <2>1 DEF a
<1>7. ASSUME Single(q), b.kind = "memory" PROVE ~Queued(a, "memory")
  <2> SUFFICES ASSUME NEW i \in 1..Len(a), a[i].kind = "memory" PROVE FALSE
    BY DEF Queued
  <2>1. i + 1 \in 1..Len(q) /\ q[i + 1].kind = "memory" /\ q[1].kind = "memory"
    BY <1>1, <1>2, <1>7 DEF a, b
  <2>2. i + 1 = 1
    BY <1>3, <1>7, <2>1 DEF Single
  <2> QED BY <1>1, <2>2 DEF a
<1> QED
  BY <1>1, <1>4, <1>5, <1>6, <1>7 DEF a, b

\* Nothing is in an empty queue.
LEMMA EmptyIs == \A k : ~Queued(<<>>, k)
BY DEF Queued

-----------------------------------------------------------------------------
(* Steps of the tuner *)

\* What a step of the window leaves.
Left == /\ IsWindow(win') /\ win'.worker \in Tests \union {NoTest}
        /\ thread' \in [Workers -> Stages] /\ session' \in Rows
        /\ Good(win', thread', queue', resident', session')

\* The tuner may act on a window that offers it the machine.
LEMMA TunerMay ==
  ASSUME NEW w, NEW t, NEW q, NEW r, NEW s, IsWindow(w), Good(w, t, q, r, s),
         \/ ~w.external \/ w.tune \/ Busied(w) \/ w.pause \/ w.abort \/ w.dialog = "start"
         \/ w.dialog = "close" /\ "tuner" \in w.busy
  PROVE  Fit(w, t, q, r) /\ w.owner # "memory"
<1>1. w.worker = NoTest /\ ~Stressed(w, t, q)
  BY DEF Good, TunerWaits
<1>2. \A x \in Tests : t[x] \notin {"driving", "ending"}
  BY <1>1 DEF Good, TestOwned
<1> QED
  BY <1>1, <1>2 DEF Good, Fit, Stressed, TunerOwned, OneAnswer, Asked

\* A test of the tuner is launched, or the engine pauses.
Lent(w) ==
  /\ IsWindow(w) /\ w.worker = NoTest /\ ~Alive(thread, "memory") /\ ~Queued(queue, "memory")
  /\ \A x \in Tests : thread[x] \notin {"driving", "ending"}
  /\ (w.dialog = "close" /\ "close" \notin AutoResume) => "tuner" \in w.busy
\* The next test of the session is launched, or the engine pauses (engine.py _run_next).
LEMMA RunKeeps ==
  ASSUME TypeOK, NEW w, Lent(w), NEW s \in Rows, NEW x, Run(w, s, x), queue' = queue
  PROVE  Left
<1>0. "tuner" \in Workers /\ "memory" \in Workers /\ Tests \subseteq Workers /\ "tuner" \notin Tests
  BY DEF Workers
<1>1. CASE /\ Reached([w EXCEPT !.engine = "running", !.held = TRUE, !.next = FALSE, !.deaf = FALSE],
                      [thread EXCEPT !["tuner"] = "driving"], [s EXCEPT ![x] = "running"])
           /\ resident' = "tuner"
  <2> DEFINE v == [w EXCEPT !.engine = "running", !.held = TRUE, !.next = FALSE, !.deaf = FALSE]
             t == [thread EXCEPT !["tuner"] = "driving"]
             y == [s EXCEPT ![x] = "running"]
  <2>1. /\ IsWindow(v) /\ v.engine = "running" /\ v.held /\ v.worker = w.worker
        /\ v.dialog = w.dialog /\ v.busy = w.busy
    BY ZenonT(60) DEF Lent, IsWindow, Fields
  <2>2. t \in [Workers -> Stages] /\ t["memory"] = thread["memory"] /\ \A z \in Tests : t[z] = thread[z]
    BY <1>0 DEF TypeOK, Stages
  <2>3. win' = Shown(v, t, y) /\ thread' = t /\ session' = y
    BY <1>1 DEF Reached
  <2>5. y \in Rows
    BY DEF Rows
  <2> HIDE DEF v, t, y
  <2>4. Fit(v, t, queue, resident')
    BY <1>1, <2>1, <2>2 DEF Lent, Fit, Alive, Active
  <2> QED BY <1>1, <2>2, <2>3, <2>4, <2>5, ShownFits DEF Left
<1>2. CASE /\ Reached([w EXCEPT !.engine = "paused", !.held = FALSE, !.next = FALSE],
                      [thread EXCEPT !["tuner"] = "none"], [s EXCEPT ![x] = "paused"])
           /\ resident' \in {resident, "tuner"}
  <2> DEFINE v == [w EXCEPT !.engine = "paused", !.held = FALSE, !.next = FALSE]
             t == [thread EXCEPT !["tuner"] = "none"]
             y == [s EXCEPT ![x] = "paused"]
  <2>1. /\ IsWindow(v) /\ v.engine = "paused" /\ ~v.held /\ v.worker = w.worker
        /\ v.dialog = w.dialog /\ v.busy = w.busy
    BY ZenonT(60) DEF Lent, IsWindow, Fields
  <2>2. /\ t \in [Workers -> Stages] /\ t["memory"] = thread["memory"] /\ t["tuner"] = "none"
        /\ \A z \in Tests : t[z] = thread[z]
    BY <1>0 DEF TypeOK, Stages
  <2>3. win' = Shown(v, t, y) /\ thread' = t /\ session' = y
    BY <1>2 DEF Reached
  <2>5. y \in Rows
    BY DEF Rows
  <2> HIDE DEF v, t, y
  <2>4. Fit(v, t, queue, resident')
    BY <2>1, <2>2 DEF Lent, Fit, Alive, Active
  <2> QED BY <2>2, <2>3, <2>4, <2>5, ShownFits DEF Left
<1> QED BY <1>1, <1>2 DEF Run

\* The session ends with nothing under test.
LEMMA RetireKeeps ==
  ASSUME TypeOK, NEW w, NEW t \in [Workers -> Stages], NEW q, Retire(w, t), queue' = q,
         IsWindow(w), w.worker = NoTest, ~w.held, ~Alive(t, "memory"), ~Queued(q, "memory"),
         t["tuner"] # "driving", \A x \in Tests : t[x] \notin {"driving", "ending"}
  PROVE  Left
<1>1. PICK profile \in BOOLEAN :
        /\ thread' = t /\ session' = [session EXCEPT ![w.session] = "ended"]
        /\ win' = [Shown([w EXCEPT !.engine = "idle"], t, session') EXCEPT !.validate = profile]
  BY DEF Retire
<1> DEFINE v == [w EXCEPT !.engine = "idle"]
<1>2. IsWindow(v) /\ v.engine = "idle" /\ v.held = w.held /\ v.worker = w.worker
  BY DEF IsWindow, Fields
<1>3. session' \in Rows
  BY <1>1 DEF TypeOK, Rows
<1> HIDE DEF v
<1>4. Fit(v, t, q, resident')
  BY <1>2 DEF Fit, Busied, Active
<1> DEFINE u == Shown(v, t, session')
<1>5. Good(u, t, q, resident', session') /\ IsWindow(u) /\ u.worker = NoTest
  BY <1>4, ShownFits
<1>6. win' = [u EXCEPT !.validate = profile]
  BY <1>1 DEF v
<1> HIDE DEF u
<1>7. /\ IsWindow(win') /\ win'.dialog = u.dialog /\ win'.busy = u.busy /\ win'.held = u.held
      /\ win'.engine = u.engine
      /\ \A f \in Kept : win'[f] = u[f]
  BY <1>5, <1>6 DEF IsWindow, Fields, Kept
<1>8. Calmer(u, t, q, session', win', t, q, resident', session')
  BY <1>5, <1>7 DEF Calmer, Good, OneAnswer, TunerOwned, TunerShown, Kept
<1>9. Good(win', t, q, resident', session')
  BY <1>5, <1>8, Eases
<1> QED BY <1>1, <1>3, <1>5, <1>7, <1>9 DEF Left, Kept

-----------------------------------------------------------------------------
(* The manual test and the memory stress *)

\* A step that leaves the process up.
LEMMA StaysUp ==
  ASSUME Inv, up, UNCHANGED <<up, closed>>, Left, queue' \in Seq(Messages), run' \in Runs
  PROVE  Inv'
BY DEF Inv, Left, TypeOK, Clean

\* v is the window w of the owner on record p, with controls for the owner o.
OwnedBy(v, w, p, o, t) ==
  /\ IsWindow(v) /\ v.owner = p /\ Follows(v, o, t)
  /\ v.worker = w.worker /\ v.engine = w.engine /\ v.held = w.held
  /\ v.dialog = w.dialog /\ v.busy = w.busy /\ v.pause = w.pause /\ v.abort = w.abort
\* The controls follow the owner, and the rest of the window stands.
LEMMA OwnerShown ==
  ASSUME NEW w, IsWindow(w), NEW t, NEW s, NEW p
  PROVE  OwnedBy(Owned(w, p, t, s), w, p, OwnerWith(p, w, t, s), t)
<1> DEFINE v == Owned(w, p, t, s)
           o == OwnerWith(p, w, t, s)
<1>1. SameBut(v, w, Controls \union {"owner"}) /\ v.owner = p /\ Follows(v, o, t)
  BY OwnedIs
<1> HIDE DEF v, o
<1>2. OwnedBy(v, w, p, o, t)
  BY <1>1 DEF SameBut, Controls, Fields, OwnedBy
<1> QED BY <1>2 DEF v, o

\* The verdict on a run is a status of a run.
LEMMA FinishIs ==
  ASSUME run \in Runs, NEW row, NEW status \in {"stopped", "completed", "crashed"}
  PROVE  Finish(row, status) \in Runs
BY DEF Runs, Finish

\* A manual test starts where nothing owns the machine (main_window.py:366-478): the window takes
\* its worker on, and the controls of the tuner and the memory stress are off.
LEMMA StartTestKeeps == ASSUME Inv, StartTest PROVE Inv'
<1>1. PICK x \in Tests :
        /\ run[x] = "none"
        /\ run' = [run EXCEPT ![x] = "running"]
        /\ thread' = [thread EXCEPT ![x] = "driving"]
        /\ win' = Owned([win EXCEPT !.worker = x, !.logger = x, !.wired = @ \union {x}],
                        "manual", [thread EXCEPT ![x] = "none"], session)
  BY Zenon DEF StartTest
<1>2. /\ up /\ queue = <<>> /\ win.dialog = "none" /\ win.start
      /\ ActiveOwner(win, thread, session) = "none"
      /\ UNCHANGED <<up, queue, session, resident, deaths, closed>>
  BY DEF StartTest, Free, Ready
<1>3. TypeOK /\ Good(win, thread, queue, resident, session)
  BY <1>2 DEF Inv
<1>4. /\ win.owner = "none" /\ ~Busied(win) /\ Settled(session) /\ ~Alive(thread, "memory")
      /\ win.worker # NoTest => ~Alive(thread, win.worker)
  BY <1>2 DEF ActiveOwner, Busied, Settled
<1>5. \A y \in Tests : thread[y] \notin {"driving", "ending"}
  BY <1>3, <1>4 DEF Good, TestOwned, Alive
<1>6. ~win.pause /\ ~win.abort
  BY <1>2, <1>3 DEF Good, TunerShown
<1>7. thread["tuner"] # "driving"
  BY <1>3, <1>4 DEF Good, TunerOwned, Busied
<1> DEFINE w == [win EXCEPT !.worker = x, !.logger = x, !.wired = @ \union {x}]
           v == Owned(w, "manual", [thread EXCEPT ![x] = "none"], session)
<1>8. /\ IsWindow(w) /\ w.worker = x /\ w.engine = win.engine /\ w.held = win.held
      /\ w.dialog = win.dialog /\ w.pause = win.pause /\ w.abort = win.abort
  BY <1>3, ZenonT(60) DEF TypeOK, IsWindow, Fields
<1> HIDE DEF w
<1>9. OwnedBy(v, w, "manual", OwnerWith("manual", w, [thread EXCEPT ![x] = "none"], session),
              [thread EXCEPT ![x] = "none"])
  BY <1>8, OwnerShown
<1> HIDE DEF v
<1>10. /\ IsWindow(v) /\ v.owner = "manual" /\ v.worker = x /\ v.external /\ ~v.tune /\ ~v.memory
       /\ ~v.pause /\ ~v.abort /\ v.dialog = "none" /\ ~Busied(v) /\ v.held = win.held
  BY <1>2, <1>4, <1>6, <1>8, <1>9 DEF OwnedBy, OwnerWith, Follows, Busied
<1>11. /\ thread' \in [Workers -> Stages] /\ thread'["memory"] = thread["memory"]
       /\ thread'["tuner"] = thread["tuner"] /\ win' = v
       /\ \A y \in Tests \ {x} : thread'[y] = thread[y]
  BY <1>1, <1>3 DEF TypeOK, Workers, Stages, v, w
<1>12. ~Stressed(v, thread', <<>>)
  BY <1>4, <1>10, <1>11, EmptyIs DEF Stressed, Alive
<1>13. Good(v, thread', <<>>, resident, session)
  <2>1. TestOwned(v, thread', <<>>)
    BY <1>5, <1>10, <1>11, EmptyIs DEF TestOwned
  <2>2. TestAlone(v, thread', <<>>) /\ TunerWaits(v, thread', <<>>, session)
    BY <1>4, <1>10, <1>12 DEF TestAlone, TunerWaits
  <2>3. MemoryOffered(v, session) /\ TunerShown(v, <<>>) /\ Asked(v, thread')
    BY <1>10 DEF MemoryOffered, TunerShown, Asked
  <2>4. TunerOwned(v, thread', resident)
    BY <1>7, <1>11 DEF TunerOwned
  <2>5. OneAnswer(v, thread', <<>>)
    BY <1>4, <1>10, EmptyIs DEF OneAnswer, Single, Busied
  <2> QED BY <2>1, <2>2, <2>3, <2>4, <2>5 DEF Good
<1>14. Left
  BY <1>2, <1>3, <1>10, <1>11, <1>13 DEF Left, TypeOK
<1>15. run' \in Runs /\ queue' \in Seq(Messages)
  BY <1>1, <1>2, <1>3 DEF TypeOK, Runs
<1> QED BY <1>2, <1>14, <1>15, StaysUp

\* A step of the window with which nothing is added.
LEMMA CalmStep ==
  ASSUME Inv, up, IsWindow(win'), win'.worker = win.worker, thread' \in [Workers -> Stages],
         session' \in Rows, run' \in Runs, queue' \in Seq(Messages), UNCHANGED <<up, closed>>,
         Calmer(win, thread, queue, session, win', thread', queue', resident', session')
  PROVE  Inv'
<1>1. TypeOK /\ Good(win, thread, queue, resident, session)
  BY DEF Inv
<1>2. Good(win', thread', queue', resident', session')
  BY <1>1, Eases DEF TypeOK
<1> QED BY <1>1, <1>2, StaysUp DEF Left, TypeOK

\* A stop disconnects the logger and leaves the worker to its end (main_window.py:480-523).
LEMMA StopTestKeeps == ASSUME Inv, StopTest PROVE Inv'
<1>1. /\ up /\ win' = [win EXCEPT !.stop = FALSE, !.logger = NoTest, !.wired = @ \ {win.worker}]
      /\ UNCHANGED <<up, thread, queue, session, resident, closed>>
  BY DEF StopTest, Free, Ready
<1>2. TypeOK /\ Good(win, thread, queue, resident, session)
  BY <1>1 DEF Inv
<1>3. run' \in Runs
  BY <1>2, FinishIs DEF StopTest, FinishRun, TypeOK
<1>4. /\ IsWindow(win') /\ \A f \in Kept : win'[f] = win[f]
      /\ win'.worker = win.worker /\ win'.dialog = win.dialog /\ win'.busy = win.busy
      /\ win'.held = win.held /\ win'.engine = win.engine
  BY <1>1, <1>2, ZenonT(60) DEF TypeOK, IsWindow, Fields, Kept
<1>5. win'.pause = win.pause /\ win'.abort = win.abort /\ win'.locked = win.locked
  BY <1>4 DEF Kept
<1>6. Calmer(win, thread, queue, session, win', thread', queue', resident', session')
  BY <1>1, <1>2, <1>4, <1>5 DEF Calmer, Good, OneAnswer, TunerOwned, TunerShown
<1> QED BY <1>1, <1>2, <1>3, <1>4, <1>6, CalmStep DEF TypeOK

\* A step of a thread, with the window as it was.
LEMMA CalmThread ==
  ASSUME Inv, up, NEW x \in Workers, NEW stage \in {"ending", "over", "gone"},
         thread[x] \in {"driving", "ending", "over"}, stage = "ending" => thread[x] = "driving",
         thread' = [thread EXCEPT ![x] = stage], queue' \in Seq(Messages),
         Queued(queue', "memory") => Queued(queue, "memory"),
         Queued(queue', "finished") => Queued(queue, "finished"), Single(queue'),
         UNCHANGED <<up, win, run, session, resident, closed>>
  PROVE  Inv'
<1>1. TypeOK /\ Good(win, thread, queue, resident, session)
  BY DEF Inv
<1>2. /\ thread' \in [Workers -> Stages] /\ thread'[x] = stage
      /\ \A y \in Workers \ {x} : thread'[y] = thread[y]
  BY <1>1 DEF TypeOK, Stages
<1>3. "tuner" \in Workers /\ "memory" \in Workers /\ Tests \subseteq Workers
  BY DEF Workers
<1>4. \A y \in Workers : /\ Alive(thread', y) => Alive(thread, y)
                         /\ thread'[y] = "driving" => thread[y] = "driving"
  BY <1>2 DEF Alive
<1>5. \A y \in Tests : thread'[y] \in {"driving", "ending"} => thread[y] \in {"driving", "ending"}
  BY <1>2, <1>3
<1>6. /\ win.held => win.engine # "none"
      /\ thread["tuner"] = "driving" =>
           win.held /\ win.engine \in Active /\ resident = "tuner" /\ win.locked
      /\ Queued(queue, "finished") /\ (win.pause \/ win.abort) => win.engine \in Active
  BY <1>1 DEF Good, OneAnswer, TunerOwned, TunerShown
<1>7. Calmer(win, thread, queue, session, win', thread', queue', resident', session')
  <2>1. \A y \in Tests : /\ Alive(thread', y) => Alive(thread, y)
                         /\ thread'[y] \in {"driving", "ending"} => thread[y] \in {"driving", "ending"}
    BY <1>3, <1>4, <1>5
  <2>2. /\ Alive(thread', "memory") => Alive(thread, "memory")
        /\ thread'["memory"] = "driving" => thread["memory"] = "driving"
        /\ thread'["tuner"] = "driving" =>
             win.held /\ win.engine \in Active /\ resident = "tuner" /\ win.locked
    BY <1>3, <1>4, <1>6
  <2> QED BY <1>1, <1>6, <2>1, <2>2 DEF Calmer, TypeOK
<1> QED BY <1>1, <1>2, <1>7, CalmStep DEF TypeOK

\* A signal posted by a thread that is neither the end of a test nor of the stress.
LEMMA QuietPost ==
  ASSUME Inv, up, NEW m \in Messages, m.kind \notin {"memory", "finished"}, Post(m)
  PROVE  /\ queue' \in Seq(Messages) /\ Single(queue')
         /\ Queued(queue', "memory") => Queued(queue, "memory")
         /\ Queued(queue', "finished") => Queued(queue, "finished")
<1>1. queue \in Seq(Messages) /\ Single(queue) /\ queue' = Append(queue, m)
  BY DEF Inv, TypeOK, Good, OneAnswer, Post
<1> QED BY <1>1, PostedIs

\* The results of a test are posted before its thread ends (main_window.py:113-136).
LEMMA TestEndsKeeps == ASSUME Inv, NEW x \in Tests, TestEnds(x) PROVE Inv'
<1>1. PICK whole \in BOOLEAN : Post([kind |-> "completed", test |-> x, whole |-> whole])
  BY DEF TestEnds
<1> DEFINE m == [kind |-> "completed", test |-> x, whole |-> whole]
<1>2. m \in Messages /\ m.kind = "completed"
  BY DEF Messages
<1> HIDE DEF m
<1>3. /\ up /\ thread[x] = "driving" /\ thread' = [thread EXCEPT ![x] = "ending"]
      /\ UNCHANGED <<up, win, run, session, resident, closed>>
  BY DEF TestEnds
<1>4. Post(m)
  BY <1>1 DEF m
<1>5. /\ queue' \in Seq(Messages) /\ Single(queue')
      /\ Queued(queue', "memory") => Queued(queue, "memory")
      /\ Queued(queue', "finished") => Queued(queue, "finished")
  BY <1>2, <1>3, <1>4, QuietPost
<1> QED BY <1>3, <1>5, CalmThread DEF Workers

\* The answer of a test of the tuner is posted, if anybody listens (engine.py:3505).
LEMMA TunerTestEndsKeeps == ASSUME Inv, TunerTestEnds PROVE Inv'
<1> DEFINE m == [kind |-> "answer"]
<1>1. m \in Messages /\ m.kind = "answer"
  BY DEF Messages
<1>2. /\ up /\ thread["tuner"] = "driving" /\ thread' = [thread EXCEPT !["tuner"] = "over"]
      /\ queue' = queue \/ Post(m)
      /\ UNCHANGED <<up, win, run, session, resident, closed>>
  BY DEF TunerTestEnds
<1> HIDE DEF m
<1>3. queue \in Seq(Messages) /\ Single(queue)
  BY <1>2 DEF Inv, TypeOK, Good, OneAnswer
<1>4. /\ queue' \in Seq(Messages) /\ Single(queue')
      /\ Queued(queue', "memory") => Queued(queue, "memory")
      /\ Queued(queue', "finished") => Queued(queue, "finished")
  BY <1>1, <1>2, <1>3, QuietPost
<1> QED BY <1>2, <1>4, CalmThread DEF Workers

\* A thread that has run to its end is joined.
LEMMA GoneKeeps == ASSUME Inv, NEW x \in Workers, Gone(x) PROVE Inv'
<1>1. /\ up /\ thread[x] = "over" /\ thread' = [thread EXCEPT ![x] = "gone"]
      /\ UNCHANGED <<up, win, queue, run, session, resident, closed>>
  BY DEF Gone
<1>2. queue \in Seq(Messages) /\ Single(queue)
  BY <1>1 DEF Inv, TypeOK, Good, OneAnswer
<1> QED BY <1>1, <1>2, CalmThread

\* A test that ends posts its crash, if any, and that it has finished: no workload started meanwhile,
\* as the window still holds its worker.
LEMMA TestReportsKeeps == ASSUME Inv, NEW x \in Tests, TestReports(x) PROVE Inv'
<1> DEFINE m == [kind |-> "finished", test |-> x]
           c == [kind |-> "crashed", test |-> x]
<1>1. m \in Messages /\ m.kind = "finished" /\ c \in Messages /\ c.kind = "crashed"
  BY DEF Messages
<1>2. /\ up /\ thread[x] = "ending" /\ thread' = [thread EXCEPT ![x] = "over"]
      /\ queue' = Append(queue, m) \/ queue' = queue \o <<c, m>>
      /\ UNCHANGED <<up, win, run, session, resident, closed>>
  BY DEF TestReports, Post
<1>3. TypeOK /\ Good(win, thread, queue, resident, session)
  BY <1>2 DEF Inv
<1> HIDE DEF m, c
<1>4. queue \o <<c, m>> = Append(Append(queue, c), m)
  BY <1>1, <1>3 DEF TypeOK
<1>5. queue' \in Seq(Messages) /\ Single(queue') /\ (Queued(queue', "memory") => Queued(queue, "memory"))
  <2>1. queue \in Seq(Messages) /\ Single(queue)
    BY <1>3 DEF TypeOK, Good, OneAnswer
  <2>2. /\ Append(queue, m) \in Seq(Messages) /\ Single(Append(queue, m))
        /\ Queued(Append(queue, m), "memory") => Queued(queue, "memory")
    BY <1>1, <2>1, PostedIs
  <2>3. /\ Append(queue, c) \in Seq(Messages) /\ Single(Append(queue, c))
        /\ Queued(Append(queue, c), "memory") => Queued(queue, "memory")
    BY <1>1, <2>1, PostedIs
  <2> DEFINE q == Append(queue, c)
  <2> HIDE DEF q
  <2>4. q \in Seq(Messages) /\ Single(q) /\ (Queued(q, "memory") => Queued(queue, "memory"))
    BY <2>3 DEF q
  <2>5. /\ Append(q, m) \in Seq(Messages) /\ Single(Append(q, m))
        /\ Queued(Append(q, m), "memory") => Queued(q, "memory")
    BY <1>1, <2>4, PostedIs
  <2> QED BY <1>2, <1>4, <2>2, <2>4, <2>5 DEF q
<1>6. /\ win.worker = x /\ x # NoTest /\ ~Stressed(win, thread, queue) /\ ~win.pause /\ ~win.abort
  BY <1>2, <1>3 DEF Good, TestOwned, TestAlone, TunerWaits
<1>7. /\ thread' \in [Workers -> Stages] /\ thread'[x] = "over"
      /\ \A y \in Workers \ {x} : thread'[y] = thread[y]
  BY <1>2, <1>3 DEF TypeOK, Stages, Workers
<1>8. /\ Tests \subseteq Workers /\ thread'["tuner"] = thread["tuner"]
      /\ thread'["memory"] = thread["memory"] /\ (Alive(thread', x) => Alive(thread, x))
  BY <1>2, <1>7 DEF Workers, Alive
<1>9. \A y \in Tests : thread'[y] \notin {"driving", "ending"}
  BY <1>3, <1>6, <1>7, <1>8 DEF Good, TestOwned
<1>10. Good(win, thread', queue', resident, session)
  <2>1. TestOwned(win, thread', queue')
    BY <1>9 DEF TestOwned
  <2>2. ~Stressed(win, thread', queue')
    BY <1>5, <1>6, <1>8 DEF Stressed, Alive
  <2>3. TestAlone(win, thread', queue') /\ TunerWaits(win, thread', queue', session)
    BY <1>3, <1>6, <2>2 DEF Good, TestAlone, TunerWaits
  <2>4. MemoryOffered(win, session) /\ TunerShown(win, queue')
    BY <1>3, <1>6 DEF Good, MemoryOffered, TunerShown
  <2>5. TunerOwned(win, thread', resident)
    BY <1>3, <1>8 DEF Good, TunerOwned
  <2>6. OneAnswer(win, thread', queue')
    BY <1>3, <1>5, <1>8 DEF Good, OneAnswer
  <2>7. Asked(win, thread')
    BY <1>3, <1>6, <1>8 DEF Good, Asked, Alive
  <2> QED BY <2>1, <2>3, <2>4, <2>5, <2>6, <2>7 DEF Good
<1> QED BY <1>2, <1>3, <1>5, <1>7, <1>10, StaysUp DEF Left, TypeOK

\* A memory stress starts where its tab offers it, and turns the tuner's controls off.
LEMMA StartMemoryKeeps == ASSUME Inv, StartMemory PROVE Inv'
<1>1. /\ up /\ queue = <<>> /\ win.dialog = "none" /\ win.memory /\ ~Alive(thread, "memory")
      /\ win' = Owned(win, "memory", thread, session)
      /\ thread' = [thread EXCEPT !["memory"] = "driving"]
      /\ UNCHANGED <<up, queue, run, session, resident, closed>>
  BY DEF StartMemory, Free, Ready
<1>2. TypeOK /\ Good(win, thread, queue, resident, session)
  BY <1>1 DEF Inv
<1>3. win.worker = NoTest /\ ~Busied(win) /\ Settled(session) /\ ~win.pause /\ ~win.abort
  BY <1>1, <1>2 DEF Good, MemoryOffered, TunerShown
<1>4. OwnedBy(Owned(win, "memory", thread, session), win, "memory",
              OwnerWith("memory", win, thread, session), thread)
  BY <1>2, OwnerShown DEF TypeOK
<1> DEFINE v == Owned(win, "memory", thread, session)
<1> HIDE DEF v
<1>5. /\ IsWindow(v) /\ v.worker = NoTest /\ v.external /\ ~v.tune /\ ~v.pause /\ ~v.abort
      /\ v.dialog = "none" /\ ~Busied(v) /\ v.held = win.held
  BY <1>1, <1>3, <1>4 DEF OwnedBy, OwnerWith, Follows, Busied, v
<1>6. /\ thread' \in [Workers -> Stages]
      /\ \A y \in Workers \ {"memory"} : thread'[y] = thread[y]
      /\ Tests \subseteq Workers \ {"memory"} /\ "tuner" \in Workers \ {"memory"}
  BY <1>1, <1>2 DEF TypeOK, Workers, Stages
<1>7. Good(v, thread', <<>>, resident, session)
  <2>1. TestOwned(v, thread', <<>>)
    BY <1>2, <1>3, <1>6 DEF Good, TestOwned
  <2>2. TestAlone(v, thread', <<>>)
    BY <1>5, EmptyIs DEF TestAlone
  <2>3. TunerWaits(v, thread', <<>>, session)
    BY <1>3, <1>5 DEF TunerWaits
  <2>4. MemoryOffered(v, session) /\ TunerShown(v, <<>>) /\ Asked(v, thread')
    BY <1>3, <1>5 DEF MemoryOffered, TunerShown, Asked
  <2>5. TunerOwned(v, thread', resident)
    BY <1>2, <1>3, <1>6 DEF Good, TunerOwned, Busied
  <2>6. OneAnswer(v, thread', <<>>)
    BY <1>5, EmptyIs DEF OneAnswer, Single, Busied
  <2> QED BY <2>1, <2>2, <2>3, <2>4, <2>5, <2>6 DEF Good
<1> QED BY <1>1, <1>2, <1>5, <1>6, <1>7, StaysUp DEF Left, TypeOK, v

\* A memory stress that ends posts one signal, which the window still has to answer.
LEMMA MemoryEndsKeeps == ASSUME Inv, MemoryEnds PROVE Inv'
<1> DEFINE m == [kind |-> "memory"]
<1>1. m \in Messages /\ m.kind = "memory"
  BY DEF Messages
<1>2. /\ up /\ thread["memory"] = "driving" /\ thread' = [thread EXCEPT !["memory"] = "over"]
      /\ queue' = Append(queue, m)
      /\ UNCHANGED <<up, win, run, session, resident, closed>>
  BY DEF MemoryEnds, Post
<1> HIDE DEF m
<1>3. TypeOK /\ Good(win, thread, queue, resident, session)
  BY <1>2 DEF Inv
<1>4. /\ Append(queue, m) \in Seq(Messages) /\ Single(Append(queue, m))
      /\ \A k : Queued(Append(queue, m), k) => Queued(queue, k) \/ m.kind = k
  <2>1. queue \in Seq(Messages) /\ Single(queue) /\ ~Queued(queue, "memory")
    BY <1>2, <1>3 DEF TypeOK, Good, OneAnswer
  <2> QED BY <1>1, <2>1, PostedIs
<1>5. Queued(queue', "finished") => Queued(queue, "finished")
  BY <1>1, <1>2, <1>4
<1>6. /\ thread' \in [Workers -> Stages] /\ thread'["memory"] = "over"
      /\ \A y \in Workers \ {"memory"} : thread'[y] = thread[y]
      /\ Tests \subseteq Workers \ {"memory"} /\ "tuner" \in Workers \ {"memory"}
  BY <1>2, <1>3 DEF TypeOK, Workers, Stages
<1>7. Stressed(win, thread, queue) /\ Alive(thread, "memory") /\ win.worker = NoTest
      /\ ~Queued(queue, "finished")
  BY <1>2, <1>3 DEF Stressed, Alive, Good, TestAlone
<1>8. Good(win, thread', queue', resident, session)
  <2>1. TestOwned(win, thread', queue')
    BY <1>3, <1>5, <1>6 DEF Good, TestOwned
  <2>2. TestAlone(win, thread', queue')
    BY <1>5, <1>7 DEF TestAlone
  <2>3. TunerWaits(win, thread', queue', session)
    BY <1>3, <1>7 DEF Good, TunerWaits
  <2>4. MemoryOffered(win, session) /\ TunerShown(win, queue')
    BY <1>3, <1>5 DEF Good, MemoryOffered, TunerShown
  <2>5. TunerOwned(win, thread', resident)
    BY <1>3, <1>6 DEF Good, TunerOwned
  <2>6. OneAnswer(win, thread', queue')
    BY <1>2, <1>3, <1>4, <1>6 DEF Good, OneAnswer
  <2>7. Asked(win, thread')
    BY <1>3, <1>7 DEF Good, Asked
  <2> QED BY <2>1, <2>2, <2>3, <2>4, <2>5, <2>6, <2>7 DEF Good
<1> QED BY <1>2, <1>3, <1>4, <1>6, <1>8, StaysUp DEF Left, TypeOK

-----------------------------------------------------------------------------
(* The signals of tests and stresses, and the clock of the window *)

\* The window lets go of a test that does not drive the machine any more.
LEMMA CleanedKeeps ==
  ASSUME TypeOK, Good(win, thread, queue, resident, session), NEW q, NEW v,
         \A x \in Tests : thread[x] \notin {"driving", "ending"}, ~Stressed(win, thread, queue),
         \/ win.worker # NoTest
         \/ win.pause \/ win.abort => win.engine \in Active,
         Queued(q, "memory") => Queued(queue, "memory"),
         Queued(q, "finished") /\ (win.pause \/ win.abort) => win.engine \in Active,
         Single(q),
         IsWindow(v), \A f \in Fields \ {"logger"} : v[f] = Cleaned[f]
  PROVE  /\ Good(v, thread, q, resident, session)
         /\ v.worker = NoTest
<1> DEFINE w == [win EXCEPT !.worker = NoTest]
           c == Owned(w, "none", thread, session)
           o == OwnerWith("none", w, thread, session)
<1>1. /\ IsWindow(w) /\ w.worker = NoTest /\ w.engine = win.engine /\ w.held = win.held
      /\ w.dialog = win.dialog /\ w.busy = win.busy /\ w.pause = win.pause /\ w.abort = win.abort
  BY DEF TypeOK, IsWindow, Fields
<1> HIDE DEF w
<1>2. OwnedBy(c, w, "none", o, thread)
  BY <1>1, OwnerShown
<1>3. /\ o \in {"tuner", "none"} /\ (Busied(win) => o = "tuner")
      /\ o = "none" => Settled(session)
  BY <1>1 DEF OwnerWith, Stressed, Busied, Settled
<1> HIDE DEF o
<1>4. c = Cleaned
  BY DEF Cleaned, c, w
<1> HIDE DEF c
<1>5. \A f \in {"owner", "worker", "engine", "held", "start", "memory", "external", "tune", "locked",
                "pause", "abort", "dialog", "busy"} : v[f] = c[f]
  BY <1>4 DEF Fields
<1>6. /\ v.owner = c.owner /\ v.worker = c.worker /\ v.engine = c.engine /\ v.held = c.held
      /\ v.start = c.start /\ v.memory = c.memory /\ v.external = c.external /\ v.tune = c.tune
      /\ v.locked = c.locked /\ v.pause = c.pause /\ v.abort = c.abort
      /\ v.dialog = c.dialog /\ v.busy = c.busy
  BY <1>5
<1>7. /\ v.owner = "none" /\ v.worker = NoTest /\ v.engine = win.engine /\ v.held = win.held
      /\ v.dialog = win.dialog /\ v.busy = win.busy /\ v.pause = win.pause /\ v.abort = win.abort
  BY <1>1, <1>2, <1>6 DEF OwnedBy
<1>8. /\ v.start <=> o = "none"
      /\ v.memory => o = "none"
      /\ v.locked <=> o = "tuner"
  BY <1>2, <1>3, <1>6 DEF OwnedBy, Follows
<1>9. ~Stressed(v, thread, q) /\ (Busied(v) <=> Busied(win))
  BY <1>7 DEF Stressed, Busied
<1>10. TestOwned(v, thread, q)
  BY DEF TestOwned
<1>11. TestAlone(v, thread, q) /\ TunerWaits(v, thread, q, session)
  BY <1>7, <1>9 DEF TestAlone, TunerWaits
<1>12. MemoryOffered(v, session)
  BY <1>3, <1>7, <1>8, <1>9 DEF MemoryOffered
<1>13. TunerShown(v, q)
  <2> SUFFICES ASSUME v.pause \/ v.abort
               PROVE  ~v.start /\ ~v.memory /\ (Queued(q, "finished") => v.engine \in Active)
    BY DEF TunerShown
  <2>1. win.pause \/ win.abort
    BY <1>7
  <2>2. win.worker = NoTest
    BY <2>1 DEF Good, TunerWaits
  <2>3. Busied(win)
    BY <2>1, <2>2 DEF Busied
  <2> QED BY <1>3, <1>7, <1>8, <2>1, <2>3
<1>14. TunerOwned(v, thread, resident)
  <2> SUFFICES ASSUME thread["tuner"] = "driving"
               PROVE  v.held /\ v.engine \in Active /\ v.locked /\ resident = "tuner"
    BY DEF TunerOwned
  <2>1. win.held /\ win.engine \in Active /\ resident = "tuner"
    BY DEF Good, TunerOwned
  <2> QED BY <1>3, <1>7, <1>8, <2>1 DEF Busied
<1>15. OneAnswer(v, thread, q)
  BY <1>7 DEF Good, OneAnswer
<1>16. Asked(v, thread)
  BY <1>7, <1>9 DEF Good, Asked
<1> QED
  BY <1>7, <1>10, <1>11, <1>12, <1>13, <1>14, <1>15, <1>16 DEF Good

\* The clock of the window cleans up after a worker that is gone (main_window.py:733-758).
LEMMA WatchdogKeeps == ASSUME Inv, Watchdog PROVE Inv'
<1>1. /\ up /\ win.worker # NoTest /\ ~Alive(thread, win.worker) /\ win' = Cleaned
      /\ UNCHANGED <<up, thread, queue, run, session, resident, closed>>
  BY DEF Watchdog
<1>2. TypeOK /\ Good(win, thread, queue, resident, session)
  BY <1>1 DEF Inv
<1>3. \A x \in Tests : thread[x] \notin {"driving", "ending"}
  BY <1>1, <1>2 DEF Good, TestOwned, Alive
<1>4. ~Stressed(win, thread, queue) /\ ~win.pause /\ ~win.abort /\ Single(queue)
  BY <1>1, <1>2 DEF Good, TestAlone, TunerWaits, OneAnswer
<1>5. IsWindow(Cleaned)
  <2>1. IsWindow([win EXCEPT !.worker = NoTest])
    BY <1>2 DEF TypeOK, IsWindow, Fields
  <2> QED BY <2>1, OwnerShown DEF Cleaned, OwnedBy
<1> DEFINE v == Cleaned
<1>6. IsWindow(v) /\ \A f \in Fields \ {"logger"} : v[f] = Cleaned[f]
  BY <1>5
<1> HIDE DEF v
<1>7. Good(v, thread, queue, resident, session) /\ v.worker = NoTest
  BY <1>1, <1>2, <1>3, <1>4, <1>6, CleanedKeeps
<1>8. win' = v
  BY <1>1 DEF v
<1> QED BY <1>1, <1>2, <1>6, <1>7, <1>8, StaysUp DEF Left, TypeOK

\* A signal is delivered.
LEMMA Delivered ==
  ASSUME Inv, Deliver
  PROVE  /\ up /\ TypeOK /\ Good(win, thread, queue, resident, session)
         /\ queue' = Tail(queue) /\ queue' \in Seq(Messages) /\ Single(queue')
         /\ Head(queue) \in Messages /\ Queued(queue, Head(queue).kind)
         /\ \A k : Queued(queue', k) => Queued(queue, k)
         /\ Head(queue).kind = "memory" => ~Queued(queue', "memory")
         /\ UNCHANGED <<up, closed>>
<1>1. up /\ queue # <<>> /\ queue' = Tail(queue) /\ UNCHANGED <<up, closed>>
  BY DEF Deliver
<1>2. TypeOK /\ Good(win, thread, queue, resident, session)
  BY <1>1 DEF Inv
<1>3. queue \in Seq(Messages) /\ Single(queue)
  BY <1>2 DEF TypeOK, Good, OneAnswer
<1>4. /\ Tail(queue) \in Seq(Messages) /\ Head(queue) \in Messages /\ Queued(queue, Head(queue).kind)
      /\ \A k : Queued(Tail(queue), k) => Queued(queue, k)
      /\ Single(Tail(queue)) /\ (Head(queue).kind = "memory" => ~Queued(Tail(queue), "memory"))
  BY <1>1, <1>3, DeliveredIs
<1> QED BY <1>1, <1>2, <1>4

\* The logger of the window is all that a signal of a test changes.
LEMMA CalmSignal ==
  ASSUME Inv, Deliver, IsWindow(win'), \A f \in Fields \ {"logger"} : win'[f] = win[f],
         run' \in Runs, UNCHANGED <<thread, session, resident>>
  PROVE  Inv'
<1>1. /\ up /\ TypeOK /\ Good(win, thread, queue, resident, session)
      /\ queue' \in Seq(Messages) /\ Single(queue') /\ UNCHANGED <<up, closed>>
  BY Delivered
<1>2. /\ Queued(queue', "memory") => Queued(queue, "memory")
      /\ Queued(queue', "finished") => Queued(queue, "finished")
  BY Delivered
<1>3. /\ \A f \in Kept : win'[f] = win[f]
      /\ win'.worker = win.worker /\ win'.dialog = win.dialog /\ win'.busy = win.busy
      /\ win'.held = win.held /\ win'.engine = win.engine
      /\ win'.pause = win.pause /\ win'.abort = win.abort /\ win'.locked = win.locked
  BY DEF Fields, Kept
<1>4. Calmer(win, thread, queue, session, win', thread', queue', resident', session')
  BY <1>1, <1>2, <1>3 DEF Calmer, Good, OneAnswer, TunerOwned, TunerShown
<1> QED BY <1>1, <1>3, <1>4, CalmStep DEF TypeOK

\* The results of a test are recorded (main_window.py:597-641).
LEMMA OnCompletedKeeps == ASSUME Inv, Deliver, OnCompleted(Head(queue)) PROVE Inv'
<1>1. TypeOK
  BY Delivered
<1>2. run' \in Runs
  BY <1>1, FinishIs DEF OnCompleted, FinishRun, TypeOK
<1> QED BY <1>1, <1>2, CalmSignal DEF OnCompleted, TypeOK

\* The crash of a test is recorded, and its logger dropped.
LEMMA OnCrashedKeeps == ASSUME Inv, Deliver, OnCrashed PROVE Inv'
<1>1. TypeOK
  BY Delivered
<1>2. run' \in Runs
  BY <1>1, FinishIs DEF OnCrashed, FinishRun, TypeOK
<1>3. win' = win \/ win' = [win EXCEPT !.logger = NoTest]
  BY DEF OnCrashed
<1>4. IsWindow(win') /\ \A f \in Fields \ {"logger"} : win'[f] = win[f]
  BY <1>1, <1>3 DEF TypeOK, IsWindow
<1> QED BY <1>2, <1>4, CalmSignal DEF OnCrashed

\* The end of a test is cleaned up after, also when the clock has done so and the tuner was resumed
\* before the signal arrived (main_window.py:655-678).
LEMMA OnFinishedKeeps ==
  ASSUME Inv, Deliver, Head(queue).kind = "finished", OnFinished PROVE Inv'
<1>1. /\ up /\ TypeOK /\ Good(win, thread, queue, resident, session)
      /\ queue' \in Seq(Messages) /\ Single(queue') /\ UNCHANGED <<up, closed>>
      /\ Queued(queue, "finished")
  BY Delivered
<1>2. UNCHANGED <<thread, run, session, resident>>
  BY DEF OnFinished
<1>3. CASE win.closing
  <2>1. win' = win
    BY <1>3 DEF OnFinished
  <2> QED BY <1>1, <1>2, <2>1, CalmSignal DEF TypeOK
<1>4. CASE ~win.closing
  <2>1. win' = [Cleaned EXCEPT !.logger = NoTest]
    BY <1>4 DEF OnFinished
  <2>2. IsWindow(Cleaned)
    <3>1. IsWindow([win EXCEPT !.worker = NoTest])
      BY <1>1 DEF TypeOK, IsWindow, Fields
    <3> QED BY <3>1, OwnerShown DEF Cleaned, OwnedBy
  <2> DEFINE v == win'
  <2>3. IsWindow(v) /\ \A f \in Fields \ {"logger"} : v[f] = Cleaned[f]
    BY <2>1, <2>2 DEF IsWindow
  <2> HIDE DEF v
  <2>4. (\A x \in Tests : thread[x] \notin {"driving", "ending"}) /\ ~Stressed(win, thread, queue)
        /\ (win.pause \/ win.abort => win.engine \in Active)
    BY <1>1 DEF Good, TestOwned, TestAlone, TunerShown
  <2>5. Queued(queue', "memory") => Queued(queue, "memory")
    BY Delivered
  <2> DEFINE q == queue'
  <2>6. (Queued(q, "memory") => Queued(queue, "memory")) /\ Single(q)
    BY <1>1, <2>5
  <2> HIDE DEF q
  <2>7. Good(v, thread, q, resident, session) /\ v.worker = NoTest
    BY <1>1, <2>3, <2>4, <2>6, CleanedKeeps
  <2> QED BY <1>1, <1>2, <2>3, <2>7, StaysUp DEF Left, TypeOK, v, q
<1> QED BY <1>3, <1>4

\* The end of a memory stress gives the machine back, or not yet while its thread is still there.
LEMMA OnMemoryDoneKeeps ==
  ASSUME Inv, Deliver, Head(queue).kind = "memory", OnMemoryDone PROVE Inv'
<1>1. /\ up /\ TypeOK /\ Good(win, thread, queue, resident, session)
      /\ queue' \in Seq(Messages) /\ Single(queue') /\ UNCHANGED <<up, closed>>
      /\ Queued(queue, "memory") /\ ~Queued(queue', "memory")
  BY Delivered
<1>2. /\ UNCHANGED <<thread, run, session, resident>>
      /\ win' = Owned([win EXCEPT !.memory = ~win.external], "none", thread, session)
  BY DEF OnMemoryDone
<1>3. Queued(queue', "finished") => Queued(queue, "finished")
  BY Delivered
<1>4. Stressed(win, thread, queue)
  BY <1>1 DEF Stressed
<1>5. /\ win.worker = NoTest /\ ~Queued(queue', "finished") /\ ~Busied(win) /\ ~win.pause /\ ~win.abort
      /\ win.dialog # "start" /\ (win.dialog = "close" => "tuner" \notin win.busy) /\ Settled(session)
  BY <1>1, <1>3, <1>4 DEF Good, TestAlone, TunerWaits
<1> DEFINE w == [win EXCEPT !.memory = ~win.external]
           v == Owned(w, "none", thread, session)
           o == OwnerWith("none", w, thread, session)
<1>6. /\ IsWindow(w) /\ w.worker = win.worker /\ w.engine = win.engine /\ w.held = win.held
      /\ w.dialog = win.dialog /\ w.busy = win.busy /\ w.pause = win.pause /\ w.abort = win.abort
  BY <1>1, SMTT(60) DEF TypeOK, IsWindow, Fields
<1> HIDE DEF w
<1>7. OwnedBy(v, w, "none", o, thread)
  BY <1>6, OwnerShown
<1>8. o = IF Alive(thread, "memory") THEN "memory" ELSE "none"
  BY <1>5, <1>6 DEF OwnerWith, Busied, Settled
<1> HIDE DEF o
<1>9. win' = v
  BY <1>2 DEF v, w
<1> HIDE DEF v
<1>10. /\ IsWindow(v) /\ v.owner = "none" /\ v.worker = NoTest /\ v.engine = win.engine /\ v.held = win.held
       /\ v.dialog = win.dialog /\ v.busy = win.busy /\ ~v.pause /\ ~v.abort
       /\ Alive(thread, "memory") => v.external /\ ~v.tune
  BY <1>5, <1>6, <1>7, <1>8 DEF OwnedBy, Follows
<1>11. Good(v, thread, queue', resident, session)
  <2>1. TestOwned(v, thread, queue')
    BY <1>1, <1>5, <1>10 DEF Good, TestOwned
  <2>2. TestAlone(v, thread, queue')
    BY <1>5, <1>10 DEF TestAlone
  <2>3. Stressed(v, thread, queue') => Alive(thread, "memory")
    BY <1>1, <1>10 DEF Stressed
  <2>4. TunerWaits(v, thread, queue', session)
    BY <1>5, <1>10, <2>3 DEF TunerWaits, Busied
  <2>5. MemoryOffered(v, session) /\ TunerShown(v, queue')
    BY <1>5, <1>10 DEF MemoryOffered, TunerShown, Busied
  <2>6. TunerOwned(v, thread, resident)
    BY <1>1, <1>5 DEF Good, TunerOwned, Busied
  <2>7. OneAnswer(v, thread, queue')
    BY <1>1, <1>10 DEF Good, OneAnswer
  <2>8. Asked(v, thread)
    BY <1>1, <1>10 DEF Good, Asked, Busied
  <2> QED BY <2>1, <2>2, <2>4, <2>5, <2>6, <2>7, <2>8 DEF Good
<1> QED BY <1>1, <1>2, <1>9, <1>10, <1>11, StaysUp DEF Left, TypeOK

\* The window of a session, with the machine lent to its tuner.
LEMMA FitLends ==
  ASSUME Fit(win, thread, queue, resident), NEW w, IsWindow(w), w.worker = win.worker,
         w.dialog = "close" /\ "close" \notin AutoResume => "tuner" \in w.busy
  PROVE  Lent(w)
BY DEF Fit, Lent

\* A step of the tuner that leaves the process, its runs and its signals as they are.
LEMMA TunerStep ==
  ASSUME Inv, up, UNCHANGED <<up, queue, run, closed>>, Left
  PROVE  Inv'
<1>1. queue' \in Seq(Messages) /\ run' \in Runs
  BY DEF Inv, TypeOK
<1> QED BY <1>1, StaysUp

\* A resumed session, of a window whose worker is not alive, runs or ends.
LEMMA ResumedKeeps ==
  ASSUME TypeOK, Fit(win, thread, queue, resident), queue' = queue,
         NEW w, NEW x, Run(w, session, x) \/ Retire(w, thread),
         IsWindow(w), w.worker = win.worker, ~w.held, thread["tuner"] # "driving",
         w.dialog = "close" /\ "close" \notin AutoResume => "tuner" \in w.busy
  PROVE  Left
<1>1. CASE Run(w, session, x)
  <2>1. Lent(w) /\ session \in Rows
    BY FitLends DEF TypeOK
  <2> QED BY <1>1, <2>1, RunKeeps
<1>2. CASE Retire(w, thread)
  <2>1. /\ thread \in [Workers -> Stages] /\ w.worker = NoTest /\ ~Alive(thread, "memory")
        /\ ~Queued(queue, "memory") /\ \A y \in Tests : thread[y] \notin {"driving", "ending"}
    BY DEF TypeOK, Fit
  <2> QED BY <1>2, <2>1, RetireKeeps
<1> QED BY <1>1, <1>2

\* The tuner asks before it starts; the question can only be open where the machine is its own.
LEMMA AskStartKeeps == ASSUME Inv, AskStart PROVE Inv'
<1>1. /\ up /\ win.tune /\ win.dialog = "none" /\ win' = [win EXCEPT !.dialog = "start"]
      /\ UNCHANGED <<up, thread, queue, run, session, resident, closed>>
  BY DEF AskStart, Free, Ready
<1>2. TypeOK /\ Good(win, thread, queue, resident, session)
  BY <1>1 DEF Inv
<1>3. Fit(win, thread, queue, resident) /\ win.owner # "memory"
  BY <1>1, <1>2, TunerMay DEF TypeOK
<1> DEFINE v == [win EXCEPT !.dialog = "start"]
<1>4. /\ IsWindow(v) /\ v.owner = win.owner /\ v.worker = win.worker /\ v.engine = win.engine
      /\ v.held = win.held /\ v.start = win.start /\ v.memory = win.memory
      /\ v.locked = win.locked /\ v.pause = win.pause /\ v.abort = win.abort /\ v.dialog = "start"
  BY <1>2 DEF TypeOK, IsWindow, Fields
<1> HIDE DEF v
<1>5. v.worker = NoTest /\ ~Stressed(v, thread, queue)
  BY <1>3, <1>4 DEF Fit, Stressed
<1>6. Good(v, thread, queue, resident, session)
  <2>1. TestOwned(v, thread, queue)
    BY <1>2, <1>4 DEF Good, TestOwned
  <2>2. TestAlone(v, thread, queue) /\ TunerWaits(v, thread, queue, session)
    BY <1>5 DEF TestAlone, TunerWaits
  <2>3. MemoryOffered(v, session) /\ TunerShown(v, queue) /\ TunerOwned(v, thread, resident)
    BY <1>2, <1>4 DEF Good, MemoryOffered, TunerShown, TunerOwned, Busied
  <2>4. OneAnswer(v, thread, queue) /\ Asked(v, thread)
    BY <1>2, <1>4 DEF Good, OneAnswer, Asked
  <2> QED BY <2>1, <2>2, <2>3, <2>4 DEF Good
<1> QED BY <1>1, <1>2, <1>4, <1>6, TunerStep DEF Left, TypeOK, v

\* A new engine replaces the one the tab held, whose worker is not alive.
LEMMA StartTunerKeeps == ASSUME Inv, StartTuner PROVE Inv'
<1>1. /\ up /\ queue = <<>> /\ win.dialog = "start" /\ ~(win.held /\ Alive(thread, "tuner"))
      /\ UNCHANGED <<up, queue, run, closed>>
  BY DEF StartTuner, Ready
<1>2. TypeOK /\ Good(win, thread, queue, resident, session)
  BY <1>1 DEF Inv
<1>3. Fit(win, thread, queue, resident)
  BY <1>1, <1>2, TunerMay DEF TypeOK
<1>4. thread["tuner"] # "driving"
  BY <1>1, <1>2 DEF Good, TunerOwned, Alive
<1>5. CASE win' = Fresh(0) /\ UNCHANGED <<thread, session, resident>>
  <2>1. /\ IsWindow(win') /\ win'.worker = win.worker /\ win'.dialog = "none" /\ ~win'.held
        /\ win'.engine = "idle" /\ \A f \in Kept : win'[f] = win[f]
    BY <1>2, <1>5, ZenonT(60) DEF TypeOK, Fresh, IsWindow, Fields, Kept
  <2>2. Single(queue) /\ ~Queued(queue, "finished")
    BY <1>1, EmptyIs DEF Single
  <2>3. Calmer(win, thread, queue, session, win', thread', queue', resident', session')
    BY <1>1, <1>4, <1>5, <2>1, <2>2 DEF Calmer, Active
  <2> QED BY <1>1, <1>2, <1>5, <2>1, <2>3, CalmStep DEF TypeOK
<1>6. CASE \E x \in Sessions : Run(Fresh(x), session, x)
  <2>1. PICK x \in Sessions : Run(Fresh(x), session, x)
    BY <1>6
  <2>2. IsWindow(Fresh(x)) /\ Fresh(x).worker = win.worker /\ Fresh(x).dialog = "none"
    BY <1>2, ZenonT(60) DEF TypeOK, Fresh, IsWindow, Fields
  <2>3. Lent(Fresh(x))
    BY <1>3, <2>2, FitLends
  <2>4. Left
    BY <1>1, <1>2, <2>1, <2>3, RunKeeps DEF TypeOK
  <2> QED BY <1>1, <2>4, TunerStep
<1>7. (win' = Fresh(0) /\ UNCHANGED <<thread, session, resident>>)
      \/ \E x \in Sessions : Run(Fresh(x), session, x)
  BY DEF StartTuner
<1> QED BY <1>5, <1>6, <1>7

\* A pause leaves the worker of the tuner to its end, and the machine with the tuner.
LEMMA PauseTunerKeeps == ASSUME Inv, PauseTuner PROVE Inv'
<1>1. /\ up /\ win.pause /\ win.dialog = "none" /\ session' = [session EXCEPT ![win.session] = "paused"]
      /\ win' = Shown([win EXCEPT !.engine = "paused", !.next = FALSE], thread, session')
      /\ UNCHANGED <<up, thread, queue, run, resident, closed>>
  BY DEF PauseTuner, Free, Ready
<1>2. TypeOK /\ Good(win, thread, queue, resident, session)
  BY <1>1 DEF Inv
<1>3. Fit(win, thread, queue, resident)
  BY <1>1, <1>2, TunerMay DEF TypeOK
<1> DEFINE w == [win EXCEPT !.engine = "paused", !.next = FALSE]
<1>4. /\ IsWindow(w) /\ w.worker = win.worker /\ w.engine = "paused" /\ w.held = win.held
      /\ w.dialog = "none"
  BY <1>1, <1>2, ZenonT(60) DEF TypeOK, IsWindow, Fields
<1> HIDE DEF w
<1>5. Fit(w, thread, queue, resident)
  BY <1>3, <1>4 DEF Fit, Active
<1> DEFINE v == Shown(w, thread, session')
<1>6. Good(v, thread, queue, resident, session') /\ IsWindow(v) /\ v.worker = NoTest
  BY <1>5, ShownFits
<1>7. win' = v /\ session' \in Rows
  BY <1>1, <1>2 DEF w, TypeOK, Rows
<1> HIDE DEF v
<1> QED BY <1>1, <1>2, <1>6, <1>7, TunerStep DEF Left, TypeOK

\* A session is resumed by hand where no other workload owns the machine.
LEMMA ResumeTunerKeeps == ASSUME Inv, ResumeTuner PROVE Inv'
<1>1. PICK x : Resume(x)
  BY DEF ResumeTuner
<1>2. /\ up /\ win.dialog = "none" /\ ~win.external /\ ~(win.held /\ Alive(thread, "tuner"))
      /\ UNCHANGED <<up, queue, run, closed>>
  <2>1. ~win.external /\ ~(win.held /\ Alive(thread, "tuner"))
    BY <1>1 DEF Resume
  <2>2. Free /\ UNCHANGED <<up, queue, run, deaths, closed>>
    BY Zenon DEF ResumeTuner
  <2> QED BY <2>1, <2>2 DEF Free, Ready
<1>3. TypeOK /\ Good(win, thread, queue, resident, session)
  BY <1>2 DEF Inv
<1>4. Fit(win, thread, queue, resident) /\ thread["tuner"] # "driving"
  BY <1>2, <1>3, TunerMay DEF TypeOK, Good, TunerOwned, Alive
<1> DEFINE w == [win EXCEPT !.session = x, !.held = FALSE, !.next = FALSE]
<1>5. IsWindow(w) /\ w.worker = win.worker /\ ~w.held /\ w.dialog = "none"
  BY <1>2, <1>3, ZenonT(60) DEF TypeOK, IsWindow, Fields
<1>6. Run(w, session, x) \/ Retire(w, thread)
  BY <1>1 DEF Resume
<1> HIDE DEF w
<1>7. Left
  BY <1>2, <1>3, <1>4, <1>5, <1>6, ResumedKeeps
<1> QED BY <1>2, <1>7, TunerStep

\* The timer resumes a session where no other workload owns the machine, or stands down
\* (main_window.py:870-890).
LEMMA AutoResumeKeeps == ASSUME Inv, AutoResumeFires PROVE Inv'
<1>1. up /\ win.dialog \in AutoResume /\ UNCHANGED <<up, queue, run, closed>>
  BY Zenon DEF AutoResumeFires
<1>2. TypeOK /\ Good(win, thread, queue, resident, session)
  BY <1>1 DEF Inv
<1>3. CASE win' = [win EXCEPT !.timer = FALSE] /\ UNCHANGED <<thread, session, resident>>
  <2>1. /\ IsWindow(win') /\ \A f \in Kept : win'[f] = win[f]
        /\ win'.worker = win.worker /\ win'.dialog = win.dialog /\ win'.busy = win.busy
        /\ win'.held = win.held /\ win'.engine = win.engine
        /\ win'.pause = win.pause /\ win'.abort = win.abort /\ win'.locked = win.locked
    BY <1>2, <1>3, ZenonT(60) DEF TypeOK, IsWindow, Fields, Kept
  <2>2. Calmer(win, thread, queue, session, win', thread', queue', resident', session')
    BY <1>1, <1>2, <1>3, <2>1 DEF Calmer, Good, OneAnswer, TunerOwned, TunerShown
  <2> QED BY <1>1, <1>2, <1>3, <2>1, <2>2, CalmStep DEF TypeOK
<1>4. ASSUME NEW x,
             LET w == [win EXCEPT !.session = x, !.held = FALSE, !.next = FALSE, !.timer = FALSE]
             IN Run(w, session, x) \/ Retire(w, thread),
             ~win.external, win.engine \notin Active
      PROVE  Inv'
  <2>1. Fit(win, thread, queue, resident) /\ thread["tuner"] # "driving"
    BY <1>2, <1>4, TunerMay DEF TypeOK, Good, TunerOwned
  <2> DEFINE w == [win EXCEPT !.session = x, !.held = FALSE, !.next = FALSE, !.timer = FALSE]
  <2>2. IsWindow(w) /\ w.worker = win.worker /\ ~w.held /\ w.dialog \in AutoResume
    BY <1>1, <1>2, ZenonT(60) DEF TypeOK, IsWindow, Fields
  <2>3. Run(w, session, x) \/ Retire(w, thread)
    BY <1>4
  <2> HIDE DEF w
  <2>4. Left
    BY <1>1, <1>2, <2>1, <2>2, <2>3, ResumedKeeps
  <2> QED BY <1>1, <2>4, TunerStep
<1> QED
  BY <1>3, <1>4, Zenon DEF AutoResumeFires

\* The profile of a session is validated where no other workload owns the machine.
LEMMA ValidateKeeps == ASSUME Inv, Validate PROVE Inv'
<1>1. /\ up /\ win.dialog = "none" /\ ~win.external /\ Run(win, session, win.session)
      /\ UNCHANGED <<up, queue, run, closed>>
  BY DEF Validate, Free, Ready
<1>2. TypeOK /\ Good(win, thread, queue, resident, session)
  BY <1>1 DEF Inv
<1>3. Fit(win, thread, queue, resident)
  BY <1>1, <1>2, TunerMay DEF TypeOK
<1>4. Lent(win) /\ session \in Rows
  BY <1>1, <1>2, <1>3, FitLends DEF TypeOK
<1> QED BY <1>1, <1>2, <1>4, RunKeeps, TunerStep

\* The engine launches its next test while it runs.
LEMMA RunNextKeeps == ASSUME Inv, RunNext PROVE Inv'
<1>1. /\ up /\ win.engine = "running" /\ Run(win, session, win.session)
      /\ UNCHANGED <<up, queue, run, closed>>
  BY DEF RunNext
<1>2. TypeOK /\ Good(win, thread, queue, resident, session) /\ Busied(win)
  BY <1>1 DEF Inv, Busied, Active
<1>3. Fit(win, thread, queue, resident)
  BY <1>2, TunerMay DEF TypeOK
<1>4. Lent(win) /\ session \in Rows
  BY <1>2, <1>3, FitLends DEF TypeOK, Fit
<1> QED BY <1>1, <1>2, <1>4, RunKeeps, TunerStep

\* The engine takes the answer of its test (engine.py:3505): nobody else got the machine meanwhile.
LEMMA OnAnswerKeeps == ASSUME Inv, Deliver, OnAnswer PROVE Inv'
<1>1. /\ up /\ TypeOK /\ Good(win, thread, queue, resident, session)
      /\ queue' \in Seq(Messages) /\ Single(queue') /\ UNCHANGED <<up, closed>>
  BY Delivered
<1>2. /\ Queued(queue', "memory") => Queued(queue, "memory")
      /\ Queued(queue', "finished") => Queued(queue, "finished")
  BY Delivered
<1> DEFINE t == [thread EXCEPT !["tuner"] = "gone"]
           w == [win EXCEPT !.held = FALSE]
<1>3. /\ t \in [Workers -> Stages] /\ t["tuner"] = "gone" /\ t["memory"] = thread["memory"]
      /\ \A x \in Tests : t[x] = thread[x]
  BY <1>1 DEF TypeOK, Workers, Stages
<1>4. UNCHANGED run /\ run' \in Runs
  BY <1>1 DEF OnAnswer, TypeOK
<1>5. \A x \in Tests : (Alive(t, x) => Alive(thread, x))
  BY <1>3 DEF Alive
<1>6. Alive(t, "memory") <=> Alive(thread, "memory")
  BY <1>3 DEF Alive
<1>7. CASE /\ win' \in {w, [w EXCEPT !.next = TRUE]}
           /\ thread' = t /\ UNCHANGED <<session, resident>>
  <2>1. /\ IsWindow(win') /\ \A f \in Kept : win'[f] = win[f]
        /\ win'.worker = win.worker /\ win'.dialog = win.dialog /\ win'.busy = win.busy
        /\ ~win'.held /\ win'.engine = win.engine
        /\ win'.pause = win.pause /\ win'.abort = win.abort
    <3>1. /\ IsWindow(w) /\ ~w.held
          /\ \A f \in Fields \ {"held"} : w[f] = win[f]
      BY <1>1 DEF TypeOK, IsWindow, Fields
    <3> HIDE DEF w, t
    <3>2. IsWindow(win') /\ \A f \in Fields \ {"next"} : win'[f] = w[f]
      BY <1>7, <3>1 DEF IsWindow
    <3> QED BY <3>1, <3>2 DEF Fields, Kept
  <2>2. Queued(queue', "finished") /\ (win.pause \/ win.abort) => win.engine \in Active
    BY <1>1, <1>2 DEF Good, TunerShown
  <2>3. Calmer(win, thread, queue, session, win', thread', queue', resident', session')
    BY <1>1, <1>2, <1>3, <1>5, <1>6, <1>7, <2>1, <2>2 DEF Calmer
  <2> QED BY <1>1, <1>3, <1>4, <1>7, <2>1, <2>3, CalmStep DEF TypeOK
<1>8. ASSUME win.engine \in Active
      PROVE  /\ \A v, r : IsWindow(v) /\ ~v.held /\ v.worker = win.worker /\ v.dialog = win.dialog
                          /\ v.busy = win.busy => Fit(v, t, queue', r)
             /\ win.worker = NoTest
  <2>1. Fit(win, thread, queue, resident)
    BY <1>1, <1>8, TunerMay DEF TypeOK, Busied
  <2> HIDE DEF t
  <2>2. SUFFICES ASSUME NEW v, NEW r, IsWindow(v), ~v.held, v.worker = win.worker,
                        v.dialog = win.dialog, v.busy = win.busy
                 PROVE  Fit(v, t, queue', r)
    BY <2>1 DEF Fit
  <2>3. /\ v.worker = NoTest /\ ~Alive(t, "memory") /\ ~Queued(queue', "memory")
        /\ \A x \in Tests : t[x] \notin {"driving", "ending"}
    BY <1>2, <1>3, <1>6, <2>1, <2>2 DEF Fit
  <2>4. v.dialog = "close" /\ "close" \notin AutoResume => "tuner" \in v.busy
    BY <1>8, <2>1, <2>2 DEF Fit, Busied
  <2> QED BY <1>3, <2>2, <2>3, <2>4 DEF Fit
<1>9. CASE win.engine \in Active /\ Retire(w, t)
  <2>1. /\ IsWindow(w) /\ w.worker = win.worker /\ ~w.held /\ w.dialog = win.dialog /\ w.busy = win.busy
    BY <1>1, ZenonT(60) DEF TypeOK, IsWindow, Fields
  <2> HIDE DEF t, w
  <2>2. Fit(w, t, queue', resident')
    BY <1>8, <1>9, <2>1
  <2>3. /\ w.worker = NoTest /\ ~Alive(t, "memory") /\ ~Queued(queue', "memory")
        /\ \A x \in Tests : t[x] \notin {"driving", "ending"}
    BY <2>2 DEF Fit
  <2>4. Left
    BY <1>1, <1>3, <1>9, <2>1, <2>3, RetireKeeps
  <2> QED BY <1>1, <1>4, <2>4, StaysUp
<1>10. CASE /\ win.engine = "running"
            /\ Reached([w EXCEPT !.engine = "paused"], t, [session EXCEPT ![w.session] = "paused"])
  <2> DEFINE v == [w EXCEPT !.engine = "paused"]
             s == [session EXCEPT ![w.session] = "paused"]
             z == Shown(v, t, s)
  <2>1. /\ IsWindow(v) /\ v.worker = win.worker /\ ~v.held /\ v.dialog = win.dialog /\ v.busy = win.busy
    BY <1>1, ZenonT(60) DEF TypeOK, IsWindow, Fields
  <2>2. s \in Rows
    BY <1>1 DEF TypeOK, Rows
  <2>3. thread' = t /\ session' = s /\ win' = z
    BY <1>10 DEF Reached
  <2> HIDE DEF t, w, v, s
  <2>4. Fit(v, t, queue', resident')
    BY <1>8, <1>10, <2>1 DEF Active
  <2>5. Good(z, t, queue', resident', s) /\ IsWindow(z) /\ z.worker = NoTest
    BY <2>4, ShownFits
  <2> HIDE DEF z
  <2>6. Left
    BY <1>3, <2>2, <2>3, <2>5 DEF Left
  <2> QED BY <1>1, <1>4, <2>6, StaysUp
<1> HIDE DEF t, w
<1>11. \/ win' \in {w, [w EXCEPT !.next = TRUE]} /\ thread' = t /\ UNCHANGED <<session, resident>>
       \/ win.engine \in Active /\ Retire(w, t)
       \/ /\ win.engine = "running"
          /\ Reached([w EXCEPT !.engine = "paused"], t, [session EXCEPT ![w.session] = "paused"])
  <2> USE DEF t, w
  <2>1. CASE win.engine = "running"
    <3>1. \/ win' = [w EXCEPT !.next = TRUE] /\ thread' = t /\ UNCHANGED <<session, resident>>
          \/ Reached([w EXCEPT !.engine = "paused"], t, [session EXCEPT ![w.session] = "paused"])
          \/ Retire(w, t)
      BY <2>1, Zenon DEF OnAnswer
    <3> QED BY <2>1, <3>1, Zenon DEF Active
  <2>2. CASE win.engine # "running"
    <3>1. \/ win' = w /\ thread' = t /\ UNCHANGED <<session, resident>>
          \/ win.engine = "paused" /\ Retire(w, t)
      BY <2>2, Zenon DEF OnAnswer
    <3> QED BY <3>1, Zenon DEF Active
  <2> QED BY <2>1, <2>2
<1> QED BY <1>7, <1>9, <1>10, <1>11

\* The window answers the signal at the head of its queue.
LEMMA DeliverKeeps == ASSUME Inv, Deliver PROVE Inv'
<1>1. CASE Head(queue).kind = "completed"
  <2>1. OnCompleted(Head(queue))
    BY <1>1 DEF Deliver
  <2> QED BY <2>1, OnCompletedKeeps
<1>2. CASE Head(queue).kind = "crashed"
  <2>1. OnCrashed
    BY <1>2 DEF Deliver
  <2> QED BY <2>1, OnCrashedKeeps
<1>3. CASE Head(queue).kind = "finished"
  <2>1. OnFinished
    BY <1>3 DEF Deliver
  <2> QED BY <1>3, <2>1, OnFinishedKeeps
<1>4. CASE Head(queue).kind = "memory"
  <2>1. OnMemoryDone
    BY <1>4 DEF Deliver
  <2> QED BY <1>4, <2>1, OnMemoryDoneKeeps
<1>5. CASE Head(queue).kind \notin {"completed", "crashed", "finished", "memory"}
  <2>1. OnAnswer
    BY <1>5 DEF Deliver
  <2> QED BY <2>1, OnAnswerKeeps
<1> QED BY <1>1, <1>2, <1>3, <1>4, <1>5

\* The worker of the tuner has been stopped and its baselines restored.
LEMMA StoppedIs ==
  ASSUME TypeOK, NEW status \in {"ended", "paused"}
  PROVE  /\ IsWindow(Stopped(status).w) /\ ~Stopped(status).w.held /\ Stopped(status).w.engine = "idle"
         /\ \A f \in Fields \ {"held", "next", "engine"} : Stopped(status).w[f] = win[f]
         /\ Stopped(status).t \in [Workers -> Stages] /\ Stopped(status).t["tuner"] = "gone"
         /\ \A x \in Workers \ {"tuner"} : Stopped(status).t[x] = thread[x]
         /\ Stopped(status).s \in Rows
         /\ status = "ended" => \A x \in Sessions : Stopped(status).s[x] \in Active => session[x] \in Active
<1> DEFINE w == [win EXCEPT !.held = FALSE, !.next = FALSE, !.engine = "idle"]
           t == [thread EXCEPT !["tuner"] = "gone"]
           s == [session EXCEPT ![win.session] = IF status = "paused" /\ @ \notin Active THEN @ ELSE status]
<1>1. Stopped(status).w = w /\ Stopped(status).t = t /\ Stopped(status).s = s
  BY DEF Stopped
<1>2. /\ IsWindow(w) /\ ~w.held /\ w.engine = "idle"
      /\ \A f \in Fields \ {"held", "next", "engine"} : w[f] = win[f]
  <2>1. IsWindow(w) /\ ~w.held /\ w.engine = "idle"
    BY ZenonT(60) DEF TypeOK, IsWindow, Fields
  <2>2. ASSUME NEW f \in Fields \ {"held", "next", "engine"} PROVE w[f] = win[f]
    BY DEF TypeOK, IsWindow
  <2> QED BY <2>1, <2>2
<1>3. /\ t \in [Workers -> Stages] /\ t["tuner"] = "gone"
      /\ \A x \in Workers \ {"tuner"} : t[x] = thread[x]
  BY DEF TypeOK, Workers, Stages
<1>4. s \in Rows
  BY DEF TypeOK, Rows
<1>5. status = "ended" => \A x \in Sessions : s[x] \in Active => session[x] \in Active
  BY DEF TypeOK, Rows, Active
<1> HIDE DEF w, t, s
<1> QED BY <1>1, <1>2, <1>3, <1>4, <1>5

\* A window and threads with the tuner stopped, as the tab may show them.
LEMMA StoppedFits ==
  ASSUME TypeOK, Fit(win, thread, queue, resident), NEW w, IsWindow(w), ~w.held, w.engine = "idle",
         w.worker = win.worker, NEW t, t["tuner"] = "gone",
         \A x \in Workers \ {"tuner"} : t[x] = thread[x] \/ t[x] = "gone", NEW q,
         Queued(q, "memory") => Queued(queue, "memory"), NEW r
  PROVE  Fit(w, t, q, r)
<1>1. "memory" \in Workers \ {"tuner"} /\ Tests \subseteq Workers \ {"tuner"}
  BY DEF Workers
<1>2. ~Alive(t, "memory") /\ \A x \in Tests : t[x] \notin {"driving", "ending"}
  BY <1>1 DEF Fit, Alive
<1>3. w.worker = NoTest /\ ~Queued(q, "memory") /\ ~Busied(w)
  BY DEF Fit, Busied, Active
<1> QED BY <1>2, <1>3 DEF Fit

\* An abort stops the worker of the tuner, or leaves it running with nobody to listen to it: the tab
\* is still the owner then, as the engine still holds it.
LEMMA AbortTunerKeeps == ASSUME Inv, AbortTuner PROVE Inv'
<1>1. up /\ win.abort /\ win.dialog = "none" /\ UNCHANGED <<up, queue, run, closed>>
  BY DEF AbortTuner, Free, Ready
<1>2. TypeOK /\ Good(win, thread, queue, resident, session)
  BY <1>1 DEF Inv
<1>3. Fit(win, thread, queue, resident)
  BY <1>1, <1>2, TunerMay DEF TypeOK
<1> DEFINE a == Stopped("ended")
<1>4. CASE thread' = a.t /\ session' = a.s /\ win' = Tuning(a.w, FALSE, a.t, a.s)
  <2> DEFINE w == a.w
             t == a.t
             s == a.s
             v == Tuning(w, FALSE, t, s)
  <2>1. /\ IsWindow(w) /\ ~w.held /\ w.engine = "idle"
        /\ \A f \in Fields \ {"held", "next", "engine"} : w[f] = win[f]
    BY <1>2, StoppedIs
  <2>2. /\ t \in [Workers -> Stages] /\ t["tuner"] = "gone" /\ s \in Rows
        /\ \A x \in Workers \ {"tuner"} : t[x] = thread[x]
    BY <1>2, StoppedIs
  <2>3. thread' = t /\ session' = s /\ win' = v
    BY <1>4
  <2> HIDE DEF a, w, t, s
  <2>4. w.worker = win.worker
    BY <2>1 DEF Fields
  <2>5. Fit(w, t, queue, resident')
    BY <1>2, <1>3, <2>1, <2>2, <2>4, StoppedFits
  <2>6. Good(v, t, queue, resident', s) /\ IsWindow(v) /\ v.worker = NoTest
    BY <2>5, TuningFits
  <2> HIDE DEF v
  <2>7. Left
    BY <1>1, <2>2, <2>3, <2>6 DEF Left
  <2> QED BY <1>1, <2>7, TunerStep
<1>5. CASE /\ win' = Tuning([win EXCEPT !.deaf = TRUE, !.next = FALSE], FALSE, thread, session)
           /\ UNCHANGED <<thread, session, resident>>
  <2> DEFINE w == [win EXCEPT !.deaf = TRUE, !.next = FALSE]
             v == Tuning(w, FALSE, thread, session)
  <2>1. /\ IsWindow(w) /\ w.worker = win.worker /\ w.held = win.held /\ w.engine = win.engine
        /\ w.dialog = win.dialog /\ w.busy = win.busy
    BY <1>2, ZenonT(60) DEF TypeOK, IsWindow, Fields
  <2>2. win' = v
    BY <1>5
  <2> HIDE DEF w
  <2>3. Fit(w, thread, queue, resident)
    BY <1>3, <2>1 DEF Fit, Busied
  <2>4. Good(v, thread, queue, resident, session) /\ IsWindow(v) /\ v.worker = NoTest
    BY <2>3, TuningFits
  <2> HIDE DEF v
  <2>5. Left
    BY <1>1, <1>2, <1>5, <2>2, <2>4 DEF Left, TypeOK
  <2> QED BY <1>1, <2>5, TunerStep
<1>6. \/ thread' = a.t /\ session' = a.s /\ win' = Tuning(a.w, FALSE, a.t, a.s)
      \/ /\ win' = Tuning([win EXCEPT !.deaf = TRUE, !.next = FALSE], FALSE, thread, session)
         /\ UNCHANGED <<thread, session, resident>>
  BY Zenon DEF AbortTuner, StopFails, Off
<1> QED BY <1>4, <1>5, <1>6

\* A step that leaves the fields Good speaks of, the threads and the signals as they are.
LEMMA DialogStep ==
  ASSUME Inv, up, IsWindow(win'),
         \A f \in Kept \union {"held", "engine"} : win'[f] = win[f],
         win'.dialog \in {"none", "co"},
         thread["tuner"] = "driving" => resident' = "tuner",
         UNCHANGED <<up, thread, queue, run, session, closed>>
  PROVE  Inv'
<1>1. TypeOK /\ Good(win, thread, queue, resident, session)
  BY DEF Inv
<1>2. /\ \A f \in Kept : win'[f] = win[f]
      /\ win'.worker = win.worker /\ win'.held = win.held /\ win'.engine = win.engine
      /\ win'.pause = win.pause /\ win'.abort = win.abort /\ win'.locked = win.locked
  BY DEF Kept
<1>3. Calmer(win, thread, queue, session, win', thread', queue', resident', session')
  BY <1>1, <1>2 DEF Calmer, Good, OneAnswer, TunerOwned, TunerShown
<1> QED BY <1>1, <1>2, <1>3, CalmStep DEF TypeOK

\* The Curve Optimizer tab asks before it writes.
LEMMA AskWriteKeeps == ASSUME Inv, AskWrite PROVE Inv'
<1>1. /\ up /\ win' = [win EXCEPT !.dialog = "co"]
      /\ UNCHANGED <<up, thread, queue, run, session, resident, closed>>
  BY DEF AskWrite, Free, Ready
<1>2. TypeOK /\ Good(win, thread, queue, resident, session)
  BY <1>1 DEF Inv
<1>3. /\ IsWindow(win') /\ \A f \in Kept \union {"held", "engine"} : win'[f] = win[f]
      /\ win'.dialog \in {"none", "co"}
  BY <1>1, <1>2 DEF TypeOK, IsWindow, Fields, Kept
<1> QED BY <1>1, <1>2, <1>3, DialogStep DEF Good, TunerOwned

\* The tab looks at the lock when the question has been answered: under a test of the
\* tuner it writes nothing.
LEMMA WriteOffsetsKeeps == ASSUME Inv, WriteOffsets PROVE Inv'
<1>1. /\ up /\ win' = [win EXCEPT !.dialog = "none"]
      /\ resident' = IF ~win.locked THEN "manual" ELSE resident
      /\ UNCHANGED <<up, thread, queue, run, session, closed>>
  BY DEF WriteOffsets, MayWrite, Ready
<1>2. TypeOK /\ Good(win, thread, queue, resident, session)
  BY <1>1 DEF Inv
<1>3. /\ IsWindow(win') /\ \A f \in Kept \union {"held", "engine"} : win'[f] = win[f]
      /\ win'.dialog \in {"none", "co"}
  BY <1>1, <1>2 DEF TypeOK, IsWindow, Fields, Kept
<1> QED BY <1>1, <1>2, <1>3, DialogStep DEF Good, TunerOwned

\* A close that is called off leaves everything as it was.
LEMMA KeepOpenKeeps == ASSUME Inv, KeepOpen PROVE Inv'
<1>1. /\ up /\ win' = [win EXCEPT !.dialog = "none", !.closing = FALSE]
      /\ UNCHANGED <<up, thread, queue, run, session, resident, closed>>
  BY DEF KeepOpen, Ready
<1>2. TypeOK /\ Good(win, thread, queue, resident, session)
  BY <1>1 DEF Inv
<1>3. /\ IsWindow(win') /\ \A f \in Kept \union {"held", "engine"} : win'[f] = win[f]
      /\ win'.dialog \in {"none", "co"}
  BY <1>1, <1>2, ZenonT(60) DEF TypeOK, IsWindow, Fields, Kept
<1> QED BY <1>1, <1>2, <1>3, DialogStep DEF Good, TunerOwned

\* A close that cannot stop the tuner leaves the window open (main_window.py:942-946).
LEMMA CloseFailsKeeps == ASSUME Inv, CloseFails PROVE Inv'
<1>1. /\ up /\ queue = <<>> /\ win.dialog = "close" /\ "tuner" \in win.busy
      /\ UNCHANGED <<up, queue, run, closed>>
  BY DEF CloseFails, Ready
<1>2. TypeOK /\ Good(win, thread, queue, resident, session)
  BY <1>1 DEF Inv
<1>3. Fit(win, thread, queue, resident)
  BY <1>1, <1>2, TunerMay DEF TypeOK
<1>4. Single(queue) /\ ~Queued(queue, "finished")
  BY <1>1, EmptyIs DEF Single
<1> DEFINE a == Stopped("ended")
           d == [win EXCEPT !.deaf = TRUE, !.next = FALSE]
<1>5. CASE win' = StaysOpen(d, thread, session) /\ UNCHANGED <<thread, session, resident>>
  <2>1. d.deaf
    BY <1>2 DEF TypeOK, IsWindow, Fields
  <2>2. win' = [d EXCEPT !.dialog = "none", !.closing = FALSE]
    BY <1>5, <2>1 DEF StaysOpen
  <2>3. IsWindow(d) /\ \A f \in Fields \ {"deaf", "next"} : d[f] = win[f]
    <3>1. IsWindow(d)
      BY <1>2, ZenonT(60) DEF TypeOK, IsWindow, Fields
    <3>2. ASSUME NEW f \in Fields \ {"deaf", "next"} PROVE d[f] = win[f]
      BY <1>2 DEF TypeOK, IsWindow
    <3> QED BY <3>1, <3>2
  <2> HIDE DEF d
  <2>4. /\ IsWindow(win') /\ win'.dialog \in {"none", "co"}
        /\ \A f \in Kept \union {"held", "engine"} : win'[f] = win[f]
    BY <2>2, <2>3, ZenonT(60) DEF IsWindow, Fields, Kept
  <2> QED BY <1>1, <1>2, <1>5, <2>4, DialogStep DEF Good, TunerOwned
<1>6. CASE thread' = a.t /\ session' = a.s /\ win' = StaysOpen(a.w, a.t, a.s)
  <2> DEFINE w == a.w
             t == a.t
             s == a.s
  <2>1. /\ IsWindow(w) /\ ~w.held /\ w.engine = "idle"
        /\ \A f \in Fields \ {"held", "next", "engine"} : w[f] = win[f]
    BY <1>2, StoppedIs
  <2>2. /\ t \in [Workers -> Stages] /\ t["tuner"] = "gone" /\ s \in Rows
        /\ \A x \in Workers \ {"tuner"} : t[x] = thread[x]
        /\ \A x \in Sessions : s[x] \in Active => session[x] \in Active
    BY <1>2, StoppedIs
  <2>3. thread' = t /\ session' = s /\ win' = StaysOpen(w, t, s)
    BY <1>6
  <2> HIDE DEF a, w, t, s
  <2>4. CASE w.deaf
    <3>1. win' = [w EXCEPT !.dialog = "none", !.closing = FALSE]
      BY <2>3, <2>4 DEF StaysOpen
    <3>2. /\ IsWindow(win') /\ win'.dialog = "none" /\ ~win'.held /\ win'.engine = "idle"
          /\ win'.worker = win.worker /\ \A f \in Kept : win'[f] = win[f]
      BY <2>1, <3>1, ZenonT(60) DEF IsWindow, Fields, Kept
    <3>3. /\ Tests \subseteq Workers \ {"tuner"} /\ t["memory"] = thread["memory"]
          /\ \A x \in Tests : Alive(t, x) <=> Alive(thread, x)
      BY <2>2 DEF Workers, Alive
    <3>4. Calmer(win, thread, queue, session, win', t, queue, resident', s)
      BY <1>4, <2>2, <3>2, <3>3 DEF Calmer, Active, Alive
    <3> QED BY <1>1, <1>2, <2>2, <2>3, <3>2, <3>4, CalmStep DEF TypeOK
  <2>5. CASE ~w.deaf
    <3> DEFINE v == Shown(w, t, s)
    <3>1. win' = [v EXCEPT !.dialog = "none", !.closing = FALSE]
      BY <2>3, <2>5 DEF StaysOpen
    <3>2. w.worker = win.worker
      BY <2>1 DEF Fields
    <3>3. Fit(w, t, queue, resident')
      BY <1>2, <1>3, <2>1, <2>2, <3>2, StoppedFits
    <3>4. Good(v, t, queue, resident', s) /\ IsWindow(v) /\ v.worker = NoTest
      BY <3>3, ShownFits
    <3> HIDE DEF v
    <3>5. /\ IsWindow(win') /\ win'.dialog = "none" /\ win'.held = v.held /\ win'.engine = v.engine
          /\ win'.locked = v.locked /\ win'.worker = NoTest /\ \A f \in Kept : win'[f] = v[f]
      BY <3>1, <3>4, ZenonT(60) DEF IsWindow, Fields, Kept
    <3>6. Calmer(v, t, queue, s, win', t, queue, resident', s)
      BY <1>4, <3>4, <3>5 DEF Calmer, Good, OneAnswer, TunerOwned
    <3>7. Good(win', t, queue, resident', s)
      BY <3>4, <3>6, Eases
    <3>8. Left
      BY <1>1, <2>2, <2>3, <3>5, <3>7 DEF Left
    <3> QED BY <1>1, <3>8, TunerStep
  <2> QED BY <2>4, <2>5
<1>7. \/ win' = StaysOpen(d, thread, session) /\ UNCHANGED <<thread, session, resident>>
      \/ thread' = a.t /\ session' = a.s /\ win' = StaysOpen(a.w, a.t, a.s)
  BY Zenon DEF CloseFails, StopFails
<1> QED BY <1>5, <1>6, <1>7

\* What runs under a close is stopped with it: the machine is left to nobody, or the window
\* stays open with the tuner's status on it.
LEMMA TeardownKeeps ==
  ASSUME Inv, up, queue = <<>>, NEW busy, Teardown(busy),
         "tuner" \in busy => Fit(win, thread, queue, resident),
         win.worker # NoTest /\ Alive(thread, win.worker) => "manual" \in busy,
         Alive(thread, "memory") => "memory" \in busy,
         "close" \notin AutoResume /\ Busied(win) => "tuner" \in busy
  PROVE  Inv'
<1> DEFINE manual == "manual" \in busy /\ win.worker # NoTest
           tuner == "tuner" \in busy /\ win.engine # "none"
           a == IF tuner THEN Stopped("paused") ELSE [w |-> win, t |-> thread, s |-> session]
           y == a.w
           t == a.t
           s == a.s
           threads == [x \in Workers |->
                        IF (manual /\ x = win.worker) \/ (x = "memory" /\ x \in busy) THEN "gone"
                        ELSE t[x]]
           w == [y EXCEPT !.dialog = "none", !.logger = IF manual THEN NoTest ELSE @,
                          !.wired = IF manual THEN @ \ {win.worker} ELSE @]
<1>1. /\ thread' = threads /\ session' = s /\ UNCHANGED queue
      /\ \/ win' = w /\ up' = FALSE /\ closed' = TRUE
         \/ /\ win' = [(IF "tuner" \in busy THEN Shown(w, threads, s) ELSE w) EXCEPT !.closing = FALSE]
            /\ UNCHANGED <<up, closed>>
  BY Zenon DEF Teardown
<1>2. TypeOK /\ Good(win, thread, queue, resident, session)
  BY DEF Inv
<1>3. queue' \in Seq(Messages) /\ \A k : ~Queued(queue, k)
  BY <1>1, <1>2, EmptyIs DEF TypeOK
<1>4. run' \in Runs
  BY <1>2, FinishIs DEF Teardown, FinishRun, TypeOK
<1>5. /\ IsWindow(y) /\ s \in Rows /\ t \in [Workers -> Stages]
      /\ \A f \in Fields \ {"held", "next", "engine"} : y[f] = win[f]
      /\ \A x \in Workers \ {"tuner"} : t[x] = thread[x]
  <2>1. CASE tuner
    <3>1. y = Stopped("paused").w /\ t = Stopped("paused").t /\ s = Stopped("paused").s
      BY <2>1
    <3> HIDE DEF y, t, s
    <3> QED BY <1>2, <3>1, StoppedIs
  <2>2. CASE ~tuner
    <3>1. y = win /\ t = thread /\ s = session
      BY <2>2
    <3> HIDE DEF y, t, s
    <3> QED BY <1>2, <3>1 DEF TypeOK
  <2> QED BY <2>1, <2>2
<1>6. tuner => ~y.held /\ y.engine = "idle" /\ t["tuner"] = "gone"
  <2> SUFFICES ASSUME tuner PROVE ~y.held /\ y.engine = "idle" /\ t["tuner"] = "gone"
    OBVIOUS
  <2>1. y = Stopped("paused").w /\ t = Stopped("paused").t
    OBVIOUS
  <2> HIDE DEF y, t, s
  <2> QED BY <1>2, <2>1, StoppedIs
<1>7. ~tuner => y = win /\ t = thread /\ s = session
  OBVIOUS
<1> HIDE DEF a, y, t, s, tuner
<1>8. /\ IsWindow(w) /\ w.dialog = "none" /\ w.held = y.held /\ w.engine = y.engine
      /\ \A f \in Kept : w[f] = win[f]
  BY <1>5, ZenonT(60) DEF IsWindow, Fields, Kept
<1>9. /\ threads \in [Workers -> Stages]
      /\ \A x \in Workers : threads[x] \in {t[x], "gone"}
      /\ "memory" \in busy => threads["memory"] = "gone"
      /\ manual => threads[win.worker] = "gone"
  BY <1>2, <1>5 DEF TypeOK, Workers, Stages
<1>10. Tests \subseteq Workers \ {"tuner"} /\ "memory" \in Workers \ {"tuner"} /\ "tuner" \in Workers
  BY DEF Workers
<1>11. threads["tuner"] = t["tuner"]
  BY <1>2, <1>10 DEF TypeOK
<1> HIDE DEF w, threads
<1>12. CASE win' = w /\ up' = FALSE /\ closed' = TRUE
  <2>1. ASSUME NEW x \in Tests PROVE threads[x] # "driving"
    <3>1. CASE thread[x] = "driving"
      <4>1. win.worker = x /\ x # NoTest /\ Alive(thread, x)
        BY <1>2, <3>1 DEF Good, TestOwned, Alive
      <4> QED BY <1>9, <4>1
    <3>2. CASE thread[x] # "driving"
      BY <1>5, <1>9, <1>10, <3>2
    <3> QED BY <3>1, <3>2
  <2>2. threads["memory"] # "driving"
    BY <1>5, <1>9, <1>10 DEF Alive
  <2>3. "close" \notin AutoResume => threads["tuner"] # "driving" /\ ~w.held /\ w.engine # "running"
    <3>1. CASE tuner
      BY <1>6, <1>8, <1>11, <3>1
    <3>2. CASE ~tuner /\ "close" \notin AutoResume
      <4>1. ~Busied(win)
        BY <1>2, <3>2 DEF tuner, Good, OneAnswer, Busied, Active
      <4>2. thread["tuner"] # "driving"
        BY <1>2, <4>1 DEF Good, TunerOwned, Busied
      <4> QED BY <1>7, <1>8, <1>11, <3>2, <4>1, <4>2 DEF Busied, Active
    <3> QED BY <3>1, <3>2
  <2>4. TypeOK'
    <3>1. w.worker = win.worker
      BY <1>8 DEF Kept
    <3> QED BY <1>1, <1>2, <1>3, <1>4, <1>5, <1>8, <1>9, <1>12, <3>1 DEF TypeOK
  <2> QED BY <1>1, <1>12, <2>1, <2>2, <2>3, <2>4 DEF Inv, Clean, Workers
<1>13. CASE /\ "tuner" \in busy /\ win' = [Shown(w, threads, s) EXCEPT !.closing = FALSE]
            /\ UNCHANGED <<up, closed>>
  <2> DEFINE v == Shown(w, threads, s)
  <2>1. w.worker = win.worker /\ w.worker = NoTest
    BY <1>8, <1>13 DEF Fit, Kept
  <2>2. /\ ~Alive(threads, "memory") /\ ~Queued(queue, "memory")
        /\ \A x \in Tests : threads[x] \notin {"driving", "ending"}
    BY <1>3, <1>5, <1>9, <1>10, <1>13 DEF Fit, Alive
  <2>3. /\ threads["tuner"] = "driving" => w.held /\ w.engine \in Active /\ resident' = "tuner"
        /\ w.held => w.engine # "none"
    <3>1. CASE tuner
      BY <1>6, <1>8, <1>11, <3>1
    <3>2. CASE ~tuner
      <4>1. win.engine = "none"
        BY <1>13, <3>2 DEF tuner
      <4> QED BY <1>7, <1>8, <1>11, <1>13, <3>2, <4>1 DEF Fit, Active
    <3> QED BY <3>1, <3>2
  <2>4. Fit(w, threads, queue, resident')
    BY <1>8, <2>1, <2>2, <2>3 DEF Fit
  <2>5. Good(v, threads, queue, resident', s) /\ IsWindow(v) /\ v.worker = NoTest
    BY <2>4, ShownFits
  <2>6. win' = [v EXCEPT !.closing = FALSE]
    BY <1>13
  <2> HIDE DEF v
  <2>7. /\ IsWindow(win') /\ win'.held = v.held /\ win'.engine = v.engine /\ win'.dialog = v.dialog
        /\ win'.busy = v.busy /\ win'.locked = v.locked /\ win'.worker = NoTest
        /\ win'.pause = v.pause /\ win'.abort = v.abort
        /\ \A f \in Kept : win'[f] = v[f]
    BY <2>5, <2>6, ZenonT(60) DEF IsWindow, Fields, Kept
  <2>8. Calmer(v, threads, queue, s, win', threads, queue, resident', s)
    BY <1>3, <2>5, <2>7 DEF Calmer, Good, OneAnswer, TunerOwned
  <2>9. Good(win', threads, queue, resident', s)
    BY <2>5, <2>8, Eases
  <2>10. Left
    BY <1>1, <1>5, <1>9, <2>7, <2>9 DEF Left
  <2> QED BY <1>3, <1>4, <1>13, <2>10, StaysUp
<1>14. CASE "tuner" \notin busy /\ win' = [w EXCEPT !.closing = FALSE] /\ UNCHANGED <<up, closed>>
  <2>1. y = win /\ t = thread /\ s = session
    BY <1>7, <1>14 DEF tuner
  <2>2. /\ IsWindow(win') /\ win'.dialog = "none" /\ win'.held = win.held /\ win'.engine = win.engine
        /\ \A f \in Kept : win'[f] = win[f]
    BY <1>8, <1>14, <2>1, ZenonT(60) DEF IsWindow, Fields, Kept
  <2>3. win'.worker = win.worker /\ win'.locked = win.locked
    BY <2>2 DEF Kept
  <2>4. /\ \A x \in Workers : Alive(threads, x) => Alive(thread, x)
        /\ \A x \in Workers : threads[x] \in {thread[x], "gone"}
    BY <1>9, <2>1 DEF Alive
  <2>5. /\ \A x \in Tests : Alive(threads, x) => Alive(thread, x)
        /\ \A x \in Tests : threads[x] \in {thread[x], "gone"}
        /\ Alive(threads, "memory") => Alive(thread, "memory")
        /\ threads["memory"] \in {thread["memory"], "gone"}
        /\ threads["tuner"] = thread["tuner"]
    BY <1>10, <1>11, <2>1, <2>4
  <2>6. resident' = resident
    BY <1>14 DEF Teardown
  <2>7. /\ win.held => win.engine # "none"
        /\ thread["tuner"] = "driving" =>
             win.held /\ win.engine \in Active /\ resident = "tuner" /\ win.locked
        /\ Single(queue)
    BY <1>2 DEF Good, OneAnswer, TunerOwned
  <2>8. Calmer(win, thread, queue, session, win', threads, queue, resident', session)
    BY <1>3, <2>2, <2>3, <2>5, <2>6, <2>7 DEF Calmer
  <2> QED BY <1>1, <1>2, <1>3, <1>4, <1>9, <1>14, <2>1, <2>2, <2>3, <2>8, CalmStep DEF TypeOK
<1> QED BY <1>1, <1>12, <1>13, <1>14

\* The close question is answered with what ran when it was asked (main_window.py:892-969).
LEMMA CloseKeeps == ASSUME Inv, Close PROVE Inv'
<1>1. up /\ queue = <<>> /\ win.dialog = "close" /\ Teardown(win.busy)
  BY DEF Close, Ready
<1>2. TypeOK /\ Good(win, thread, queue, resident, session)
  BY <1>1 DEF Inv
<1> DEFINE busy == win.busy
<1>3. Teardown(busy)
  BY <1>1
<1>4. "tuner" \in busy => Fit(win, thread, queue, resident)
  BY <1>1, <1>2, TunerMay DEF TypeOK
<1>5. /\ win.worker # NoTest /\ Alive(thread, win.worker) => "manual" \in busy
      /\ Alive(thread, "memory") => "memory" \in busy
      /\ "close" \notin AutoResume /\ Busied(win) => "tuner" \in busy
  BY <1>1, <1>2 DEF Good, Asked
<1> HIDE DEF busy
<1> QED BY <1>1, <1>3, <1>4, <1>5, TeardownKeeps

\* A close where nothing runs needs no question; else the question names what runs.
LEMMA AskCloseKeeps == ASSUME Inv, AskClose PROVE Inv'
<1>1. up /\ queue = <<>> /\ win.dialog = "none"
  BY DEF AskClose, Free, Ready
<1>2. TypeOK /\ Good(win, thread, queue, resident, session)
  BY <1>1 DEF Inv
<1>3. /\ "manual" \in Busy <=> win.worker # NoTest /\ Alive(thread, win.worker)
      /\ "tuner" \in Busy <=> Busied(win)
      /\ "memory" \in Busy <=> Alive(thread, "memory")
  BY DEF Busy, Busied
<1> DEFINE busy == Busy
<1>4. "tuner" \in busy => Fit(win, thread, queue, resident)
  BY <1>2, <1>3, TunerMay DEF TypeOK
<1>5. /\ win.worker # NoTest /\ Alive(thread, win.worker) => "manual" \in busy
      /\ Alive(thread, "memory") => "memory" \in busy
      /\ "close" \notin AutoResume /\ Busied(win) => "tuner" \in busy
  BY <1>3
<1>6. CASE Teardown(Busy)
  <2>1. Teardown(busy)
    BY <1>6
  <2> HIDE DEF busy
  <2> QED BY <1>1, <1>4, <1>5, <2>1, TeardownKeeps
<1>7. CASE /\ win' = [win EXCEPT !.dialog = "close", !.closing = TRUE, !.busy = Busy]
           /\ UNCHANGED <<up, thread, queue, run, session, resident, deaths, closed>>
  <2> DEFINE v == [win EXCEPT !.dialog = "close", !.closing = TRUE, !.busy = busy]
  <2> HIDE DEF busy
  <2>1. /\ IsWindow(v) /\ v.dialog = "close" /\ v.busy = busy
        /\ \A f \in Kept \union {"held", "engine"} : v[f] = win[f]
    BY <1>2, ZenonT(60) DEF TypeOK, IsWindow, Fields, Kept
  <2>2. win' = v
    BY <1>7 DEF busy
  <2> HIDE DEF v
  <2>3. /\ v.owner = win.owner /\ v.worker = win.worker /\ v.engine = win.engine
        /\ v.held = win.held /\ v.start = win.start /\ v.memory = win.memory
        /\ v.external = win.external /\ v.tune = win.tune
        /\ v.locked = win.locked /\ v.pause = win.pause /\ v.abort = win.abort
    BY <2>1 DEF Kept
  <2>4. Good(v, thread, queue, resident, session)
    <3>1. TestOwned(v, thread, queue) /\ TestAlone(v, thread, queue)
      BY <1>2, <2>3 DEF Good, TestOwned, TestAlone, Stressed
    <3>2. TunerWaits(v, thread, queue, session)
      <4>1. Busied(v) <=> Busied(win)
        BY <2>3 DEF Busied
      <4>2. "tuner" \in busy <=> Busied(win)
        BY <1>3 DEF busy
      <4> QED BY <1>2, <2>1, <2>3, <4>1, <4>2 DEF Good, TunerWaits, Stressed
    <3>3. MemoryOffered(v, session) /\ TunerShown(v, queue) /\ TunerOwned(v, thread, resident)
      BY <1>2, <2>3 DEF Good, MemoryOffered, TunerShown, TunerOwned, Busied
    <3>4. OneAnswer(v, thread, queue) /\ Asked(v, thread)
      BY <1>2, <1>5, <2>1, <2>3 DEF Good, OneAnswer, Asked, Busied
    <3> QED BY <3>1, <3>2, <3>3, <3>4 DEF Good
  <2>5. v.worker = win.worker
    BY <2>3
  <2> QED BY <1>1, <1>2, <1>7, <2>1, <2>2, <2>4, <2>5, TunerStep DEF Left, TypeOK
<1> QED BY <1>6, <1>7, Zenon DEF AskClose

-----------------------------------------------------------------------------
(* The process *)

\* A window that has just been opened on the rows of the sessions.
LEMMA WindowIs ==
  ASSUME NEW s \in Rows, NEW r
  PROVE  /\ IsWindow(Window(s)) /\ Window(s).worker = NoTest /\ Idle \in [Workers -> Stages]
         /\ <<>> \in Seq(Messages)
         /\ Good(Window(s), Idle, <<>>, r, s)
<1> DEFINE w == [owner |-> "none", worker |-> NoTest, logger |-> NoTest, wired |-> {},
             closing |-> FALSE, busy |-> {}, dialog |-> "none", timer |-> AutoResume # {},
             engine |-> "none", session |-> 0, held |-> FALSE, next |-> FALSE, deaf |-> FALSE,
             start |-> FALSE, stop |-> FALSE, external |-> FALSE, tune |-> TRUE, memory |-> TRUE,
             locked |-> FALSE, pause |-> FALSE, abort |-> FALSE, validate |-> FALSE,
             resume |-> \E x \in Sessions : s[x] # "none"]
           v == Window(s)
           o == OwnerWith("none", w, Idle, s)
<1>1. /\ IsWindow(w) /\ w.owner = "none" /\ w.worker = NoTest /\ w.engine = "none" /\ ~w.held
      /\ w.dialog = "none" /\ ~w.pause /\ ~w.abort
  BY ZenonT(60) DEF IsWindow, Fields
<1>2. v = Refreshed(w, Idle, s)
  BY DEF Window
<1> HIDE DEF w, v
<1>3. SameBut(v, w, Controls \union {"owner"}) /\ v.owner = o /\ Follows(v, o, Idle)
  BY <1>1, <1>2, RefreshedIs
<1>4. /\ Idle \in [Workers -> Stages] /\ "memory" \in Workers /\ "tuner" \in Workers /\ Tests \subseteq Workers
      /\ \A x \in Workers : Idle[x] = "none" /\ ~Alive(Idle, x)
  BY DEF Idle, Workers, Stages, Alive
<1>5. o \in {"tuner", "none"} /\ (o = "none" => Settled(s))
  BY <1>1, <1>4 DEF OwnerWith, Busied, Settled, Active
<1> HIDE DEF o
<1>6. /\ IsWindow(v) /\ v.worker = NoTest /\ v.engine = "none" /\ ~v.held /\ v.dialog = "none"
      /\ ~v.pause /\ ~v.abort /\ (v.memory => o = "none")
  BY <1>1, <1>3, <1>5 DEF SameBut, Fields, Controls, Follows
<1>7. ~Busied(v) /\ ~Stressed(v, Idle, <<>>)
  BY <1>3, <1>4, <1>5, <1>6, EmptyIs DEF Busied, Stressed, Active
<1>8. Good(v, Idle, <<>>, r, s)
  <2>1. TestOwned(v, Idle, <<>>) /\ TunerOwned(v, Idle, r)
    BY <1>4 DEF TestOwned, TunerOwned
  <2>2. TestAlone(v, Idle, <<>>) /\ TunerWaits(v, Idle, <<>>, s) /\ MemoryOffered(v, s)
    BY <1>5, <1>6, <1>7 DEF TestAlone, TunerWaits, MemoryOffered
  <2>3. TunerShown(v, <<>>) /\ OneAnswer(v, Idle, <<>>) /\ Asked(v, Idle)
    BY <1>4, <1>6, EmptyIs DEF TunerShown, OneAnswer, Asked, Single
  <2> QED BY <2>1, <2>2, <2>3 DEF Good
<1> QED BY <1>4, <1>6, <1>8 DEF v

\* The first process opens its window on the sessions of an earlier one.
LEMMA InitHolds == ASSUME Init PROVE Inv
<1>1. PICK first \in {"none", "running", "paused", "ended"} :
        session = [x \in Sessions |-> IF x = 1 THEN first ELSE "none"]
  BY DEF Init
<1>2. session \in Rows /\ run \in Runs
  BY <1>1 DEF Init, Rows, Runs
<1>3. /\ IsWindow(win) /\ win.worker = NoTest /\ thread \in [Workers -> Stages]
      /\ queue \in Seq(Messages) /\ Good(win, thread, queue, resident, session)
  BY <1>2, WindowIs DEF Init
<1> QED BY <1>2, <1>3 DEF Inv, TypeOK, Clean, Init

\* A process that dies takes its threads and signals with it.
LEMMA DieKeeps == ASSUME Inv, Die PROVE Inv'
<1>1. /\ up /\ up' = FALSE /\ win' = Window(session) /\ thread' = Idle /\ queue' = <<>>
      /\ UNCHANGED <<run, session, resident, closed>>
  BY DEF Die
<1>2. session \in Rows /\ run \in Runs /\ ~closed
  BY <1>1 DEF Inv, TypeOK, Clean
<1> DEFINE v == Window(session)
<1>3. IsWindow(v) /\ v.worker = NoTest /\ Idle \in [Workers -> Stages] /\ <<>> \in Seq(Messages)
  BY <1>2, WindowIs
<1> HIDE DEF v
<1> QED BY <1>1, <1>2, <1>3 DEF Inv, TypeOK, Clean, v

\* A process starts with a new window (main_window.py:138-175).
LEMMA StartKeeps == ASSUME Inv, Start PROVE Inv'
<1>1. /\ up' = TRUE /\ closed' = FALSE /\ win' = Window(session) /\ thread' = Idle /\ queue' = <<>>
      /\ run' = [x \in Tests |-> IF run[x] = "running" THEN "crashed" ELSE run[x]]
      /\ UNCHANGED <<session, resident>>
  BY DEF Start
<1>2. session \in Rows /\ run \in Runs /\ run' \in Runs
  BY <1>1 DEF Inv, TypeOK, Runs
<1> DEFINE v == Window(session)
<1>3. IsWindow(v) /\ v.worker = NoTest /\ Idle \in [Workers -> Stages] /\ <<>> \in Seq(Messages)
      /\ Good(v, Idle, <<>>, resident, session)
  BY <1>2, WindowIs
<1>4. win' = v
  BY <1>1
<1> HIDE DEF v
<1> QED BY <1>1, <1>2, <1>3, <1>4 DEF Inv, TypeOK, Clean

-----------------------------------------------------------------------------
(* The specification *)

\* Every step keeps the invariant.
LEMMA NextKeeps == ASSUME Inv, [Next]_vars PROVE Inv'
<1>1. CASE UNCHANGED vars
  BY <1>1 DEF vars, Inv, TypeOK, Clean
<1>2. CASE StartTest
  BY <1>2, StartTestKeeps
<1>3. CASE StopTest
  BY <1>3, StopTestKeeps
<1>4. CASE Ends
  BY <1>4, TestEndsKeeps, TestReportsKeeps DEF Ends
<1>5. CASE Watchdog
  BY <1>5, WatchdogKeeps
<1>6. CASE \E x \in Workers : Gone(x)
  BY <1>6, GoneKeeps
<1>7. CASE StartMemory
  BY <1>7, StartMemoryKeeps
<1>8. CASE MemoryEnds
  BY <1>8, MemoryEndsKeeps
<1>9. CASE AskStart
  BY <1>9, AskStartKeeps
<1>10. CASE StartTuner
  BY <1>10, StartTunerKeeps
<1>11. CASE PauseTuner
  BY <1>11, PauseTunerKeeps
<1>12. CASE ResumeTuner
  BY <1>12, ResumeTunerKeeps
<1>13. CASE AutoResumeFires
  BY <1>13, AutoResumeKeeps
<1>14. CASE Validate
  BY <1>14, ValidateKeeps
<1>15. CASE TunerTestEnds
  BY <1>15, TunerTestEndsKeeps
<1>16. CASE RunNext
  BY <1>16, RunNextKeeps
<1>17. CASE AbortTuner
  BY <1>17, AbortTunerKeeps
<1>18. CASE AskWrite
  BY <1>18, AskWriteKeeps
<1>19. CASE WriteOffsets
  BY <1>19, WriteOffsetsKeeps
<1>20. CASE AskClose
  BY <1>20, AskCloseKeeps
<1>21. CASE KeepOpen
  BY <1>21, KeepOpenKeeps
<1>22. CASE CloseFails
  BY <1>22, CloseFailsKeeps
<1>23. CASE Close
  BY <1>23, CloseKeeps
<1>24. CASE Die
  BY <1>24, DieKeeps
<1>25. CASE Start
  BY <1>25, StartKeeps
<1>26. CASE Deliver
  BY <1>26, DeliverKeeps
<1> QED
  BY <1>1, <1>2, <1>3, <1>4, <1>5, <1>6, <1>7, <1>8, <1>9, <1>10, <1>11, <1>12, <1>13, <1>14, <1>15,
     <1>16, <1>17, <1>18, <1>19, <1>20, <1>21, <1>22, <1>23, <1>24, <1>25, <1>26 DEF Next

\* The ownership of the machine as the window keeps it holds in every state, for any number of
\* tests, sessions and deaths, and under whichever dialogs the auto-resume timer fires.
THEOREM WindowIsInvariant == Spec => []Inv
<1>1. Init => Inv
  BY InitHolds
<1>2. Inv /\ [Next]_vars => Inv'
  BY NextKeeps
<1> QED BY <1>1, <1>2, PTL DEF Spec

\* Manual tests, memory stress and the tuner never stress the machine together.
THEOREM KindsAreExclusive == Spec => []KindsExclusive
<1>1. Inv => KindsExclusive
  <2> SUFFICES ASSUME Inv, NEW x \in Workers, NEW y \in Workers, Drives(x), Drives(y)
               PROVE  x = y
    BY DEF KindsExclusive
  <2>1. /\ Good(win, thread, queue, resident, session)
        /\ thread[x] = "driving" /\ thread[y] = "driving"
    BY DEF Drives, Inv
  <2>2. ASSUME NEW z \in Tests, thread[z] = "driving"
        PROVE  win.worker = z /\ thread["memory"] # "driving" /\ thread["tuner"] # "driving"
    <3>1. win.worker = z /\ win.worker # NoTest
      BY <2>1, <2>2 DEF Good, TestOwned
    <3>2. ~Alive(thread, "memory") /\ ~Busied(win)
      BY <2>1, <3>1 DEF Good, TestAlone, TunerWaits, Stressed
    <3> QED BY <2>1, <3>1, <3>2 DEF Good, TunerOwned, Alive, Busied
  <2>3. thread["memory"] = "driving" => thread["tuner"] # "driving"
    BY <2>1 DEF Good, TunerWaits, TunerOwned, Stressed, Alive, Busied
  <2> QED BY <2>1, <2>2, <2>3 DEF Workers
<1> QED BY <1>1, WindowIsInvariant, PTL

\* While a test of the tuner drives the machine, the offsets in the hardware are the tuner's:
\* the Curve Optimizer tab is locked for as long, also when it looks at the lock after its question.
THEOREM OffsetsStand == Spec => []OffsetsStandUnderTest
<1>1. Inv => OffsetsStandUnderTest
  BY DEF Inv, Good, TunerOwned, OffsetsStandUnderTest, Drives
<1> QED BY <1>1, WindowIsInvariant, PTL

\* A closed window leaves no workload, no worker and no engine that believes it runs: unless the
\* auto-resume timer fires under the close question, whose answer does not look again.
THEOREM ClosesAreClean ==
  ASSUME "close" \notin AutoResume
  PROVE  Spec => []CloseIsClean
<1>1. Inv => CloseIsClean
  BY DEF Inv, Clean, CloseIsClean
<1> QED BY <1>1, WindowIsInvariant, PTL

\* The first verdict of a run is the one it keeps, whichever of its stop, its results, its crash
\* and a restart comes after.
THEOREM VerdictsAreKept == Spec => VerdictKept
<1> DEFINE Kpt == \A x \in Tests : run[x] \notin {"none", "running"} => run'[x] = run[x]
<1>1. ASSUME run \in Runs, [Next]_vars PROVE Kpt
  <2>1. ASSUME NEW row, NEW status, run' = Finish(row, status) PROVE Kpt
    BY <1>1, <2>1 DEF Finish, Runs
  <2>2. CASE UNCHANGED run
    BY <2>2
  <2>3. CASE StartTest
    <3>1. PICK x \in Tests : run[x] = "none" /\ run' = [run EXCEPT ![x] = "running"]
      BY <2>3, Zenon DEF StartTest
    <3> QED BY <1>1, <3>1 DEF Runs
  <2>4. CASE StopTest
    BY <2>1, <2>2, <2>4 DEF StopTest, FinishRun
  <2>5. CASE Close \/ AskClose
    BY <2>1, <2>2, <2>5, Zenon DEF Close, AskClose, Teardown, FinishRun
  <2>6. CASE Start
    BY <2>6 DEF Start
  <2>7. CASE Deliver
    BY <2>1, <2>2, <2>7, Zenon
       DEF Deliver, OnCompleted, OnCrashed, OnFinished, OnMemoryDone, OnAnswer, FinishRun
  <2> QED BY <1>1, <2>2, <2>3, <2>4, <2>5, <2>6, <2>7, Zenon
       DEF Next, vars, Ends, TestEnds, TestReports, Watchdog, Gone, StartMemory, MemoryEnds, AskStart,
           StartTuner, PauseTuner, ResumeTuner, AutoResumeFires, Validate, TunerTestEnds, RunNext,
           AbortTuner, AskWrite, WriteOffsets, KeepOpen, CloseFails, Die
<1>2. Inv /\ [Next]_vars => [Kpt]_vars
  BY <1>1 DEF Inv, TypeOK
<1> QED BY WindowIsInvariant, <1>2, PTL DEF Spec, VerdictKept
=============================================================================
