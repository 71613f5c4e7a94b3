------------------------------- MODULE History -------------------------------
(***************************************************************************)
(* The history database (history/db.py): its schema migrations, the rows   *)
(* the test logger and the tuner keep in it, the evidence the tuner banks  *)
(* per operating point, the deletions the history tab offers, the sweep    *)
(* at start-up, and the adoption of a database that runs under sudo left   *)
(* in /root.  One process at a time has the database open (a lock file),   *)
(* so the steps are those of one program, which may die between any two    *)
(* transactions and be started again, perhaps under another BIOS.          *)
(*                                                                         *)
(* A database is a record of tables, each a function from row ids.  A      *)
(* context stands for one operating point, a pair of a hash and a BIOS.    *)
(* Three things in a row are not columns but what really happened, for the *)
(* properties to speak of: the origin of a run or a session (the file and  *)
(* the id it was first stored under), the point it ran at, and the points  *)
(* at which the seconds of a bank were measured.  A bank stands for one    *)
(* core, regime and offset: the key keeps the others apart.                *)
(***************************************************************************)
EXTENDS Naturals, FiniteSets, FiniteSetsExt, Functions

CONSTANTS
    Hashes,          \* the context hashes, model values
    Bios,            \* the BIOS versions, model values
    NoContext,       \* a row without a context, or no live row
    LegacyVersions,  \* the schema versions the database left in /root may have
    MaxContexts,     \* bound on the ids of contexts
    MaxRows,         \* bound on the ids of runs and of sessions
    MaxLaunches,     \* bound on how often the program is started
    Elsewhere        \* whether a session may be resumed at another operating point

ASSUME HistoryAssumption ==
    /\ NoContext \notin Nat \union (Hashes \X Bios)
    /\ LegacyVersions \subseteq {4, 19}
    /\ {MaxContexts, MaxRows, MaxLaunches} \subseteq Nat /\ Elsewhere \in BOOLEAN

Points == Hashes \X Bios
Latest == 24        \* SCHEMA_VERSION
Contract == 16      \* TUNER_CONTRACT_VERSION

\* The statuses of a session that may go on, and the ones a user may pick up
\* again.  "unfinished" stands for running, paused, validating and hunting,
\* "profile_quarantined" for aborted too, and "completed" for what is final; a
\* run is "running" or "ended": completed, stopped or crashed.
InFlight == {"unfinished"}
Recoverable == InFlight \union {"profile_quarantined"}

VARIABLES
    user,       \* the database of this user
    root,       \* the database left in /root
    rootFile,   \* "none", "present", or "adopted" once it was renamed
    pc,         \* how far the start-up has come: "off" ... "up"
    point,      \* the operating point the machine runs at
    run,        \* the run the logger of the current test writes to
    session,    \* the session the tuner holds
    ids,        \* the last id each table of the user's database handed out
    launches    \* how often the program was started

historyVars == <<user, root, rootFile, pc, point, run, session, ids, launches>>

-----------------------------------------------------------------------------
(* Tables *)

Without(table, gone) == Restrict(table, DOMAIN table \ gone)
With(table, id, row) == [i \in DOMAIN table \union {id} |-> IF i = id THEN row ELSE table[i]]
\* The rows of both tables; an id in both is the first one's.
Joined(first, second) ==
    [i \in DOMAIN first \union DOMAIN second |-> IF i \in DOMAIN first THEN first[i] ELSE second[i]]
Put(table, id, field, value) == [table EXCEPT ![id][field] = value]

Unmeasured == [p \in Points |-> 0]
Plus(bank, other) == [p \in Points |-> bank[p] + other[p]]
BankOf(db, c) == IF c \in DOMAIN db.banks THEN db.banks[c] ELSE Unmeasured

\* The context row of a point, or NoContext.
ContextAt(db, p) ==
    LET rows == {c \in DOMAIN db.contexts : db.contexts[c] = p}
    IN  IF rows = {} THEN NoContext ELSE Min(rows)

Running(db) == {r \in DOMAIN db.runs : db.runs[r].status = "running"}
Unfinished(db) == {s \in DOMAIN db.sessions : db.sessions[s].status \in InFlight}
Active(db) == {s \in Unfinished(db) : db.sessions[s].contract >= Contract}

-----------------------------------------------------------------------------
(* Migrations: the ones that rewrite rows, each in a transaction of its own; *)
(* the others only add columns or rebuild a table with the same rows.        *)

\* Version 5: contexts that agree in hash and BIOS become the oldest of them.
Survivor(db, c) ==
    IF c = NoContext THEN NoContext ELSE ContextAt(db, db.contexts[c])
Reassigned(db, row) == [row EXCEPT !.context = Survivor(db, @)]
Deduplicated(db) ==
    [db EXCEPT !.version = 5,
               !.runs = [r \in DOMAIN @ |-> Reassigned(db, @[r])],
               !.sessions = [s \in DOMAIN @ |-> Reassigned(db, @[s])],
               !.contexts = Restrict(@, {Survivor(db, c) : c \in DOMAIN @})]

\* Version 16: every session so far was searched under an older contract.
MarkedLegacy(db) ==
    [db EXCEPT !.version = 16,
               !.sessions = [s \in DOMAIN @ |-> [@[s] EXCEPT !.contract = 0]]]

\* Version 20: the banks, so far keyed by hash, go to the only context with
\* that hash; where several have it the seconds are dropped.
Owners(db, h) == {c \in DOMAIN db.contexts : db.contexts[c][1] = h}
\* Mutated form: a hash that several contexts have is not left out.
RekeyedToAll(db) ==
    [db EXCEPT !.version = 20,
               !.banks = [c \in UNION {Owners(db, h) : h \in DOMAIN @} |->
                              @[db.contexts[c][1]]]]

Rekeyed(db) ==
    LET kept == {h \in DOMAIN db.banks : Cardinality(Owners(db, h)) = 1}
    IN  [db EXCEPT !.version = 20,
                   !.banks = [c \in UNION {Owners(db, h) : h \in kept} |->
                                  db.banks[db.contexts[c][1]]]]

\* Version 22: "quarantined" is now called "profile_quarantined"; 23 and 24
\* rewrite saved hunts, which this module leaves out.
InNewWords(row) ==
    [row EXCEPT !.status = IF @ = "quarantined" THEN "profile_quarantined" ELSE @]
Renamed(db) ==
    [db EXCEPT !.version = Latest,
               !.sessions = [s \in DOMAIN @ |-> InNewWords(@[s])]]

Migrated(db) ==
    CASE db.version < 5  -> Deduplicated(db)
      [] db.version \in 5 .. 15  -> MarkedLegacy(db)
      [] db.version \in 16 .. 19 -> Rekeyed(db)
      [] OTHER -> Renamed(db)

-----------------------------------------------------------------------------
(* merge_from: every row of the other database with a fresh id and its       *)
(* references remapped, in one transaction.                                  *)

Shift(table, by) == [i \in {j + by : j \in DOMAIN table} |-> table[i - by]]

\* Contexts known here keep their id; the others get the next ids, in order.
Unknown == {c \in DOMAIN root.contexts : ContextAt(user, root.contexts[c]) = NoContext}
\* Mutated form: a context that is known here keeps its old id.
RemappedIfNew(c) ==
    IF c \notin DOMAIN root.contexts THEN NoContext
    ELSE IF c \in Unknown THEN ids.contexts + Cardinality({d \in Unknown : d <= c})
    ELSE c

Remapped(c) ==
    IF c \notin DOMAIN root.contexts THEN NoContext
    ELSE IF c \in Unknown THEN ids.contexts + Cardinality({d \in Unknown : d <= c})
    ELSE ContextAt(user, root.contexts[c])
MergedContexts ==
    Joined([i \in {Remapped(c) : c \in Unknown} |->
                root.contexts[CHOOSE c \in Unknown : Remapped(c) = i]], user.contexts)

Adopted(row) == [row EXCEPT !.context = Remapped(@)]
MergedRows(mine, theirs, last) ==
    Joined(Shift([i \in DOMAIN theirs |-> Adopted(theirs[i])], last), mine)

\* Mutated form: only the banks of contexts that are new here are copied.
MergedBanksOfNew ==
    [c \in DOMAIN user.banks \union {Remapped(d) : d \in Unknown \intersect DOMAIN root.banks} |->
        IF c \in DOMAIN user.banks THEN user.banks[c]
        ELSE root.banks[CHOOSE d \in Unknown : Remapped(d) = c]]

\* Seconds banked at one point on either side add up.
MergedBanks ==
    LET moved == {c \in DOMAIN root.banks : Remapped(c) # NoContext}
    IN  [c \in DOMAIN user.banks \union {Remapped(d) : d \in moved} |->
            LET theirs == {d \in moved : Remapped(d) = c}
            IN  IF theirs = {} THEN user.banks[c]
                ELSE Plus(BankOf(user, c), root.banks[Min(theirs)])]

LastId(table) == IF DOMAIN table = {} THEN 0 ELSE Max(DOMAIN table)
MergedIds ==
    [contexts |-> Max({ids.contexts, LastId(MergedContexts)}),
     runs     |-> ids.runs + LastId(root.runs),
     sessions |-> ids.sessions + LastId(root.sessions)]

-----------------------------------------------------------------------------
(* Start-up: _start_history *)

Launch ==
    /\ pc = "off"
    /\ launches < MaxLaunches
    /\ pc' = "open"
    /\ launches' = launches + 1
    /\ UNCHANGED <<user, root, rootFile, point, run, session, ids>>

\* A migration of the user's own database, one transaction.
MigrateUser ==
    /\ pc = "open"
    /\ user.version < Latest
    /\ user' = Migrated(user)
    /\ UNCHANGED <<root, rootFile, pc, point, run, session, ids, launches>>

\* The database is current; only a program running as root can read /root.
Opened ==
    /\ pc = "open"
    /\ user.version = Latest
    /\ \E asRoot \in BOOLEAN :
           pc' = IF asRoot /\ rootFile = "present" THEN "adopt" ELSE "recover"
    /\ UNCHANGED <<user, root, rootFile, point, run, session, ids, launches>>

\* merge_from opens the other database first, which migrates it.
MigrateRoot ==
    /\ pc = "adopt"
    /\ root.version < Latest
    /\ root' = Migrated(root)
    /\ UNCHANGED <<user, rootFile, pc, point, run, session, ids, launches>>

Merge ==
    /\ pc = "adopt"
    /\ root.version = Latest
    /\ MergedIds.contexts <= MaxContexts
    /\ MergedIds.runs <= MaxRows /\ MergedIds.sessions <= MaxRows
    /\ user' = [user EXCEPT
           !.contexts = MergedContexts,
           !.runs = MergedRows(@, root.runs, ids.runs),
           !.sessions = MergedRows(@, root.sessions, ids.sessions),
           !.banks = MergedBanks]
    /\ ids' = MergedIds
    /\ pc' = "rename"
    /\ UNCHANGED <<root, rootFile, point, run, session, launches>>

\* An error while adopting is logged and the start-up goes on.
AdoptionFails ==
    /\ pc \in {"adopt", "rename"}
    /\ pc' = "recover"
    /\ UNCHANGED <<user, root, rootFile, point, run, session, ids, launches>>

\* Mutated form: unfinished runs are recovered before the adoption.
RenameRootAfterRecovery ==
    /\ pc = "rename"
    /\ rootFile' = "adopted"
    /\ pc' = "purge"
    /\ UNCHANGED <<user, root, point, run, session, ids, launches>>

RenameRoot ==
    /\ pc = "rename"
    /\ rootFile' = "adopted"
    /\ pc' = "recover"
    /\ UNCHANGED <<user, root, point, run, session, ids, launches>>

\* recover_incomplete_runs: runs an earlier process left behind have crashed.
Ended(row) == [row EXCEPT !.status = IF @ = "running" THEN "ended" ELSE @]
Recover ==
    /\ pc = "recover"
    /\ user' = [user EXCEPT !.runs = [r \in DOMAIN @ |-> Ended(@[r])]]
    /\ pc' = "purge"
    /\ UNCHANGED <<root, rootFile, point, run, session, ids, launches>>

\* purge_before: any set of runs may be older than the retention allows.
Purge ==
    /\ pc = "purge"
    /\ \E old \in SUBSET DOMAIN user.runs :
           user' = [user EXCEPT !.runs = Without(@, old)]
    /\ pc' = "up"
    /\ UNCHANGED <<root, rootFile, point, run, session, ids, launches>>

\* The process dies or the machine does; what was committed stays.
Die ==
    /\ pc # "off"
    /\ pc' = "off"
    /\ run' = NoContext
    /\ session' = NoContext
    /\ UNCHANGED <<user, root, rootFile, point, ids, launches>>

\* While the program is off the BIOS may be updated.
Reconfigure ==
    /\ pc = "off"
    /\ \E b \in Bios \ {point[2]} : point' = <<point[1], b>>
    /\ UNCHANGED <<user, root, rootFile, pc, run, session, ids, launches>>

-----------------------------------------------------------------------------
(* Rows of tests and of the tuner *)

\* get_or_create_context: the row of the operating point, inserted when absent.
ContextId == IF ContextAt(user, point) = NoContext THEN ids.contexts + 1
                                                   ELSE ContextAt(user, point)

\* create_run by a new TestRunLogger; the window refuses beside an active session.
StartTest ==
    /\ pc = "up" /\ run = NoContext /\ session = NoContext
    /\ Active(user) = {}
    /\ ids.runs < MaxRows /\ ContextId <= MaxContexts
    /\ run' = ids.runs + 1
    /\ user' = [user EXCEPT
           !.contexts = With(@, ContextId, point),
           !.runs = With(@, run', [context |-> ContextId, status |-> "running",
                                   origin |-> <<"user", run'>>, point |-> point])]
    /\ ids' = [ids EXCEPT !.runs = run', !.contexts = Max({@, ContextId})]
    /\ UNCHANGED <<root, rootFile, pc, point, session, launches>>

\* finish_run, with whichever verdict: only a run that is still running gets one.
FinishTest ==
    /\ pc = "up" /\ run # NoContext
    /\ user' = IF run \in Running(user)
               THEN [user EXCEPT !.runs = Put(@, run, "status", "ended")]
               ELSE user
    /\ run' = NoContext
    /\ UNCHANGED <<root, rootFile, pc, point, session, ids, launches>>

\* create_tuner_session
StartTuner ==
    /\ pc = "up" /\ run = NoContext /\ session = NoContext
    /\ ids.sessions < MaxRows /\ ContextId <= MaxContexts
    /\ session' = ids.sessions + 1
    /\ user' = [user EXCEPT
           !.contexts = With(@, ContextId, point),
           !.sessions = With(@, session',
               [context |-> ContextId, status |-> "unfinished", contract |-> Contract,
                origin |-> <<"user", session'>>, point |-> point, legacy |-> FALSE])]
    /\ ids' = [ids EXCEPT !.sessions = session', !.contexts = Max({@, ContextId})]
    /\ UNCHANGED <<root, rootFile, pc, point, run, launches>>

\* get_tuner_session(resumable=True): a session of an older contract is refused.
Resumable(s) ==
    /\ user.sessions[s].status \in Recoverable
    /\ user.sessions[s].contract >= Contract

\* resume checks that the operating point can be read, not that it is the
\* session's own; with Elsewhere FALSE the user never resumes at another one.
ResumeTuner ==
    /\ pc = "up" /\ run = NoContext /\ session = NoContext
    /\ \E s \in DOMAIN user.sessions :
           /\ Resumable(s)
           /\ Elsewhere \/ user.sessions[s].point = point
           /\ session' = s
           /\ user' = [user EXCEPT !.sessions = Put(@, s, "status", "unfinished")]
    /\ UNCHANGED <<root, rootFile, pc, point, run, ids, launches>>

\* update_tuner_session_status: the session ends, and the tuner lets it go.
EndTuner(status) ==
    /\ pc = "up" /\ session # NoContext
    /\ user' = [user EXCEPT !.sessions = Put(@, session, "status", status)]
    /\ session' = NoContext
    /\ UNCHANGED <<root, rootFile, pc, point, run, ids, launches>>

\* bank_regime_time: a clean slot is credited to the context of the session.
OneMore(bank, p) == [bank EXCEPT ![p] = @ + 1]
BankTime ==
    /\ pc = "up" /\ session # NoContext
    /\ LET c == user.sessions[session].context IN
           /\ c # NoContext
           /\ BankOf(user, c)[point] = 0
           /\ user' = [user EXCEPT !.banks =
                  With(@, c, OneMore(BankOf(user, c), point))]
    /\ UNCHANGED <<root, rootFile, pc, point, run, session, ids, launches>>

\* clear_regime_banks, when the core that earned the seconds is charged.
ClearBank ==
    /\ pc = "up" /\ session # NoContext
    /\ user.sessions[session].context \in DOMAIN user.banks
    /\ user' = [user EXCEPT !.banks = Without(@, {user.sessions[session].context})]
    /\ UNCHANGED <<root, rootFile, pc, point, run, session, ids, launches>>

-----------------------------------------------------------------------------
(* Deletions from the history tab *)

\* A deleted context takes its banks along.
DropContexts(db, gone) ==
    [db EXCEPT !.contexts = Without(@, gone), !.banks = Without(@, gone)]

\* delete_orphaned_contexts
Used(db) == {db.runs[r].context : r \in DOMAIN db.runs}
                \union {db.sessions[s].context : s \in DOMAIN db.sessions}
Swept(db) == DropContexts(db, DOMAIN db.contexts \ Used(db))

\* The rows the user chose are deleted one by one; one that is in flight is
\* refused, which ends the batch before the orphans are swept.
Batch(chosen, refused, gone, after, sweep) ==
    \/ /\ gone = chosen
       /\ chosen \intersect refused = {}
       /\ user' = sweep
    \/ /\ gone \intersect refused = {}
       /\ chosen \intersect refused # {}
       /\ user' = after

DeleteRuns ==
    /\ pc = "up"
    /\ \E chosen \in SUBSET DOMAIN user.runs : \E gone \in SUBSET chosen :
           LET after == [user EXCEPT !.runs = Without(@, gone)]
           IN  Batch(chosen, Running(user), gone, after, Swept(after))
    /\ UNCHANGED <<root, rootFile, pc, point, run, session, ids, launches>>

DeleteSessions ==
    /\ pc = "up"
    /\ \E chosen \in SUBSET DOMAIN user.sessions : \E gone \in SUBSET chosen :
           LET after == [user EXCEPT !.sessions = Without(@, gone)]
           IN  Batch(chosen, Unfinished(user), gone, after, Swept(after))
    /\ UNCHANGED <<root, rootFile, pc, point, run, session, ids, launches>>

\* Mutated form: a context is refused for its runs only.
OccupiedByRuns == {user.runs[r].context : r \in Running(user)}

\* delete_context_cascade: the contexts that still have something in flight.
Occupied == {user.runs[r].context : r \in Running(user)}
                \union {user.sessions[s].context : s \in Unfinished(user)}
OfContext(table, gone) == {i \in DOMAIN table : table[i].context \in gone}

DeleteContexts ==
    /\ pc = "up"
    /\ \E chosen \in SUBSET DOMAIN user.contexts : \E gone \in SUBSET chosen :
           LET after == [DropContexts(user, gone) EXCEPT
                             !.runs = Without(@, OfContext(@, gone)),
                             !.sessions = Without(@, OfContext(@, gone))]
           IN  Batch(chosen, Occupied, gone, after, after)
    /\ UNCHANGED <<root, rootFile, pc, point, run, session, ids, launches>>

-----------------------------------------------------------------------------
(* Initial states: a new database beside one left in /root, or a database    *)
(* of this user that an older version of the program wrote.                  *)

Fresh == [version |-> Latest, contexts |-> <<>>, runs |-> <<>>, sessions |-> <<>>, banks |-> <<>>]

\* Until version 5 a context could be stored twice.
LegacyContexts(v) ==
    {f \in [{1} -> Points] \union [1 .. 2 -> Points] : v < 5 \/ IsInjective(f)}

\* Banks exist from version 19 on, keyed by hash; every context has earned one unit.
LegacyBanks(v, contexts) ==
    IF v < 19 THEN <<>>
    ELSE [h \in {p[1] : p \in Range(contexts)} |->
             [p \in Points |-> IF p[1] = h /\ p \in Range(contexts) THEN 1 ELSE 0]]

\* Before version 16 there is no contract column; adding it fills in the
\* current contract, which the same migration then overwrites.
LegacyContracts(v) == IF v < 16 THEN {Contract} ELSE {0, Contract}

\* A run that was going on when its process died, and a session that can be
\* picked up again; the run may be older than contexts are.  Bound: only a
\* session with one context to choose from was quarantined.
LegacyDatabases(file) ==
    UNION {UNION {
        {[version  |-> v,
          contexts |-> contexts,
          runs     |-> [i \in {1} |->
              [context |-> c, status |-> "running", origin |-> <<file, 1>>,
               point |-> IF c = NoContext THEN NoContext ELSE contexts[c]]],
          sessions |-> [i \in {1} |->
              [context |-> d, status |-> status, contract |-> contract, origin |-> <<file, 1>>,
               point |-> contexts[d], legacy |-> v < 16 \/ contract = 0]],
          banks    |-> LegacyBanks(v, contexts)] :
            c \in {LastId(contexts), NoContext}, d \in DOMAIN contexts,
            contract \in LegacyContracts(v),
            status \in {"unfinished"} \union (IF Cardinality(DOMAIN contexts) = 1 THEN {"quarantined"} ELSE {})}
        : contexts \in LegacyContexts(v)} : v \in LegacyVersions}

HistoryInit ==
    /\ \/ user = Fresh /\ rootFile = "present" /\ root \in LegacyDatabases("root")
       \/ user \in LegacyDatabases("user") /\ rootFile = "none" /\ root = Fresh
    /\ ids = [contexts |-> LastId(user.contexts), runs |-> LastId(user.runs),
              sessions |-> LastId(user.sessions)]
    /\ pc = "off" /\ run = NoContext /\ session = NoContext
    /\ point = (CHOOSE p \in Points : TRUE)  \* any point: hashes and BIOSes are alike
    /\ launches = 0

HistoryNext ==
    \/ Launch \/ MigrateUser \/ Opened
    \/ MigrateRoot \/ Merge \/ RenameRoot \/ AdoptionFails
    \/ Recover \/ Purge \/ Die \/ Reconfigure
    \/ StartTest
    \/ FinishTest
    \/ StartTuner \/ ResumeTuner
    \/ \E status \in {"profile_quarantined", "completed"} : EndTuner(status)
    \/ BankTime \/ ClearBank
    \/ DeleteRuns \/ DeleteSessions \/ DeleteContexts

HistorySpec == HistoryInit /\ [][HistoryNext]_historyVars

-----------------------------------------------------------------------------
(* Properties *)

\* Clean seconds count only for the operating point they were measured at: no
\* migration, merge, deletion or re-used row lends one BIOS the evidence of
\* another (the docstring of bank_regime_time).
EvidenceKeptApart ==
    user.version >= 20 =>
        \A c \in DOMAIN user.banks :
            /\ c \in DOMAIN user.contexts
            /\ \A p \in Points : user.banks[c][p] > 0 => p = user.contexts[c]

\* A run or session is always listed under the operating point it ran at,
\* however often its context was deduplicated, remapped or swept.
RowsKeepTheirContext ==
    \A row \in Range(user.runs) \union Range(user.sessions) :
        IF row.point = NoContext THEN row.context = NoContext
        ELSE /\ row.context \in DOMAIN user.contexts
             /\ user.contexts[row.context] = row.point

\* Once started, the only run that counts as running is the one a logger of
\* this process writes to: neither a crashed process nor a merged database
\* leaves another.
NoGhostRun == pc = "up" => Running(user) \subseteq {run}

\* The tuner never goes on with a session searched under an older contract,
\* wherever it was stored and whichever migrations and merges it went through.
LegacyStaysRetired == session # NoContext => ~user.sessions[session].legacy

\* The other database is only put aside when everything in it is here, the
\* evidence under the same operating points included.
HasCopy(row, table) ==
    \E mine \in Range(table) :
        mine.origin = row.origin /\ mine.status = row.status /\ mine.point = row.point
AdoptionKeepsAll ==
    [][rootFile' # rootFile =>
        /\ \A r \in DOMAIN root.runs : HasCopy(root.runs[r], user.runs)
        /\ \A s \in DOMAIN root.sessions : HasCopy(root.sessions[s], user.sessions)
        /\ \A c \in DOMAIN root.banks : \A p \in Points :
               root.banks[c][p] <= BankOf(user, ContextAt(user, root.contexts[c]))[p]]_historyVars

\* A run in progress, and a session that can still go on, keep their row and
\* their context through every deletion, purge and sweep.
InFlightKept ==
    [][/\ \A r \in Running(user) : r \in DOMAIN user'.runs
       /\ \A s \in Unfinished(user) :
              /\ s \in DOMAIN user'.sessions
              /\ user'.sessions[s].context \in DOMAIN user'.contexts]_historyVars

\* What the docstring of adopt_legacy_root_db promises: the other database can
\* never be merged twice.
MergedOnce ==
    \A table \in {user.runs, user.sessions} : \A i, j \in DOMAIN table :
        table[i].origin = table[j].origin => i = j

=============================================================================
