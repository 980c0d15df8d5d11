------------------------------- MODULE Indexer -------------------------------
(***************************************************************************)
(* The event indexer's listener: it polls the RPC for the contract events  *)
(* after its cursor, stores each in Postgres, publishes it to the live     *)
(* subscribers, and saves the cursor when the batch is done.  Every await  *)
(* of contract-listener.ts ends a step, so that the network grows, calls   *)
(* fail and the process dies between any two of them.                      *)
(*                                                                         *)
(* The RPC node's log is external: one sequence of events, each with its   *)
(* ledger, which grows by whole ledgers.  An event is known by its place   *)
(* in the log (its id orders the events of a ledger).                      *)
(***************************************************************************)
EXTENDS Integers, Sequences, FiniteSets

CONSTANTS
    BatchSize,    \* config.batchSize: the limit of getEvents
    StartLedger,  \* config.startLedger
    Kinds,        \* subset of {"activity", "skipped"}
    PerLedger,    \* bound on the events of a ledger
    MaxLedger,    \* bound on the ledgers closed
    Faults,       \* what may fail: subset of {"rpc", "insert", "save", "crash"}
    MaxFaults     \* bound on the failures of a behaviour

ASSUME IndexerAssumption ==
    /\ BatchSize \in Nat \ {0}
    /\ StartLedger \in Nat /\ PerLedger \in Nat /\ MaxLedger \in Nat /\ MaxFaults \in Nat
    /\ Kinds \subseteq {"activity", "skipped"}
    /\ Faults \subseteq {"rpc", "insert", "save", "crash"}

VARIABLES
    log,        \* the events of the watched contracts, in order
    latest,     \* the last ledger the RPC node knows
    pc,         \* the await the listener is at
    cursor,     \* ContractListener.cursor, in memory
    at, upto,   \* response.events not yet handled: log[at..upto]
    full,       \* response.events.length = batchSize
    db,         \* contract_events: the places of the stored events
    dbCursor,   \* indexer_state.last_ledger, 0 when there is no row
    live,       \* what this process has published, in order
    faults      \* failures so far

indexerVars == <<log, latest, pc, cursor, at, upto, full, db, dbCursor, live, faults>>
memory == <<cursor, at, upto, full, live>>
tables == <<db, dbCursor>>
network == <<log, latest>>

Event == [ledger: 1..MaxLedger, kind: Kinds]

IndexerInit ==
    /\ log = <<>> /\ latest = 0
    /\ pc = "down" /\ cursor = StartLedger
    /\ at = 1 /\ upto = 0 /\ full = FALSE
    /\ db = {} /\ dbCursor = 0
    /\ live = <<>> /\ faults = 0

Fails(kind) ==
    /\ kind \in Faults
    /\ faults < MaxFaults
    /\ faults' = faults + 1

(* A ledger closes, with up to PerLedger events of the contracts. *)
CloseLedger ==
    /\ latest < MaxLedger
    /\ latest' = latest + 1
    /\ \E n \in 0..PerLedger : \E ks \in [1..n -> Kinds] :
         log' = log \o [i \in 1..n |-> [ledger |-> latest + 1, kind |-> ks[i]]]
    /\ UNCHANGED <<pc, memory, tables, faults>>

-----------------------------------------------------------------------------
(* main: a new process, with an empty memory and no subscribers. *)
Boot ==
    /\ pc = "down"
    /\ pc' = "boot"
    /\ cursor' = StartLedger
    /\ at' = 1 /\ upto' = 0 /\ full' = FALSE
    /\ live' = <<>>
    /\ UNCHANGED <<network, tables, faults>>

(* The process dies, by a signal or because main failed before the loop.   *)
Crash ==
    /\ pc # "down"
    /\ Fails("crash")
    /\ pc' = "down"
    /\ UNCHANGED <<network, memory, tables>>

\* start: the cursor the last run saved, unless the configuration is ahead.
ReadCursor ==
    /\ pc = "boot"
    /\ cursor' = IF dbCursor > cursor THEN dbCursor ELSE cursor
    /\ pc' = "poll"
    /\ UNCHANGED <<network, at, upto, full, live, tables, faults>>

\* Injected fault: the newest ledger is left for the next poll.
GetLatestLedgerLate ==
    /\ pc = "poll"
    /\ pc' = IF cursor + 1 >= latest THEN "sleep" ELSE "fetch"
    /\ UNCHANGED <<network, memory, tables, faults>>

GetLatestLedger ==
    /\ pc = "poll"
    /\ pc' = IF cursor >= latest THEN "sleep" ELSE "fetch"
    /\ UNCHANGED <<network, memory, tables, faults>>

\* Injected fault: the ledger of the cursor is asked for again.
AfterAgain(c) == {i \in DOMAIN log : log[i].ledger >= c}

(* getEvents answers the first BatchSize events from ledger cursor + 1 on. *)
After(c) == {i \in DOMAIN log : log[i].ledger >= c + 1}

\* Injected fault: the batch starts one event too early.
GetEventsEarly ==
    LET found == After(cursor)
        first == Len(log) - Cardinality(found)
        last  == IF Cardinality(found) > BatchSize THEN first + BatchSize - 1 ELSE Len(log) IN
    /\ pc = "fetch"
    /\ at' = first
    /\ upto' = last
    /\ full' = (last - first + 1 = BatchSize)
    /\ pc' = "batch"
    /\ UNCHANGED <<network, cursor, live, tables, faults>>

GetEvents ==
    LET found == After(cursor)
        first == Len(log) - Cardinality(found) + 1
        last  == IF Cardinality(found) > BatchSize THEN first + BatchSize - 1 ELSE Len(log) IN
    /\ pc = "fetch"
    /\ at' = first
    /\ upto' = last
    /\ full' = (last - first + 1 = BatchSize)
    /\ pc' = "batch"
    /\ UNCHANGED <<network, cursor, live, tables, faults>>

\* Injected fault: the events passed over move the cursor too.
SkipAdvances ==
    /\ pc = "batch" /\ at <= upto
    /\ log[at].kind = "skipped"
    /\ at' = at + 1
    /\ cursor' = log[at].ledger
    /\ UNCHANGED <<network, pc, upto, full, live, tables, faults>>

\* The loop passes over reverted calls and topics that are not ours.
Skip ==
    /\ pc = "batch" /\ at <= upto
    /\ log[at].kind = "skipped"
    /\ at' = at + 1
    /\ UNCHANGED <<network, pc, cursor, upto, full, live, tables, faults>>

InsertEvent ==
    /\ pc = "batch" /\ at <= upto
    /\ log[at].kind = "activity"
    /\ db' = db \cup {at}
    /\ pc' = "publish"
    /\ UNCHANGED <<network, memory, dbCursor, faults>>

Publish ==
    /\ pc = "publish"
    /\ live' = Append(live, at)
    /\ cursor' = IF log[at].ledger > cursor THEN log[at].ledger ELSE cursor
    /\ at' = at + 1
    /\ pc' = "batch"
    /\ UNCHANGED <<network, upto, full, tables, faults>>

\* Injected fault: the newest ledger is saved, not the last one handled.
SetCursorTip ==
    /\ pc = "batch" /\ at > upto
    /\ dbCursor' = latest
    /\ pc' = IF full THEN "poll" ELSE "sleep"
    /\ UNCHANGED <<network, memory, db, faults>>

\* After the loop: save the cursor, and poll again at once if the batch was full.
SetCursor ==
    /\ pc = "batch" /\ at > upto
    /\ dbCursor' = cursor
    /\ pc' = IF full THEN "poll" ELSE "sleep"
    /\ UNCHANGED <<network, memory, db, faults>>

Wake ==
    /\ pc = "sleep"
    /\ pc' = "poll"
    /\ UNCHANGED <<network, memory, tables, faults>>

(***************************************************************************)
(* Failures.  Whatever throws inside poll is caught in start, which goes   *)
(* to sleep and polls again with the cursor as it is in memory.  A query   *)
(* that fails may have taken effect.                                       *)
(***************************************************************************)
RpcFails ==
    /\ pc \in {"poll", "fetch"}
    /\ Fails("rpc")
    /\ pc' = "sleep"
    /\ UNCHANGED <<network, memory, tables>>

InsertFails ==
    /\ pc = "batch" /\ at <= upto
    /\ log[at].kind = "activity"
    /\ Fails("insert")
    /\ db' \in {db, db \cup {at}}
    /\ pc' = "sleep"
    /\ UNCHANGED <<network, memory, dbCursor>>

SaveFails ==
    /\ pc = "batch" /\ at > upto
    /\ Fails("save")
    /\ dbCursor' \in {dbCursor, cursor}
    /\ pc' = "sleep"
    /\ UNCHANGED <<network, memory, db>>

Step ==
    \/ ReadCursor \/ GetLatestLedger \/ GetEvents \/ Skip
    \/ InsertEvent \/ Publish \/ SetCursor \/ Wake

IndexerNext ==
    \/ CloseLedger
    \/ Boot
    \/ Step
    \/ Crash
    \/ RpcFails \/ InsertFails \/ SaveFails

IndexerSafety == IndexerInit /\ [][IndexerNext]_indexerVars

(* The event loop resumes an await once it is answered, and whoever runs   *)
(* the service starts it again; nothing makes ledgers close.               *)
IndexerSpec == IndexerSafety /\ WF_indexerVars(Boot) /\ WF_indexerVars(Step)

-----------------------------------------------------------------------------
(* Type invariant of the listener. *)
IndexerTypeOK ==
    /\ log \in Seq(Event) /\ latest \in 0..MaxLedger
    /\ pc \in {"down", "boot", "poll", "fetch", "batch", "publish", "sleep"}
    /\ cursor \in Nat /\ dbCursor \in Nat
    /\ at \in 1..(Len(log) + 1) /\ upto \in 0..Len(log) /\ full \in BOOLEAN
    /\ db \subseteq DOMAIN log /\ live \in Seq(DOMAIN log) /\ faults \in 0..MaxFaults

IsActivity(i) == log[i].kind = "activity"

(* A subscriber that stays connected hears of each event at most once and  *)
(* in the order of the log, whatever fails in between, and of none that    *)
(* the history it can ask for does not have.                               *)
LiveInOrder ==
    \A k \in DOMAIN live :
        /\ live[k] \in db
        /\ \A j \in 1..(k - 1) : live[j] < live[k]

(* Behind the saved cursor nothing is missing: every activity event after  *)
(* the start ledger and up to the cursor is in the table.  The listener    *)
(* resumes after the saved cursor, so that what is missing behind it is    *)
(* missing for good.                                                       *)
NothingMissed ==
    \A i \in DOMAIN log :
        IsActivity(i) /\ log[i].ledger \in (StartLedger + 1)..dbCursor => i \in db

(* However batches are cut and calls fail, no ledger is passed over whole: *)
(* an event missing behind the saved cursor follows one of its own ledger  *)
(* that is in the table.                                                   *)
NoLedgerSkipped ==
    \A i \in DOMAIN log :
        IsActivity(i) /\ log[i].ledger \in (StartLedger + 1)..dbCursor /\ i \notin db =>
            \E j \in db : j < i /\ log[j].ledger = log[i].ledger

\* The first batch behind ledger c is full of events that are passed over.  The
\* cursor stays at c then, and the same batch is fetched for ever.
Stuck(c) ==
    LET first == Len(log) - Cardinality(After(c)) + 1
        last  == first + BatchSize - 1 IN
    last <= Len(log) /\ \A i \in first..last : ~IsActivity(i)

\* Where the cursor may be before it gets to event k.
CursorsBefore(k) ==
    {c \in {StartLedger} \cup {log[i].ledger : i \in {j \in DOMAIN log : IsActivity(j)}} :
        c < log[k].ledger}

(* No ledger is waited for in vain: whatever fails, and however batches    *)
(* are cut, something of each ledger that has an activity event reaches    *)
(* the table, unless the listener is stuck before it.                      *)
EventuallyReached ==
    \A k \in 1..(PerLedger * MaxLedger) :
        (/\ k \in DOMAIN log /\ IsActivity(k) /\ log[k].ledger > StartLedger
         /\ \A c \in CursorsBefore(k) : ~Stuck(c))
        ~> (k \in DOMAIN log /\ \E j \in db : log[j].ledger = log[k].ledger)

(* What contract-listener.ts:84 promises of a batch that was filled, "keep *)
(* going": every activity event after the start ledger reaches the table.  *)
EventuallyIndexed ==
    \A l \in (StartLedger + 1)..MaxLedger, k \in 1..(PerLedger * MaxLedger) :
        (k \in DOMAIN log /\ log[k] = [ledger |-> l, kind |-> "activity"]) ~> (k \in db)
=============================================================================
