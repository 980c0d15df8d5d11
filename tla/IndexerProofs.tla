--------------------------- MODULE IndexerProofs ---------------------------
(***************************************************************************)
(* Proofs about the listener for any log, batch size and number of         *)
(* failures of any kind.                                                   *)
(***************************************************************************)
EXTENDS Indexer, RecursionTheorems, FiniteSetTheorems

Ledger(i) == log[i].ledger

\* The log is in the order of its ledgers, and ends with the last of them.
Sorted ==
    /\ \A i, j \in DOMAIN log : i <= j => Ledger(i) <= Ledger(j)
    /\ \A i \in DOMAIN log : Ledger(i) <= latest

\* No cursor is ahead of the network, but for what the configuration says.
NotAhead ==
    /\ cursor <= latest \/ cursor <= StartLedger
    /\ dbCursor <= latest \/ dbCursor <= StartLedger

\* What was published is in the table and behind the cursor in memory.
Behind == \A k \in DOMAIN live : live[k] \in db /\ Ledger(live[k]) <= cursor

Ascending == \A k \in DOMAIN live : \A j \in 1..(k - 1) : live[j] < live[k]

\* Of the events before the current one, those ahead of the cursor were
\* passed over.
InBatch ==
    pc \in {"batch", "publish"} =>
        /\ \A k \in DOMAIN live : live[k] < at
        /\ \A i \in DOMAIN log : i < at /\ IsActivity(i) => Ledger(i) <= cursor

AtPublish == pc = "publish" => at <= upto /\ at \in db

\* No ledger up to c was passed over whole.
Started(c) ==
    \A i \in DOMAIN log :
        IsActivity(i) /\ StartLedger < Ledger(i) /\ Ledger(i) <= c /\ i \notin db =>
            \E j \in db : j < i /\ Ledger(j) = Ledger(i)

IndexerInv ==
    /\ IndexerTypeOK
    /\ Sorted
    /\ NotAhead
    /\ Behind
    /\ Ascending
    /\ InBatch
    /\ AtPublish
    /\ Started(cursor)
    /\ Started(dbCursor)

LEMMA Params ==
    /\ BatchSize \in Nat \ {0}
    /\ StartLedger \in Nat /\ MaxLedger \in Nat /\ MaxFaults \in Nat
BY IndexerAssumption DEF IndexerAssumption

LEMMA NothingYet ==
    /\ \A S : <<>> \in Seq(S)
    /\ DOMAIN <<>> = {} /\ Len(<<>>) = 0
<1>1. Len(<<>>) = 0 /\ DOMAIN <<>> = 1..Len(<<>>)
  OBVIOUS
<1>2. ASSUME NEW S PROVE <<>> \in Seq(S)
  OBVIOUS
<1>3. QED
  BY <1>1, <1>2

LEMMA LogTypes ==
    ASSUME IndexerTypeOK
    PROVE  /\ DOMAIN log = 1..Len(log) /\ Len(log) \in Nat
           /\ \A i \in DOMAIN log : Ledger(i) \in Nat
           /\ db \subseteq DOMAIN log /\ at \in Nat \ {0} /\ upto \in Nat
           /\ cursor \in Nat /\ dbCursor \in Nat /\ latest \in Nat
           /\ DOMAIN live = 1..Len(live) /\ Len(live) \in Nat
           /\ \A k \in DOMAIN live : live[k] \in DOMAIN log
<1>1. DOMAIN log = 1..Len(log) /\ Len(log) \in Nat /\ \A i \in DOMAIN log : log[i] \in Event
  <2>1. log \in Seq(Event)
    BY DEF IndexerTypeOK
  <2>2. QED
    BY <2>1
<1>2. \A i \in DOMAIN log : Ledger(i) \in Nat
  <2>1. \A e \in Event : e.ledger \in Nat
    BY Params DEF Event
  <2>2. QED
    BY <1>1, <2>1 DEF Ledger
<1>3. DOMAIN live = 1..Len(live) /\ Len(live) \in Nat /\ \A k \in DOMAIN live : live[k] \in DOMAIN log
  <2> DEFINE D == DOMAIN log
  <2>1. live \in Seq(D)
    BY DEF IndexerTypeOK
  <2> HIDE DEF D
  <2>2. DOMAIN live = 1..Len(live) /\ Len(live) \in Nat /\ \A k \in DOMAIN live : live[k] \in D
    BY <2>1
  <2>3. QED
    BY <2>2 DEF D
<1>4. /\ db \subseteq DOMAIN log /\ cursor \in Nat /\ dbCursor \in Nat
      /\ at \in 1..(Len(log) + 1) /\ upto \in 0..Len(log) /\ latest \in 0..MaxLedger
  BY DEF IndexerTypeOK
<1>5. at \in Nat \ {0} /\ upto \in Nat /\ latest \in Nat
  BY <1>1, <1>4, Params
<1>6. QED
  BY <1>1, <1>2, <1>3, <1>4, <1>5

-----------------------------------------------------------------------------
(* The events of the ledgers after c are the last ones of the log.         *)
LEMMA AfterIsTail ==
    ASSUME IndexerTypeOK, Sorted, NEW c \in Nat
    PROVE  LET first == Len(log) - Cardinality(After(c)) + 1 IN
           /\ first \in 1..(Len(log) + 1)
           /\ Cardinality(After(c)) \in Nat
           /\ \A i \in DOMAIN log : i < first <=> Ledger(i) <= c
<1> DEFINE N == Len(log)
<1>0. N \in Nat /\ DOMAIN log = 1..N /\ \A i \in 1..N : Ledger(i) \in Nat
  BY LogTypes
<1>1. After(c) = {i \in 1..N : Ledger(i) > c}
  BY <1>0 DEF After, Ledger
<1>2. \A i, j \in 1..N : i <= j => Ledger(i) <= Ledger(j)
  BY <1>0 DEF Sorted
<1> HIDE DEF N
<1>3. PICK f \in 1..(N + 1) : After(c) = f..N
  <2>1. CASE After(c) = {}
    <3>1. After(c) = (N + 1)..N
      BY <1>0, <2>1
    <3>2. QED
      BY <1>0, <3>1
  <2>2. CASE After(c) # {}
    <3>1. PICK f \in After(c) : \A i \in After(c) : f <= i
      <4>1. After(c) \subseteq Nat
        BY <1>0, <1>1
      <4>2. QED
        BY <2>2, <4>1, LeastOf
    <3>2. f \in 1..N /\ Ledger(f) > c
      BY <1>1, <3>1
    <3>3. ASSUME NEW i \in f..N PROVE i \in After(c)
      <4>1. i \in 1..N /\ f <= i
        BY <1>0, <3>2
      <4>2. Ledger(f) <= Ledger(i) /\ Ledger(f) \in Nat /\ Ledger(i) \in Nat
        BY <1>0, <1>2, <3>2, <4>1
      <4>3. QED
        BY <1>1, <3>2, <4>1, <4>2
    <3>4. ASSUME NEW i \in After(c) PROVE i \in f..N
      BY <1>0, <1>1, <3>1, <3>2, <3>4
    <3>5. After(c) = f..N
      BY <3>3, <3>4
    <3>6. QED
      BY <1>0, <3>2, <3>5
  <2>3. QED
    BY <2>1, <2>2
<1>4. Cardinality(After(c)) = N - f + 1
  <2>1. Cardinality(f..N) = IF f > N THEN 0 ELSE N - f + 1
    BY <1>0, <1>3, FS_Interval
  <2>2. QED
    BY <1>0, <1>3, <2>1
<1>5. N - Cardinality(After(c)) + 1 = f /\ Cardinality(After(c)) \in Nat
  BY <1>0, <1>3, <1>4
<1>6. \A i \in 1..N : i < f <=> Ledger(i) <= c
  BY <1>0, <1>1, <1>3
<1>7. QED
  BY <1>0, <1>5, <1>6 DEF N

-----------------------------------------------------------------------------
(* The network. *)
LEMMA LogGrows ==
    ASSUME IndexerTypeOK, CloseLedger
    PROVE  /\ log' \in Seq(Event) /\ DOMAIN log' = 1..Len(log') /\ Len(log') \in Nat
           /\ Len(log) <= Len(log')
           /\ \A i \in DOMAIN log : log'[i] = log[i]
           /\ \A i \in DOMAIN log' \ DOMAIN log : log'[i].ledger = latest + 1
           /\ latest' = latest + 1 /\ latest' \in 0..MaxLedger
<1>1. latest + 1 \in 1..MaxLedger
  BY Params DEF CloseLedger, IndexerTypeOK
<1>0. PICK n \in 0..PerLedger : \E ks \in [1..n -> Kinds] :
        log' = log \o [i \in 1..n |-> [ledger |-> latest + 1, kind |-> ks[i]]]
  BY DEF CloseLedger
<1>2. PICK ks \in [1..n -> Kinds] :
        log' = log \o [i \in 1..n |-> [ledger |-> latest + 1, kind |-> ks[i]]]
  BY <1>0
<1> DEFINE new == [i \in 1..n |-> [ledger |-> latest + 1, kind |-> ks[i]]]
<1>3. n \in Nat
  BY IndexerAssumption DEF IndexerAssumption
<1>4. /\ new \in Seq(Event) /\ Len(new) = n
      /\ \A i \in 1..n : new[i].ledger = latest + 1
  <2>1. \A i \in 1..n : [ledger |-> latest + 1, kind |-> ks[i]] \in Event
    BY <1>1 DEF Event
  <2>2. QED
    BY <1>3, <2>1
<1>5. log' = log \o new
  BY <1>2
<1> HIDE DEF new
<1>6. log \in Seq(Event) /\ Len(log) \in Nat /\ DOMAIN log = 1..Len(log)
  BY DEF IndexerTypeOK
<1>7. /\ log' \in Seq(Event) /\ Len(log') = Len(log) + n /\ DOMAIN log' = 1..Len(log')
      /\ \A i \in 1..Len(log') : log'[i] = IF i <= Len(log) THEN log[i] ELSE new[i - Len(log)]
  BY <1>4, <1>5, <1>6
<1>8. \A i \in DOMAIN log : log'[i] = log[i]
  BY <1>3, <1>6, <1>7
<1>9. ASSUME NEW i \in DOMAIN log' \ DOMAIN log PROVE log'[i].ledger = latest + 1
  <2>1. i - Len(log) \in 1..n /\ log'[i] = new[i - Len(log)]
    BY <1>3, <1>6, <1>7
  <2>2. QED
    BY <1>4, <2>1
<1>10. latest' = latest + 1
  BY DEF CloseLedger
<1>11. QED
  BY <1>1, <1>3, <1>6, <1>7, <1>8, <1>9, <1>10

LEMMA InvCloseLedger ==
    ASSUME IndexerInv, CloseLedger
    PROVE  IndexerInv'
<1>0. /\ IndexerTypeOK /\ Sorted /\ NotAhead /\ Behind /\ Ascending /\ InBatch /\ AtPublish
      /\ Started(cursor) /\ Started(dbCursor)
  BY DEF IndexerInv
<1>1. UNCHANGED <<pc, cursor, at, upto, full, live, db, dbCursor, faults>>
  BY DEF CloseLedger, memory, tables
<1>2. /\ log' \in Seq(Event) /\ DOMAIN log' = 1..Len(log') /\ Len(log') \in Nat
      /\ Len(log) <= Len(log')
      /\ \A i \in DOMAIN log : log'[i] = log[i]
      /\ \A i \in DOMAIN log' \ DOMAIN log : log'[i].ledger = latest + 1
      /\ latest' = latest + 1 /\ latest' \in 0..MaxLedger
  BY <1>0, LogGrows
<1>3. /\ DOMAIN log = 1..Len(log) /\ Len(log) \in Nat
      /\ \A i \in DOMAIN log : Ledger(i) \in Nat
      /\ db \subseteq DOMAIN log /\ at \in Nat \ {0} /\ upto \in Nat
      /\ cursor \in Nat /\ dbCursor \in Nat /\ latest \in Nat
      /\ \A k \in DOMAIN live : live[k] \in DOMAIN log
  BY <1>0, LogTypes
<1>4. DOMAIN log \subseteq DOMAIN log'
  BY <1>2, <1>3
<1>5. /\ \A i \in DOMAIN log : Ledger(i)' = Ledger(i) /\ (IsActivity(i)' <=> IsActivity(i))
      /\ \A i \in DOMAIN log' \ DOMAIN log : Ledger(i)' = latest + 1
  BY <1>2 DEF Ledger, IsActivity
<1>6. IndexerTypeOK'
  <2>1. live' \in Seq(DOMAIN log')
    <3>1. live \in Seq(DOMAIN log)
      BY <1>0 DEF IndexerTypeOK
    <3>2. QED
      BY <1>1, <1>4, <3>1
  <2>2. at' \in 1..(Len(log') + 1) /\ upto' \in 0..Len(log') /\ db' \subseteq DOMAIN log'
    <3>1. at \in 1..(Len(log) + 1) /\ upto \in 0..Len(log)
      BY <1>0 DEF IndexerTypeOK
    <3>2. QED
      BY <1>1, <1>2, <1>3, <1>4, <3>1
  <2>3. QED
    BY <1>0, <1>1, <1>2, <2>1, <2>2 DEF IndexerTypeOK
<1>7. Sorted'
  <2>1. \A i \in DOMAIN log : Ledger(i) <= latest
    BY <1>0 DEF Sorted
  <2>2. ASSUME NEW i \in DOMAIN log', NEW j \in DOMAIN log', i <= j
        PROVE  Ledger(i)' <= Ledger(j)' /\ Ledger(i)' <= latest'
    <3>1. CASE j \in DOMAIN log
      <4>1. i \in DOMAIN log
        BY <1>2, <1>3, <2>2, <3>1
      <4>2. Ledger(i) <= Ledger(j)
        BY <1>0, <2>2, <3>1, <4>1 DEF Sorted
      <4>3. QED
        BY <1>2, <1>3, <1>5, <2>1, <3>1, <4>1, <4>2
    <3>2. CASE j \notin DOMAIN log
      <4>1. Ledger(j)' = latest + 1
        BY <1>5, <3>2
      <4>2. Ledger(i)' <= latest + 1
        BY <1>3, <1>5, <2>1
      <4>3. QED
        BY <1>2, <4>1, <4>2
    <3>3. QED
      BY <3>1, <3>2
  <2>3. \A i \in DOMAIN log' : i <= i
    BY <1>2
  <2>4. QED
    BY <2>2, <2>3 DEF Sorted
<1>8. NotAhead'
  BY <1>0, <1>1, <1>2, <1>3 DEF NotAhead
<1>9. Behind'
  BY <1>0, <1>1, <1>3, <1>5 DEF Behind
<1>10. Ascending' /\ AtPublish'
  BY <1>0, <1>1 DEF Ascending, AtPublish
<1>11. InBatch'
  <2>1. at \in 1..(Len(log) + 1)
    BY <1>0 DEF IndexerTypeOK
  <2>2. \A i \in DOMAIN log' : i < at => i \in DOMAIN log
    BY <1>2, <1>3, <2>1
  <2>3. QED
    BY <1>0, <1>1, <1>5, <2>2 DEF InBatch
<1>12. ASSUME NEW c \in Nat, Started(c), c <= latest \/ c <= StartLedger
       PROVE  \A i \in DOMAIN log' :
                IsActivity(i)' /\ StartLedger < Ledger(i)' /\ Ledger(i)' <= c /\ i \notin db =>
                    \E j \in db : j < i /\ Ledger(j)' = Ledger(i)'
  <2>1. ASSUME NEW i \in DOMAIN log', StartLedger < Ledger(i)', Ledger(i)' <= c
        PROVE  i \in DOMAIN log
    BY <1>3, <1>5, <1>12, <2>1, Params
  <2>2. QED
    BY <1>3, <1>5, <1>12, <2>1 DEF Started
<1>13. Started(cursor)' /\ Started(dbCursor)'
  BY <1>0, <1>1, <1>3, <1>12 DEF Started, NotAhead
<1>14. QED
  BY <1>6, <1>7, <1>8, <1>9, <1>10, <1>11, <1>13 DEF IndexerInv

-----------------------------------------------------------------------------
(* The listener.  A ledger that was not passed over stays so as the table  *)
(* grows.                                                                  *)
LEMMA StartedGrows ==
    ASSUME NEW c, Started(c), UNCHANGED log, db \subseteq db'
    PROVE  \A i \in DOMAIN log :
             IsActivity(i) /\ StartLedger < Ledger(i) /\ Ledger(i) <= c /\ i \notin db' =>
                 \E j \in db' : j < i /\ Ledger(j) = Ledger(i)
BY DEF Started

(* Steps that move neither the cursor in memory nor the events at hand.    *)
Still ==
    /\ UNCHANGED <<log, latest, cursor, at, upto, full, live>>
    /\ \/ db' = db
       \/ db' = db \cup {at} /\ at <= upto
    /\ dbCursor' = dbCursor \/ dbCursor' = cursor
    /\ \/ pc' \in {"down", "boot", "poll", "fetch", "sleep"}
       \/ pc' = "publish" /\ pc = "batch" /\ at <= upto /\ at \in db'
    /\ faults' \in 0..MaxFaults

LEMMA InvStill ==
    ASSUME IndexerInv, Still
    PROVE  IndexerInv'
<1>0. /\ IndexerTypeOK /\ Sorted /\ NotAhead /\ Behind /\ Ascending /\ InBatch /\ AtPublish
      /\ Started(cursor) /\ Started(dbCursor)
  BY DEF IndexerInv
<1>1. UNCHANGED <<log, latest, cursor, at, upto, full, live>>
  BY DEF Still
<1>2. db \subseteq db' /\ db' \subseteq DOMAIN log
  <2>1. CASE db' = db
    BY <1>0, <2>1, LogTypes
  <2>2. CASE at <= upto
    <3>1. at \in 1..(Len(log) + 1) /\ upto \in 0..Len(log) /\ Len(log) \in Nat
          /\ DOMAIN log = 1..Len(log)
      BY <1>0, LogTypes DEF IndexerTypeOK
    <3>2. at \in DOMAIN log
      BY <2>2, <3>1
    <3>3. QED
      BY <1>0, <3>2, LogTypes DEF Still
  <2>3. QED
    BY <2>1, <2>2 DEF Still
<1>3. IndexerTypeOK'
  BY <1>0, <1>1, <1>2 DEF IndexerTypeOK, Still
<1>4. Sorted' /\ Ascending'
  BY <1>0, <1>1 DEF Sorted, Ascending, Ledger
<1>5. NotAhead'
  BY <1>0, <1>1 DEF NotAhead, Still
<1>6. Behind'
  BY <1>0, <1>1, <1>2 DEF Behind, Ledger
<1>7. InBatch' /\ AtPublish'
  BY <1>0, <1>1 DEF InBatch, AtPublish, Ledger, IsActivity, Still
<1>8. Started(cursor)'
  BY <1>0, <1>1, <1>2, StartedGrows DEF Started, IsActivity, Ledger
<1>9. Started(dbCursor)'
  <2>1. CASE dbCursor' = dbCursor
    BY <1>0, <1>1, <1>2, <2>1, StartedGrows DEF Started, IsActivity, Ledger
  <2>2. CASE dbCursor' = cursor
    BY <1>1, <1>8, <2>2 DEF Started, IsActivity, Ledger
  <2>3. QED
    BY <2>1, <2>2 DEF Still
<1>10. QED
  BY <1>3, <1>4, <1>5, <1>6, <1>7, <1>8, <1>9 DEF IndexerInv

(* A new process: an empty memory, and the cursor of the configuration or  *)
(* the one that was saved.                                                 *)
LEMMA InvBoot ==
    ASSUME IndexerInv, Boot PROVE IndexerInv'
<1>0. /\ IndexerTypeOK /\ Sorted /\ NotAhead /\ Started(dbCursor)
  BY DEF IndexerInv
<1>1. /\ UNCHANGED <<log, latest, db, dbCursor, faults>>
      /\ pc' = "boot" /\ cursor' = StartLedger /\ at' = 1 /\ upto' = 0 /\ full' = FALSE
  BY DEF Boot, network, tables
<1>2. DOMAIN live' = {} /\ live' \in Seq(DOMAIN log)
  <2>1. live' = <<>>
    BY DEF Boot
  <2>2. QED
    BY <2>1, NothingYet
<1>3. Len(log) \in Nat /\ \A i \in DOMAIN log : Ledger(i) \in Nat
  BY <1>0, LogTypes
<1>4. IndexerTypeOK'
  <2>1. /\ log' \in Seq(Event) /\ latest' \in 0..MaxLedger /\ db' \subseteq DOMAIN log'
        /\ dbCursor' \in Nat /\ faults' \in 0..MaxFaults
    BY <1>0, <1>1 DEF IndexerTypeOK
  <2>2. at' \in 1..(Len(log') + 1) /\ upto' \in 0..Len(log')
    BY <1>1, <1>3
  <2>3. live' \in Seq(DOMAIN log')
    BY <1>1, <1>2
  <2>4. full' \in BOOLEAN /\ cursor' \in Nat /\ pc' = "boot"
    BY <1>1, Params
  <2>5. QED
    BY <2>1, <2>2, <2>3, <2>4 DEF IndexerTypeOK
<1>5. Sorted' /\ Behind' /\ Ascending' /\ InBatch' /\ AtPublish' /\ NotAhead'
  BY <1>0, <1>1, <1>2, Params DEF Sorted, Ledger, Behind, Ascending, InBatch, AtPublish, NotAhead
<1>6. Started(dbCursor)'
  BY <1>0, <1>1 DEF Started, Ledger, IsActivity
<1>7. Started(cursor)'
  BY <1>1, <1>3, Params DEF Started, Ledger, IsActivity
<1>8. QED
  BY <1>4, <1>5, <1>6, <1>7 DEF IndexerInv

LEMMA InvReadCursor ==
    ASSUME IndexerInv, ReadCursor PROVE IndexerInv'
<1>0. /\ IndexerTypeOK /\ Sorted /\ NotAhead /\ Behind /\ Ascending
      /\ Started(cursor) /\ Started(dbCursor)
  BY DEF IndexerInv
<1>1. /\ UNCHANGED <<log, latest, at, upto, full, live, db, dbCursor, faults>>
      /\ cursor' = (IF dbCursor > cursor THEN dbCursor ELSE cursor) /\ pc' = "poll"
  BY DEF ReadCursor, network, tables
<1>2. cursor \in Nat /\ dbCursor \in Nat
  BY <1>0, LogTypes
<1>3. cursor' \in {cursor, dbCursor} /\ cursor <= cursor' /\ cursor' \in Nat
  BY <1>1, <1>2
<1>4. IndexerTypeOK'
  BY <1>0, <1>1, <1>3 DEF IndexerTypeOK
<1>5. Sorted' /\ Ascending' /\ InBatch' /\ AtPublish'
  BY <1>0, <1>1 DEF Sorted, Ledger, Ascending, InBatch, AtPublish
<1>6. NotAhead'
  BY <1>0, <1>1, <1>3 DEF NotAhead
<1>7. Behind'
  <2>1. \A k \in DOMAIN live : live[k] \in db /\ Ledger(live[k]) <= cursor /\ Ledger(live[k]) \in Nat
    BY <1>0, LogTypes DEF Behind
  <2>2. \A k \in DOMAIN live : Ledger(live[k]) <= cursor'
    BY <1>2, <1>3, <2>1
  <2>3. QED
    BY <1>1, <2>1, <2>2 DEF Behind, Ledger
<1>8. Started(cursor)'
  <2>1. CASE cursor' = cursor
    BY <1>0, <1>1, <2>1 DEF Started, Ledger, IsActivity
  <2>2. CASE cursor' = dbCursor
    BY <1>0, <1>1, <2>2 DEF Started, Ledger, IsActivity
  <2>3. QED
    BY <1>3, <2>1, <2>2
<1>9. Started(dbCursor)'
  BY <1>0, <1>1 DEF Started, Ledger, IsActivity
<1>10. QED
  BY <1>4, <1>5, <1>6, <1>7, <1>8, <1>9 DEF IndexerInv

(* A batch begins at the first event the cursor is not past.               *)
LEMMA InvGetEvents ==
    ASSUME IndexerInv, GetEvents PROVE IndexerInv'
<1> DEFINE found == After(cursor)
           first == Len(log) - Cardinality(found) + 1
           last  == IF Cardinality(found) > BatchSize THEN first + BatchSize - 1 ELSE Len(log)
<1>0. /\ IndexerTypeOK /\ Sorted /\ NotAhead /\ Behind /\ Ascending
      /\ Started(cursor) /\ Started(dbCursor)
  BY DEF IndexerInv
<1>1. /\ UNCHANGED <<log, latest, cursor, live, db, dbCursor, faults>>
      /\ at' = first /\ upto' = last /\ full' \in BOOLEAN /\ pc' = "batch"
  BY DEF GetEvents, network, tables
<1>2. cursor \in Nat /\ Len(log) \in Nat
  BY <1>0, LogTypes
<1>3. /\ first \in 1..(Len(log) + 1) /\ Cardinality(found) \in Nat
      /\ \A i \in DOMAIN log : i < first <=> Ledger(i) <= cursor
  BY <1>0, <1>2, AfterIsTail
<1>4. last \in 0..Len(log)
  <2> DEFINE N == Len(log)
             C == Cardinality(found)
  <2>1. N \in Nat /\ C \in Nat /\ N - C + 1 \in 1..(N + 1) /\ BatchSize \in Nat \ {0}
    BY <1>2, <1>3, Params
  <2> HIDE DEF N, C
  <2>2. (IF C > BatchSize THEN N - C + 1 + BatchSize - 1 ELSE N) \in 0..N
    BY <2>1
  <2>3. QED
    BY <2>2 DEF N, C
<1> HIDE DEF first, last
<1>5. IndexerTypeOK'
  BY <1>0, <1>1, <1>3, <1>4 DEF IndexerTypeOK
<1>6. Sorted' /\ Ascending' /\ AtPublish' /\ NotAhead' /\ Behind'
  BY <1>0, <1>1 DEF Sorted, Ledger, Ascending, AtPublish, NotAhead, Behind
<1>7. InBatch'
  <2>1. \A k \in DOMAIN live : live[k] \in DOMAIN log /\ Ledger(live[k]) <= cursor
    BY <1>0, LogTypes DEF Behind
  <2>2. QED
    BY <1>1, <1>3, <2>1 DEF InBatch, Ledger, IsActivity
<1>8. Started(cursor)' /\ Started(dbCursor)'
  BY <1>0, <1>1 DEF Started, Ledger, IsActivity
<1>9. QED
  BY <1>5, <1>6, <1>7, <1>8 DEF IndexerInv

LEMMA InvSkip ==
    ASSUME IndexerInv, Skip PROVE IndexerInv'
<1>0. /\ IndexerTypeOK /\ Sorted /\ NotAhead /\ Behind /\ Ascending /\ InBatch
      /\ Started(cursor) /\ Started(dbCursor)
  BY DEF IndexerInv
<1>1. /\ UNCHANGED <<log, latest, pc, cursor, upto, full, live, db, dbCursor, faults>>
      /\ at' = at + 1 /\ at <= upto /\ pc = "batch" /\ ~IsActivity(at)
  BY DEF Skip, network, tables, IsActivity
<1>2. /\ at \in 1..(Len(log) + 1) /\ upto \in 0..Len(log) /\ Len(log) \in Nat
      /\ DOMAIN log = 1..Len(log) /\ \A k \in DOMAIN live : live[k] \in DOMAIN log
  BY <1>0, LogTypes DEF IndexerTypeOK
<1>3. IndexerTypeOK'
  BY <1>0, <1>1, <1>2 DEF IndexerTypeOK
<1>4. Sorted' /\ Ascending' /\ AtPublish' /\ NotAhead' /\ Behind'
  BY <1>0, <1>1 DEF Sorted, Ledger, Ascending, AtPublish, NotAhead, Behind
<1>5. InBatch'
  <2>1. \A i \in DOMAIN log : i < at + 1 => i < at \/ i = at
    BY <1>2
  <2>2. \A k \in DOMAIN live : live[k] < at => live[k] < at + 1
    BY <1>2
  <2>3. \A i \in DOMAIN log : i < at + 1 /\ IsActivity(i) => Ledger(i) <= cursor
    BY <1>0, <1>1, <2>1 DEF InBatch
  <2>4. \A k \in DOMAIN live : live[k] < at + 1
    BY <1>0, <1>1, <2>2 DEF InBatch
  <2>5. QED
    BY <1>1, <2>3, <2>4 DEF InBatch, Ledger, IsActivity
<1>6. Started(cursor)' /\ Started(dbCursor)'
  BY <1>0, <1>1 DEF Started, Ledger, IsActivity
<1>7. QED
  BY <1>3, <1>4, <1>5, <1>6 DEF IndexerInv

(* Publishing an event brings the cursor to its ledger: the events before  *)
(* it there, if any are missing, were passed over, and those after it      *)
(* follow one that is in the table.                                        *)
LEMMA InvPublish ==
    ASSUME IndexerInv, Publish PROVE IndexerInv'
<1>0. /\ IndexerTypeOK /\ Sorted /\ NotAhead /\ Behind /\ Ascending /\ InBatch /\ AtPublish
      /\ Started(cursor) /\ Started(dbCursor)
  BY DEF IndexerInv
<1> DEFINE l == Ledger(at)
<1>1. /\ UNCHANGED <<log, latest, upto, full, db, dbCursor, faults>>
      /\ live' = Append(live, at) /\ at' = at + 1 /\ pc = "publish" /\ pc' = "batch"
      /\ cursor' = IF l > cursor THEN l ELSE cursor
  BY DEF Publish, network, tables, Ledger
<1>2. /\ at \in 1..(Len(log) + 1) /\ upto \in 0..Len(log) /\ Len(log) \in Nat
      /\ DOMAIN log = 1..Len(log) /\ \A k \in DOMAIN live : live[k] \in DOMAIN log
      /\ \A i \in DOMAIN log : Ledger(i) \in Nat
      /\ cursor \in Nat /\ latest \in Nat
      /\ DOMAIN live = 1..Len(live) /\ Len(live) \in Nat
  BY <1>0, LogTypes DEF IndexerTypeOK
<1>3. at <= upto /\ at \in db /\ at \in DOMAIN log
  BY <1>0, <1>1, <1>2 DEF AtPublish
<1>4. l \in Nat /\ l <= latest
  BY <1>0, <1>2, <1>3 DEF Sorted
<1> HIDE DEF l
<1>5. cursor' \in Nat /\ cursor <= cursor' /\ l <= cursor' /\ cursor' \in {cursor, l}
  BY <1>1, <1>2, <1>4
<1>6. /\ live' \in Seq(DOMAIN log) /\ DOMAIN live' = 1..(Len(live) + 1)
      /\ \A k \in DOMAIN live : live'[k] = live[k]
      /\ live'[Len(live) + 1] = at
  <2> DEFINE D == DOMAIN log
  <2>1. live \in Seq(D) /\ at \in D
    BY <1>0, <1>3 DEF IndexerTypeOK
  <2> HIDE DEF D
  <2>2. /\ live' \in Seq(D) /\ DOMAIN live' = 1..(Len(live) + 1)
        /\ \A k \in DOMAIN live : live'[k] = live[k]
        /\ live'[Len(live) + 1] = at
    BY <1>1, <2>1
  <2>3. QED
    BY <2>2 DEF D
<1>7. IndexerTypeOK'
  BY <1>0, <1>1, <1>2, <1>3, <1>5, <1>6 DEF IndexerTypeOK
<1>8. Sorted' /\ AtPublish'
  BY <1>0, <1>1 DEF Sorted, Ledger, AtPublish
<1>9. NotAhead'
  BY <1>0, <1>1, <1>4, <1>5 DEF NotAhead
<1>10. ASSUME NEW k \in DOMAIN live'
       PROVE  live'[k] \in db /\ Ledger(live'[k]) <= cursor' /\ live'[k] < at + 1
              /\ \A j \in 1..(k - 1) : live'[j] < live'[k]
  <2>1. CASE k \in DOMAIN live
    <3>1. live[k] \in db /\ Ledger(live[k]) <= cursor /\ live[k] < at /\ live[k] \in DOMAIN log
      BY <1>0, <1>1, <1>2, <2>1 DEF Behind, InBatch
    <3>2. Ledger(live[k]) <= cursor' /\ live[k] < at + 1
      BY <1>2, <1>5, <3>1
    <3>3. \A j \in 1..(k - 1) : j \in DOMAIN live /\ live[j] < live[k]
      BY <1>0, <1>2, <2>1 DEF Ascending
    <3>4. QED
      BY <1>6, <2>1, <3>1, <3>2, <3>3
  <2>2. CASE k = Len(live) + 1
    <3>1. live'[k] = at
      BY <1>6, <2>2
    <3>2. at < at + 1 /\ at \in db /\ Ledger(at) <= cursor'
      BY <1>2, <1>3, <1>5 DEF l
    <3>3. \A j \in 1..(k - 1) : j \in DOMAIN live
      BY <1>2, <2>2
    <3>4. \A j \in DOMAIN live : live'[j] < at
      BY <1>0, <1>1, <1>6 DEF InBatch
    <3>5. QED
      BY <3>1, <3>2, <3>3, <3>4
  <2>3. QED
    BY <1>2, <1>6, <2>1, <2>2
<1>11. Behind' /\ Ascending'
  BY <1>1, <1>10 DEF Behind, Ascending, Ledger
<1>12. InBatch'
  <2>1. ASSUME NEW i \in DOMAIN log, i < at + 1, IsActivity(i) PROVE Ledger(i) <= cursor'
    <3>1. CASE i = at
      BY <1>5, <3>1 DEF l
    <3>2. CASE i < at
      <4>1. Ledger(i) <= cursor
        BY <1>0, <1>1, <2>1, <3>2 DEF InBatch
      <4>2. QED
        BY <1>2, <1>5, <4>1
    <3>3. QED
      BY <1>2, <2>1, <3>1, <3>2
  <2>2. QED
    BY <1>1, <1>10, <2>1 DEF InBatch, Ledger, IsActivity
<1>13. ASSUME NEW i \in DOMAIN log, IsActivity(i), StartLedger < Ledger(i), Ledger(i) <= cursor',
              i \notin db
       PROVE  \E j \in db : j < i /\ Ledger(j) = Ledger(i)
  <2>1. CASE Ledger(i) <= cursor
    BY <1>0, <1>13, <2>1 DEF Started
  <2>2. CASE ~(Ledger(i) <= cursor)
    <3>1. cursor' = l /\ Ledger(i) <= l
      BY <1>5, <1>13, <2>2
    <3>2. ~(i < at)
      BY <1>0, <1>1, <1>13, <2>2 DEF InBatch
    <3>3. i # at
      BY <1>3, <1>13
    <3>4. at < i
      BY <1>2, <3>2, <3>3
    <3>5. l <= Ledger(i)
      BY <1>0, <1>2, <1>3, <3>4 DEF Sorted, l
    <3>6. Ledger(at) = Ledger(i)
      BY <1>2, <1>4, <3>1, <3>5 DEF l
    <3>7. QED
      BY <1>3, <3>4, <3>6
  <2>3. QED
    BY <2>1, <2>2
<1>14. Started(cursor)'
  BY <1>1, <1>13 DEF Started, Ledger, IsActivity
<1>15. Started(dbCursor)'
  BY <1>0, <1>1 DEF Started, Ledger, IsActivity
<1>16. QED
  BY <1>7, <1>8, <1>9, <1>11, <1>12, <1>14, <1>15 DEF IndexerInv

-----------------------------------------------------------------------------
LEMMA IndexerInvInit == IndexerInit => IndexerInv
<1> SUFFICES ASSUME IndexerInit PROVE IndexerInv
  OBVIOUS
<1>1. /\ latest = 0 /\ pc = "down" /\ cursor = StartLedger
      /\ at = 1 /\ upto = 0 /\ full = FALSE /\ db = {} /\ dbCursor = 0 /\ faults = 0
  BY DEF IndexerInit
<1>2. DOMAIN log = {} /\ Len(log) = 0 /\ log \in Seq(Event) /\ live \in Seq(DOMAIN log)
      /\ DOMAIN live = {}
  <2>1. log = <<>> /\ live = <<>>
    BY DEF IndexerInit
  <2>2. QED
    BY <2>1, NothingYet
<1>3. IndexerTypeOK
  <2>1. at \in 1..(Len(log) + 1) /\ upto \in 0..Len(log) /\ latest \in 0..MaxLedger
        /\ faults \in 0..MaxFaults
    BY <1>1, <1>2, Params
  <2>2. full \in BOOLEAN /\ cursor \in Nat /\ dbCursor \in Nat /\ db \subseteq DOMAIN log
    BY <1>1, Params
  <2>3. QED
    BY <1>1, <1>2, <2>1, <2>2 DEF IndexerTypeOK
<1>4. QED
  BY <1>1, <1>2, <1>3, Params
     DEF IndexerInv, Sorted, NotAhead, Behind, Ascending, InBatch, AtPublish, Started

LEMMA IndexerInvNext == IndexerInv /\ [IndexerNext]_indexerVars => IndexerInv'
<1> SUFFICES ASSUME IndexerInv, [IndexerNext]_indexerVars PROVE IndexerInv'
  OBVIOUS
<1>0. IndexerTypeOK /\ faults \in 0..MaxFaults /\ MaxFaults \in Nat
  BY Params DEF IndexerInv, IndexerTypeOK
<1>1. ASSUME NEW kind, Fails(kind) PROVE faults' \in 0..MaxFaults
  BY <1>0, <1>1 DEF Fails
<1>2. CASE CloseLedger
  BY <1>2, InvCloseLedger
<1>3. CASE Boot
  BY <1>3, InvBoot
<1>4. CASE Step
  <2>1. CASE GetLatestLedger
    <3>1. Still
      BY <1>0, <2>1 DEF GetLatestLedger, Still, network, memory, tables
    <3>2. QED
      BY <3>1, InvStill
  <2>2. CASE InsertEvent
    <3>1. Still
      BY <1>0, <2>2 DEF InsertEvent, Still, network, memory
    <3>2. QED
      BY <3>1, InvStill
  <2>3. CASE SetCursor
    <3>1. Still
      BY <1>0, <2>3 DEF SetCursor, Still, network, memory
    <3>2. QED
      BY <3>1, InvStill
  <2>4. CASE Wake
    <3>1. Still
      BY <1>0, <2>4 DEF Wake, Still, network, memory, tables
    <3>2. QED
      BY <3>1, InvStill
  <2>5. QED
    BY <1>4, <2>1, <2>2, <2>3, <2>4, InvReadCursor, InvGetEvents, InvSkip, InvPublish DEF Step
<1>5. CASE Crash
  <2>1. Still
    BY <1>1, <1>5 DEF Crash, Still, network, memory, tables
  <2>2. QED
    BY <2>1, InvStill
<1>6. CASE RpcFails
  <2>1. Still
    BY <1>1, <1>6 DEF RpcFails, Still, network, memory, tables
  <2>2. QED
    BY <2>1, InvStill
<1>7. CASE InsertFails
  <2>1. Still
    BY <1>1, <1>7 DEF InsertFails, Still, network, memory
  <2>2. QED
    BY <2>1, InvStill
<1>8. CASE SaveFails
  <2>1. Still
    BY <1>1, <1>8 DEF SaveFails, Still, network, memory
  <2>2. QED
    BY <2>1, InvStill
<1>9. CASE UNCHANGED indexerVars
  BY <1>9 DEF indexerVars, IndexerInv, IndexerTypeOK, Sorted, NotAhead, Behind, Ascending,
              InBatch, AtPublish, Started, Ledger, IsActivity
<1>10. QED
  BY <1>2, <1>3, <1>4, <1>5, <1>6, <1>7, <1>8, <1>9 DEF IndexerNext

LEMMA IndexerCorrect == IndexerSafety => []IndexerInv
BY IndexerInvInit, IndexerInvNext, PTL DEF IndexerSafety

(* The listener keeps to its types, whatever fails: it never reads past    *)
(* the batch it was given.                                                 *)
THEOREM IndexerTypeCorrect == IndexerSafety => []IndexerTypeOK
BY IndexerCorrect, PTL DEF IndexerInv

(* A subscriber hears of each event once at most, in the order of the log, *)
(* and of none that is not in the table, for any failures and batches.     *)
THEOREM HeardInOrder == IndexerSafety => []LiveInOrder
<1>1. IndexerInv => LiveInOrder
  BY DEF IndexerInv, Behind, Ascending, LiveInOrder
<1>2. QED
  BY <1>1, IndexerCorrect, PTL

(* No ledger is passed over whole: what is missing behind the saved cursor *)
(* follows an event of its ledger that is not.                             *)
THEOREM LedgersAreStarted == IndexerSafety => []NoLedgerSkipped
<1>1. ASSUME IndexerInv PROVE NoLedgerSkipped
  <2>1. Started(dbCursor) /\ dbCursor \in Nat /\ \A i \in DOMAIN log : Ledger(i) \in Nat
    BY <1>1, LogTypes DEF IndexerInv
  <2>2. ASSUME NEW i \in DOMAIN log, log[i].ledger \in (StartLedger + 1)..dbCursor
        PROVE  StartLedger < Ledger(i) /\ Ledger(i) <= dbCursor
    BY <2>1, <2>2, Params DEF Ledger
  <2>3. QED
    BY <2>1, <2>2 DEF Started, NoLedgerSkipped, Ledger
<1>2. QED
  BY <1>1, IndexerCorrect, PTL

-----------------------------------------------------------------------------
(* When nothing is missed at all. *)

\* The event at hand, if there is one, is in a ledger the cursor is not in yet.
AtBorder == at <= Len(log) => cursor < Ledger(at)

\* The listener leaves a batch, done or given up, between two ledgers.
LeavesWhole == pc = "batch" /\ pc' \in {"poll", "sleep"} => AtBorder

\* Nothing up to c is missing.
Complete(c) ==
    \A i \in DOMAIN log :
        IsActivity(i) /\ StartLedger < Ledger(i) /\ Ledger(i) <= c => i \in db

\* Of the events before the one at hand none is missing.
CompleteBatch ==
    \A i \in DOMAIN log : IsActivity(i) /\ StartLedger < Ledger(i) /\ i < at => i \in db

WholeInv ==
    /\ Complete(dbCursor)
    /\ pc = "boot" => cursor = StartLedger
    /\ pc \in {"poll", "fetch", "sleep"} => Complete(cursor)
    /\ pc \in {"batch", "publish"} => CompleteBatch

(* What is complete stays so as the table grows.                           *)
LEMMA CompleteGrows ==
    ASSUME UNCHANGED <<log, at>>, db \subseteq db'
    PROVE  /\ \A c : Complete(c) => (\A i \in DOMAIN log :
                 IsActivity(i) /\ StartLedger < Ledger(i) /\ Ledger(i) <= c => i \in db')
           /\ CompleteBatch => CompleteBatch'
BY DEF Complete, CompleteBatch, IsActivity, Ledger

(* At a border the events before the one at hand are all up to the cursor. *)
LEMMA CompleteAtBorder ==
    ASSUME IndexerInv, CompleteBatch, AtBorder
    PROVE  Complete(cursor)
<1> SUFFICES ASSUME NEW i \in DOMAIN log, IsActivity(i), StartLedger < Ledger(i), Ledger(i) <= cursor
             PROVE  i \in db
  BY DEF Complete
<1>1. /\ DOMAIN log = 1..Len(log) /\ Len(log) \in Nat /\ at \in Nat \ {0} /\ cursor \in Nat
      /\ \A j \in DOMAIN log : Ledger(j) \in Nat
  BY LogTypes DEF IndexerInv
<1>2. CASE i < at
  BY <1>2 DEF CompleteBatch
<1>3. CASE ~(i < at)
  <2>1. at \in DOMAIN log /\ at <= i
    BY <1>1, <1>3
  <2>2. Ledger(at) <= Ledger(i) /\ cursor < Ledger(at)
    BY <1>1, <2>1 DEF IndexerInv, Sorted, AtBorder
  <2>3. QED
    BY <1>1, <2>1, <2>2
<1>4. QED
  BY <1>2, <1>3

(* New events are after every cursor, and after the batch.                 *)
LEMMA WholeCloseLedger ==
    ASSUME IndexerInv, WholeInv, CloseLedger
    PROVE  WholeInv'
<1>1. UNCHANGED <<pc, cursor, at, db, dbCursor>>
  BY DEF CloseLedger, memory, tables
<1>2. /\ DOMAIN log' = 1..Len(log') /\ Len(log') \in Nat /\ Len(log) <= Len(log')
      /\ \A i \in DOMAIN log : log'[i] = log[i]
      /\ \A i \in DOMAIN log' \ DOMAIN log : log'[i].ledger = latest + 1
  BY LogGrows DEF IndexerInv
<1>3. /\ DOMAIN log = 1..Len(log) /\ Len(log) \in Nat /\ latest \in Nat /\ at \in 1..(Len(log) + 1)
      /\ cursor \in Nat /\ dbCursor \in Nat
  BY LogTypes DEF IndexerInv, IndexerTypeOK
<1>4. \A i \in DOMAIN log : IsActivity(i)' = IsActivity(i) /\ Ledger(i)' = Ledger(i)
  BY <1>2 DEF IsActivity, Ledger
<1>5. ASSUME NEW i \in DOMAIN log', i \notin DOMAIN log
      PROVE  Ledger(i)' = latest + 1 /\ ~(i < at)
  BY <1>2, <1>3, <1>5 DEF Ledger
<1>6. ASSUME NEW c \in Nat, c <= latest \/ c <= StartLedger, Complete(c)
      PROVE  \A i \in DOMAIN log' :
                IsActivity(i)' /\ StartLedger < Ledger(i)' /\ Ledger(i)' <= c => i \in db
  <2>1. ASSUME NEW i \in DOMAIN log', i \notin DOMAIN log PROVE ~(StartLedger < Ledger(i)' /\ Ledger(i)' <= c)
    BY <1>3, <1>5, <1>6, <2>1, Params
  <2>2. ASSUME NEW i \in DOMAIN log, IsActivity(i)', StartLedger < Ledger(i)', Ledger(i)' <= c
        PROVE  i \in db
    BY <1>4, <1>6, <2>2 DEF Complete
  <2>3. QED
    BY <2>1, <2>2
<1>7. NotAhead
  BY DEF IndexerInv
<1>8. Complete(dbCursor)'
  BY <1>1, <1>3, <1>6, <1>7 DEF WholeInv, NotAhead, Complete
<1>9. pc \in {"poll", "fetch", "sleep"} => Complete(cursor)'
  BY <1>1, <1>3, <1>6, <1>7 DEF WholeInv, NotAhead, Complete
<1>10. pc \in {"batch", "publish"} => CompleteBatch'
  <2>1. ASSUME CompleteBatch, NEW i \in DOMAIN log', IsActivity(i)', StartLedger < Ledger(i)', i < at
        PROVE  i \in db
    <3>1. i \in DOMAIN log
      BY <1>5, <2>1
    <3>2. QED
      BY <1>4, <2>1, <3>1 DEF CompleteBatch
  <2>2. QED
    BY <1>1, <2>1 DEF WholeInv, CompleteBatch
<1>11. QED
  BY <1>1, <1>8, <1>9, <1>10 DEF WholeInv

\* Steps that leave the log, the cursor and the events at hand alone.
WholeStill ==
    /\ UNCHANGED <<log, latest, cursor, at, upto>>
    /\ db \subseteq db'
    /\ dbCursor' = dbCursor \/ (dbCursor' = cursor /\ Complete(cursor))
    /\ \/ pc' = "down"
       \/ pc' \in {"poll", "fetch", "sleep"} /\ Complete(cursor)
       \/ pc' \in {"batch", "publish"} /\ CompleteBatch

LEMMA WholeStillKeeps == ASSUME WholeInv, WholeStill PROVE WholeInv'
<1>1. UNCHANGED <<log, cursor, at>> /\ db \subseteq db'
  BY DEF WholeStill
<1>2. /\ \A c : Complete(c) => (\A i \in DOMAIN log :
                 IsActivity(i) /\ StartLedger < Ledger(i) /\ Ledger(i) <= c => i \in db')
      /\ CompleteBatch => CompleteBatch'
  BY <1>1, CompleteGrows
<1>3. Complete(cursor) => Complete(cursor)'
  BY <1>1, <1>2 DEF Complete, IsActivity, Ledger
<1>4. Complete(dbCursor)'
  <2>1. Complete(dbCursor')
    BY DEF WholeInv, WholeStill
  <2>2. QED
    BY <1>1, <1>2, <2>1 DEF Complete, IsActivity, Ledger
<1>5. QED
  BY <1>2, <1>3, <1>4 DEF WholeInv, WholeStill

LEMMA WholeNext == IndexerInv /\ WholeInv /\ [IndexerNext]_indexerVars /\ [LeavesWhole]_indexerVars => WholeInv'
<1> SUFFICES ASSUME IndexerInv, WholeInv, [IndexerNext]_indexerVars, [LeavesWhole]_indexerVars
             PROVE  WholeInv'
  OBVIOUS
<1>1. CASE UNCHANGED indexerVars
  BY <1>1 DEF indexerVars, WholeInv, Complete, CompleteBatch, IsActivity, Ledger
<1>2. CASE CloseLedger
  BY <1>2, WholeCloseLedger
<1>3. ASSUME SetCursor \/ InsertFails \/ SaveFails, pc' \in {"poll", "sleep"} PROVE WholeInv'
  <2>1. /\ UNCHANGED <<log, latest, cursor, at, upto>> /\ db \subseteq db' /\ pc = "batch"
        /\ dbCursor' \in {dbCursor, cursor}
    BY <1>3 DEF SetCursor, InsertFails, SaveFails, network, memory
  <2>2. AtBorder
    <3>1. pc' # pc
      BY <1>3, <2>1
    <3>2. LeavesWhole
      BY <3>1 DEF indexerVars
    <3>3. QED
      BY <1>3, <2>1, <3>2 DEF LeavesWhole
  <2>3. Complete(cursor)
    BY <2>1, <2>2, CompleteAtBorder DEF WholeInv
  <2>4. QED
    BY <1>3, <2>1, <2>3, WholeStillKeeps DEF WholeStill
<1>4. CASE SetCursor
  <2>1. pc' \in {"poll", "sleep"}
    BY <1>4 DEF SetCursor
  <2>2. QED
    BY <1>3, <1>4, <2>1
<1>5. CASE InsertFails \/ SaveFails
  <2>1. pc' \in {"poll", "sleep"}
    BY <1>5 DEF InsertFails, SaveFails
  <2>2. QED
    BY <1>3, <1>5, <2>1
<1>6. CASE GetLatestLedger \/ Wake \/ RpcFails \/ Crash
  BY <1>6, WholeStillKeeps
     DEF GetLatestLedger, Wake, RpcFails, Crash, network, memory, tables, WholeStill, WholeInv
<1>7. CASE InsertEvent
  BY <1>7, WholeStillKeeps DEF InsertEvent, network, memory, WholeStill, WholeInv
<1>8. CASE Boot
  BY <1>8 DEF Boot, network, tables, WholeInv, Complete, IsActivity, Ledger
<1>9. CASE ReadCursor
  <2>1. /\ UNCHANGED <<log, db, dbCursor>> /\ pc' = "poll" /\ cursor' \in {dbCursor, StartLedger}
    BY <1>9 DEF ReadCursor, network, tables, WholeInv
  <2>2. Complete(StartLedger)
    <3>1. \A i \in DOMAIN log : Ledger(i) \in Nat
      BY LogTypes DEF IndexerInv
    <3>2. QED
      BY <3>1, Params DEF Complete
  <2>3. QED
    BY <2>1, <2>2 DEF WholeInv, Complete, IsActivity, Ledger
<1>10. CASE GetEvents
  <2> DEFINE first == Len(log) - Cardinality(After(cursor)) + 1
  <2>1. UNCHANGED <<log, db, dbCursor>> /\ pc' = "batch" /\ at' = first /\ pc = "fetch"
    BY <1>10 DEF GetEvents, network, tables
  <2>2. \A i \in DOMAIN log : i < first <=> Ledger(i) <= cursor
    <3>1. cursor \in Nat
      BY LogTypes DEF IndexerInv
    <3>2. QED
      BY <3>1, AfterIsTail DEF IndexerInv
  <2> HIDE DEF first
  <2>3. Complete(cursor)
    BY <2>1 DEF WholeInv
  <2>4. QED
    BY <2>1, <2>2, <2>3 DEF WholeInv, Complete, CompleteBatch, IsActivity, Ledger
<1>11. ASSUME UNCHANGED <<log, db, dbCursor>>, pc \in {"batch", "publish"}, pc' = "batch",
              at' = at + 1, at \in db \/ ~IsActivity(at)
       PROVE  WholeInv'
  <2>1. DOMAIN log \subseteq Nat /\ at \in Nat
    BY LogTypes DEF IndexerInv
  <2>2. \A i \in DOMAIN log : i < at + 1 => i < at \/ i = at
    BY <2>1
  <2>3. QED
    BY <1>11, <2>2 DEF WholeInv, Complete, CompleteBatch, IsActivity, Ledger
<1>12. CASE Skip
  BY <1>11, <1>12 DEF Skip, network, tables, IsActivity
<1>13. CASE Publish
  <2>1. at \in db
    BY <1>13 DEF Publish, IndexerInv, AtPublish
  <2>2. QED
    BY <1>11, <1>13, <2>1 DEF Publish, network, tables
<1>14. QED
  BY <1>1, <1>2, <1>4, <1>5, <1>6, <1>7, <1>8, <1>9, <1>10, <1>12, <1>13 DEF IndexerNext, Step

LEMMA CompleteIsNothingMissed == IndexerInv /\ Complete(dbCursor) => NothingMissed
<1> SUFFICES ASSUME IndexerInv, Complete(dbCursor), NEW i \in DOMAIN log,
                    IsActivity(i), log[i].ledger \in (StartLedger + 1)..dbCursor
             PROVE  i \in db
  BY DEF NothingMissed
<1>1. Ledger(i) \in Nat /\ dbCursor \in Nat
  BY LogTypes DEF IndexerInv
<1>2. StartLedger < Ledger(i) /\ Ledger(i) <= dbCursor
  BY <1>1, Params DEF Ledger
<1>3. QED
  BY <1>2 DEF Complete

(* Events are missed in one way only: the listener leaves a batch with the *)
(* cursor already in the ledger of the next event, because the limit of    *)
(* getEvents cut that ledger, or an insert failed in it.  If it never does *)
(* nothing is missed, whatever crashes, and whatever calls of the RPC node *)
(* and saves of the cursor fail (poll, start).                             *)
THEOREM MissedOnlyInsideLedgers ==
    IndexerSafety /\ [][LeavesWhole]_indexerVars => []NothingMissed
<1>1. IndexerInit => IndexerInv /\ WholeInv
  <2>1. IndexerInit => DOMAIN log = {} /\ pc = "down"
    BY NothingYet DEF IndexerInit
  <2>2. QED
    BY <2>1, IndexerInvInit DEF WholeInv, Complete
<1>2. IndexerInv /\ WholeInv /\ [IndexerNext]_indexerVars /\ [LeavesWhole]_indexerVars
         => IndexerInv' /\ WholeInv'
  BY IndexerInvNext, WholeNext
<1>3. IndexerInv /\ WholeInv => NothingMissed
  BY CompleteIsNothingMissed DEF WholeInv
<1>4. QED
  BY <1>1, <1>2, <1>3, PTL DEF IndexerSafety

-----------------------------------------------------------------------------
(* One event a ledger. *)

OneEach == \A i, j \in DOMAIN log : Ledger(i) = Ledger(j) => i = j

LEMMA LengthOfBoth ==
    ASSUME NEW T, NEW s \in Seq(T), NEW t \in Seq(T)
    PROVE  Len(s \o t) = Len(s) + Len(t)
OBVIOUS

LEMMA OneEachNext ==
    PerLedger <= 1 => (IndexerInv /\ OneEach /\ [IndexerNext]_indexerVars => OneEach')
<1> SUFFICES ASSUME PerLedger <= 1, IndexerInv, OneEach, [IndexerNext]_indexerVars PROVE OneEach'
  OBVIOUS
<1>1. CASE UNCHANGED log
  BY <1>1 DEF OneEach, Ledger
<1>2. CASE CloseLedger
  <2>1. PICK n \in 0..PerLedger : \E ks \in [1..n -> Kinds] :
          log' = log \o [i \in 1..n |-> [ledger |-> latest + 1, kind |-> ks[i]]]
    BY <1>2 DEF CloseLedger
  <2>2. PICK ks \in [1..n -> Kinds] :
          log' = log \o [i \in 1..n |-> [ledger |-> latest + 1, kind |-> ks[i]]]
    BY <2>1
  <2> DEFINE new == [i \in 1..n |-> [ledger |-> latest + 1, kind |-> ks[i]]]
  <2>3. n \in Nat /\ n <= 1
    BY IndexerAssumption DEF IndexerAssumption
  <2>4. DOMAIN log = 1..Len(log) /\ Len(log) \in Nat /\ latest \in Nat
        /\ \A i \in DOMAIN log : Ledger(i) \in Nat /\ Ledger(i) <= latest
    BY LogTypes DEF IndexerInv, Sorted
  <2>5. Len(log') <= Len(log) + 1
    <3>1. latest + 1 \in 1..MaxLedger
      BY <1>2, <2>4, Params DEF CloseLedger, IndexerInv, IndexerTypeOK
    <3>2. \A i \in 1..n : [ledger |-> latest + 1, kind |-> ks[i]] \in Event
      BY <3>1 DEF Event
    <3>3. new \in Seq(Event) /\ Len(new) = n
      BY <2>3, <3>2
    <3>4. log' = log \o new /\ log \in Seq(Event)
      BY <2>2 DEF IndexerInv, IndexerTypeOK
    <3> HIDE DEF new
    <3>5. Len(log \o new) = Len(log) + Len(new)
      BY ONLY <3>3, <3>4, LengthOfBoth
    <3>6. QED
      BY <2>3, <2>4, <3>3, <3>4, <3>5
  <2>6. /\ DOMAIN log' = 1..Len(log') /\ Len(log') \in Nat
        /\ \A i \in DOMAIN log : log'[i] = log[i]
        /\ \A i \in DOMAIN log' \ DOMAIN log : log'[i].ledger = latest + 1
    BY <1>2, LogGrows DEF IndexerInv
  <2>7. ASSUME NEW i \in DOMAIN log', i \notin DOMAIN log PROVE i = Len(log) + 1 /\ log'[i].ledger = latest + 1
    BY <2>4, <2>5, <2>6, <2>7
  <2>8. ASSUME NEW i \in DOMAIN log', NEW j \in DOMAIN log', log'[i].ledger = log'[j].ledger PROVE i = j
    <3>1. CASE i \in DOMAIN log /\ j \in DOMAIN log
      BY <2>6, <2>8, <3>1 DEF OneEach, Ledger
    <3>2. CASE i \notin DOMAIN log /\ j \notin DOMAIN log
      BY <2>7, <3>2
    <3>3. ASSUME NEW k \in DOMAIN log PROVE log'[k].ledger # latest + 1
      <4>1. log'[k].ledger = Ledger(k)
        BY <2>6 DEF Ledger
      <4>2. QED
        BY <2>4, <4>1
    <3>4. QED
      BY <2>7, <2>8, <3>1, <3>2, <3>3
  <2>9. QED
    BY <2>8 DEF OneEach, Ledger
<1>3. CASE IndexerNext /\ ~CloseLedger
  <2>1. UNCHANGED log
    BY <1>3 DEF IndexerNext, Step, Boot, ReadCursor, GetLatestLedger, GetEvents, Skip, InsertEvent,
                Publish, SetCursor, Wake, Crash, RpcFails, InsertFails, SaveFails, network
  <2>2. QED
    BY <1>1, <2>1
<1>4. CASE UNCHANGED indexerVars
  BY <1>1, <1>4 DEF indexerVars
<1>5. QED
  BY <1>2, <1>3, <1>4

(* With an event a ledger at most nothing is missed behind the saved       *)
(* cursor, whatever the batches, the crashes and the failures: no batch is *)
(* cut, and no insert fails, behind an event of the same ledger.           *)
THEOREM NothingMissedOneEach == PerLedger <= 1 => (IndexerSafety => []NothingMissed)
<1> SUFFICES ASSUME PerLedger <= 1 PROVE IndexerSafety => []NothingMissed
  OBVIOUS
<1>1. IndexerInit => IndexerInv /\ OneEach
  <2>1. IndexerInit => DOMAIN log = {}
    BY NothingYet DEF IndexerInit
  <2>2. QED
    BY <2>1, IndexerInvInit DEF OneEach
<1>2. IndexerInv /\ OneEach /\ [IndexerNext]_indexerVars => IndexerInv' /\ OneEach'
  BY IndexerInvNext, OneEachNext
<1>3. ASSUME IndexerInv, OneEach PROVE NothingMissed
  <2>1. Complete(dbCursor)
    <3>1. ASSUME NEW j \in db, NEW i \in DOMAIN log, j < i PROVE Ledger(j) # Ledger(i)
      <4>1. j \in DOMAIN log /\ i # j
        BY <1>3, <3>1, LogTypes DEF IndexerInv
      <4>2. QED
        BY <1>3, <4>1 DEF OneEach
    <3>2. Started(dbCursor)
      BY <1>3 DEF IndexerInv
    <3>3. QED
      BY <3>1, <3>2 DEF Started, Complete
  <2>2. QED
    BY <1>3, <2>1, CompleteIsNothingMissed
<1>4. QED
  BY <1>1, <1>2, <1>3, PTL DEF IndexerSafety
=============================================================================
