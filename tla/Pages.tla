------------------------------- MODULE Pages --------------------------------
(***************************************************************************)
(* The pages /payments and /escrow in one tab: the hook usePayments (or    *)
(* useEscrow) with its list of records, the Refresh button, and the card   *)
(* of each record with its two-step buttons.                               *)
(*                                                                         *)
(* Reads overlap: connecting the wallet makes a new client and with it a   *)
(* new read, whether or not the last one was answered, and the button is   *)
(* enabled again by whichever answer comes first.  Cards call the contract *)
(* on the status of the list, and refresh a list of their own, which is    *)
(* shown nowhere.                                                          *)
(***************************************************************************)
EXTENDS Records, FiniteSets

CONSTANTS
    Families,   \* which page: a subset of {"payment", "escrow"}
    MaxIds,     \* bound on the records
    MaxReads,   \* bound on the reads of the list
    MaxRuns     \* bound on the calls the cards make

ASSUME PagesAssumption ==
    /\ Families \subseteq FamilyNames
    /\ {MaxIds, MaxReads, MaxRuns} \subseteq Nat
    /\ MaxReads > 0   \* the first visit reads the list

VARIABLES
    family,
    chain,      \* per id, the record's status at the contract
    role,       \* per id, what the account of the wallet is to the record
    connected,  \* the wallet
    list,       \* the records shown; NoList before the first answer
    loading,
    reads,      \* the reads of the list
    confirming, \* per card, the operation whose Confirm button is shown
    runs        \* the calls of the cards

pagesVars == <<family, chain, role, connected, list, loading, reads, confirming, runs>>
page == <<list, loading, reads, confirming>>
calls == <<runs, confirming>>

Ids == 1..MaxIds
Reads == 1..MaxReads
Runs == 1..MaxRuns
NoList == [id \in Ids |-> "none"]

\* A read is asked, answered with the statuses of that moment, then done; the
\* answer is kept for the properties until the page is left.
NoRead == [step |-> "none", answer |-> NoList]
NoRun == [id |-> 0, op |-> "none", open |-> FALSE, tx |-> "none"]

First(S) == CHOOSE i \in S : \A j \in S : i <= j
Fresh == {r \in Reads : reads[r].step = "none"}

PagesInit ==
    /\ family \in Families
    /\ chain = NoList
    /\ role \in [Ids -> Roles]
    /\ connected = FALSE
    /\ list = NoList
    /\ loading = TRUE
    /\ reads = [r \in Reads |-> [NoRead EXCEPT !.step = IF r = 1 THEN "asked" ELSE "none"]]
    /\ confirming = NoList
    /\ runs = [i \in Runs |-> NoRun]

\* Somebody creates a record, or acts on one.
SomebodyElse(id) ==
    /\ \/ /\ chain[id] = "none" /\ \A j \in 1..(id - 1) : chain[j] # "none"
          /\ chain' = [chain EXCEPT ![id] = Created(family)]
       \/ \E op \in CardOps(family) :
             chain[id] \in Takes(op) /\ chain' = [chain EXCEPT ![id] = Gives(op)]
       \/ chain[id] = "Disputed"
          /\ \E s \in {"Released", "Refunded"} : chain' = [chain EXCEPT ![id] = s]
    /\ UNCHANGED <<family, role, connected, page, runs>>

-----------------------------------------------------------------------------
(* The list. *)

\* refresh, up to its await.
BeginRead ==
    /\ Fresh # {}
    /\ reads' = [reads EXCEPT ![First(Fresh)].step = "asked"]
    /\ loading' = TRUE

Refresh ==
    /\ ~loading
    /\ BeginRead
    /\ UNCHANGED <<family, chain, role, connected, list, calls>>

\* The effect of the hook runs again when the wallet gave it another client;
\* a disconnected hook takes the client cached last, which may be its own.
ConnectWallet ==
    /\ ~connected /\ connected' = TRUE
    /\ BeginRead
    /\ UNCHANGED <<family, chain, role, list, calls>>

DisconnectWallet ==
    /\ connected /\ connected' = FALSE
    /\ BeginRead \/ UNCHANGED <<reads, loading>>
    /\ UNCHANGED <<family, chain, role, list, calls>>

\* The node simulates payments or escrows of the contract: every record there is.
Answer(r) ==
    /\ reads[r].step = "asked"
    /\ reads' = [reads EXCEPT ![r] = [step |-> "answered", answer |-> chain]]
    /\ UNCHANGED <<family, chain, role, connected, list, loading, calls>>

\* listPayments resolves, with every record mapped.
Show(r) ==
    /\ reads[r].step = "answered"
    /\ list' = [id \in Ids |->
                   LET s == reads[r].answer[id] IN
                   IF s = "none" THEN s ELSE toRecord(family, Decoded(s))]
    /\ loading' = FALSE
    /\ reads' = [reads EXCEPT ![r].step = "done"]
    /\ UNCHANGED <<family, chain, role, connected, calls>>

\* Injected fault: loading is reset after a success only.
ReadFailsBusy(r) ==
    /\ reads[r].step \in {"asked", "answered"}
    /\ reads' = [reads EXCEPT ![r] = [NoRead EXCEPT !.step = "done"]]
    /\ UNCHANGED <<family, chain, role, connected, list, loading, calls>>

\* An error or a timeout of read leaves the list as it is.
ReadFails(r) ==
    /\ reads[r].step \in {"asked", "answered"}
    /\ loading' = FALSE
    /\ reads' = [reads EXCEPT ![r] = [NoRead EXCEPT !.step = "done"]]
    /\ UNCHANGED <<family, chain, role, connected, list, calls>>

\* Injected fault: the list of the former visit stays.
RevisitStale ==
    /\ Fresh # {}
    /\ confirming' = NoList /\ loading' = TRUE
    /\ reads' = [r \in Reads |->
                    IF r = First(Fresh) THEN [NoRead EXCEPT !.step = "asked"]
                    ELSE IF r \in Fresh THEN NoRead ELSE [NoRead EXCEPT !.step = "done"]]
    /\ runs' = [i \in Runs |-> [runs[i] EXCEPT !.open = FALSE]]
    /\ UNCHANGED <<family, chain, role, connected, list>>

\* The user goes to another page and returns: the hook starts over, and nobody
\* waits for what is under way.
Revisit ==
    /\ Fresh # {}
    /\ list' = NoList /\ confirming' = NoList /\ loading' = TRUE
    /\ reads' = [r \in Reads |->
                    IF r = First(Fresh) THEN [NoRead EXCEPT !.step = "asked"]
                    ELSE IF r \in Fresh THEN NoRead ELSE [NoRead EXCEPT !.step = "done"]]
    /\ runs' = [i \in Runs |-> [runs[i] EXCEPT !.open = FALSE]]
    /\ UNCHANGED <<family, chain, role, connected>>

-----------------------------------------------------------------------------
(* The cards. *)

Offered(id) ==
    IF connected /\ list[id] # "none" THEN Offers(family, role[id], list[id]) ELSE {}

\* confirmButton: a first click asks, and Cancel takes it back.
Choose(id) ==
    /\ \E op \in Offered(id) \cup (IF confirming[id] \in Offered(id) THEN {"none"} ELSE {}) :
          confirming' = [confirming EXCEPT ![id] = op]
    /\ UNCHANGED <<family, chain, role, connected, list, loading, reads, runs>>

\* runAction, on the Confirm button, which stays as it is while the call runs.
Confirm(id) ==
    /\ confirming[id] \in Offered(id)
    /\ \E i \in Runs :
          /\ runs[i] = NoRun /\ \A j \in 1..(i - 1) : runs[j] # NoRun
          /\ runs' = [runs EXCEPT ![i] = [id |-> id, op |-> confirming[id],
                                          open |-> TRUE, tx |-> "open"]]
    /\ UNCHANGED <<family, chain, role, connected, page>>

\* The contract applies the call; Calls.tla has what happens until then.
Apply(i) ==
    LET r == runs[i] IN
    /\ r.tx = "open"
    /\ chain[r.id] \in Takes(r.op) /\ MayCall(role[r.id], r.op)
    /\ chain' = [chain EXCEPT ![r.id] = Gives(r.op)]
    /\ runs' = [runs EXCEPT ![i].tx = "applied"]
    /\ UNCHANGED <<family, role, connected, page>>

\* The call ends, and so does, after a success, the refresh of the card's own
\* list: the confirm step closes, whatever it shows by now.
End(i) ==
    /\ runs[i].open
    /\ runs' = [runs EXCEPT ![i].open = FALSE]
    /\ confirming' = [confirming EXCEPT ![runs[i].id] = "none"]
    /\ UNCHANGED <<family, chain, role, connected, list, loading, reads>>

-----------------------------------------------------------------------------

PagesNext ==
    \/ Refresh \/ ConnectWallet \/ DisconnectWallet \/ Revisit
    \/ \E r \in Reads : Answer(r) \/ Show(r) \/ ReadFails(r)
    \/ \E id \in Ids : SomebodyElse(id) \/ Choose(id) \/ Confirm(id)
    \/ \E i \in Runs : Apply(i) \/ End(i)

PagesSpec == PagesInit /\ [][PagesNext]_pagesVars

\* Every variable keeps its type.
PagesTypeOK ==
    /\ family \in Families
    /\ {chain, list} \subseteq [Ids -> {"none"} \cup RecordStatuses(family)]
    /\ role \in [Ids -> Roles]
    /\ {connected, loading} \subseteq BOOLEAN
    /\ reads \in [Reads -> [step : {"none", "asked", "answered", "done"},
                            answer : [Ids -> StatusNames]]]
    /\ confirming \in [Ids -> {"none"} \cup CardOps(family)]
    /\ runs \in [Runs -> [id : 0..MaxIds, op : {"none"} \cup CardOps(family),
                          open : BOOLEAN, tx : {"none", "open", "applied"}]]

\* The list is one answer and whole: however the reads of a page overlap and
\* fail, and though those of former visits are still answered, the records that
\* are listed are exactly those of one read of this visit (refresh).
ListIsOneAnswer ==
    \/ list = NoList
    \/ \E r \in Reads :
          /\ reads[r].step = "done"
          /\ \A id \in Ids : list[id] = "none" <=> reads[r].answer[id] = "none"

\* What docs/demo.md tells of the cards: the status shown for a record is one
\* that a read of this visit was answered with, so that it becomes `Approved`
\* once the payment is (toPayment, toEscrow).
ShownWasAnswered ==
    \A id \in Ids :
        list[id] # "none" =>
            \E r \in Reads : reads[r].step = "done" /\ reads[r].answer[id] = list[id]

\* The Refresh button is not disabled for good: it is disabled only while a read
\* of this visit is under way, though answers of several reads, and of visits
\* before, write the one flag behind it.
LoadingIsHonest == loading => \E r \in Reads : reads[r].step \in {"asked", "answered"}
=============================================================================
