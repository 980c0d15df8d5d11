---------------------------- MODULE PagesProofs -----------------------------
(***************************************************************************)
(* Proofs about the lists and cards of the web app, for any number of      *)
(* records, reads and calls: what is listed is one answer of the node, and *)
(* the Refresh button is not disabled for good.                            *)
(***************************************************************************)
EXTENDS Pages, RecursionTheorems

AnyStatus(f) == {"none"} \cup RecordStatuses(f)

(* What a contract may give is a status of the family.                     *)
LEMMA GivesKind ==
    ASSUME NEW f \in FamilyNames
    PROVE  /\ \A op \in CardOps(f) : Gives(op) \in RecordStatuses(f)
           /\ Created(f) \in RecordStatuses(f) /\ "none" \notin RecordStatuses(f)
           /\ "Disputed" \in RecordStatuses(f) => {"Released", "Refunded"} \subseteq RecordStatuses(f)
           /\ RecordStatuses(f) \subseteq StatusNames
BY DEF FamilyNames, CardOps, PaymentOps, EscrowOps, Gives, StatusNames, RecordStatuses, Created

(* What the SDK makes of a status, whatever it is decoded to, is a status. *)
LEMMA RecordKind ==
    ASSUME NEW f \in FamilyNames, NEW native
    PROVE  toRecord(f, native) \in RecordStatuses(f)
BY DEF FamilyNames, toRecord, toPayment, toEscrow, PAYMENT_STATUSES, ESCROW_STATUSES, RecordStatuses

-----------------------------------------------------------------------------
(* The inductive invariant. *)

ReadRecord == [step : {"none", "asked", "answered", "done"}, answer : [Ids -> AnyStatus(family)]]

RunRecord == [id : 0..MaxIds, op : {"none"} \cup CardOps(family), open : BOOLEAN,
              tx : {"none", "open", "applied"}]

Typed ==
    /\ family \in Families
    /\ chain \in [Ids -> AnyStatus(family)] /\ list \in [Ids -> AnyStatus(family)]
    /\ role \in [Ids -> Roles]
    /\ connected \in BOOLEAN /\ loading \in BOOLEAN
    /\ reads \in [Reads -> ReadRecord]
    /\ confirming \in [Ids -> {"none"} \cup CardOps(family)]
    /\ runs \in [Runs -> RunRecord]

\* A call that is under way is one a card may make.
CallsFit == \A i \in Runs : runs[i].tx = "open" => runs[i].op \in CardOps(family)

PagesInv == Typed /\ CallsFit /\ ListIsOneAnswer /\ LoadingIsHonest

LEMMA Family == ASSUME Typed PROVE family \in FamilyNames
BY PagesAssumption DEF Typed, PagesAssumption

LEMMA FirstIsFresh == ASSUME Fresh # {} PROVE First(Fresh) \in Fresh
<1>1. Fresh \subseteq Nat
  BY DEF Fresh, Reads
<1>2. \E m \in Fresh : \A k \in Fresh : m <= k
  BY <1>1, LeastOf
<1>3. QED
  BY <1>2 DEF First

LEMMA NoListTyped == NoList \in [Ids -> AnyStatus(family)]
BY DEF NoList, AnyStatus

LEMMA InvInit == PagesInit => PagesInv
<1> SUFFICES ASSUME PagesInit PROVE PagesInv
  OBVIOUS
<1>1. NoRead \in ReadRecord /\ [NoRead EXCEPT !.step = "asked"] \in ReadRecord
      /\ [NoRead EXCEPT !.step = "none"] \in ReadRecord
  BY NoListTyped DEF NoRead, ReadRecord
<1>2. 1 \in Reads /\ 0 \in 0..MaxIds
  BY PagesAssumption DEF PagesAssumption, Reads
<1>3. NoRun \in RunRecord /\ NoRun.tx = "none"
  BY <1>2 DEF NoRun, RunRecord
<1>4. Typed
  BY <1>1, <1>3, NoListTyped DEF PagesInit, Typed, NoList
<1>5. CallsFit
  BY <1>3 DEF PagesInit, CallsFit
<1>6. \A r \in Reads : reads[r].step = IF r = 1 THEN "asked" ELSE "none"
  BY DEF PagesInit, NoRead
<1>7. ListIsOneAnswer
  BY DEF PagesInit, ListIsOneAnswer
<1>8. LoadingIsHonest
  BY <1>2, <1>6 DEF LoadingIsHonest
<1>9. QED
  BY <1>4, <1>5, <1>7, <1>8 DEF PagesInv

(* Beginning a read. *)
LEMMA ReadBegins ==
    ASSUME PagesInv, BeginRead, UNCHANGED <<family, list>>
    PROVE  /\ reads' \in [Reads -> ReadRecord'] /\ loading' \in BOOLEAN
           /\ ListIsOneAnswer' /\ LoadingIsHonest'
<1> DEFINE r == First(Fresh)
           q == [reads[r] EXCEPT !.step = "asked"]
<1>1. r \in Reads /\ reads[r].step = "none"
  BY FirstIsFresh DEF BeginRead, Fresh
<1>2. q \in ReadRecord /\ q.step = "asked"
  BY <1>1 DEF PagesInv, Typed, ReadRecord
<1>3. reads' = [reads EXCEPT ![r] = q] /\ loading' = TRUE
  BY DEF BeginRead
<1> HIDE DEF r, q
<1>4. reads' \in [Reads -> ReadRecord]
  BY <1>1, <1>2, <1>3 DEF PagesInv, Typed
<1>5. ListIsOneAnswer'
  BY <1>1, <1>3 DEF PagesInv, Typed, ListIsOneAnswer, NoList
<1>6. LoadingIsHonest'
  <2>1. reads'[r].step = "asked"
    BY <1>1, <1>2, <1>3 DEF PagesInv, Typed
  <2>2. QED
    BY <1>1, <2>1 DEF LoadingIsHonest
<1>7. QED
  BY <1>3, <1>4, <1>5, <1>6 DEF ReadRecord

LEMMA InvNext == PagesInv /\ [PagesNext]_pagesVars => PagesInv'
<1> SUFFICES ASSUME PagesInv, [PagesNext]_pagesVars PROVE PagesInv'
  OBVIOUS
<1>0. family \in FamilyNames
  BY Family DEF PagesInv
<1>1. CASE UNCHANGED pagesVars
  BY <1>1 DEF PagesInv, Typed, CallsFit, ListIsOneAnswer, LoadingIsHonest, NoList,
             ReadRecord, RunRecord, pagesVars
<1>2. ASSUME BeginRead \/ UNCHANGED <<reads, loading>>,
             UNCHANGED <<family, chain, role, list, calls>>, connected' \in BOOLEAN
      PROVE  PagesInv'
  <2>1. /\ reads' \in [Reads -> ReadRecord'] /\ loading' \in BOOLEAN
        /\ ListIsOneAnswer' /\ LoadingIsHonest'
    <3>1. CASE BeginRead
      BY <1>2, <3>1, ReadBegins
    <3>2. CASE UNCHANGED <<reads, loading>>
      BY <1>2, <3>2 DEF PagesInv, Typed, ReadRecord, ListIsOneAnswer, LoadingIsHonest, NoList
    <3>3. QED
      BY <1>2, <3>1, <3>2
  <2>2. CallsFit'
    BY <1>2 DEF PagesInv, CallsFit, calls
  <2>3. Typed'
    BY <1>2, <2>1 DEF PagesInv, Typed, RunRecord, calls
  <2>4. QED
    BY <2>1, <2>2, <2>3 DEF PagesInv
<1>3. CASE Refresh \/ ConnectWallet \/ DisconnectWallet
  BY <1>2, <1>3 DEF Refresh, ConnectWallet, DisconnectWallet, PagesInv, Typed
<1>4. ASSUME NEW id \in Ids, SomebodyElse(id) PROVE PagesInv'
  <2>1. UNCHANGED <<family, role, connected, page, runs>>
    BY <1>4 DEF SomebodyElse
  <2>2. chain' \in [Ids -> AnyStatus(family)]
    <3>1. PICK t \in AnyStatus(family) : chain' = [chain EXCEPT ![id] = t]
      <4>1. chain[id] = "Disputed" => {"Released", "Refunded"} \subseteq AnyStatus(family)
        BY <1>0, GivesKind DEF PagesInv, Typed, AnyStatus
      <4>2. QED
        BY <1>0, <1>4, <4>1, GivesKind DEF SomebodyElse, AnyStatus
    <3>2. QED
      BY <3>1 DEF PagesInv, Typed
  <2>3. QED
    BY <2>1, <2>2 DEF PagesInv, Typed, CallsFit, ListIsOneAnswer, LoadingIsHonest, NoList,
                      ReadRecord, RunRecord, page
<1>5. ASSUME NEW r \in Reads, Answer(r) PROVE PagesInv'
  <2> DEFINE q == [step |-> "answered", answer |-> chain]
  <2>1. q \in ReadRecord /\ q.step = "answered" /\ q.answer = chain
    BY DEF ReadRecord, PagesInv, Typed
  <2>2. reads' = [reads EXCEPT ![r] = q]
        /\ UNCHANGED <<family, chain, role, connected, list, loading, calls>>
    BY <1>5 DEF Answer
  <2> HIDE DEF q
  <2>3. reads' \in [Reads -> ReadRecord]
        /\ \A o \in Reads : reads'[o] = IF o = r THEN q ELSE reads[o]
    BY <2>1, <2>2 DEF PagesInv, Typed
  <2>5. ListIsOneAnswer'
    BY <1>5, <2>2, <2>3 DEF PagesInv, ListIsOneAnswer, NoList, Answer
  <2>6. LoadingIsHonest'
    BY <2>1, <2>2, <2>3 DEF PagesInv, LoadingIsHonest
  <2>7. Typed' /\ CallsFit'
    BY <2>2, <2>3 DEF PagesInv, Typed, CallsFit, ReadRecord, RunRecord, calls
  <2>8. QED
    BY <2>5, <2>6, <2>7 DEF PagesInv
<1>6. ASSUME NEW r \in Reads, NEW q \in ReadRecord, q.step = "done",
             list' \in [Ids -> AnyStatus(family)], ListIsOneAnswer', loading' = FALSE,
             reads' = [reads EXCEPT ![r] = q],
             UNCHANGED <<family, chain, role, connected, calls>>
      PROVE  PagesInv'
  <2>1. reads' \in [Reads -> ReadRecord]
    BY <1>6 DEF PagesInv, Typed
  <2>2. LoadingIsHonest'
    BY <1>6 DEF LoadingIsHonest
  <2>3. Typed' /\ CallsFit'
    BY <1>6, <2>1 DEF PagesInv, Typed, CallsFit, ReadRecord, RunRecord, calls
  <2>4. QED
    BY <1>6, <2>2, <2>3 DEF PagesInv
<1>7. ASSUME NEW r \in Reads, Show(r) PROVE PagesInv'
  <2> DEFINE a == reads[r].answer
             q == [reads[r] EXCEPT !.step = "done"]
             shown == [id \in Ids |-> IF a[id] = "none" THEN a[id]
                                      ELSE toRecord(family, Decoded(a[id]))]
  <2>1. reads[r] \in ReadRecord
    BY DEF PagesInv, Typed
  <2>2. q \in ReadRecord /\ q.step = "done" /\ q.answer = a
    BY <2>1 DEF ReadRecord
  <2>3. list' = shown /\ loading' = FALSE /\ reads' = [reads EXCEPT ![r] = q]
        /\ UNCHANGED <<family, chain, role, connected, calls>>
    BY <1>7 DEF Show
  <2>4. shown \in [Ids -> AnyStatus(family)]
    BY <1>0, RecordKind DEF AnyStatus
  <2>5. \A id \in Ids : shown[id] = "none" <=> a[id] = "none"
    BY <1>0, RecordKind, GivesKind
  <2> HIDE DEF q, a, shown
  <2>6. reads'[r] = q
    BY <2>3 DEF PagesInv, Typed
  <2>7. ListIsOneAnswer'
    BY <2>2, <2>3, <2>5, <2>6 DEF ListIsOneAnswer
  <2>8. QED
    BY <1>6, <2>2, <2>3, <2>4, <2>7
<1>8. ASSUME NEW r \in Reads, ReadFails(r) PROVE PagesInv'
  <2> DEFINE q == [NoRead EXCEPT !.step = "done"]
  <2>1. q \in ReadRecord /\ q.step = "done"
    BY NoListTyped DEF NoRead, ReadRecord
  <2>2. loading' = FALSE /\ reads' = [reads EXCEPT ![r] = q] /\ reads[r].step # "done"
        /\ UNCHANGED <<family, chain, role, connected, list, calls>>
    BY <1>8 DEF ReadFails
  <2> HIDE DEF q
  <2>3. ListIsOneAnswer'
    BY <2>2 DEF PagesInv, Typed, ListIsOneAnswer, NoList
  <2>4. list' \in [Ids -> AnyStatus(family)]
    BY <2>2 DEF PagesInv, Typed
  <2>5. QED
    BY <1>6, <2>1, <2>2, <2>3, <2>4
<1>9. CASE Revisit
  <2> DEFINE f == First(Fresh)
             asked == [NoRead EXCEPT !.step = "asked"]
             over == [NoRead EXCEPT !.step = "done"]
  <2>1. f \in Reads /\ f \in Fresh
    BY <1>9, FirstIsFresh DEF Revisit, Fresh
  <2>2. /\ {NoRead, asked, over} \subseteq ReadRecord
        /\ NoRead.step = "none" /\ asked.step = "asked" /\ over.step = "done"
    BY NoListTyped DEF NoRead, ReadRecord
  <2>3. /\ reads' = [r \in Reads |-> IF r = f THEN asked ELSE IF r \in Fresh THEN NoRead ELSE over]
        /\ list' = NoList /\ confirming' = NoList /\ loading' = TRUE
        /\ runs' = [i \in Runs |-> [runs[i] EXCEPT !.open = FALSE]]
        /\ UNCHANGED <<family, chain, role, connected>>
    BY <1>9 DEF Revisit
  <2> HIDE DEF f, asked, over
  <2>4. reads' \in [Reads -> ReadRecord]
    BY <2>2, <2>3
  <2>5. reads'[f].step = "asked"
    BY <2>1, <2>2, <2>3
  <2>6. runs' \in [Runs -> RunRecord]
        /\ \A i \in Runs : runs'[i].op = runs[i].op /\ runs'[i].tx = runs[i].tx
    BY <2>3 DEF PagesInv, Typed, RunRecord
  <2>7. LoadingIsHonest' /\ ListIsOneAnswer'
    BY <2>1, <2>3, <2>5 DEF LoadingIsHonest, ListIsOneAnswer, NoList
  <2>8. CallsFit'
    BY <2>3, <2>6 DEF PagesInv, CallsFit
  <2>9. confirming' \in [Ids -> {"none"} \cup CardOps(family)]
    BY <2>3 DEF NoList
  <2>10. Typed'
    BY <2>3, <2>4, <2>6, <2>9, NoListTyped DEF PagesInv, Typed, ReadRecord, RunRecord
  <2>11. QED
    BY <2>7, <2>8, <2>10 DEF PagesInv
<1>10. ASSUME NEW id \in Ids PROVE Offered(id) \subseteq CardOps(family)
  BY <1>0 DEF Offered, Offers, PaymentOffers, EscrowOffers, CardOps, FamilyNames
<1>11. ASSUME UNCHANGED <<family, chain, role, connected, list, loading, reads>>,
              confirming' \in [Ids -> {"none"} \cup CardOps(family)],
              runs' \in [Runs -> RunRecord], CallsFit'
       PROVE  PagesInv'
  BY <1>11 DEF PagesInv, Typed, ListIsOneAnswer, LoadingIsHonest, NoList, ReadRecord, RunRecord
<1>12. ASSUME NEW id \in Ids, Choose(id) PROVE PagesInv'
  <2>1. PICK op \in {"none"} \cup CardOps(family) : confirming' = [confirming EXCEPT ![id] = op]
    BY <1>10, <1>12 DEF Choose
  <2>2. confirming' \in [Ids -> {"none"} \cup CardOps(family)]
    BY <2>1 DEF PagesInv, Typed
  <2>3. UNCHANGED <<family, chain, role, connected, list, loading, reads, runs>>
    BY <1>12 DEF Choose
  <2>4. QED
    BY <1>11, <2>2, <2>3 DEF PagesInv, Typed, CallsFit
<1>13. ASSUME NEW id \in Ids, Confirm(id) PROVE PagesInv'
  <2> DEFINE q == [id |-> id, op |-> confirming[id], open |-> TRUE, tx |-> "open"]
  <2>1. confirming[id] \in CardOps(family)
    BY <1>10, <1>13 DEF Confirm
  <2>2. id \in 0..MaxIds
    BY DEF Ids
  <2>3. q \in RunRecord /\ q.op \in CardOps(family)
    BY <2>1, <2>2 DEF RunRecord
  <2>4. PICK i \in Runs : runs' = [runs EXCEPT ![i] = q]
    BY <1>13 DEF Confirm
  <2> HIDE DEF q
  <2>5. runs' \in [Runs -> RunRecord] /\ \A j \in Runs : runs'[j] = IF j = i THEN q ELSE runs[j]
    BY <2>3, <2>4 DEF PagesInv, Typed
  <2>6. UNCHANGED <<family, chain, role, connected, list, loading, reads, confirming>>
    BY <1>13 DEF Confirm, page
  <2>7. CallsFit'
    BY <2>3, <2>5, <2>6 DEF PagesInv, CallsFit
  <2>8. QED
    BY <1>11, <2>5, <2>6, <2>7 DEF PagesInv, Typed
<1>14. ASSUME NEW i \in Runs, Apply(i) PROVE PagesInv'
  <2> DEFINE q == [runs[i] EXCEPT !.tx = "applied"]
             k == runs[i].id
             t == Gives(runs[i].op)
  <2>1. runs[i] \in RunRecord /\ runs[i].op \in CardOps(family) /\ chain[k] \in Takes(runs[i].op)
    BY <1>14 DEF Apply, PagesInv, Typed, CallsFit
  <2>2. q \in RunRecord /\ q.tx = "applied"
    BY <2>1 DEF RunRecord
  <2>3. runs' = [runs EXCEPT ![i] = q] /\ chain' = [chain EXCEPT ![k] = t]
        /\ UNCHANGED <<family, role, connected, page>>
    BY <1>14 DEF Apply
  <2>4. t \in RecordStatuses(family)
    BY <1>0, <2>1, GivesKind
  <2>5. chain' \in [Ids -> AnyStatus(family)]
    BY <2>3, <2>4 DEF PagesInv, Typed, AnyStatus
  <2> HIDE DEF q, k, t
  <2>6. runs' \in [Runs -> RunRecord] /\ \A j \in Runs : runs'[j] = IF j = i THEN q ELSE runs[j]
    BY <2>2, <2>3 DEF PagesInv, Typed
  <2>7. CallsFit'
    BY <2>2, <2>3, <2>6 DEF PagesInv, CallsFit
  <2>8. Typed' /\ LoadingIsHonest' /\ ListIsOneAnswer'
    BY <2>3, <2>5, <2>6 DEF PagesInv, Typed, LoadingIsHonest, ListIsOneAnswer, NoList,
                            ReadRecord, RunRecord, page
  <2>9. QED
    BY <2>5, <2>7, <2>8 DEF PagesInv
<1>15. ASSUME NEW i \in Runs, End(i) PROVE PagesInv'
  <2> DEFINE q == [runs[i] EXCEPT !.open = FALSE]
  <2>1. runs[i] \in RunRecord
    BY DEF PagesInv, Typed
  <2>2. q \in RunRecord /\ q.op = runs[i].op /\ q.tx = runs[i].tx
    BY <2>1 DEF RunRecord
  <2>3. runs' = [runs EXCEPT ![i] = q] /\ confirming' = [confirming EXCEPT ![runs[i].id] = "none"]
        /\ UNCHANGED <<family, chain, role, connected, list, loading, reads>>
    BY <1>15 DEF End
  <2> HIDE DEF q
  <2>4. runs' \in [Runs -> RunRecord] /\ \A j \in Runs : runs'[j] = IF j = i THEN q ELSE runs[j]
    BY <2>2, <2>3 DEF PagesInv, Typed
  <2>5. CallsFit'
    BY <2>2, <2>3, <2>4 DEF PagesInv, CallsFit
  <2>6. confirming' \in [Ids -> {"none"} \cup CardOps(family)]
    BY <2>3 DEF PagesInv, Typed
  <2>7. QED
    BY <1>11, <2>3, <2>4, <2>5, <2>6
<1>16. QED
  BY <1>1, <1>3, <1>4, <1>5, <1>7, <1>8, <1>9, <1>12, <1>13, <1>14, <1>15 DEF PagesNext

LEMMA PagesCorrect == PagesSpec => []PagesInv
BY InvInit, InvNext, PTL DEF PagesSpec

-----------------------------------------------------------------------------
(* What follows from it. *)

(* Every variable keeps its type.                                          *)
THEOREM PagesTypeCorrect == PagesSpec => []PagesTypeOK
<1>1. PagesInv => PagesTypeOK
  <2> SUFFICES ASSUME PagesInv PROVE PagesTypeOK
    OBVIOUS
  <2>1. family \in FamilyNames
    BY Family DEF PagesInv
  <2>2. AnyStatus(family) \subseteq StatusNames
    BY <2>1, GivesKind DEF AnyStatus, StatusNames
  <2>3. reads \in [Reads -> [step : {"none", "asked", "answered", "done"},
                             answer : [Ids -> StatusNames]]]
    BY <2>2 DEF PagesInv, Typed, ReadRecord
  <2>4. QED
    BY <2>3 DEF PagesInv, Typed, PagesTypeOK, AnyStatus, RunRecord
<1>2. QED
  BY <1>1, PagesCorrect, PTL

(* What a page lists is one answer of this visit and whole, however reads  *)
(* overlap and fail and however often the page is left (refresh).          *)
THEOREM ListedIsOneAnswer == PagesSpec => []ListIsOneAnswer
<1>1. PagesInv => ListIsOneAnswer
  BY DEF PagesInv
<1>2. QED
  BY <1>1, PagesCorrect, PTL

(* The Refresh button is disabled only while a read of this visit is under *)
(* way, though reads of several clients and visits write its flag.         *)
THEOREM RefreshIsEnabledAgain == PagesSpec => []LoadingIsHonest
<1>1. PagesInv => LoadingIsHonest
  BY DEF PagesInv
<1>2. QED
  BY <1>1, PagesCorrect, PTL
=============================================================================
