---------------------------- MODULE EscrowProofs ----------------------------
(***************************************************************************)
(* Proofs about the escrow contracts for every set of users, contracts and *)
(* assets and every bound: type correctness first, then the invariants     *)
(* that rest on it, the trail of events, and the refinement of Custody.    *)
(***************************************************************************)
EXTENDS Escrow, RecursionTheorems, TLAPS

LEMMA Constants ==
    /\ Users \subseteq Holders /\ Contracts \subseteq Holders
    /\ Payees \subseteq Holders
    /\ Admins \subseteq Users
    /\ Amounts \subseteq Int /\ Timeouts \subseteq Nat /\ Gifts \subseteq Int
    /\ MaxId \in Nat \ {0} /\ MaxTime \in Nat
    /\ Ids \subseteq Nat
    /\ \A u \in Users : u \notin Contracts /\ u # Nobody
BY LedgerAssumption, EscrowAssumption DEF LedgerAssumption, EscrowAssumption, Holders, Ids

\* The balance of h in asset x after n of a has moved.
BalanceAfter(from, to, a, n, h, x) ==
    bal[h][x] - (IF h = from /\ x = a THEN n ELSE 0)
              + (IF h = to /\ x = a THEN n ELSE 0)

(* What a transfer does to each balance, a transfer to oneself included. *)
LEMMA MovedAt ==
    ASSUME bal \in [Holders -> [Assets -> Nat]],
           NEW from \in Holders, NEW to \in Holders, NEW a \in Assets, NEW n \in Nat,
           NEW h \in Holders, NEW x \in Assets
    PROVE  Moved(from, to, a, n)[h][x] = BalanceAfter(from, to, a, n, h, x)
<1> DEFINE debited == [bal EXCEPT ![from][a] = @ - n]
<1>1. debited \in [Holders -> [Assets -> Int]]
  OBVIOUS
<1>2. debited[h][x] = bal[h][x] - (IF h = from /\ x = a THEN n ELSE 0)
  OBVIOUS
<1>3. Moved(from, to, a, n) = [debited EXCEPT ![to][a] = @ + n]
  BY DEF Moved
<1>4. [debited EXCEPT ![to][a] = @ + n][h][x]
        = debited[h][x] + (IF h = to /\ x = a THEN n ELSE 0)
  BY <1>1
<1>5. QED
  BY <1>2, <1>3, <1>4 DEF BalanceAfter

LEMMA MovedType ==
    ASSUME bal \in [Holders -> [Assets -> Nat]],
           NEW from \in Holders, NEW to \in Holders, NEW a \in Assets, NEW n \in Nat,
           bal[from][a] >= n
    PROVE  Moved(from, to, a, n) \in [Holders -> [Assets -> Nat]]
<1>1. Moved(from, to, a, n) \in [Holders -> [Assets -> Int]]
  <2> DEFINE debited == [bal EXCEPT ![from][a] = @ - n]
  <2>1. debited \in [Holders -> [Assets -> Int]]
    OBVIOUS
  <2>2. [debited EXCEPT ![to][a] = @ + n] \in [Holders -> [Assets -> Int]]
    <3> HIDE DEF debited
    <3> QED
      BY <2>1
  <2>3. QED
    BY <2>2 DEF Moved
<1>2. ASSUME NEW h \in Holders, NEW x \in Assets
      PROVE  Moved(from, to, a, n)[h][x] \in Nat
  <2>1. Moved(from, to, a, n)[h][x] = BalanceAfter(from, to, a, n, h, x)
    BY MovedAt
  <2>2. bal[h][x] \in Nat
    OBVIOUS
  <2>3. QED
    BY <2>1, <2>2 DEF BalanceAfter
<1>3. QED
  BY <1>1, <1>2

-----------------------------------------------------------------------------
(* An escrow that is found is a full record, and its parties, amount and   *)
(* asset are what the type says.                                           *)
LEMMA FoundRecord ==
    ASSUME EscrowTypeOK, NEW c \in Contracts, NEW i \in Ids, Found(c, i)
    PROVE  escrows[c][i] \in EscrowRecord
BY DEF EscrowTypeOK, Found, NoEscrow

LEMMA PublishType ==
    ASSUME EscrowTypeOK, NEW c \in Contracts, NEW i \in Ids, NEW topic, NEW data,
           [topic |-> topic, data |-> data] \in EventRecord,
           Publish(c, i, topic, data)
    PROVE  events' \in [Contracts -> [Ids -> Seq(EventRecord)]]
<1> DEFINE e == [topic |-> topic, data |-> data]
<1>1. Append(events[c][i], e) \in Seq(EventRecord)
  BY DEF EscrowTypeOK
<1>2. events' = [events EXCEPT ![c][i] = Append(events[c][i], e)]
  BY DEF Publish
<1>3. QED
  <2> HIDE DEF e
  <2> QED
    BY <1>1, <1>2 DEF EscrowTypeOK

LEMMA StatusType ==
    ASSUME EscrowTypeOK, NEW c \in Contracts, NEW i \in Ids, Found(c, i),
           NEW s \in {"Locked", "Released", "Refunded", "Disputed"},
           SetStatus(c, i, s)
    PROVE  escrows' \in [Contracts -> [Ids -> EscrowRecord \cup {NoEscrow}]]
<1> DEFINE e == [escrows[c][i] EXCEPT !.status = s]
<1>1. e \in EscrowRecord
  BY FoundRecord DEF EscrowRecord
<1>2. escrows' = [escrows EXCEPT ![c][i] = e]
  BY DEF SetStatus
<1>3. QED
  <2> HIDE DEF e
  <2> QED
    BY <1>1, <1>2 DEF EscrowTypeOK

(* A payout that the token does not refuse leaves balances and records     *)
(* well typed.                                                             *)
LEMMA PayOutType ==
    ASSUME EscrowTypeOK, NEW c \in Contracts, NEW i \in Ids, Found(c, i),
           ~PayoutRefused(c, i, TRUE),
           NEW to \in Holders, NEW s \in {"Released", "Refunded"},
           PayOut(c, i, to, s)
    PROVE  /\ bal' \in [Holders -> [Assets -> Nat]]
           /\ escrows' \in [Contracts -> [Ids -> EscrowRecord \cup {NoEscrow}]]
<1> DEFINE e == escrows[c][i]
<1>1. e \in EscrowRecord
  BY FoundRecord
<1>2. e.asset \in Assets /\ e.amount \in Nat
  BY <1>1 DEF EscrowRecord
<1>3. c \in Holders /\ bal[c][e.asset] >= e.amount
  BY <1>2, Constants DEF PayoutRefused, Refused, EscrowTypeOK
<1>4. bal' = Moved(c, to, e.asset, e.amount)
  BY DEF PayOut
<1>5. bal' \in [Holders -> [Assets -> Nat]]
  <2> HIDE DEF e
  <2> QED
    BY <1>2, <1>3, <1>4, MovedType DEF EscrowTypeOK
<1>6. QED
  BY <1>5, StatusType DEF PayOut

-----------------------------------------------------------------------------
LEMMA TypeInit == EscrowInit => EscrowTypeOK
<1> SUFFICES ASSUME EscrowInit PROVE EscrowTypeOK
  OBVIOUS
<1>1. bal \in [Holders -> [Assets -> Nat]]
  BY LedgerAssumption DEF LedgerAssumption, EscrowInit, LedgerInit, Holders
<1>2. events \in [Contracts -> [Ids -> Seq(EventRecord)]]
  BY DEF EscrowInit
<1>3. QED
  BY <1>1, <1>2, Constants DEF EscrowTypeOK, LedgerInit, EscrowInit, NoEscrow

LEMMA TypeCreate ==
    ASSUME EscrowTypeOK, NEW c \in Contracts, NEW d \in Users, NEW b \in Holders,
           NEW n \in Int, NEW a \in Assets, NEW t \in Nat,
           CreateFault(c, d, n, a, t, TRUE) = "ok", CreateEffect(c, d, b, n, a, t),
           signer' \in Users
    PROVE  EscrowTypeOK'
<1> DEFINE id == nextId[c]
           e == [depositor |-> d, beneficiary |-> b, amount |-> n, asset |-> a,
                 status |-> "Locked", createdAt |-> now, timeout |-> t]
<1>1. n > 0 /\ bal[d][a] >= n /\ id <= MaxId
  <2>1. bal[d][a] \in Nat /\ id \in Nat /\ MaxId \in Nat
    BY Constants DEF EscrowTypeOK
  <2>2. ~(n <= 0) /\ ~(bal[d][a] < n) /\ ~(id > MaxId)
    BY DEF CreateFault
  <2>3. QED
    BY <2>1, <2>2
<1>2. n \in Nat \ {0} /\ id \in Ids /\ now \in Nat
  BY <1>1, Constants DEF EscrowTypeOK, Ids
<1>3. e \in EscrowRecord
  BY <1>2 DEF EscrowRecord
<1>4. escrows' \in [Contracts -> [Ids -> EscrowRecord \cup {NoEscrow}]]
  <2>1. escrows' = [escrows EXCEPT ![c][id] = e]
    BY DEF CreateEffect
  <2> HIDE DEF e, id
  <2>2. QED
    BY <1>2, <1>3, <2>1 DEF EscrowTypeOK
<1>5. bal' \in [Holders -> [Assets -> Nat]]
  <2>1. d \in Holders /\ c \in Holders
    BY Constants
  <2>2. bal' = Moved(d, c, a, n)
    BY DEF CreateEffect
  <2>3. QED
    BY <1>1, <1>2, <2>1, <2>2, MovedType DEF EscrowTypeOK
<1>6. events' \in [Contracts -> [Ids -> Seq(EventRecord)]]
  <2>1. [topic |-> "escrow_created", data |-> <<d, b, n>>] \in EventRecord
    BY <1>2 DEF EventRecord
  <2>2. Publish(c, id, "escrow_created", <<d, b, n>>)
    BY DEF CreateEffect
  <2>3. QED
    BY <1>2, <2>1, <2>2, PublishType
<1>7. nextId' \in [Contracts -> 1..(MaxId + 1)]
  <2>1. nextId' = [nextId EXCEPT ![c] = id + 1]
    BY DEF CreateEffect
  <2>2. id + 1 \in 1..(MaxId + 1)
    BY <1>2, Constants DEF Ids
  <2> HIDE DEF id
  <2>3. QED
    BY <2>1, <2>2 DEF EscrowTypeOK
<1>8. QED
  BY <1>4, <1>5, <1>6, <1>7 DEF EscrowTypeOK, CreateEffect

LEMMA TypeRelease ==
    ASSUME EscrowTypeOK, NEW c \in Contracts, NEW u \in Users, NEW i \in Ids, Release(c, u, i)
    PROVE  EscrowTypeOK'
<1> DEFINE e == escrows[c][i]
<1>1. Found(c, i) /\ ~PayoutRefused(c, i, TRUE)
  BY DEF Release, ReleaseFault
<1>2. e.beneficiary \in Holders /\ e.amount \in Nat \ {0}
  BY <1>1, FoundRecord DEF EscrowRecord
<1>3. PayOut(c, i, e.beneficiary, "Released")
  BY DEF Release
<1>4. Publish(c, i, "escrow_released", <<e.beneficiary, e.amount>>)
  BY DEF Release
<1>5. [topic |-> "escrow_released", data |-> <<e.beneficiary, e.amount>>] \in EventRecord
  BY <1>2 DEF EventRecord
<1> HIDE DEF e
<1>6. QED
  BY <1>1, <1>2, <1>3, <1>4, <1>5, PayOutType, PublishType, Constants
  DEF EscrowTypeOK, Release, Signed

LEMMA TypeRefund ==
    ASSUME EscrowTypeOK, NEW c \in Contracts, NEW u \in Users, NEW i \in Ids, Refund(c, u, i)
    PROVE  EscrowTypeOK'
<1> DEFINE e == escrows[c][i]
<1>1. Found(c, i) /\ ~PayoutRefused(c, i, TRUE)
  BY DEF Refund, RefundFault
<1>2. e.depositor \in Holders /\ e.amount \in Nat \ {0}
  BY <1>1, FoundRecord, Constants DEF EscrowRecord
<1>3. PayOut(c, i, e.depositor, "Refunded")
  BY DEF Refund
<1>4. Publish(c, i, "escrow_refunded", <<e.depositor, e.amount>>)
  BY DEF Refund
<1>5. [topic |-> "escrow_refunded", data |-> <<e.depositor, e.amount>>] \in EventRecord
  BY <1>2 DEF EventRecord
<1> HIDE DEF e
<1>6. QED
  BY <1>1, <1>2, <1>3, <1>4, <1>5, PayOutType, PublishType, Constants
  DEF EscrowTypeOK, Refund, Signed

LEMMA TypeDispute ==
    ASSUME EscrowTypeOK, NEW c \in Contracts, NEW u \in Users, NEW i \in Ids, Dispute(c, u, i)
    PROVE  EscrowTypeOK'
<1>1. Found(c, i)
  BY DEF Dispute, DisputeFault
<1>2. SetStatus(c, i, "Disputed") /\ Publish(c, i, "escrow_disputed", <<u>>)
  BY DEF Dispute
<1>3. [topic |-> "escrow_disputed", data |-> <<u>>] \in EventRecord
  BY DEF EventRecord
<1>4. QED
  BY <1>1, <1>2, <1>3, StatusType, PublishType DEF EscrowTypeOK, Dispute, Signed

LEMMA TypeResolve ==
    ASSUME EscrowTypeOK, NEW c \in Contracts, NEW u \in Users, NEW i \in Ids, NEW p \in BOOLEAN,
           ResolveDispute(c, u, i, p)
    PROVE  EscrowTypeOK'
<1> DEFINE e == escrows[c][i]
<1>1. Found(c, i) /\ ~PayoutRefused(c, i, TRUE)
  BY DEF ResolveDispute, ResolveFault
<1>2. e.depositor \in Holders /\ e.beneficiary \in Holders
  BY <1>1, FoundRecord, Constants DEF EscrowRecord
<1>3. PICK to \in Holders, s \in {"Released", "Refunded"} : PayOut(c, i, to, s)
  BY <1>2 DEF ResolveDispute
<1>4. Publish(c, i, "escrow_resolved", <<p>>)
  BY DEF ResolveDispute
<1>5. [topic |-> "escrow_resolved", data |-> <<p>>] \in EventRecord
  BY DEF EventRecord
<1>6. events' \in [Contracts -> [Ids -> Seq(EventRecord)]]
  BY <1>4, <1>5, PublishType, Zenon
<1>7. /\ bal' \in [Holders -> [Assets -> Nat]]
      /\ escrows' \in [Contracts -> [Ids -> EscrowRecord \cup {NoEscrow}]]
  BY <1>1, <1>3, PayOutType
<1>8. signer' = u /\ UNCHANGED <<now, admin, nextId>>
  BY DEF ResolveDispute, Signed
<1>9. QED
  BY <1>6, <1>7, <1>8 DEF EscrowTypeOK

LEMMA TypeLedger ==
    ASSUME EscrowTypeOK, LedgerSteps, UNCHANGED escrowVars
    PROVE  EscrowTypeOK'
<1>1. CASE Tick
  BY <1>1, Constants DEF EscrowTypeOK, Tick, Signed, escrowVars
<1>2. ASSUME NEW u \in Users, Elsewhere(u) PROVE EscrowTypeOK'
  BY <1>2 DEF EscrowTypeOK, Elsewhere, Signed, escrowVars
<1>3. ASSUME NEW u \in Users, NEW to \in Holders, NEW a \in Assets, NEW n \in Gifts,
             Pay(u, to, a, n)
      PROVE  EscrowTypeOK'
  <2>1. n \in Nat /\ u \in Holders
    BY <1>3, Constants DEF Pay
  <2>2. bal[u][a] >= n
    BY <1>3, <2>1 DEF Pay, Refused, EscrowTypeOK
  <2>3. bal' \in [Holders -> [Assets -> Nat]]
    BY <1>3, <2>1, <2>2, MovedType DEF Pay, EscrowTypeOK
  <2>4. QED
    BY <1>3, <2>3 DEF EscrowTypeOK, Pay, Signed, escrowVars
<1>4. QED
  BY <1>1, <1>2, <1>3 DEF LedgerSteps

LEMMA TypeNext == EscrowTypeOK /\ [EscrowNext]_vars => EscrowTypeOK'
<1> SUFFICES ASSUME EscrowTypeOK, [EscrowNext]_vars PROVE EscrowTypeOK'
  OBVIOUS
<1>1. ASSUME NEW c \in Contracts, NEW u \in Admins, Initialize(c, u) PROVE EscrowTypeOK'
  BY <1>1, Constants DEF EscrowTypeOK, Initialize, Signed
<1>2. ASSUME NEW c \in Contracts, NEW d \in Users, NEW b \in Payees, NEW n \in Amounts,
             NEW a \in Assets, NEW t \in Timeouts, CreateEscrow(c, d, b, n, a, t)
      PROVE  EscrowTypeOK'
  <2>1. b \in Holders /\ n \in Int /\ t \in Nat
    BY Constants
  <2>2. QED
    BY <1>2, <2>1, TypeCreate DEF CreateEscrow, Signed
<1>3. ASSUME NEW c \in Contracts, EscrowCalls(c) PROVE EscrowTypeOK'
  BY <1>1, <1>2, <1>3, TypeRelease, TypeRefund, TypeDispute, TypeResolve DEF EscrowCalls
<1>4. CASE LedgerSteps /\ UNCHANGED escrowVars
  BY <1>4, TypeLedger
<1>5. CASE UNCHANGED vars
  BY <1>5 DEF EscrowTypeOK, vars, ledgerVars, escrowVars
<1>6. QED
  BY <1>3, <1>4, <1>5 DEF EscrowNext

(* Every reachable state is well typed; in particular no balance is ever   *)
(* negative and no counter passes its bound.                               *)
THEOREM TypeCorrect == EscrowSpec => []EscrowTypeOK
BY TypeInit, TypeNext, PTL DEF EscrowSpec

-----------------------------------------------------------------------------
(* What a contract ties up, as one of its escrows changes.                 *)
LEMMA DueType ==
    ASSUME NEW e \in EscrowRecord \cup {NoEscrow}, NEW a
    PROVE  Due(e, a) \in Nat
BY DEF EscrowRecord, NoEscrow, Due, IsOpen

LEMMA HeldType ==
    ASSUME EscrowTypeOK, NEW c \in Contracts, NEW a
    PROVE  /\ Held(c, a) \in Nat
           /\ \A i \in Ids : Held(c, a) >= Due(escrows[c][i], a)
<1> DEFINE g == [i \in 1..MaxId |-> Due(escrows[c][i], a)]
<1>1. MaxId \in Nat
  BY Constants
<1>2. \A i \in Ids : Due(escrows[c][i], a) \in Nat
  BY DueType DEF EscrowTypeOK
<1>3. g \in [1..MaxId -> Nat]
  BY <1>2 DEF Ids
<1>4. Held(c, a) = SumTo(g, MaxId) /\ \A i \in Ids : g[i] = Due(escrows[c][i], a)
  BY DEF Held, Ids
<1> HIDE DEF g
<1>5. QED
  BY <1>1, <1>3, <1>4, SumToNat DEF Ids

LEMMA HeldUpdate ==
    ASSUME EscrowTypeOK, EscrowTypeOK', NEW c \in Contracts, NEW i \in Ids, NEW a,
           \A j \in Ids : j # i => escrows'[c][j] = escrows[c][j]
    PROVE  Held(c, a)' = Held(c, a) - Due(escrows[c][i], a) + Due(escrows'[c][i], a)
<1> DEFINE g == [j \in 1..MaxId |-> Due(escrows[c][j], a)]
           h == [j \in 1..MaxId |-> Due(escrows'[c][j], a)]
<1>1. MaxId \in Nat
  BY Constants
<1>2. \A j \in Ids : Due(escrows[c][j], a) \in Nat /\ Due(escrows'[c][j], a) \in Nat
  BY DueType DEF EscrowTypeOK
<1>3. g \in [1..MaxId -> Nat] /\ h \in [1..MaxId -> Nat]
  BY <1>2 DEF Ids
<1>4. Held(c, a) = SumTo(g, MaxId) /\ Held(c, a)' = SumTo(h, MaxId)
  BY DEF Held, Ids
<1>5. \A j \in 1..MaxId : j # i => h[j] = g[j]
  BY DEF Ids
<1>6. i \in 1..MaxId /\ g[i] = Due(escrows[c][i], a) /\ h[i] = Due(escrows'[c][i], a)
  BY DEF Ids
<1> HIDE DEF g, h
<1>7. QED
  BY <1>1, <1>3, <1>4, <1>5, <1>6, SumToUpdate

LEMMA HeldSame ==
    ASSUME NEW c, NEW a, escrows'[c] = escrows[c]
    PROVE  Held(c, a)' = Held(c, a)
BY DEF Held

-----------------------------------------------------------------------------
(* The funds a payout takes out of a contract are those of the escrow it   *)
(* closes, which no longer ties them up.                                   *)
LEMMA SolventPayOut ==
    ASSUME EscrowTypeOK, EscrowTypeOK', Solvency,
           NEW c \in Contracts, NEW i \in Ids, IsOpen(escrows[c][i]),
           NEW to \in Holders, NEW s \in {"Released", "Refunded"},
           PayOut(c, i, to, s)
    PROVE  Solvency'
<1> DEFINE e == escrows[c][i]
<1>1. Found(c, i) /\ e \in EscrowRecord
  BY FoundRecord DEF IsOpen, Found
<1>2. e.asset \in Assets /\ e.amount \in Nat /\ c \in Holders
  BY <1>1, Constants DEF EscrowRecord
<1>3. escrows' = [escrows EXCEPT ![c][i].status = s] /\ bal' = Moved(c, to, e.asset, e.amount)
  BY DEF PayOut, SetStatus
<1>4. /\ escrows'[c][i].status = s
      /\ \A j \in Ids : j # i => escrows'[c][j] = escrows[c][j]
      /\ \A d \in Contracts : d # c => escrows'[d] = escrows[d]
  BY <1>1, <1>3 DEF EscrowTypeOK, EscrowRecord
<1> SUFFICES ASSUME NEW d \in Contracts, NEW a \in Assets
             PROVE  bal'[d][a] >= Held(d, a)'
  BY DEF Solvency
<1>5. bal[d][a] >= Held(d, a) /\ bal[d][a] \in Nat /\ d \in Holders
  BY Constants DEF Solvency, EscrowTypeOK
<1>6. bal'[d][a] = bal[d][a] - (IF d = c /\ a = e.asset THEN e.amount ELSE 0)
                             + (IF d = to /\ a = e.asset THEN e.amount ELSE 0)
  <2>1. bal \in [Holders -> [Assets -> Nat]]
    BY DEF EscrowTypeOK
  <2> HIDE DEF e
  <2>2. Moved(c, to, e.asset, e.amount)[d][a] = BalanceAfter(c, to, e.asset, e.amount, d, a)
    BY <1>2, <1>5, <2>1, MovedAt
  <2>3. QED
    BY <1>3, <2>2 DEF BalanceAfter
<1>7. Held(d, a) \in Nat
  BY HeldType
<1>8. CASE d # c
  <2>1. Held(d, a)' = Held(d, a)
    BY <1>4, <1>8, HeldSame
  <2>2. bal'[d][a] >= bal[d][a]
    BY <1>2, <1>5, <1>6, <1>8
  <2>3. bal'[d][a] \in Int
    BY <1>2, <1>5, <1>6, <1>8
  <2>4. QED
    BY <1>5, <1>7, <2>1, <2>2, <2>3
<1>9. CASE d = c
  <2>1. Held(c, a)' = Held(c, a) - Due(escrows[c][i], a) + Due(escrows'[c][i], a)
    BY <1>4, HeldUpdate
  <2>2. Due(escrows'[c][i], a) = 0
    BY <1>4 DEF Due, IsOpen
  <2>3. Due(escrows[c][i], a) = IF a = e.asset THEN e.amount ELSE 0
    BY DEF Due
  <2>4. Held(c, a)' = Held(c, a) - (IF a = e.asset THEN e.amount ELSE 0)
    BY <1>2, <1>7, <1>9, <2>1, <2>2, <2>3
  <2> HIDE DEF e
  <2>5. QED
    BY <1>2, <1>5, <1>6, <1>7, <1>9, <2>4
<1>10. QED
  BY <1>8, <1>9

(* A new escrow ties up what its depositor has just paid in. *)
LEMMA SolventCreate ==
    ASSUME EscrowTypeOK, EscrowTypeOK', IdsDense, Solvency,
           NEW c \in Contracts, NEW d \in Users, NEW b, NEW n \in Nat,
           NEW a \in Assets, NEW t, nextId[c] \in Ids,
           CreateEffect(c, d, b, n, a, t)
    PROVE  Solvency'
<1> DEFINE id == nextId[c]
<1>1. ~Found(c, id)
  BY DEF IdsDense, EscrowTypeOK
<1>2. /\ escrows'[c][id].amount = n /\ escrows'[c][id].asset = a
      /\ escrows'[c][id].status = "Locked"
      /\ \A j \in Ids : j # id => escrows'[c][j] = escrows[c][j]
      /\ \A k \in Contracts : k # c => escrows'[k] = escrows[k]
  BY DEF CreateEffect, EscrowTypeOK
<1>3. bal' = Moved(d, c, a, n) /\ d \in Holders /\ c \in Holders /\ d \notin Contracts
  BY Constants DEF CreateEffect
<1> SUFFICES ASSUME NEW k \in Contracts, NEW x \in Assets
             PROVE  bal'[k][x] >= Held(k, x)'
  BY DEF Solvency
<1>4. bal[k][x] >= Held(k, x) /\ bal[k][x] \in Nat /\ k \in Holders /\ k # d
  BY <1>3, Constants DEF Solvency, EscrowTypeOK
<1>5. bal'[k][x] = bal[k][x] - (IF k = d /\ x = a THEN n ELSE 0)
                             + (IF k = c /\ x = a THEN n ELSE 0)
  <2>1. bal \in [Holders -> [Assets -> Nat]]
    BY DEF EscrowTypeOK
  <2>2. Moved(d, c, a, n)[k][x] = BalanceAfter(d, c, a, n, k, x)
    BY <1>3, <1>4, <2>1, MovedAt
  <2>3. QED
    BY <1>3, <2>2 DEF BalanceAfter
<1>6. Held(k, x) \in Nat
  BY HeldType
<1>7. CASE k # c
  <2>1. Held(k, x)' = Held(k, x)
    BY <1>2, <1>7, HeldSame
  <2>2. QED
    BY <1>4, <1>5, <1>7, <2>1
<1>8. CASE k = c
  <2>1. Held(c, x)' = Held(c, x) - Due(escrows[c][id], x) + Due(escrows'[c][id], x)
    BY <1>2, HeldUpdate
  <2>2. Due(escrows[c][id], x) = 0
    BY <1>1 DEF Due, IsOpen, Found
  <2>3. Due(escrows'[c][id], x) = IF x = a THEN n ELSE 0
    BY <1>2 DEF Due, IsOpen
  <2>4. QED
    BY <1>4, <1>5, <1>6, <1>8, <2>1, <2>2, <2>3
<1>9. QED
  BY <1>7, <1>8

-----------------------------------------------------------------------------
(* The invariant the others follow from.  A contract that has no admin yet *)
(* has not handed out an id either, for initialize sets the counter back:  *)
(* without this, initialize could hand the same ids out a second time.     *)
Fresh == \A c \in Contracts : admin[c] = Nobody => nextId[c] = 1

EscrowInv == EscrowTypeOK /\ Fresh /\ IdsDense /\ AgesOrdered /\ Solvency

LEMMA InvInit == EscrowInit => EscrowInv
<1> SUFFICES ASSUME EscrowInit PROVE EscrowInv
  OBVIOUS
<1>1. EscrowTypeOK
  BY TypeInit
<1>2. \A c \in Contracts, i \in Ids : escrows[c][i] = NoEscrow /\ nextId[c] = 1
  BY DEF EscrowInit
<1>3. \A c \in Contracts, i \in Ids : ~Found(c, i)
  BY <1>2 DEF Found, NoEscrow
<1>4. Fresh /\ IdsDense /\ AgesOrdered
  BY <1>2, <1>3, Constants DEF Fresh, IdsDense, AgesOrdered, Ids
<1>5. ASSUME NEW c \in Contracts, NEW a \in Assets PROVE bal[c][a] >= Held(c, a)
  <2>1. Held(c, a) = 0
    <3> DEFINE g == [i \in Ids |-> Due(escrows[c][i], a)]
    <3>1. \A i \in 1..MaxId : g[i] = 0
      BY <1>2 DEF Ids, Due, IsOpen, NoEscrow
    <3>2. Held(c, a) = SumTo(g, MaxId)
      BY DEF Held
    <3> HIDE DEF g
    <3>3. QED
      BY <3>1, <3>2, SumToZero, Constants
  <2>2. bal[c][a] \in Nat
    BY <1>1, Constants DEF EscrowTypeOK
  <2>3. QED
    BY <2>1, <2>2
<1>6. QED
  BY <1>1, <1>4, <1>5 DEF EscrowInv, Solvency

(* A record whose status alone changes keeps its age, and an escrow that   *)
(* is found stays found.                                                   *)
LEMMA StatusKeepsOrder ==
    ASSUME EscrowTypeOK, CreationOrder, Fresh,
           NEW c \in Contracts, NEW i \in Ids, Found(c, i),
           NEW s \in {"Locked", "Released", "Refunded", "Disputed"},
           SetStatus(c, i, s), UNCHANGED <<now, admin, nextId>>
    PROVE  CreationOrder' /\ Fresh'
<1>1. escrows[c][i] \in EscrowRecord
  BY FoundRecord
<1>2. \A k \in Contracts, j \in Ids : Found(k, j)' <=> Found(k, j)
  BY <1>1 DEF SetStatus, EscrowTypeOK, EscrowRecord, Found
<1>3. \A k \in Contracts, j \in Ids :
        /\ escrows'[k][j].createdAt = escrows[k][j].createdAt
        /\ escrows'[k][j].timeout = escrows[k][j].timeout
  BY <1>1 DEF SetStatus, EscrowTypeOK, EscrowRecord
<1>4. IdsDense' /\ Fresh'
  BY <1>2 DEF CreationOrder, IdsDense, Fresh
<1>5. \A k \in Contracts, j \in Ids : 1..j \subseteq Ids
  BY Constants DEF Ids
<1>6. AgesOrdered'
  BY <1>2, <1>3, <1>5 DEF CreationOrder, AgesOrdered
<1>7. QED
  BY <1>4, <1>6 DEF CreationOrder

(* A new escrow takes the id after the last, now.                          *)
LEMMA CreateKeepsOrder ==
    ASSUME EscrowTypeOK, CreationOrder, Fresh,
           NEW c \in Contracts, NEW d \in Users, NEW b, NEW n \in Nat,
           NEW a \in Assets, NEW t \in Nat, nextId[c] \in Ids, admin[c] # Nobody,
           now < t, CreateEffect(c, d, b, n, a, t)
    PROVE  CreationOrder' /\ Fresh'
<1> DEFINE id == nextId[c]
<1>1. /\ escrows'[c][id].createdAt = now /\ escrows'[c][id].timeout = t
      /\ escrows'[c][id].status = "Locked"
      /\ \A k \in Contracts, j \in Ids : k # c \/ j # id => escrows'[k][j] = escrows[k][j]
  BY DEF CreateEffect, EscrowTypeOK
<1>2. /\ nextId'[c] = id + 1 /\ now' = now /\ admin' = admin
      /\ \A k \in Contracts : k # c => nextId'[k] = nextId[k]
  BY DEF CreateEffect, EscrowTypeOK
<1>3. id \in Nat /\ Ids \subseteq Nat /\ now \in Nat
  BY Constants DEF EscrowTypeOK
<1>4. \A k \in Contracts, j \in Ids : Found(k, j)' <=> Found(k, j) \/ (k = c /\ j = id)
  BY <1>1 DEF Found
<1>5. IdsDense'
  <2>1. ASSUME NEW k \in Contracts, NEW j \in Ids PROVE Found(k, j)' <=> j < nextId'[k]
    <3>1. Found(k, j) <=> j < nextId[k]
      BY DEF CreationOrder, IdsDense
    <3> HIDE DEF id
    <3>2. CASE k = c
      <4>1. j < id + 1 <=> j < id \/ j = id
        BY <1>3
      <4>2. QED
        BY <1>2, <1>4, <3>1, <3>2, <4>1 DEF id
    <3>3. CASE k # c
      BY <1>2, <1>4, <3>1, <3>3
    <3>4. QED
      BY <3>2, <3>3
  <2>2. QED
    BY <2>1 DEF IdsDense
<1>6. Fresh'
  BY <1>2 DEF Fresh
<1>7. AgesOrdered'
  <2> SUFFICES ASSUME NEW k \in Contracts, NEW j \in Ids, Found(k, j)'
               PROVE  /\ escrows'[k][j].createdAt <= now
                      /\ escrows'[k][j].createdAt < escrows'[k][j].timeout
                      /\ \A m \in 1..j : escrows'[k][m].createdAt <= escrows'[k][j].createdAt
    BY <1>2 DEF AgesOrdered
  <2>1. 1..j \subseteq Ids
    BY Constants DEF Ids
  <2>2. CASE k = c /\ j = id
    <3>1. ASSUME NEW m \in 1..j, m # id PROVE escrows'[c][m].createdAt <= now
      <4>1. m \in Ids /\ m < nextId[c]
        BY <1>3, <2>1, <2>2, <3>1
      <4>2. Found(c, m)
        BY <4>1 DEF CreationOrder, IdsDense
      <4>3. QED
        BY <1>1, <3>1, <4>1, <4>2 DEF CreationOrder, AgesOrdered
    <3>2. QED
      BY <1>1, <1>3, <2>2, <3>1
  <2>3. CASE ~(k = c /\ j = id)
    <3>1. Found(k, j) /\ escrows'[k][j] = escrows[k][j]
      BY <1>1, <1>4, <2>3
    <3>2. ASSUME NEW m \in 1..j PROVE escrows'[k][m] = escrows[k][m]
      <4>1. m \in Ids /\ m <= j
        BY <1>3, <2>1
      <4>2. j < nextId[k]
        BY <3>1 DEF CreationOrder, IdsDense
      <4>3. k = c => m # id
        BY <1>3, <4>1, <4>2
      <4>4. QED
        BY <1>1, <4>1, <4>3
    <3>3. QED
      BY <3>1, <3>2 DEF CreationOrder, AgesOrdered
  <2>4. QED
    BY <2>2, <2>3
<1>8. QED
  BY <1>5, <1>6, <1>7 DEF CreationOrder

-----------------------------------------------------------------------------
LEMMA InvInitialize ==
    ASSUME EscrowInv, EscrowTypeOK', NEW c \in Contracts, NEW u \in Admins, Initialize(c, u)
    PROVE  EscrowInv'
<1>1. nextId' = nextId
  <2>1. admin[c] = Nobody
    BY DEF Initialize, InitializeFault
  <2>2. nextId[c] = 1
    BY <2>1 DEF EscrowInv, Fresh
  <2>3. QED
    BY <2>2 DEF Initialize, EscrowInv, EscrowTypeOK
<1>2. UNCHANGED <<now, bal, escrows>>
  BY DEF Initialize
<1>3. Fresh'
  BY <1>1, Constants DEF Fresh, EscrowInv, EscrowTypeOK, Initialize
<1>4. IdsDense' /\ AgesOrdered'
  BY <1>1, <1>2 DEF EscrowInv, IdsDense, AgesOrdered, Found
<1>5. Solvency'
  BY <1>2, HeldSame DEF EscrowInv, Solvency
<1>6. QED
  BY <1>3, <1>4, <1>5 DEF EscrowInv

LEMMA InvCreate ==
    ASSUME EscrowInv, EscrowTypeOK', NEW c \in Contracts, NEW d \in Users, NEW b \in Payees,
           NEW n \in Amounts, NEW a \in Assets, NEW t \in Timeouts,
           CreateEscrow(c, d, b, n, a, t)
    PROVE  EscrowInv'
<1>1. CreateFault(c, d, n, a, t, TRUE) = "ok" /\ CreateEffect(c, d, b, n, a, t)
  BY DEF CreateEscrow
<1>2. n \in Int /\ t \in Nat /\ now \in Nat /\ nextId[c] \in Nat \ {0} /\ MaxId \in Nat
  BY Constants DEF EscrowInv, EscrowTypeOK
<1>3. ~(n <= 0) /\ ~(t <= now) /\ ~(nextId[c] > MaxId) /\ admin[c] # Nobody
  BY <1>1 DEF CreateFault
<1>4. n \in Nat /\ now < t /\ nextId[c] \in Ids
  BY <1>2, <1>3 DEF Ids
<1>5. CreationOrder' /\ Fresh'
  BY <1>1, <1>2, <1>3, <1>4, CreateKeepsOrder DEF EscrowInv, CreationOrder
<1>6. Solvency'
  BY <1>1, <1>4, SolventCreate DEF EscrowInv
<1>7. QED
  BY <1>5, <1>6 DEF EscrowInv, CreationOrder

(* A payout of an open escrow, by whichever operation makes it. *)
LEMMA InvPayOut ==
    ASSUME EscrowInv, EscrowTypeOK', NEW c \in Contracts, NEW i \in Ids,
           IsOpen(escrows[c][i]), NEW to \in Holders, NEW s \in {"Released", "Refunded"},
           PayOut(c, i, to, s), UNCHANGED <<now, admin, nextId>>
    PROVE  EscrowInv'
<1>1. Found(c, i) /\ SetStatus(c, i, s)
  BY DEF IsOpen, Found, PayOut
<1>2. CreationOrder' /\ Fresh'
  BY <1>1, StatusKeepsOrder DEF EscrowInv, CreationOrder
<1>3. Solvency'
  BY SolventPayOut DEF EscrowInv
<1>4. QED
  BY <1>2, <1>3 DEF EscrowInv, CreationOrder

LEMMA InvRelease ==
    ASSUME EscrowInv, EscrowTypeOK', NEW c \in Contracts, NEW u \in Users, NEW i \in Ids,
           Release(c, u, i)
    PROVE  EscrowInv'
<1> DEFINE e == escrows[c][i]
<1>1. Found(c, i) /\ e.status = "Locked"
  BY DEF Release, ReleaseFault
<1>2. e.beneficiary \in Holders /\ e.depositor \in Holders
  BY <1>1, FoundRecord, Constants DEF EscrowInv, EscrowRecord
<1>3. PayOut(c, i, e.beneficiary, "Released") /\ UNCHANGED <<now, admin, nextId>>
  BY DEF Release
<1>4. QED
  BY <1>1, <1>2, <1>3, InvPayOut DEF IsOpen

LEMMA InvRefund ==
    ASSUME EscrowInv, EscrowTypeOK', NEW c \in Contracts, NEW u \in Users, NEW i \in Ids,
           Refund(c, u, i)
    PROVE  EscrowInv'
<1> DEFINE e == escrows[c][i]
<1>1. Found(c, i) /\ e.status = "Locked"
  BY DEF Refund, RefundFault
<1>2. e.beneficiary \in Holders /\ e.depositor \in Holders
  BY <1>1, FoundRecord, Constants DEF EscrowInv, EscrowRecord
<1>3. PayOut(c, i, e.depositor, "Refunded") /\ UNCHANGED <<now, admin, nextId>>
  BY DEF Refund
<1>4. QED
  BY <1>1, <1>2, <1>3, InvPayOut DEF IsOpen

LEMMA InvResolve ==
    ASSUME EscrowInv, EscrowTypeOK', NEW c \in Contracts, NEW u \in Users, NEW i \in Ids,
           NEW p \in BOOLEAN, ResolveDispute(c, u, i, p)
    PROVE  EscrowInv'
<1> DEFINE e == escrows[c][i]
<1>1. Found(c, i) /\ e.status = "Disputed"
  BY DEF ResolveDispute, ResolveFault
<1>2. e.beneficiary \in Holders /\ e.depositor \in Holders
  BY <1>1, FoundRecord, Constants DEF EscrowInv, EscrowRecord
<1>3. PICK to \in Holders, s \in {"Released", "Refunded"} : PayOut(c, i, to, s)
  BY <1>2 DEF ResolveDispute
<1>4. UNCHANGED <<now, admin, nextId>>
  BY DEF ResolveDispute
<1>5. QED
  BY <1>1, <1>3, <1>4, InvPayOut DEF IsOpen

LEMMA InvDispute ==
    ASSUME EscrowInv, EscrowTypeOK', NEW c \in Contracts, NEW u \in Users, NEW i \in Ids,
           Dispute(c, u, i)
    PROVE  EscrowInv'
<1>1. Found(c, i) /\ escrows[c][i].status = "Locked" /\ SetStatus(c, i, "Disputed")
  BY DEF Dispute, DisputeFault
<1>2. UNCHANGED <<now, bal, admin, nextId>>
  BY DEF Dispute
<1>3. CreationOrder' /\ Fresh'
  BY <1>1, <1>2, StatusKeepsOrder DEF EscrowInv, CreationOrder
<1>4. escrows[c][i] \in EscrowRecord
  BY <1>1, FoundRecord DEF EscrowInv
<1>5. /\ \A j \in Ids : j # i => escrows'[c][j] = escrows[c][j]
      /\ \A k \in Contracts : k # c => escrows'[k] = escrows[k]
  BY <1>1 DEF SetStatus, EscrowInv, EscrowTypeOK
<1>6. ASSUME NEW a PROVE Due(escrows'[c][i], a) = Due(escrows[c][i], a)
  BY <1>1, <1>4 DEF SetStatus, EscrowInv, EscrowTypeOK, EscrowRecord, Due, IsOpen
<1>7. ASSUME NEW k \in Contracts, NEW a \in Assets PROVE Held(k, a)' = Held(k, a)
  <2>1. CASE k = c
    <3>1. Held(c, a)' = Held(c, a) - Due(escrows[c][i], a) + Due(escrows'[c][i], a)
      BY <1>5, HeldUpdate DEF EscrowInv
    <3>2. Held(c, a) \in Nat /\ Due(escrows[c][i], a) \in Nat
      BY <1>4, HeldType, DueType DEF EscrowInv
    <3>3. QED
      BY <1>6, <2>1, <3>1, <3>2
  <2>2. CASE k # c
    BY <1>5, <2>2, HeldSame
  <2>3. QED
    BY <2>1, <2>2
<1>8. Solvency'
  BY <1>2, <1>7 DEF EscrowInv, Solvency
<1>9. QED
  BY <1>3, <1>8 DEF EscrowInv, CreationOrder

(* Time passes, and users pay each other or a contract: nothing here can   *)
(* take funds out of a contract.                                           *)
LEMMA InvLedger ==
    ASSUME EscrowInv, EscrowTypeOK', LedgerSteps, UNCHANGED escrowVars
    PROVE  EscrowInv'
<1>1. UNCHANGED <<admin, nextId, escrows>>
  BY DEF escrowVars
<1>2. now \in Int /\ now' \in Int /\ now <= now'
  <2>1. now \in Int /\ now' \in Int
    BY DEF EscrowInv, EscrowTypeOK
  <2>2. now' = now \/ now' = now + 1
    BY DEF LedgerSteps, Tick, Pay, Elsewhere
  <2>3. QED
    BY <2>1, <2>2
<1>3. \A c \in Contracts, i \in Ids :
        Found(c, i) => escrows[c][i].createdAt \in Nat
  BY FoundRecord DEF EscrowInv, EscrowRecord
<1>4. Fresh' /\ IdsDense' /\ AgesOrdered'
  BY <1>1, <1>2, <1>3 DEF EscrowInv, Fresh, IdsDense, AgesOrdered, Found
<1>5. ASSUME NEW c \in Contracts, NEW x \in Assets PROVE bal'[c][x] >= bal[c][x]
  <2>1. bal \in [Holders -> [Assets -> Nat]] /\ c \in Holders
    BY Constants DEF EscrowInv, EscrowTypeOK
  <2>2. bal[c][x] \in Nat
    BY <2>1
  <2>3. CASE UNCHANGED bal
    BY <2>2, <2>3
  <2>4. ASSUME NEW u \in Users, NEW to \in Holders, NEW a \in Assets, NEW n \in Gifts,
               Pay(u, to, a, n)
        PROVE  bal'[c][x] >= bal[c][x]
    <3>1. n \in Nat /\ u \in Holders /\ u # c
      BY <2>4, Constants DEF Pay
    <3>2. bal'[c][x] = BalanceAfter(u, to, a, n, c, x)
      BY <2>1, <2>4, <3>1, MovedAt DEF Pay
    <3>3. QED
      BY <2>2, <3>1, <3>2 DEF BalanceAfter
  <2>5. QED
    BY <2>3, <2>4 DEF LedgerSteps, Tick, Elsewhere
<1>6. ASSUME NEW c \in Contracts, NEW a \in Assets PROVE bal'[c][a] >= Held(c, a)'
  <2>1. Held(c, a)' = Held(c, a) /\ Held(c, a) \in Nat
    BY <1>1, HeldSame, HeldType DEF EscrowInv
  <2>2. bal[c][a] \in Nat /\ bal'[c][a] \in Nat /\ bal[c][a] >= Held(c, a)
    BY Constants DEF EscrowInv, EscrowTypeOK, Solvency
  <2>3. QED
    BY <1>5, <2>1, <2>2
<1>7. QED
  BY <1>4, <1>6 DEF EscrowInv, Solvency

LEMMA InvNext == EscrowInv /\ [EscrowNext]_vars => EscrowInv'
<1> SUFFICES ASSUME EscrowInv, [EscrowNext]_vars PROVE EscrowInv'
  OBVIOUS
<1>1. EscrowTypeOK'
  BY TypeNext DEF EscrowInv
<1>2. ASSUME NEW c \in Contracts, EscrowCalls(c) PROVE EscrowInv'
  BY <1>1, <1>2, InvInitialize, InvCreate, InvRelease, InvRefund, InvResolve, InvDispute DEF EscrowCalls
<1>3. CASE LedgerSteps /\ UNCHANGED escrowVars
  BY <1>1, <1>3, InvLedger
<1>4. CASE UNCHANGED vars
  <2>1. UNCHANGED <<now, bal, admin, nextId, escrows>>
    BY <1>4 DEF vars, ledgerVars, escrowVars
  <2>2. QED
    BY <1>1, <2>1 DEF EscrowInv, Fresh, IdsDense, AgesOrdered, Found, Solvency, Held
<1>5. QED
  BY <1>2, <1>3, <1>4 DEF EscrowNext

LEMMA InvCorrect == EscrowSpec => []EscrowInv
BY InvInit, InvNext, PTL DEF EscrowSpec

(* A contract can always cover what its open escrows tie up, whatever the  *)
(* order of creations, releases, refunds, disputes and resolutions.        *)
THEOREM Solvent == EscrowSpec => []Solvency
BY InvCorrect, PTL DEF EscrowInv

(* Ids come in order and without gaps, in the order of creation, and each  *)
(* escrow was created before its timeout.                                  *)
THEOREM CreatedInOrder == EscrowSpec => []CreationOrder
BY InvCorrect, PTL DEF EscrowInv, CreationOrder

-----------------------------------------------------------------------------
(* The contract has the funds to settle any open escrow, and an admin.     *)
LEMMA OpenIsCovered ==
    ASSUME EscrowInv, NEW c \in Contracts, NEW i \in Ids, IsOpen(escrows[c][i])
    PROVE  Found(c, i) /\ ~PayoutRefused(c, i, TRUE) /\ admin[c] \in Users \ {Nobody}
<1> DEFINE e == escrows[c][i]
<1>1. Found(c, i) /\ e \in EscrowRecord
  BY FoundRecord DEF EscrowInv, IsOpen, Found
<1>2. e.asset \in Assets /\ e.amount \in Nat
  BY <1>1 DEF EscrowRecord
<1>3. Due(e, e.asset) = e.amount
  BY DEF Due
<1>4. Held(c, e.asset) \in Nat /\ Held(c, e.asset) >= e.amount
  <2>1. Held(c, e.asset) >= Due(e, e.asset)
    BY HeldType DEF EscrowInv
  <2>2. QED
    BY <1>3, <2>1, HeldType DEF EscrowInv
<1>5. bal[c][e.asset] >= e.amount
  <2>1. bal[c][e.asset] >= Held(c, e.asset) /\ bal[c][e.asset] \in Nat
    BY <1>2, Constants DEF EscrowInv, EscrowTypeOK, Solvency
  <2>2. QED
    BY <1>2, <1>4, <2>1
<1>6. ~PayoutRefused(c, i, TRUE)
  <2>1. bal[c][e.asset] \in Nat
    BY <1>2, Constants DEF EscrowInv, EscrowTypeOK
  <2>2. ~(bal[c][e.asset] < e.amount)
    BY <1>2, <1>5, <2>1
  <2>3. QED
    BY <2>2 DEF PayoutRefused, Refused
<1>7. admin[c] # Nobody
  <2>1. i < nextId[c] /\ 1 <= i
    BY <1>1 DEF EscrowInv, IdsDense, Ids
  <2>2. nextId[c] # 1
    BY <2>1, Constants DEF EscrowInv, EscrowTypeOK
  <2>3. QED
    BY <2>2 DEF EscrowInv, Fresh
<1>8. admin[c] \in Users
  BY <1>7, Constants DEF EscrowInv, EscrowTypeOK
<1>9. QED
  BY <1>1, <1>6, <1>7, <1>8

LEMMA SettleableHolds == EscrowInv => Settleable
<1> SUFFICES ASSUME EscrowInv, NEW c \in Contracts, NEW i \in Ids, IsOpen(escrows[c][i])
             PROVE  \E u \in Users :
                      \/ /\ ReleaseFault(c, u, i, TRUE) = "ok"
                         /\ \E v \in Users : RefundFault(c, v, i, TRUE) = "ok"
                      \/ ResolveFault(c, u, i, TRUE) = "ok"
  BY DEF Settleable
<1> DEFINE e == escrows[c][i]
<1>1. Found(c, i) /\ ~PayoutRefused(c, i, TRUE) /\ admin[c] \in Users \ {Nobody}
  BY OpenIsCovered
<1>2. e.depositor \in Users
  BY <1>1, FoundRecord DEF EscrowInv, EscrowRecord
<1>3. CASE e.status = "Locked"
  <2>1. ReleaseFault(c, e.depositor, i, TRUE) = "ok"
    BY <1>1, <1>3 DEF ReleaseFault, IsParty
  <2>2. RefundFault(c, e.depositor, i, TRUE) = "ok"
    BY <1>1, <1>3 DEF RefundFault
  <2>3. QED
    BY <1>2, <2>1, <2>2
<1>4. CASE e.status = "Disputed"
  <2>1. ResolveFault(c, admin[c], i, TRUE) = "ok"
    BY <1>1, <1>4 DEF ResolveFault
  <2>2. QED
    BY <1>1, <2>1
<1>5. QED
  BY <1>3, <1>4 DEF IsOpen

(* No funds are ever stranded: every open escrow can be settled by one of  *)
(* its parties or by the admin, and the contract has the funds for it.     *)
THEOREM NeverStranded == EscrowSpec => []Settleable
BY InvCorrect, SettleableHolds, PTL

-----------------------------------------------------------------------------
(* A transfer lowers no balance but that of the one it is taken from. *)
LEMMA OnlyPayerPays ==
    ASSUME EscrowTypeOK, NEW from \in Holders, NEW to \in Holders, NEW a \in Assets,
           NEW n \in Nat, bal' = Moved(from, to, a, n),
           NEW u \in Users, NEW x \in Assets, bal'[u][x] < bal[u][x]
    PROVE  u = from
<1>1. u \in Holders /\ bal[u][x] \in Nat
  BY Constants DEF EscrowTypeOK
<1>2. bal'[u][x] = BalanceAfter(from, to, a, n, u, x)
  BY <1>1, MovedAt DEF EscrowTypeOK
<1>3. SUFFICES ASSUME u # from PROVE FALSE
  OBVIOUS
<1>4. QED
  BY <1>1, <1>2, <1>3 DEF BalanceAfter

LEMMA OwnFundsStep ==
    ASSUME EscrowTypeOK, [EscrowNext]_vars,
           NEW u \in Users, NEW x \in Assets, bal'[u][x] < bal[u][x]
    PROVE  signer' = u
<1>0. bal[u][x] \in Nat /\ ~UNCHANGED bal /\ u \in Holders /\ u \notin Contracts
  <2>1. bal[u][x] \in Nat /\ u \in Holders /\ u \notin Contracts
    BY Constants DEF EscrowTypeOK
  <2>2. QED
    BY <2>1
<1>1. ASSUME NEW c \in Contracts, NEW i \in Ids, NEW to \in Holders, NEW s,
             Found(c, i), PayOut(c, i, to, s)
      PROVE  FALSE
  <2> DEFINE e == escrows[c][i]
  <2>1. e.asset \in Assets /\ e.amount \in Nat /\ c \in Holders
    BY <1>1, FoundRecord, Constants DEF EscrowRecord
  <2>2. bal' = Moved(c, to, e.asset, e.amount)
    BY <1>1 DEF PayOut
  <2> HIDE DEF e
  <2>3. u = c
    BY <1>1, <2>1, <2>2, OnlyPayerPays
  <2>4. QED
    BY <1>0, <1>1, <2>3
<1>2. ASSUME NEW c \in Contracts, NEW i \in Ids, Found(c, i)
      PROVE  escrows[c][i].depositor \in Holders /\ escrows[c][i].beneficiary \in Holders
  BY <1>2, FoundRecord, Constants DEF EscrowRecord
<1>3. ASSUME NEW c \in Contracts, NEW v \in Users, NEW i \in Ids, Release(c, v, i) PROVE FALSE
  BY <1>1, <1>2, <1>3 DEF Release, ReleaseFault
<1>4. ASSUME NEW c \in Contracts, NEW v \in Users, NEW i \in Ids, Refund(c, v, i) PROVE FALSE
  BY <1>1, <1>2, <1>4 DEF Refund, RefundFault
<1>5. ASSUME NEW c \in Contracts, NEW v \in Users, NEW i \in Ids, NEW p \in BOOLEAN,
             ResolveDispute(c, v, i, p)
      PROVE  FALSE
  <2>1. Found(c, i)
    BY <1>5 DEF ResolveDispute, ResolveFault
  <2>2. PICK to \in Holders, s \in {"Released", "Refunded"} : PayOut(c, i, to, s)
    BY <1>2, <1>5, <2>1 DEF ResolveDispute
  <2>3. QED
    BY <1>1, <2>1, <2>2
<1>6. ASSUME NEW c \in Contracts, NEW d \in Users, NEW b \in Payees, NEW n \in Amounts,
             NEW a \in Assets, NEW t \in Timeouts, CreateEscrow(c, d, b, n, a, t)
      PROVE  signer' = u
  <2>1. n \in Nat /\ d \in Holders /\ c \in Holders
    <3>1. n \in Int /\ ~(n <= 0)
      BY <1>6, Constants DEF CreateEscrow, CreateFault
    <3>2. QED
      BY <3>1, Constants
  <2>2. bal' = Moved(d, c, a, n)
    BY <1>6 DEF CreateEscrow, CreateEffect
  <2>3. u = d
    BY <2>1, <2>2, OnlyPayerPays
  <2>4. QED
    BY <1>6, <2>3 DEF CreateEscrow, Signed
<1>7. ASSUME NEW v \in Users, NEW to \in Holders, NEW a \in Assets, NEW n \in Gifts,
             Pay(v, to, a, n)
      PROVE  signer' = u
  <2>1. n \in Nat /\ v \in Holders
    BY <1>7, Constants DEF Pay
  <2>2. u = v
    BY <1>7, <2>1, OnlyPayerPays DEF Pay
  <2>3. QED
    BY <1>7, <2>2 DEF Pay, Signed
<1>8. ASSUME NEW c \in Contracts, EscrowCalls(c) PROVE signer' = u
  BY <1>0, <1>3, <1>4, <1>5, <1>6, <1>8 DEF EscrowCalls, Initialize, Dispute
<1>9. CASE LedgerSteps
  BY <1>0, <1>7, <1>9 DEF LedgerSteps, Tick, Elsewhere
<1>10. QED
  BY <1>0, <1>8, <1>9 DEF EscrowNext, vars, ledgerVars

(* Tokens leave a user only in an invocation that user signed. *)
THEOREM SpentByOwner == EscrowSpec => OwnFundsOnly
<1>1. EscrowTypeOK /\ [EscrowNext]_vars =>
        [\A u \in Users, a \in Assets : bal'[u][a] < bal[u][a] => signer' = u]_vars
  BY OwnFundsStep
<1>2. QED
  BY <1>1, TypeCorrect, PTL DEF EscrowSpec, OwnFundsOnly

-----------------------------------------------------------------------------
\* What SettledByRight says of the step of escrow i at c.
Entitled(c, i) ==
    LET e == escrows[c][i]
        f == escrows'[c][i]
    IN  /\ e.status = "Locked" => signer' \in {e.depositor, e.beneficiary}
        /\ e.status = "Locked" /\ f.status = "Refunded" => signer' = e.depositor
        /\ e.status = "Disputed" => signer' = admin[c]

(* The status of one escrow at most changes in a payout or a dispute. *)
LEMMA StatusElsewhere ==
    ASSUME EscrowTypeOK, NEW k \in Contracts, NEW j \in Ids, NEW s, Found(k, j), SetStatus(k, j, s),
           NEW c \in Contracts, NEW i \in Ids, escrows[c][i].status # escrows'[c][i].status
    PROVE  c = k /\ i = j /\ escrows'[c][i].status = s
<1>1. escrows[k][j] \in EscrowRecord
  BY FoundRecord
<1>2. QED
  BY <1>1 DEF EscrowTypeOK, SetStatus, EscrowRecord

LEMMA EntitledStep ==
    ASSUME EscrowInv, [EscrowNext]_vars,
           NEW c \in Contracts, NEW i \in Ids, Found(c, i),
           escrows[c][i].status # escrows'[c][i].status
    PROVE  Entitled(c, i)
<1> USE DEF EscrowInv
<1>1. ASSUME NEW k \in Contracts, NEW u \in Users, NEW j \in Ids, Release(k, u, j)
      PROVE  Entitled(c, i)
  <2>1. Found(k, j) /\ escrows[k][j].status = "Locked" /\ IsParty(k, u, j)
    BY <1>1 DEF Release, ReleaseFault
  <2>2. SetStatus(k, j, "Released") /\ signer' = u
    BY <1>1 DEF Release, PayOut, Signed
  <2>3. c = k /\ i = j /\ escrows'[c][i].status = "Released"
    BY <2>1, <2>2, StatusElsewhere
  <2>4. QED
    BY <2>1, <2>2, <2>3 DEF Entitled, IsParty
<1>2. ASSUME NEW k \in Contracts, NEW u \in Users, NEW j \in Ids, Refund(k, u, j)
      PROVE  Entitled(c, i)
  <2>1. Found(k, j) /\ escrows[k][j].status = "Locked" /\ u = escrows[k][j].depositor
    BY <1>2 DEF Refund, RefundFault
  <2>2. SetStatus(k, j, "Refunded") /\ signer' = u
    BY <1>2 DEF Refund, PayOut, Signed
  <2>3. c = k /\ i = j
    BY <2>1, <2>2, StatusElsewhere
  <2>4. QED
    BY <2>1, <2>2, <2>3 DEF Entitled
<1>3. ASSUME NEW k \in Contracts, NEW u \in Users, NEW j \in Ids, Dispute(k, u, j)
      PROVE  Entitled(c, i)
  <2>1. Found(k, j) /\ escrows[k][j].status = "Locked" /\ IsParty(k, u, j)
    BY <1>3 DEF Dispute, DisputeFault
  <2>2. SetStatus(k, j, "Disputed") /\ signer' = u
    BY <1>3 DEF Dispute, Signed
  <2>3. c = k /\ i = j /\ escrows'[c][i].status = "Disputed"
    BY <2>1, <2>2, StatusElsewhere
  <2>4. QED
    BY <2>1, <2>2, <2>3 DEF Entitled, IsParty
<1>4. ASSUME NEW k \in Contracts, NEW u \in Users, NEW j \in Ids, NEW p \in BOOLEAN,
             ResolveDispute(k, u, j, p)
      PROVE  Entitled(c, i)
  <2>1. Found(k, j) /\ escrows[k][j].status = "Disputed" /\ u = admin[k]
    BY <1>4 DEF ResolveDispute, ResolveFault
  <2>2. PICK s : SetStatus(k, j, s)
    BY <1>4 DEF ResolveDispute, PayOut
  <2>3. signer' = u
    BY <1>4 DEF ResolveDispute, Signed
  <2>4. c = k /\ i = j
    BY <2>1, <2>2, StatusElsewhere
  <2>5. QED
    BY <2>1, <2>3, <2>4 DEF Entitled
<1>5. ASSUME NEW k \in Contracts, NEW d \in Users, NEW b \in Payees, NEW n \in Amounts,
             NEW a \in Assets, NEW t \in Timeouts, CreateEscrow(k, d, b, n, a, t)
      PROVE  FALSE
  <2>1. ~(c = k /\ i = nextId[k])
    BY Constants DEF IdsDense, EscrowTypeOK, Ids
  <2>2. escrows'[c][i] = escrows[c][i]
    BY <1>5, <2>1 DEF CreateEscrow, CreateEffect, EscrowTypeOK
  <2>3. QED
    BY <2>2
<1>6. ASSUME NEW k \in Contracts, EscrowCalls(k) PROVE Entitled(c, i)
  BY <1>1, <1>2, <1>3, <1>4, <1>5, <1>6 DEF EscrowCalls, Initialize
<1>7. QED
  BY <1>6 DEF EscrowNext, vars, escrowVars

(* Who moves an open escrow is entitled to: its parties while it is        *)
(* Locked, the admin alone once it is Disputed.                            *)
THEOREM MovedByRight == EscrowSpec => SettledByRight
<1>1. EscrowInv /\ [EscrowNext]_vars =>
        [\A c \in Contracts, i \in Ids :
           LET e == escrows[c][i]
               f == escrows'[c][i]
           IN  e.status # f.status /\ Found(c, i) =>
                 /\ e.status = "Locked" => signer' \in {e.depositor, e.beneficiary}
                 /\ e.status = "Locked" /\ f.status = "Refunded" => signer' = e.depositor
                 /\ e.status = "Disputed" => signer' = admin[c]]_vars
  BY EntitledStep DEF Entitled
<1>2. QED
  BY <1>1, InvCorrect, PTL DEF EscrowSpec, SettledByRight

-----------------------------------------------------------------------------
\* What the events s of an escrow say of its record e.
Tells(s, e) ==
    /\ Replayed(s) = e.status
    /\ s # <<>> => s[1] = [topic |-> "escrow_created",
                           data |-> <<e.depositor, e.beneficiary, e.amount>>]
    /\ \A k \in 1..Len(s) :
          /\ s[k].topic \in {"escrow_released", "escrow_refunded", "escrow_resolved"} => k = Len(s)
          /\ s[k].topic = "escrow_released" => s[k].data = <<e.beneficiary, e.amount>>
          /\ s[k].topic = "escrow_refunded" => s[k].data = <<e.depositor, e.amount>>
          /\ s[k].topic = "escrow_resolved" => k > 1 /\ s[k - 1].topic = "escrow_disputed"

LEMMA TrailIs == AuditTrail <=> \A c \in Contracts, i \in Ids : Tells(events[c][i], escrows[c][i])
BY DEF AuditTrail, Tells

\* Record e becomes q, and n is published of it.
Opens(e, q, n) ==
    /\ e.status = "None" /\ q.status = "Locked"
    /\ n.topic = "escrow_created"
    /\ n = [topic |-> "escrow_created", data |-> <<q.depositor, q.beneficiary, q.amount>>]

Proceeds(e, q, n) ==
    /\ q.depositor = e.depositor /\ q.beneficiary = e.beneficiary /\ q.amount = e.amount
    /\ \/ /\ e.status = "Locked" /\ q.status = "Released"
          /\ n.topic = "escrow_released" /\ n.data = <<e.beneficiary, e.amount>>
       \/ /\ e.status = "Locked" /\ q.status = "Refunded"
          /\ n.topic = "escrow_refunded" /\ n.data = <<e.depositor, e.amount>>
       \/ e.status = "Locked" /\ q.status = "Disputed" /\ n.topic = "escrow_disputed"
       \/ e.status = "Disputed" /\ q.status = "Released" /\ n.topic = "escrow_resolved" /\ n.data[1]
       \/ e.status = "Disputed" /\ q.status = "Refunded" /\ n.topic = "escrow_resolved" /\ ~n.data[1]

EventTopics ==
    {"escrow_created", "escrow_disputed", "escrow_released", "escrow_refunded", "escrow_resolved"}

LEMMA LastTells ==
    ASSUME NEW s \in Seq(EventRecord)
    PROVE  /\ s = <<>> => Replayed(s) = "None"
           /\ s # <<>> =>
                LET n == s[Len(s)] IN
                /\ n.topic \in EventTopics
                /\ n.topic = "escrow_created" => Replayed(s) = "Locked"
                /\ n.topic = "escrow_disputed" => Replayed(s) = "Disputed"
                /\ n.topic = "escrow_released" => Replayed(s) = "Released"
                /\ n.topic = "escrow_refunded" => Replayed(s) = "Refunded"
                /\ n.topic = "escrow_resolved" =>
                     Replayed(s) = IF n.data[1] THEN "Released" ELSE "Refunded"
<1>1. s = <<>> => Replayed(s) = "None"
  BY DEF Replayed
<1>2. ASSUME s # <<>> PROVE s[Len(s)] \in EventRecord
  BY <1>2
<1>3. ASSUME s # <<>>, NEW n, n = s[Len(s)]
      PROVE  /\ n.topic \in EventTopics
             /\ n.topic = "escrow_created" => Replayed(s) = "Locked"
             /\ n.topic = "escrow_disputed" => Replayed(s) = "Disputed"
             /\ n.topic = "escrow_released" => Replayed(s) = "Released"
             /\ n.topic = "escrow_refunded" => Replayed(s) = "Refunded"
             /\ n.topic = "escrow_resolved" =>
                  Replayed(s) = IF n.data[1] THEN "Released" ELSE "Refunded"
  <2>1. n.topic \in EventTopics
    BY <1>2, <1>3 DEF EventRecord, EventTopics
  <2>2. QED
    BY <1>3, <2>1 DEF Replayed
<1>4. QED
  BY <1>1, <1>3

(* While an escrow is open none of its events is a payout.                 *)
LEMMA NoPayoutYet ==
    ASSUME NEW s \in Seq(EventRecord), NEW e, Tells(s, e), e.status \in {"None", "Locked", "Disputed"}
    PROVE  \A k \in 1..Len(s) :
             s[k].topic \notin {"escrow_released", "escrow_refunded", "escrow_resolved"}
<1>1. SUFFICES ASSUME NEW k \in 1..Len(s),
                      s[k].topic \in {"escrow_released", "escrow_refunded", "escrow_resolved"}
               PROVE  FALSE
  OBVIOUS
<1>2. k = Len(s) /\ s # <<>>
  BY <1>1 DEF Tells
<1>3. Replayed(s) \in {"Released", "Refunded"}
  BY <1>1, <1>2, LastTells
<1>4. QED
  BY <1>3 DEF Tells

LEMMA StoryGrows ==
    ASSUME NEW s \in Seq(EventRecord), NEW e, NEW q, NEW n \in EventRecord,
           Tells(s, e), Opens(e, q, n) \/ Proceeds(e, q, n)
    PROVE  Tells(Append(s, n), q)
<1> DEFINE t == Append(s, n)
<1>1. /\ t \in Seq(EventRecord) /\ t # <<>> /\ Len(t) = Len(s) + 1 /\ Len(s) \in Nat
      /\ t[Len(t)] = n
      /\ \A k \in 1..Len(s) : t[k] = s[k]
  OBVIOUS
<1> HIDE DEF t
<1>2. Replayed(t) = q.status
  <2>1. Replayed(t) = IF n.topic = "escrow_created" THEN "Locked"
                      ELSE IF n.topic = "escrow_disputed" THEN "Disputed"
                      ELSE IF n.topic = "escrow_released" THEN "Released"
                      ELSE IF n.topic = "escrow_refunded" THEN "Refunded"
                      ELSE IF n.data[1] THEN "Released" ELSE "Refunded"
    BY <1>1, LastTells DEF EventTopics
  <2>2. CASE Opens(e, q, n)
    BY <2>1, <2>2 DEF Opens
  <2>3. CASE Proceeds(e, q, n)
    BY <2>1, <2>3 DEF Proceeds
  <2>4. QED
    BY <2>2, <2>3
<1>3. \A k \in 1..Len(s) :
        s[k].topic \notin {"escrow_released", "escrow_refunded", "escrow_resolved"}
  BY NoPayoutYet DEF Opens, Proceeds
<1>4. s = <<>> <=> e.status = "None"
  BY LastTells DEF Tells, EventTopics
<1>5. t[1] = [topic |-> "escrow_created", data |-> <<q.depositor, q.beneficiary, q.amount>>]
  <2>1. CASE s = <<>>
    BY <1>1, <1>4, <2>1 DEF Opens, Proceeds
  <2>2. CASE s # <<>>
    <3>1. t[1] = s[1]
      BY <1>1, <2>2
    <3>2. s[1] = [topic |-> "escrow_created", data |-> <<e.depositor, e.beneficiary, e.amount>>]
      BY <2>2 DEF Tells
    <3>3. q.depositor = e.depositor /\ q.beneficiary = e.beneficiary /\ q.amount = e.amount
      BY <1>4, <2>2 DEF Opens, Proceeds
    <3>4. QED
      BY <3>1, <3>2, <3>3
  <2>3. QED
    BY <2>1, <2>2
<1>6. n.topic = "escrow_resolved" => Len(s) > 0 /\ s[Len(s)].topic = "escrow_disputed"
  <2>1. SUFFICES ASSUME n.topic = "escrow_resolved"
                 PROVE  Len(s) > 0 /\ s[Len(s)].topic = "escrow_disputed"
    OBVIOUS
  <2>2. Replayed(s) = "Disputed"
    BY <2>1 DEF Opens, Proceeds, Tells
  <2>3. s # <<>> /\ Len(s) > 0
    BY <2>2, LastTells
  <2>4. s[Len(s)].topic \notin {"escrow_released", "escrow_refunded", "escrow_resolved"}
    BY <1>3, <2>3
  <2>5. QED
    BY <2>2, <2>3, <2>4, LastTells DEF EventTopics
<1>7. ASSUME NEW k \in 1..Len(t)
      PROVE  /\ t[k].topic \in {"escrow_released", "escrow_refunded", "escrow_resolved"} => k = Len(t)
             /\ t[k].topic = "escrow_released" => t[k].data = <<q.beneficiary, q.amount>>
             /\ t[k].topic = "escrow_refunded" => t[k].data = <<q.depositor, q.amount>>
             /\ t[k].topic = "escrow_resolved" => k > 1 /\ t[k - 1].topic = "escrow_disputed"
  <2>1. CASE k \in 1..Len(s)
    BY <1>1, <1>3, <2>1
  <2>2. CASE k = Len(t)
    <3>1. t[k] = n
      BY <1>1, <2>2
    <3>2. n.topic = "escrow_released" => n.data = <<q.beneficiary, q.amount>>
      BY DEF Opens, Proceeds
    <3>3. n.topic = "escrow_refunded" => n.data = <<q.depositor, q.amount>>
      BY DEF Opens, Proceeds
    <3>4. n.topic = "escrow_resolved" => k > 1 /\ t[k - 1].topic = "escrow_disputed"
      BY <1>1, <1>6, <2>2
    <3>5. QED
      BY <2>2, <3>1, <3>2, <3>3, <3>4
  <2>3. QED
    BY <1>1, <2>1, <2>2
<1>8. QED
  <2>1. Tells(t, q)
    BY <1>2, <1>5, <1>7 DEF Tells
  <2>2. QED
    BY <2>1 DEF t

\* Escrow i of c becomes q, n is published of it, and nothing else is touched.
Told(c, i, q, n) ==
    /\ escrows' = [escrows EXCEPT ![c][i] = q]
    /\ events' = [events EXCEPT ![c][i] = Append(events[c][i], n)]
    /\ n \in EventRecord
    /\ Opens(escrows[c][i], q, n) \/ Proceeds(escrows[c][i], q, n)

LEMMA AuditNext ==
    ASSUME EscrowInv, AuditTrail, [EscrowNext]_vars
    PROVE  AuditTrail'
<1>1. ASSUME NEW c \in Contracts, NEW i \in Ids, NEW q, NEW n, Told(c, i, q, n)
      PROVE  AuditTrail'
  <2>1. Tells(Append(events[c][i], n), q)
    BY <1>1, StoryGrows, TrailIs DEF Told, EscrowInv, EscrowTypeOK
  <2>2. ASSUME NEW d \in Contracts, NEW j \in Ids PROVE Tells(events'[d][j], escrows'[d][j])
    <3>1. CASE d = c /\ j = i
      <4>1. events'[d][j] = Append(events[c][i], n) /\ escrows'[d][j] = q
        BY <1>1, <3>1 DEF Told, EscrowInv, EscrowTypeOK
      <4>2. QED
        BY <2>1, <4>1
    <3>2. CASE ~(d = c /\ j = i)
      <4>1. events'[d][j] = events[d][j] /\ escrows'[d][j] = escrows[d][j]
        BY <1>1, <3>2 DEF Told, EscrowInv, EscrowTypeOK
      <4>2. QED
        BY <4>1, TrailIs
    <3>3. QED
      BY <3>1, <3>2
  <2>3. QED
    BY <2>2 DEF AuditTrail, Tells, Replayed
<1>2. ASSUME UNCHANGED <<escrows, events>> PROVE AuditTrail'
  <2>1. \A c \in Contracts, i \in Ids : Tells(events'[c][i], escrows'[c][i])
    BY <1>2, TrailIs
  <2>2. QED
    BY <2>1 DEF AuditTrail, Tells, Replayed
<1>3. ASSUME NEW c \in Contracts, NEW d \in Users, NEW b \in Payees, NEW m \in Amounts,
             NEW a \in Assets, NEW t \in Timeouts, CreateEscrow(c, d, b, m, a, t)
      PROVE  AuditTrail'
  <2> DEFINE q == [depositor |-> d, beneficiary |-> b, amount |-> m, asset |-> a,
                   status |-> "Locked", createdAt |-> now, timeout |-> t]
             n == [topic |-> "escrow_created", data |-> <<d, b, m>>]
  <2>1. ~(m <= 0) /\ ~(nextId[c] > MaxId)
    BY <1>3 DEF CreateEscrow, CreateFault
  <2>2. m \in Int /\ nextId[c] \in Nat \ {0} /\ MaxId \in Nat /\ b \in Holders
    BY Constants DEF EscrowInv, EscrowTypeOK
  <2>3. nextId[c] \in Ids /\ m \in Nat \ {0}
    BY <2>1, <2>2 DEF Ids
  <2>4. escrows[c][nextId[c]].status = "None"
    BY <2>2, <2>3 DEF EscrowInv, IdsDense, Found
  <2>5. n \in EventRecord
    BY <2>2, <2>3 DEF EventRecord
  <2>6. Opens(escrows[c][nextId[c]], q, n)
    BY <2>4 DEF Opens
  <2>7. /\ escrows' = [escrows EXCEPT ![c][nextId[c]] = q]
        /\ events' = [events EXCEPT ![c][nextId[c]] = Append(events[c][nextId[c]], n)]
    BY <1>3 DEF CreateEscrow, CreateEffect, Publish
  <2> HIDE DEF q, n
  <2>8. Told(c, nextId[c], q, n)
    BY <2>5, <2>6, <2>7 DEF Told
  <2>9. QED
    BY <1>1, <2>3, <2>8
<1>4. ASSUME NEW c \in Contracts, NEW i \in Ids, Found(c, i),
             NEW s, NEW topic, NEW data, SetStatus(c, i, s), Publish(c, i, topic, data),
             [topic |-> topic, data |-> data] \in EventRecord,
             Proceeds(escrows[c][i], [escrows[c][i] EXCEPT !.status = s],
                      [topic |-> topic, data |-> data])
      PROVE  AuditTrail'
  <2> DEFINE q == [escrows[c][i] EXCEPT !.status = s]
             n == [topic |-> topic, data |-> data]
  <2>1. /\ escrows' = [escrows EXCEPT ![c][i] = q]
        /\ events' = [events EXCEPT ![c][i] = Append(events[c][i], n)]
    BY <1>4 DEF SetStatus, Publish
  <2>2. n \in EventRecord /\ Proceeds(escrows[c][i], q, n)
    BY <1>4
  <2> HIDE DEF q, n
  <2>3. QED
    BY <1>1, <2>1, <2>2 DEF Told
<1>5. ASSUME NEW c \in Contracts, NEW i \in Ids, Found(c, i)
      PROVE  LET e == escrows[c][i] IN
             /\ e.depositor \in Users /\ e.depositor \in Holders /\ e.beneficiary \in Holders
             /\ e.amount \in Nat \ {0}
             /\ \A s : LET q == [e EXCEPT !.status = s] IN
                  /\ q.status = s /\ q.depositor = e.depositor
                  /\ q.beneficiary = e.beneficiary /\ q.amount = e.amount
  BY <1>5, FoundRecord, Constants DEF EscrowInv, EscrowRecord
<1>6. ASSUME NEW c \in Contracts, NEW u \in Users, NEW i \in Ids, Release(c, u, i)
      PROVE  AuditTrail'
  <2> DEFINE e == escrows[c][i]
  <2>1. Found(c, i) /\ e.status = "Locked"
    BY <1>6 DEF Release, ReleaseFault
  <2>2. SetStatus(c, i, "Released") /\ Publish(c, i, "escrow_released", <<e.beneficiary, e.amount>>)
    BY <1>6 DEF Release, PayOut
  <2>3. [topic |-> "escrow_released", data |-> <<e.beneficiary, e.amount>>] \in EventRecord
    BY <1>5, <2>1 DEF EventRecord
  <2>4. Proceeds(e, [e EXCEPT !.status = "Released"],
                 [topic |-> "escrow_released", data |-> <<e.beneficiary, e.amount>>])
    BY <1>5, <2>1 DEF Proceeds
  <2>5. QED
    BY <1>4, <2>1, <2>2, <2>3, <2>4
<1>7. ASSUME NEW c \in Contracts, NEW u \in Users, NEW i \in Ids, Refund(c, u, i)
      PROVE  AuditTrail'
  <2> DEFINE e == escrows[c][i]
  <2>1. Found(c, i) /\ e.status = "Locked"
    BY <1>7 DEF Refund, RefundFault
  <2>2. SetStatus(c, i, "Refunded") /\ Publish(c, i, "escrow_refunded", <<e.depositor, e.amount>>)
    BY <1>7 DEF Refund, PayOut
  <2>3. [topic |-> "escrow_refunded", data |-> <<e.depositor, e.amount>>] \in EventRecord
    BY <1>5, <2>1 DEF EventRecord
  <2>4. Proceeds(e, [e EXCEPT !.status = "Refunded"],
                 [topic |-> "escrow_refunded", data |-> <<e.depositor, e.amount>>])
    BY <1>5, <2>1 DEF Proceeds
  <2>5. QED
    BY <1>4, <2>1, <2>2, <2>3, <2>4
<1>8. ASSUME NEW c \in Contracts, NEW u \in Users, NEW i \in Ids, Dispute(c, u, i)
      PROVE  AuditTrail'
  <2> DEFINE e == escrows[c][i]
  <2>1. Found(c, i) /\ e.status = "Locked"
    BY <1>8 DEF Dispute, DisputeFault
  <2>2. SetStatus(c, i, "Disputed") /\ Publish(c, i, "escrow_disputed", <<u>>)
    BY <1>8 DEF Dispute
  <2>3. [topic |-> "escrow_disputed", data |-> <<u>>] \in EventRecord
    BY DEF EventRecord
  <2>4. Proceeds(e, [e EXCEPT !.status = "Disputed"], [topic |-> "escrow_disputed", data |-> <<u>>])
    BY <1>5, <2>1 DEF Proceeds
  <2>5. QED
    BY <1>4, <2>1, <2>2, <2>3, <2>4
<1>9. ASSUME NEW c \in Contracts, NEW u \in Users, NEW i \in Ids, NEW p \in BOOLEAN,
             ResolveDispute(c, u, i, p)
      PROVE  AuditTrail'
  <2> DEFINE e == escrows[c][i]
  <2>1. Found(c, i) /\ e.status = "Disputed"
    BY <1>9 DEF ResolveDispute, ResolveFault
  <2>2. /\ SetStatus(c, i, IF p THEN "Released" ELSE "Refunded")
        /\ Publish(c, i, "escrow_resolved", <<p>>)
    BY <1>9 DEF ResolveDispute, PayOut
  <2>3. [topic |-> "escrow_resolved", data |-> <<p>>] \in EventRecord
    BY DEF EventRecord
  <2>4. Proceeds(e, [e EXCEPT !.status = IF p THEN "Released" ELSE "Refunded"],
                 [topic |-> "escrow_resolved", data |-> <<p>>])
    <3>1. CASE p = TRUE
      BY <1>5, <2>1, <3>1 DEF Proceeds
    <3>2. CASE p = FALSE
      BY <1>5, <2>1, <3>2 DEF Proceeds
    <3>3. QED
      BY <3>1, <3>2
  <2>5. QED
    BY <1>4, <2>1, <2>2, <2>3, <2>4
<1>10. ASSUME NEW c \in Contracts, EscrowCalls(c) PROVE AuditTrail'
  BY <1>2, <1>3, <1>6, <1>7, <1>8, <1>9, <1>10 DEF EscrowCalls, Initialize
<1>11. QED
  BY <1>2, <1>10 DEF EscrowNext, vars, escrowVars

(* The events an escrow has published tell its whole story: its parties    *)
(* and amount first, its status last, who was paid, and nothing after it.  *)
THEOREM EventsTellTheTruth == EscrowSpec => []AuditTrail
<1>1. EscrowInit => AuditTrail
  BY DEF EscrowInit, AuditTrail, Replayed, NoEscrow
<1>2. QED
  BY <1>1, AuditNext, InvCorrect, PTL DEF EscrowSpec

-----------------------------------------------------------------------------
(* The escrow contracts implement the ideal custody of Custody.tla.  The   *)
(* ideal has no vault: what a contract owns beyond the deposits of its     *)
(* open escrows is what it may call its own, and the deposits are in the   *)
(* deals.                                                                  *)

\* The refinement mapping of Escrow, by name.
Wealth ==
    [h \in Holders |-> [a \in Assets |->
        bal[h][a] - (IF h \in Contracts THEN Held(h, a) ELSE 0)]]
AllDeals == [k \in Contracts \X Ids |-> DealOf(escrows[k[1]][k[2]])]

LEMMA WealthType ==
    ASSUME EscrowTypeOK, Solvency
    PROVE  /\ Wealth \in [Holders -> [Assets -> Nat]]
           /\ \A h \in Holders, a \in Assets :
                 Wealth[h][a] = bal[h][a] - (IF h \in Contracts THEN Held(h, a) ELSE 0)
<1>1. ASSUME NEW h \in Holders, NEW a \in Assets
      PROVE  bal[h][a] - (IF h \in Contracts THEN Held(h, a) ELSE 0) \in Nat
  <2>1. bal[h][a] \in Nat
    BY DEF EscrowTypeOK
  <2>2. CASE h \in Contracts
    <3>1. Held(h, a) \in Nat /\ bal[h][a] >= Held(h, a)
      BY <2>2, HeldType DEF Solvency
    <3>2. QED
      BY <2>1, <2>2, <3>1
  <2>3. QED
    BY <2>1, <2>2
<1>2. QED
  BY <1>1 DEF Wealth

(* The same of the state a step leads to. *)
LEMMA HeldNats == EscrowTypeOK => \A c \in Contracts, a \in Assets : Held(c, a) \in Nat
BY HeldType

LEMMA HeldNatsNext ==
    EscrowTypeOK' => \A c \in Contracts, a \in Assets : Held(c, a)' \in Nat
<1>1. (EscrowTypeOK => \A c \in Contracts, a \in Assets : Held(c, a) \in Nat)'
  BY HeldNats, PTL
<1>2. QED
  BY <1>1

LEMMA WealthNats == EscrowTypeOK /\ Solvency => Wealth \in [Holders -> [Assets -> Nat]]
BY WealthType

LEMMA WealthNatsNext ==
    EscrowTypeOK' /\ Solvency' => Wealth' \in [Holders -> [Assets -> Nat]]
<1>1. (EscrowTypeOK /\ Solvency => Wealth \in [Holders -> [Assets -> Nat]])'
  BY WealthNats, PTL
<1>2. QED
  BY <1>1

\* One entry of a table of balances changes.
LEMMA OneEntry ==
    ASSUME NEW W \in [Holders -> [Assets -> Nat]], NEW V \in [Holders -> [Assets -> Nat]],
           NEW to \in Holders, NEW a \in Assets, NEW n \in Int,
           \A h \in Holders, x \in Assets :
              V[h][x] = W[h][x] + (IF h = to /\ x = a THEN n ELSE 0)
    PROVE  V = [W EXCEPT ![to][a] = @ + n]
<1> DEFINE U == [W EXCEPT ![to][a] = @ + n]
<1>1. U \in [Holders -> [Assets -> Int]]
  OBVIOUS
<1>2. \A h \in Holders, x \in Assets : U[h][x] = V[h][x]
  OBVIOUS
<1> HIDE DEF U
<1>3. \A h \in Holders : U[h] = V[h]
  BY <1>1, <1>2
<1>4. U = V
  BY <1>1, <1>3
<1>5. QED
  BY <1>4 DEF U

-----------------------------------------------------------------------------
(* Deals and their states. *)
StateOf(s) ==
    CASE s = "Locked"   -> "open"
      [] s = "Disputed" -> "contested"
      [] s = "Refunded" -> "returned"
      [] s = "Released" -> "paid"

LEMMA States ==
    /\ StateOf("Locked") = "open" /\ StateOf("Disputed") = "contested"
    /\ StateOf("Refunded") = "returned" /\ StateOf("Released") = "paid"
BY DEF StateOf

LEMMA DealFields ==
    ASSUME NEW e \in EscrowRecord
    PROVE  DealOf(e) = [depositor |-> e.depositor, beneficiary |-> e.beneficiary,
                        amount |-> e.amount, asset |-> e.asset, state |-> StateOf(e.status)]
<1>1. e.status # "None"
  BY DEF EscrowRecord
<1>2. QED
  BY <1>1 DEF DealOf, StateOf

LEMMA DealAt ==
    /\ \A c \in Contracts, i \in Ids : AllDeals[<<c, i>>] = DealOf(escrows[c][i])
    /\ \A c \in Contracts, i \in Ids : AllDeals'[<<c, i>>] = DealOf(escrows'[c][i])
BY DEF AllDeals

(* The states of two sets of deals that differ in one. *)
LEMMA OneDeal ==
    ASSUME NEW c \in Contracts, NEW i \in Ids, NEW D,
           DealOf(escrows'[c][i]) = D,
           \A k \in Contracts, j \in Ids :
              ~(k = c /\ j = i) => escrows'[k][j] = escrows[k][j]
    PROVE  AllDeals' = [AllDeals EXCEPT ![<<c, i>>] = D]
<1> DEFINE F == [AllDeals EXCEPT ![<<c, i>>] = D]
<1>1. F = [q \in Contracts \X Ids |-> IF q = <<c, i>> THEN D ELSE AllDeals[q]]
  BY DEF AllDeals
<1>2. AllDeals' = [q \in Contracts \X Ids |-> AllDeals'[q]]
  BY DEF AllDeals
<1>3. ASSUME NEW q \in Contracts \X Ids
      PROVE  AllDeals'[q] = IF q = <<c, i>> THEN D ELSE AllDeals[q]
  <2>1. PICK k \in Contracts, j \in Ids : q = <<k, j>>
    OBVIOUS
  <2>2. AllDeals[q] = DealOf(escrows[k][j]) /\ AllDeals'[q] = DealOf(escrows'[k][j])
    BY <2>1, DealAt
  <2>3. CASE k = c /\ j = i
    BY <2>1, <2>2, <2>3
  <2>4. CASE ~(k = c /\ j = i)
    BY <2>1, <2>2, <2>4
  <2>5. QED
    BY <2>3, <2>4
<1> HIDE DEF F
<1>4. AllDeals' = F
  BY <1>1, <1>2, <1>3, Zenon
<1>5. QED
  BY <1>4 DEF F

LEMMA DealStatus ==
    ASSUME EscrowTypeOK, NEW c \in Contracts, NEW i \in Ids, Found(c, i),
           NEW s \in {"Locked", "Released", "Refunded", "Disputed"}, SetStatus(c, i, s)
    PROVE  /\ AllDeals' = [AllDeals EXCEPT ![<<c, i>>].state = StateOf(s)]
           /\ escrows'[c][i].status = s
           /\ \A k \in Contracts, j \in Ids :
                 ~(k = c /\ j = i) => escrows'[k][j] = escrows[k][j]
<1> DEFINE e == escrows[c][i]
           f == escrows'[c][i]
<1>1. e \in EscrowRecord
  BY FoundRecord
<1>2. f = [e EXCEPT !.status = s]
  BY DEF SetStatus, EscrowTypeOK
<1>3. \A k \in Contracts, j \in Ids : ~(k = c /\ j = i) => escrows'[k][j] = escrows[k][j]
  BY DEF SetStatus, EscrowTypeOK
<1> HIDE DEF e, f
<1>4. /\ f \in EscrowRecord /\ f.status = s /\ f.depositor = e.depositor
      /\ f.beneficiary = e.beneficiary /\ f.amount = e.amount /\ f.asset = e.asset
  BY <1>1, <1>2 DEF EscrowRecord
<1> DEFINE D == DealOf(e)
           E == DealOf(f)
<1>5. E = [D EXCEPT !.state = StateOf(s)]
  <2> DEFINE t == StateOf(s)
             r == StateOf(e.status)
  <2>1. /\ D = [depositor |-> e.depositor, beneficiary |-> e.beneficiary,
                amount |-> e.amount, asset |-> e.asset, state |-> r]
        /\ E = [depositor |-> e.depositor, beneficiary |-> e.beneficiary,
                amount |-> e.amount, asset |-> e.asset, state |-> t]
    BY <1>1, <1>4, DealFields
  <2> HIDE DEF D, E, t, r
  <2>2. E = [D EXCEPT !.state = t]
    BY <2>1
  <2>3. QED
    BY <2>2 DEF t
<1>6. AllDeals[<<c, i>>] = D
  BY DealAt DEF e
<1>7. AllDeals' = [AllDeals EXCEPT ![<<c, i>>] = [D EXCEPT !.state = StateOf(s)]]
  BY <1>3, <1>5, OneDeal DEF f
<1>8. [AllDeals EXCEPT ![<<c, i>>] = [D EXCEPT !.state = StateOf(s)]]
        = [AllDeals EXCEPT ![<<c, i>>].state = StateOf(s)]
  <2> HIDE DEF D
  <2>1. QED
    BY <1>6
<1>9. QED
  BY <1>3, <1>4, <1>7, <1>8 DEF f

-----------------------------------------------------------------------------
(* The steps of the contracts, as the ideal sees them. *)

\* A transfer of n, of which the deposits of contract c change by t.
LEMMA WealthMoves ==
    ASSUME EscrowInv, EscrowInv', NEW from \in Holders, NEW to \in Holders, NEW a \in Assets,
           NEW n \in Nat, bal' = Moved(from, to, a, n), NEW h \in Holders, NEW x \in Assets
    PROVE  /\ Wealth'[h][x] = bal[h][x] - (IF h = from /\ x = a THEN n ELSE 0)
                                        + (IF h = to /\ x = a THEN n ELSE 0)
                                        - (IF h \in Contracts THEN Held(h, x)' ELSE 0)
           /\ Wealth[h][x] = bal[h][x] - (IF h \in Contracts THEN Held(h, x) ELSE 0)
           /\ bal[h][x] \in Nat
           /\ h \in Contracts => Held(h, x) \in Nat /\ Held(h, x)' \in Nat
<1>0. EscrowTypeOK /\ EscrowTypeOK' /\ Solvency /\ Solvency'
  BY DEF EscrowInv
<1>1. bal \in [Holders -> [Assets -> Nat]]
  BY <1>0 DEF EscrowTypeOK
<1>2. bal'[h][x] = bal[h][x] - (IF h = from /\ x = a THEN n ELSE 0)
                             + (IF h = to /\ x = a THEN n ELSE 0)
  <2>1. Moved(from, to, a, n)[h][x] = BalanceAfter(from, to, a, n, h, x)
    BY <1>1, MovedAt
  <2>2. QED
    BY <2>1 DEF BalanceAfter
<1>3. Wealth'[h][x] = bal'[h][x] - (IF h \in Contracts THEN Held(h, x)' ELSE 0)
  BY DEF Wealth
<1>4. Wealth[h][x] = bal[h][x] - (IF h \in Contracts THEN Held(h, x) ELSE 0)
  BY DEF Wealth
<1>5. h \in Contracts => Held(h, x) \in Nat
  <2>1. ASSUME h \in Contracts PROVE Held(h, x) \in Nat
    BY <1>0, <2>1, HeldNats
  <2>2. QED
    BY <2>1
<1>6. h \in Contracts => Held(h, x)' \in Nat
  <2>1. ASSUME h \in Contracts PROVE Held(h, x)' \in Nat
    BY <1>0, <2>1, HeldNatsNext
  <2>2. QED
    BY <2>1
<1>7. QED
  BY <1>1, <1>2, <1>3, <1>4, <1>5, <1>6

LEMMA OpenStep ==
    ASSUME EscrowInv, EscrowInv', NEW c \in Contracts, NEW d \in Users, NEW b \in Payees,
           NEW n \in Amounts, NEW a \in Assets, NEW t \in Timeouts,
           CreateEscrow(c, d, b, n, a, t)
    PROVE  Ideal!Next
<1> DEFINE id == nextId[c]
           D == [depositor |-> d, beneficiary |-> b, amount |-> n, asset |-> a, state |-> "open"]
<1>0. EscrowTypeOK /\ EscrowTypeOK' /\ IdsDense
  BY DEF EscrowInv
<1>1. ~(n <= 0) /\ ~(bal[d][a] < n) /\ ~(id > MaxId)
  BY DEF CreateEscrow, CreateFault
<1>2. /\ n \in Nat \ {0} /\ id \in Ids /\ bal[d][a] >= n
      /\ d \in Holders /\ c \in Holders /\ b \in Holders /\ d \notin Contracts
  <2>1. n \in Int /\ MaxId \in Nat /\ d \in Holders
    BY Constants
  <2>4. id \in 1..(MaxId + 1)
    BY <1>0 DEF EscrowTypeOK
  <2>5. bal[d][a] \in Nat
    BY <1>0, <2>1 DEF EscrowTypeOK
  <2> HIDE DEF id
  <2>2. n \in Nat \ {0} /\ id \in Ids /\ bal[d][a] >= n
    BY <1>1, <2>1, <2>4, <2>5 DEF Ids
  <2>3. QED
    BY <2>2, Constants
<1>3. ~Found(c, id)
  BY <1>0, <1>2, Constants DEF IdsDense, Ids
<1>4. /\ escrows'[c][id] = [depositor |-> d, beneficiary |-> b, amount |-> n, asset |-> a,
                             status |-> "Locked", createdAt |-> now, timeout |-> t]
      /\ \A k \in Contracts, j \in Ids : ~(k = c /\ j = id) => escrows'[k][j] = escrows[k][j]
      /\ \A k \in Contracts : k # c => escrows'[k] = escrows[k]
      /\ bal' = Moved(d, c, a, n)
  BY <1>0, <1>2 DEF CreateEscrow, CreateEffect, EscrowTypeOK
<1> HIDE DEF id
<1>5. AllDeals[<<c, id>>] = [state |-> "none"]
  BY <1>2, <1>3, DealAt DEF DealOf, Found
<1>6. AllDeals' = [AllDeals EXCEPT ![<<c, id>>] = D]
  <2>1. DealOf(escrows'[c][id]) = D
    BY <1>4 DEF DealOf
  <2> HIDE DEF D
  <2>2. QED
    BY <1>2, <1>4, <2>1, OneDeal
<1>7. Wealth \in [Holders -> [Assets -> Nat]] /\ Wealth' \in [Holders -> [Assets -> Nat]]
  BY WealthNats, WealthNatsNext DEF EscrowInv
<1>8. ASSUME NEW h \in Holders, NEW x \in Assets
      PROVE  Wealth'[h][x] = Wealth[h][x] + (IF h = d /\ x = a THEN -n ELSE 0)
  <2>1. h \in Contracts => Held(h, x)' = Held(h, x) + (IF h = c /\ x = a THEN n ELSE 0)
    <3>1. CASE h \in Contracts /\ h # c
      <4>1. Held(h, x)' = Held(h, x) /\ Held(h, x) \in Nat
        BY <1>0, <1>4, <3>1, HeldSame, HeldType
      <4>2. QED
        BY <3>1, <4>1
    <3>2. CASE h = c
      <4>1. Held(c, x)' = Held(c, x) - Due(escrows[c][id], x) + Due(escrows'[c][id], x)
        BY <1>0, <1>2, <1>4, HeldUpdate
      <4>2. Due(escrows[c][id], x) = 0
        BY <1>3 DEF Due, IsOpen, Found
      <4>3. Due(escrows'[c][id], x) = IF x = a THEN n ELSE 0
        BY <1>4 DEF Due, IsOpen
      <4>4. Held(c, x) \in Nat
        BY <1>0, HeldType
      <4>5. QED
        BY <1>2, <3>2, <4>1, <4>2, <4>3, <4>4
    <3>3. QED
      BY <3>1, <3>2
  <2>2. /\ Wealth'[h][x] = bal[h][x] - (IF h = d /\ x = a THEN n ELSE 0)
                                     + (IF h = c /\ x = a THEN n ELSE 0)
                                     - (IF h \in Contracts THEN Held(h, x)' ELSE 0)
        /\ Wealth[h][x] = bal[h][x] - (IF h \in Contracts THEN Held(h, x) ELSE 0)
        /\ bal[h][x] \in Nat
        /\ h \in Contracts => Held(h, x) \in Nat /\ Held(h, x)' \in Nat
    BY <1>2, <1>4, WealthMoves
  <2>3. CASE h \in Contracts
    BY <1>2, <2>1, <2>2, <2>3
  <2>4. CASE h \notin Contracts
    BY <1>2, <2>2, <2>4
  <2>5. QED
    BY <2>3, <2>4
<1>9. Wealth' = [Wealth EXCEPT ![d][a] = @ - n]
  <2>1. Wealth' = [Wealth EXCEPT ![d][a] = @ + (-n)]
    BY <1>2, <1>7, <1>8, OneEntry
  <2>2. Wealth[d][a] \in Nat /\ Wealth[d][a] + (-n) = Wealth[d][a] - n
    BY <1>2, <1>7
  <2>3. QED
    BY <2>1, <2>2
<1>10. Wealth[d][a] = bal[d][a] /\ n \in 1..Wealth[d][a]
  <2>1. Wealth[d][a] = bal[d][a] /\ bal[d][a] \in Nat
    BY <1>2, <1>4, WealthMoves
  <2>2. QED
    BY <1>2, <2>1
<1>11. Ideal!Open(<<c, id>>, d, b, n, a)
  BY <1>2, <1>5, <1>6, <1>9, <1>10 DEF Ideal!Open, Ideal!NoDeal, Wealth, AllDeals
<1>12. <<c, id>> \in Contracts \X Ids
  BY <1>2
<1>13. QED
  BY <1>2, <1>10, <1>11, <1>12 DEF Ideal!Next, Wealth

\* Ideal!Close, in terms of the mapping.
Closes(k, to, state) ==
    /\ AllDeals[k].state \in {"open", "contested"}
    /\ Wealth' = [Wealth EXCEPT ![to][AllDeals[k].asset] = @ + AllDeals[k].amount]
    /\ AllDeals' = [AllDeals EXCEPT ![k].state = state]

LEMMA CloseStep ==
    ASSUME EscrowInv, EscrowInv', NEW c \in Contracts, NEW i \in Ids, IsOpen(escrows[c][i]),
           NEW to \in Holders, NEW s \in {"Released", "Refunded"}, PayOut(c, i, to, s)
    PROVE  Closes(<<c, i>>, to, StateOf(s))
<1> DEFINE e == escrows[c][i]
<1>0. EscrowTypeOK /\ EscrowTypeOK' /\ Found(c, i) /\ c \in Holders
  BY Constants DEF EscrowInv, IsOpen, Found
<1>1. e \in EscrowRecord
  BY <1>0, FoundRecord
<1>2. e.asset \in Assets /\ e.amount \in Nat
  BY <1>1 DEF EscrowRecord
<1>3. AllDeals[<<c, i>>] = [depositor |-> e.depositor, beneficiary |-> e.beneficiary,
                            amount |-> e.amount, asset |-> e.asset, state |-> StateOf(e.status)]
  BY <1>1, DealAt, DealFields
<1>4. /\ AllDeals' = [AllDeals EXCEPT ![<<c, i>>].state = StateOf(s)]
      /\ escrows'[c][i].status = s
      /\ \A k \in Contracts, j \in Ids : ~(k = c /\ j = i) => escrows'[k][j] = escrows[k][j]
  <2>1. s \in {"Locked", "Released", "Refunded", "Disputed"} /\ SetStatus(c, i, s)
    BY DEF PayOut
  <2>2. QED
    BY <1>0, <2>1, DealStatus
<1>5. \A k \in Contracts : k # c => escrows'[k] = escrows[k]
  BY <1>0 DEF PayOut, SetStatus, EscrowTypeOK
<1>6. bal' = Moved(c, to, e.asset, e.amount)
  BY DEF PayOut
<1>7. Wealth \in [Holders -> [Assets -> Nat]] /\ Wealth' \in [Holders -> [Assets -> Nat]]
  BY WealthNats, WealthNatsNext DEF EscrowInv
<1>8. /\ Due(escrows'[c][i], e.asset) = 0
      /\ \A x \in Assets : Due(escrows'[c][i], x) = 0
      /\ \A x \in Assets : Due(e, x) = IF x = e.asset THEN e.amount ELSE 0
  BY <1>4 DEF Due, IsOpen
<1> DEFINE a == e.asset
           n == e.amount
<1>9. /\ a \in Assets /\ n \in Nat /\ bal' = Moved(c, to, a, n)
      /\ \A x \in Assets : Due(escrows[c][i], x) = IF x = a THEN n ELSE 0
  BY <1>2, <1>6, <1>8
<1> HIDE DEF a, n, e
<1>10. ASSUME NEW h \in Holders, NEW x \in Assets
       PROVE  Wealth'[h][x] = Wealth[h][x] + (IF h = to /\ x = a THEN n ELSE 0)
  <2>1. h \in Contracts => Held(h, x)' = Held(h, x) - (IF h = c /\ x = a THEN n ELSE 0)
    <3>1. CASE h \in Contracts /\ h # c
      <4>1. Held(h, x)' = Held(h, x)
        BY <1>5, <3>1, HeldSame
      <4>2. Held(h, x) \in Nat
        BY <1>0, <3>1, HeldNats
      <4>3. QED
        BY <3>1, <4>1, <4>2
    <3>2. CASE h = c
      <4>1. Held(c, x)' = Held(c, x) - Due(escrows[c][i], x) + Due(escrows'[c][i], x)
        BY <1>0, <1>4, HeldUpdate
      <4>2. Held(c, x) \in Nat
        BY <1>0, HeldNats
      <4>3. Due(escrows'[c][i], x) = 0 /\ Due(escrows[c][i], x) = IF x = a THEN n ELSE 0
        BY <1>8, <1>9
      <4>4. QED
        BY <1>9, <3>2, <4>1, <4>2, <4>3
    <3>3. QED
      BY <3>1, <3>2
  <2>2. /\ Wealth'[h][x] = bal[h][x] - (IF h = c /\ x = a THEN n ELSE 0)
                                     + (IF h = to /\ x = a THEN n ELSE 0)
                                     - (IF h \in Contracts THEN Held(h, x)' ELSE 0)
        /\ Wealth[h][x] = bal[h][x] - (IF h \in Contracts THEN Held(h, x) ELSE 0)
        /\ bal[h][x] \in Nat
        /\ h \in Contracts => Held(h, x) \in Nat /\ Held(h, x)' \in Nat
    BY <1>0, <1>9, WealthMoves
  <2>3. CASE h \in Contracts
    BY <1>9, <2>1, <2>2, <2>3
  <2>4. CASE h \notin Contracts
    BY <1>9, <2>2, <2>4
  <2>5. QED
    BY <2>3, <2>4
<1>11. Wealth' = [Wealth EXCEPT ![to][a] = @ + n]
  BY <1>7, <1>9, <1>10, OneEntry
<1>12. /\ AllDeals[<<c, i>>].asset = a /\ AllDeals[<<c, i>>].amount = n
       /\ AllDeals[<<c, i>>].state = StateOf(e.status)
  BY <1>3 DEF a, n
<1>13. AllDeals[<<c, i>>].state \in {"open", "contested"}
  BY <1>12, States DEF IsOpen, e
<1>14. Wealth' = [Wealth EXCEPT ![to][AllDeals[<<c, i>>].asset] = @ + AllDeals[<<c, i>>].amount]
  BY <1>11, <1>12
<1>15. QED
  BY <1>4, <1>13, <1>14 DEF Closes

(* The two ways to close a deal. *)
LEMMA CloseNext ==
    ASSUME EscrowInv, NEW c \in Contracts, NEW i \in Ids, Found(c, i), NEW t,
           \/ Closes(<<c, i>>, escrows[c][i].beneficiary, t) /\ t = "paid"
           \/ Closes(<<c, i>>, escrows[c][i].depositor, t) /\ t = "returned"
    PROVE  Ideal!Next
<1> DEFINE k == <<c, i>>
<1>1. escrows[c][i] \in EscrowRecord /\ k \in Contracts \X Ids
  BY FoundRecord DEF EscrowInv
<1>2. /\ AllDeals[k].depositor = escrows[c][i].depositor
      /\ AllDeals[k].beneficiary = escrows[c][i].beneficiary
  BY <1>1, DealAt, DealFields
<1>3. ASSUME Closes(k, escrows[c][i].beneficiary, t), t = "paid" PROVE Ideal!Next
  <2> HIDE DEF k
  <2>1. Closes(k, AllDeals[k].beneficiary, "paid")
    BY <1>2, <1>3 DEF Closes
  <2>2. Ideal!Close(k, AllDeals[k].beneficiary, "paid")
    BY <2>1 DEF Closes, Ideal!Close, Ideal!IsOpen, Wealth, AllDeals
  <2>3. QED
    BY <1>1, <2>2 DEF Ideal!Next, AllDeals
<1>4. ASSUME Closes(k, escrows[c][i].depositor, t), t = "returned" PROVE Ideal!Next
  <2> HIDE DEF k
  <2>1. Closes(k, AllDeals[k].depositor, "returned")
    BY <1>2, <1>4 DEF Closes
  <2>2. Ideal!Close(k, AllDeals[k].depositor, "returned")
    BY <2>1 DEF Closes, Ideal!Close, Ideal!IsOpen, Wealth, AllDeals
  <2>3. QED
    BY <1>1, <2>2 DEF Ideal!Next, AllDeals
<1>5. QED
  BY <1>3, <1>4

LEMMA ContestStep ==
    ASSUME EscrowInv, NEW c \in Contracts, NEW u \in Users, NEW i \in Ids, Dispute(c, u, i)
    PROVE  Ideal!Next
<1>1. Found(c, i) /\ escrows[c][i].status = "Locked"
  BY DEF Dispute, DisputeFault
<1>2. escrows[c][i] \in EscrowRecord /\ <<c, i>> \in Contracts \X Ids /\ EscrowTypeOK
  BY <1>1, FoundRecord DEF EscrowInv
<1>3. /\ AllDeals' = [AllDeals EXCEPT ![<<c, i>>].state = StateOf("Disputed")]
      /\ escrows'[c][i].status = "Disputed"
      /\ \A k \in Contracts, j \in Ids : ~(k = c /\ j = i) => escrows'[k][j] = escrows[k][j]
  BY <1>1, <1>2, DealStatus DEF Dispute
<1>4. AllDeals[<<c, i>>].state = "open"
  BY <1>1, <1>2, DealAt, DealFields, States
<1>5. Wealth' = Wealth
  <2>1. ASSUME NEW k \in Contracts, NEW x \in Assets PROVE Held(k, x)' = Held(k, x)
    <3>1. \A j \in Ids : Due(escrows'[k][j], x) = Due(escrows[k][j], x)
      <4>1. /\ escrows'[c][i].asset = escrows[c][i].asset
            /\ escrows'[c][i].amount = escrows[c][i].amount
        BY <1>2 DEF Dispute, SetStatus, EscrowTypeOK, EscrowRecord
      <4>2. Due(escrows'[c][i], x) = Due(escrows[c][i], x)
        BY <1>1, <1>3, <4>1 DEF Due, IsOpen
      <4>3. QED
        BY <1>3, <4>2
    <3>2. [j \in Ids |-> Due(escrows'[k][j], x)] = [j \in Ids |-> Due(escrows[k][j], x)]
      BY <3>1
    <3>3. QED
      BY <3>2 DEF Held
  <2>2. bal' = bal
    BY DEF Dispute
  <2>3. QED
    BY <2>1, <2>2 DEF Wealth
<1>6. Ideal!Contest(<<c, i>>)
  BY <1>3, <1>4, <1>5, States DEF Ideal!Contest, Wealth, AllDeals
<1>7. QED
  BY <1>2, <1>6 DEF Ideal!Next

LEMMA GiveStep ==
    ASSUME EscrowInv, EscrowInv', NEW u \in Users, NEW to \in Holders, NEW a \in Assets,
           NEW n \in Gifts, Pay(u, to, a, n), UNCHANGED escrowVars
    PROVE  Ideal!Next
<1>1. /\ n \in Nat \ {0} /\ bal' = Moved(u, to, a, n) /\ u \in Holders /\ u \notin Contracts
      /\ bal[u][a] \in Nat /\ bal[u][a] >= n
  BY Constants DEF Pay, Refused, EscrowInv, EscrowTypeOK
<1>2. \A k \in Contracts, x \in Assets : Held(k, x)' = Held(k, x)
  BY HeldSame DEF escrowVars
<1>3. Wealth \in [Holders -> [Assets -> Nat]] /\ Wealth' \in [Holders -> [Assets -> Nat]]
  BY WealthNats, WealthNatsNext DEF EscrowInv
<1>4. Wealth[u][a] = bal[u][a]
  BY <1>1 DEF Wealth
<1> DEFINE M == [Wealth EXCEPT ![u][a] = @ - n]
<1>5. M \in [Holders -> [Assets -> Nat]]
      /\ \A h \in Holders, x \in Assets :
            M[h][x] = Wealth[h][x] - (IF h = u /\ x = a THEN n ELSE 0)
  <2>1. Wealth[u][a] - n \in Nat
    BY <1>1, <1>4
  <2>2. QED
    BY <1>1, <1>3, <2>1
<1>6. ASSUME NEW h \in Holders, NEW x \in Assets
      PROVE  Wealth'[h][x] = M[h][x] + (IF h = to /\ x = a THEN n ELSE 0)
  <2> HIDE DEF M
  <2>1. /\ Wealth'[h][x] = bal[h][x] - (IF h = u /\ x = a THEN n ELSE 0)
                                     + (IF h = to /\ x = a THEN n ELSE 0)
                                     - (IF h \in Contracts THEN Held(h, x)' ELSE 0)
        /\ Wealth[h][x] = bal[h][x] - (IF h \in Contracts THEN Held(h, x) ELSE 0)
        /\ bal[h][x] \in Nat
        /\ h \in Contracts => Held(h, x) \in Nat /\ Held(h, x)' \in Nat
    BY <1>1, WealthMoves
  <2>2. M[h][x] = Wealth[h][x] - (IF h = u /\ x = a THEN n ELSE 0)
    BY <1>5
  <2>3. CASE h \in Contracts
    <3>1. Held(h, x)' = Held(h, x)
      BY <1>2, <2>3
    <3>2. QED
      BY <1>1, <2>1, <2>2, <2>3, <3>1
  <2>4. CASE h \notin Contracts
    BY <1>1, <2>1, <2>2, <2>4
  <2>5. QED
    BY <2>3, <2>4
<1>7. Wealth' = [M EXCEPT ![to][a] = @ + n]
  <2> HIDE DEF M
  <2>1. QED
    BY <1>1, <1>3, <1>5, <1>6, OneEntry
<1>9. AllDeals' = AllDeals
  BY DEF AllDeals, escrowVars
<1>10. n > 0 /\ Wealth[u][a] >= n /\ n \in 1..Wealth[u][a]
  BY <1>1, <1>4
<1>11. Ideal!Give(u, to, a, n)
  BY <1>7, <1>9, <1>10 DEF Ideal!Give, Wealth, AllDeals
<1>12. QED
  BY <1>10, <1>11 DEF Ideal!Next, Wealth

-----------------------------------------------------------------------------
LEMMA CustodyNext ==
    EscrowInv /\ EscrowInv' /\ [EscrowNext]_vars => [Ideal!Next]_(Ideal!custodyVars)
<1> SUFFICES ASSUME EscrowInv, EscrowInv', [EscrowNext]_vars
             PROVE  [Ideal!Next]_(Ideal!custodyVars)
  OBVIOUS
<1>1. ASSUME UNCHANGED <<bal, escrows>> PROVE UNCHANGED Ideal!custodyVars
  <2>1. \A k \in Contracts, x \in Assets : Held(k, x)' = Held(k, x)
    BY <1>1, HeldSame
  <2>2. Wealth' = Wealth /\ AllDeals' = AllDeals
    BY <1>1, <2>1 DEF Wealth, AllDeals
  <2>3. QED
    BY <2>2 DEF Ideal!custodyVars, Wealth, AllDeals
<1>2. ASSUME NEW c \in Contracts, EscrowCalls(c) PROVE [Ideal!Next]_(Ideal!custodyVars)
  <2>1. ASSUME NEW u \in Admins, Initialize(c, u) PROVE [Ideal!Next]_(Ideal!custodyVars)
    BY <1>1, <2>1 DEF Initialize
  <2>2. ASSUME NEW i \in Ids, Found(c, i), IsOpen(escrows[c][i]),
               \/ PayOut(c, i, escrows[c][i].beneficiary, "Released")
               \/ PayOut(c, i, escrows[c][i].depositor, "Refunded")
        PROVE  Ideal!Next
    <3>1. escrows[c][i].beneficiary \in Holders /\ escrows[c][i].depositor \in Holders
      BY <2>2, FoundRecord, Constants DEF EscrowInv, EscrowRecord
    <3>2. CASE PayOut(c, i, escrows[c][i].beneficiary, "Released")
      <4>1. Closes(<<c, i>>, escrows[c][i].beneficiary, StateOf("Released"))
        BY <2>2, <3>1, <3>2, CloseStep
      <4>2. QED
        BY <2>2, <4>1, CloseNext, States
    <3>3. CASE PayOut(c, i, escrows[c][i].depositor, "Refunded")
      <4>1. Closes(<<c, i>>, escrows[c][i].depositor, StateOf("Refunded"))
        BY <2>2, <3>1, <3>3, CloseStep
      <4>2. QED
        BY <2>2, <4>1, CloseNext, States
    <3>4. QED
      BY <2>2, <3>2, <3>3
  <2>3. ASSUME NEW u \in Users, NEW i \in Ids, Release(c, u, i) PROVE Ideal!Next
    <3>1. Found(c, i) /\ IsOpen(escrows[c][i])
      BY <2>3 DEF Release, ReleaseFault, IsOpen
    <3>2. PayOut(c, i, escrows[c][i].beneficiary, "Released")
      BY <2>3 DEF Release
    <3>3. QED
      BY <2>2, <3>1, <3>2
  <2>4. ASSUME NEW u \in Users, NEW i \in Ids, Refund(c, u, i) PROVE Ideal!Next
    <3>1. Found(c, i) /\ IsOpen(escrows[c][i])
      BY <2>4 DEF Refund, RefundFault, IsOpen
    <3>2. PayOut(c, i, escrows[c][i].depositor, "Refunded")
      BY <2>4 DEF Refund
    <3>3. QED
      BY <2>2, <3>1, <3>2
  <2>5. ASSUME NEW u \in Users, NEW i \in Ids, NEW p \in BOOLEAN, ResolveDispute(c, u, i, p)
        PROVE  Ideal!Next
    <3>1. Found(c, i) /\ IsOpen(escrows[c][i])
      BY <2>5 DEF ResolveDispute, ResolveFault, IsOpen
    <3>2. \/ PayOut(c, i, escrows[c][i].beneficiary, "Released")
          \/ PayOut(c, i, escrows[c][i].depositor, "Refunded")
      BY <2>5 DEF ResolveDispute
    <3>3. QED
      BY <2>2, <3>1, <3>2
  <2>6. QED
    BY <1>2, <2>1, <2>3, <2>4, <2>5, OpenStep, ContestStep DEF EscrowCalls
<1>3. CASE LedgerSteps /\ UNCHANGED escrowVars
  <2>1. CASE Tick
    BY <1>1, <1>3, <2>1 DEF Tick, escrowVars
  <2>2. ASSUME NEW u \in Users, Elsewhere(u) PROVE [Ideal!Next]_(Ideal!custodyVars)
    BY <1>1, <1>3, <2>2 DEF Elsewhere, escrowVars
  <2>3. QED
    BY <1>3, <2>1, <2>2, GiveStep DEF LedgerSteps
<1>4. CASE UNCHANGED vars
  BY <1>1, <1>4 DEF vars, ledgerVars, escrowVars
<1>5. QED
  BY <1>2, <1>3, <1>4 DEF EscrowNext

(* The escrow contracts are the custody they stand for: each deal opened   *)
(* once, paid in full once and to one of its parties, and nothing else     *)
(* moves what anybody owns but gifts of their own.                         *)
THEOREM KeepsCustody == EscrowSpec => ImplementsCustody
<1>1. EscrowInv /\ EscrowInit => Ideal!Init
  <2> SUFFICES ASSUME EscrowInv, EscrowInit PROVE Ideal!Init
    OBVIOUS
  <2>1. Wealth \in [Holders -> [Assets -> Nat]]
    BY WealthNats DEF EscrowInv
  <2>2. \A c \in Contracts, i \in Ids : escrows[c][i] = NoEscrow
    BY DEF EscrowInit
  <2>3. AllDeals = [k \in Contracts \X Ids |-> [state |-> "none"]]
    BY <2>2 DEF AllDeals, DealOf, NoEscrow
  <2>4. QED
    BY <2>1, <2>3 DEF Ideal!Init, Ideal!NoDeal, Wealth, AllDeals
<1>2. QED
  BY <1>1, CustodyNext, InvCorrect, PTL DEF EscrowSpec, ImplementsCustody, Ideal!Spec
=============================================================================
