------------------------------- MODULE Escrow -------------------------------
(***************************************************************************)
(* The escrow contract, deployed at one address or at several (a second    *)
(* deployment has its own storage; the first keeps its escrows and funds). *)
(*                                                                         *)
(* Each operation has a Fault operator, the error of the first check that  *)
(* fails in the order the code makes them, or "ok", and an action, taken   *)
(* when the fault is "ok" and the token is willing to make the transfer    *)
(* (see Refused in Ledger).                                                *)
(***************************************************************************)
EXTENDS Ledger, Sums, Sequences

CONSTANTS
    Amounts,    \* amounts asked for
    Timeouts,   \* timeouts asked for
    MaxId       \* the last id the counter can hand out

ASSUME EscrowAssumption ==
    /\ Amounts \subseteq Int
    /\ Timeouts \subseteq Nat
    /\ MaxId \in Nat \ {0}

VARIABLES
    admin,      \* admin[c]: DataKey::Admin, Nobody when it is not set
    nextId,     \* nextId[c]: DataKey::NextId
    escrows,    \* escrows[c][id]: DataKey::Escrow(id)
    events      \* events[c][id]: what c has published about id

escrowVars == <<admin, nextId, escrows, events>>
vars == <<ledgerVars, escrowVars>>

Ids == 1..MaxId

NoEscrow == [status |-> "None"]

EscrowRecord ==
    [depositor: Users, beneficiary: Holders, amount: Nat \ {0}, asset: Assets,
     status: {"Locked", "Released", "Refunded", "Disputed"},
     createdAt: Nat, timeout: Nat]

EscrowInit ==
    /\ LedgerInit
    /\ admin = [c \in Contracts |-> Nobody]
    /\ nextId = [c \in Contracts |-> 1]
    /\ escrows = [c \in Contracts |-> [i \in Ids |-> NoEscrow]]
    /\ events = [c \in Contracts |-> [i \in Ids |-> <<>>]]

\* The payloads of the events, as env.events().publish is given them.
EventRecord ==
    [topic: {"escrow_created"}, data: Users \X Holders \X (Nat \ {0})]
    \cup [topic: {"escrow_released", "escrow_refunded"}, data: Holders \X (Nat \ {0})]
    \cup [topic: {"escrow_disputed"}, data: {<<u>> : u \in Users}]
    \cup [topic: {"escrow_resolved"}, data: {<<p>> : p \in BOOLEAN}]

Found(c, i) == escrows[c][i].status # "None"

IsParty(c, u, i) == u \in {escrows[c][i].depositor, escrows[c][i].beneficiary}

SetStatus(c, i, s) == escrows' = [escrows EXCEPT ![c][i].status = s]

Publish(c, i, topic, data) ==
    events' = [events EXCEPT ![c][i] = Append(@, [topic |-> topic, data |-> data])]

-----------------------------------------------------------------------------
InitializeFault(c) == IF admin[c] # Nobody THEN "AlreadyInitialized" ELSE "ok"

Initialize(c, u) ==
    /\ InitializeFault(c) = "ok"
    /\ Signed(u)
    /\ admin' = [admin EXCEPT ![c] = u]
    /\ nextId' = [nextId EXCEPT ![c] = 1]
    /\ UNCHANGED <<now, bal, escrows, events>>

\* Injected fault: the id counter is not checked for overflow.
CreateFaultUnbounded(c, d, n, a, t, willing) ==
    IF admin[c] # Nobody /\ n > 0 /\ t > now /\ ~Refused(d, a, n, willing)
    THEN "ok" ELSE "refused"

\* Injected fault: escrows are accepted before there is an admin.
CreateFaultUninitialized(c, d, n, a, t, willing) ==
    IF n > 0 /\ t > now /\ nextId[c] <= MaxId /\ ~Refused(d, a, n, willing)
    THEN "ok" ELSE "refused"

\* Injected fault: a timeout that is now is accepted.
CreateFaultAtTimeout(c, d, n, a, t, willing) ==
    IF admin[c] # Nobody /\ n > 0 /\ t >= now /\ nextId[c] <= MaxId /\ ~Refused(d, a, n, willing)
    THEN "ok" ELSE "refused"

(***************************************************************************)
(* create_escrow.  The counter is advanced and the record stored before    *)
(* the transfer is tried; all of it is rolled back if that fails.  At the  *)
(* end of the counter's range id + 1 overflows and the invocation panics.  *)
(***************************************************************************)
CreateFault(c, d, n, a, t, willing) ==
    IF admin[c] = Nobody THEN "NotInitialized"
    ELSE IF n <= 0 THEN "InvalidAmount"
    ELSE IF t <= now THEN "InvalidDeadline"
    ELSE IF bal[d][a] < n THEN "InsufficientBalance"
    ELSE IF nextId[c] > MaxId THEN "Panic"
    ELSE IF Refused(d, a, n, willing) THEN "TransferFailed"
    ELSE "ok"

\* Injected fault: the id counter is not advanced.
CreateEffectSameId(c, d, b, n, a, t) ==
    /\ escrows' = [escrows EXCEPT ![c][nextId[c]] =
         [depositor |-> d, beneficiary |-> b, amount |-> n, asset |-> a,
          status |-> "Locked", createdAt |-> now, timeout |-> t]]
    /\ bal' = Moved(d, c, a, n)
    /\ Publish(c, nextId[c], "escrow_created", <<d, b, n>>)
    /\ UNCHANGED <<now, admin, nextId>>

CreateEffect(c, d, b, n, a, t) ==
    LET id == nextId[c] IN
    /\ nextId' = [nextId EXCEPT ![c] = id + 1]
    /\ escrows' = [escrows EXCEPT ![c][id] =
         [depositor |-> d, beneficiary |-> b, amount |-> n, asset |-> a,
          status |-> "Locked", createdAt |-> now, timeout |-> t]]
    /\ bal' = Moved(d, c, a, n)
    /\ Publish(c, id, "escrow_created", <<d, b, n>>)
    /\ UNCHANGED <<now, admin>>

\* Injected fault: the beneficiary signs instead of the depositor.
CreateEscrowUnsigned(c, d, b, n, a, t) ==
    /\ CreateFault(c, d, n, a, t, TRUE) = "ok"
    /\ Signed(b)
    /\ CreateEffect(c, d, b, n, a, t)

CreateEscrow(c, d, b, n, a, t) ==
    /\ CreateFault(c, d, n, a, t, TRUE) = "ok"
    /\ Signed(d)
    /\ CreateEffect(c, d, b, n, a, t)

-----------------------------------------------------------------------------
(* What release, refund and a resolution share: the payout of escrow i to  *)
(* one of its parties, and the terminal status it leads to.                *)
PayOut(c, i, to, status) ==
    /\ bal' = Moved(c, to, escrows[c][i].asset, escrows[c][i].amount)
    /\ SetStatus(c, i, status)

PayoutRefused(c, i, willing) ==
    Refused(c, escrows[c][i].asset, escrows[c][i].amount, willing)

\* Injected fault: the status is not checked.
ReleaseFaultAgain(c, u, i, willing) ==
    IF Found(c, i) /\ IsParty(c, u, i) /\ ~PayoutRefused(c, i, willing)
    THEN "ok" ELSE "refused"

ReleaseFault(c, u, i, willing) ==
    IF ~Found(c, i) THEN "EscrowNotFound"
    ELSE IF ~IsParty(c, u, i) THEN "Unauthorized"
    ELSE IF escrows[c][i].status # "Locked" THEN "InvalidStatus"
    ELSE IF PayoutRefused(c, i, willing) THEN "TransferFailed"
    ELSE "ok"

\* Injected fault: the caller is paid.
ReleaseToCaller(c, u, i) ==
    LET e == escrows[c][i] IN
    /\ ReleaseFault(c, u, i, TRUE) = "ok"
    /\ Signed(u)
    /\ PayOut(c, i, u, "Released")
    /\ Publish(c, i, "escrow_released", <<e.beneficiary, e.amount>>)
    /\ UNCHANGED <<now, admin, nextId>>

Release(c, u, i) ==
    LET e == escrows[c][i] IN
    /\ ReleaseFault(c, u, i, TRUE) = "ok"
    /\ Signed(u)
    /\ PayOut(c, i, e.beneficiary, "Released")
    /\ Publish(c, i, "escrow_released", <<e.beneficiary, e.amount>>)
    /\ UNCHANGED <<now, admin, nextId>>

\* Injected fault: the beneficiary may call it too.
RefundFaultEither(c, u, i, willing) ==
    IF Found(c, i) /\ IsParty(c, u, i) /\ escrows[c][i].status = "Locked" /\ ~PayoutRefused(c, i, willing)
    THEN "ok" ELSE "refused"

RefundFault(c, u, i, willing) ==
    IF ~Found(c, i) THEN "EscrowNotFound"
    ELSE IF u # escrows[c][i].depositor THEN "Unauthorized"
    ELSE IF escrows[c][i].status # "Locked" THEN "InvalidStatus"
    ELSE IF PayoutRefused(c, i, willing) THEN "TransferFailed"
    ELSE "ok"

Refund(c, u, i) ==
    LET e == escrows[c][i] IN
    /\ RefundFault(c, u, i, TRUE) = "ok"
    /\ Signed(u)
    /\ PayOut(c, i, e.depositor, "Refunded")
    /\ Publish(c, i, "escrow_refunded", <<e.depositor, e.amount>>)
    /\ UNCHANGED <<now, admin, nextId>>

DisputeFault(c, u, i) ==
    IF ~Found(c, i) THEN "EscrowNotFound"
    ELSE IF ~IsParty(c, u, i) THEN "Unauthorized"
    ELSE IF escrows[c][i].status # "Locked" THEN "InvalidStatus"
    ELSE "ok"

Dispute(c, u, i) ==
    /\ DisputeFault(c, u, i) = "ok"
    /\ Signed(u)
    /\ SetStatus(c, i, "Disputed")
    /\ Publish(c, i, "escrow_disputed", <<u>>)
    /\ UNCHANGED <<now, bal, admin, nextId>>

ResolveFault(c, u, i, willing) ==
    IF admin[c] = Nobody THEN "NotInitialized"
    ELSE IF u # admin[c] THEN "Unauthorized"
    ELSE IF ~Found(c, i) THEN "EscrowNotFound"
    ELSE IF escrows[c][i].status # "Disputed" THEN "InvalidStatus"
    ELSE IF PayoutRefused(c, i, willing) THEN "TransferFailed"
    ELSE "ok"

\* Injected fault: the decision is announced the wrong way round.
ResolveDisputeSwapped(c, u, i, payBeneficiary) ==
    LET e == escrows[c][i] IN
    /\ ResolveFault(c, u, i, TRUE) = "ok"
    /\ Signed(u)
    /\ IF payBeneficiary THEN PayOut(c, i, e.beneficiary, "Released")
                         ELSE PayOut(c, i, e.depositor, "Refunded")
    /\ Publish(c, i, "escrow_resolved", <<~payBeneficiary>>)
    /\ UNCHANGED <<now, admin, nextId>>

ResolveDispute(c, u, i, payBeneficiary) ==
    LET e == escrows[c][i] IN
    /\ ResolveFault(c, u, i, TRUE) = "ok"
    /\ Signed(u)
    /\ IF payBeneficiary THEN PayOut(c, i, e.beneficiary, "Released")
                         ELSE PayOut(c, i, e.depositor, "Refunded")
    /\ Publish(c, i, "escrow_resolved", <<payBeneficiary>>)
    /\ UNCHANGED <<now, admin, nextId>>

-----------------------------------------------------------------------------
(* The operations of contract c, and the whole system of users, tokens and *)
(* escrow contracts.                                                       *)
EscrowCalls(c) ==
    \/ \E u \in Admins : Initialize(c, u)
    \/ \E d \in Users, b \in Payees, n \in Amounts, a \in Assets, t \in Timeouts :
         CreateEscrow(c, d, b, n, a, t)
    \/ \E u \in Users, i \in Ids : Release(c, u, i)
    \/ \E u \in Users, i \in Ids : Refund(c, u, i)
    \/ \E u \in Users, i \in Ids : Dispute(c, u, i)
    \/ \E u \in Users, i \in Ids, p \in BOOLEAN : ResolveDispute(c, u, i, p)

LedgerSteps ==
    \/ Tick
    \/ \E u \in Users : Elsewhere(u)
    \/ \E u \in Users, to \in Holders, a \in Assets, n \in Gifts : Pay(u, to, a, n)

EscrowNext ==
    \/ \E c \in Contracts : EscrowCalls(c)
    \/ LedgerSteps /\ UNCHANGED escrowVars

EscrowSpec == EscrowInit /\ [][EscrowNext]_vars

-----------------------------------------------------------------------------
(* Type invariant of the escrow contracts and of the ledger under them.    *)
EscrowTypeOK ==
    /\ now \in 0..MaxTime
    /\ bal \in [Holders -> [Assets -> Nat]]
    /\ signer \in Users \cup {Nobody}
    /\ admin \in [Contracts -> Admins \cup {Nobody}]
    /\ nextId \in [Contracts -> 1..(MaxId + 1)]
    /\ escrows \in [Contracts -> [Ids -> EscrowRecord \cup {NoEscrow}]]
    /\ events \in [Contracts -> [Ids -> Seq(EventRecord)]]

IsOpen(e) == e.status \in {"Locked", "Disputed"}

\* What an escrow still ties up of asset a.
Due(e, a) == IF IsOpen(e) /\ e.asset = a THEN e.amount ELSE 0

Held(c, a) == SumTo([i \in Ids |-> Due(escrows[c][i], a)], MaxId)

(* A contract owns at least what all its open escrows together tie up, in  *)
(* every asset: no order of creations, releases, refunds, disputes and     *)
(* resolutions pays one escrow out of the deposit of another.              *)
Solvency == \A c \in Contracts, a \in Assets : bal[c][a] >= Held(c, a)

(* Funds are never stranded: as long as an escrow is open somebody can     *)
(* settle it, its parties while it is Locked, the admin once it is         *)
(* Disputed, and the contract has the funds for it.                        *)
Settleable ==
    \A c \in Contracts, i \in Ids : IsOpen(escrows[c][i]) =>
        \E u \in Users : \/ /\ ReleaseFault(c, u, i, TRUE) = "ok"
                           /\ \E v \in Users : RefundFault(c, v, i, TRUE) = "ok"
                        \/ ResolveFault(c, u, i, TRUE) = "ok"

IdsDense == \A c \in Contracts, i \in Ids : Found(c, i) <=> i < nextId[c]

AgesOrdered ==
    \A c \in Contracts, i \in Ids : Found(c, i) =>
        /\ escrows[c][i].createdAt <= now
        /\ escrows[c][i].createdAt < escrows[c][i].timeout
        /\ \A j \in 1..i : escrows[c][j].createdAt <= escrows[c][i].createdAt

(* Ids are handed out in order and without gaps, and an escrow was created *)
(* before its timeout and not before those with a smaller id.              *)
CreationOrder == IdsDense /\ AgesOrdered

\* The status an observer of the events alone arrives at.
Replayed(s) ==
    IF s = <<>> THEN "None"
    ELSE LET e == s[Len(s)] IN
      CASE e.topic = "escrow_created"  -> "Locked"
        [] e.topic = "escrow_disputed" -> "Disputed"
        [] e.topic = "escrow_released" -> "Released"
        [] e.topic = "escrow_refunded" -> "Refunded"
        [] e.topic = "escrow_resolved" -> IF e.data[1] THEN "Released" ELSE "Refunded"

(* The events an escrow has published tell its whole story: the first one  *)
(* announces its parties and its amount, the last one implies its status,  *)
(* a payout names the party that got it, and nothing follows a payout.     *)
AuditTrail ==
    \A c \in Contracts, i \in Ids :
        LET s == events[c][i]
            e == escrows[c][i] IN
        /\ Replayed(s) = e.status
        /\ s # <<>> => s[1] = [topic |-> "escrow_created",
                              data |-> <<e.depositor, e.beneficiary, e.amount>>]
        /\ \A k \in 1..Len(s) :
              /\ s[k].topic \in {"escrow_released", "escrow_refunded", "escrow_resolved"} => k = Len(s)
              /\ s[k].topic = "escrow_released" => s[k].data = <<e.beneficiary, e.amount>>
              /\ s[k].topic = "escrow_refunded" => s[k].data = <<e.depositor, e.amount>>
              /\ s[k].topic = "escrow_resolved" =>
                    k > 1 /\ s[k - 1].topic = "escrow_disputed"

(* Nobody's tokens are spent by a call somebody else signed: a user's      *)
(* balance falls only in a step the user signed.                           *)
OwnFundsOnly ==
    [][\A u \in Users, a \in Assets : bal'[u][a] < bal[u][a] => signer' = u]_vars

(* Rights over an open escrow: from Locked, only the depositor can take    *)
(* the funds back and only a party can do anything; once it is Disputed    *)
(* neither party can move it any more, unless it is the admin.             *)
SettledByRight ==
    [][\A c \in Contracts, i \in Ids :
         LET e == escrows[c][i]
             f == escrows'[c][i]
         IN  e.status # f.status /\ Found(c, i) =>
               /\ e.status = "Locked" => signer' \in {e.depositor, e.beneficiary}
               /\ e.status = "Locked" /\ f.status = "Refunded" => signer' = e.depositor
               /\ e.status = "Disputed" => signer' = admin[c]]_vars

(* The escrow contracts implement the ideal custody of Custody.tla: with   *)
(* the funds its open escrows tie up set apart from what a contract owns,  *)
(* a deal is opened once, paid in full once, to one of its two parties,    *)
(* and no step moves anything else.                                        *)
DealOf(e) ==
    IF e.status = "None" THEN [state |-> "none"]
    ELSE [depositor |-> e.depositor, beneficiary |-> e.beneficiary,
          amount |-> e.amount, asset |-> e.asset,
          state |-> CASE e.status = "Locked"   -> "open"
                      [] e.status = "Disputed" -> "contested"
                      [] e.status = "Refunded" -> "returned"
                      [] e.status = "Released" -> "paid"]

Ideal == INSTANCE Custody WITH
    Deals  <- Contracts \X Ids,
    Givers <- Users,
    Owners <- Holders,
    Tokens <- Assets,
    wealth <- [h \in Holders |-> [a \in Assets |->
                 bal[h][a] - (IF h \in Contracts THEN Held(h, a) ELSE 0)]],
    deals  <- [k \in Contracts \X Ids |-> DealOf(escrows[k[1]][k[2]])]

ImplementsCustody == Ideal!Spec
=============================================================================
