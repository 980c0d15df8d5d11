------------------------------- MODULE Payment -------------------------------
(***************************************************************************)
(* The payment contract, and the system it makes up with the registry and  *)
(* the escrow contracts it calls.  execute_payment resolves the escrow     *)
(* contract through the registry at that moment, calls its create_escrow   *)
(* and records the id it returns, all in one invocation: an error of a     *)
(* callee rolls the whole of it back.                                      *)
(*                                                                         *)
(* Nothing makes sure that what is registered is an escrow contract.  A    *)
(* foreign contract answers what it likes, and execute_payment believes    *)
(* it; what a foreign contract does besides, with whatever its callers     *)
(* have authorized, is a step of its own (Pay, CreateEscrow, Register).    *)
(***************************************************************************)
EXTENDS Escrow, Registry

CONSTANTS
    RegistryAt,   \* the address of the registry contract
    Foreign,      \* contracts of other code; like accounts, they call for themselves
    MaxPayments   \* the last payment id the counter can hand out

ASSUME PaymentAssumption ==
    /\ RegistryAt \notin Holders \cup {Nobody}
    /\ Foreign \subseteq Users
    /\ MaxPayments \in Nat \ {0}

VARIABLES
    payAdmin,     \* DataKey::Admin
    payRegistry,  \* DataKey::Registry, Nobody when it is not set
    payNextId,    \* DataKey::NextId
    payments,     \* payments[p]: DataKey::Payment(p)
    payEvents,    \* payEvents[p]: topics published about p
    lockedAt      \* history, not in the code: the contract p was executed at

paymentVars == <<payAdmin, payRegistry, payNextId, payments, payEvents, lockedAt>>
systemVars == <<vars, registryVars, paymentVars>>

PaymentIds == 1..MaxPayments

NoPayment == [status |-> "None"]

PaymentRecord ==
    [creator: Users, recipient: Holders, amount: Nat \ {0}, asset: Assets, deadline: Nat,
     status: {"Created", "Approved", "Executed", "Cancelled"}, escrowId: Nat]

PaymentInit ==
    /\ payAdmin = Nobody
    /\ payRegistry = Nobody
    /\ payNextId = 1
    /\ payments = [p \in PaymentIds |-> NoPayment]
    /\ payEvents = [p \in PaymentIds |-> <<>>]
    /\ lockedAt = [p \in PaymentIds |-> Nobody]

Stored(p) == payments[p].status # "None"

PayPublish(p, topic) == payEvents' = [payEvents EXCEPT ![p] = Append(@, topic)]

Progress(p, status, topic) ==
    /\ payments' = [payments EXCEPT ![p].status = status]
    /\ PayPublish(p, topic)

-----------------------------------------------------------------------------
PayInitializeFault == IF payAdmin # Nobody THEN "AlreadyInitialized" ELSE "ok"

\* Nothing checks that "registry" is a registry contract.
PayInitialize(u, registry) ==
    /\ PayInitializeFault = "ok"
    /\ Signed(u)
    /\ payAdmin' = u
    /\ payRegistry' = registry
    /\ payNextId' = 1
    /\ UNCHANGED <<now, bal, escrowVars, registryVars, payments, payEvents, lockedAt>>

\* Injected fault: the id counter is not checked for overflow.
CreatePaymentFaultUnbounded(n, t) ==
    IF payAdmin # Nobody /\ n > 0 /\ t > now THEN "ok" ELSE "refused"

CreatePaymentFault(n, t) ==
    IF payAdmin = Nobody THEN "NotInitialized"
    ELSE IF n <= 0 THEN "InvalidAmount"
    ELSE IF t <= now THEN "InvalidDeadline"
    ELSE IF payNextId > MaxPayments THEN "Panic"
    ELSE "ok"

CreatePayment(u, r, n, a, t) ==
    /\ CreatePaymentFault(n, t) = "ok"
    /\ Signed(u)
    /\ payNextId' = payNextId + 1
    /\ payments' = [payments EXCEPT ![payNextId] =
         [creator |-> u, recipient |-> r, amount |-> n, asset |-> a, deadline |-> t,
          status |-> "Created", escrowId |-> 0]]
    /\ PayPublish(payNextId, "payment_created")
    /\ UNCHANGED <<now, bal, escrowVars, registryVars, payAdmin, payRegistry, lockedAt>>

ApproveFault(u, p) ==
    IF ~Stored(p) THEN "PaymentNotFound"
    ELSE IF payAdmin = Nobody THEN "NotInitialized"
    ELSE IF u \notin {payments[p].creator, payAdmin} THEN "Unauthorized"
    ELSE IF payments[p].status # "Created" THEN "InvalidStatus"
    ELSE "ok"

ApprovePayment(u, p) ==
    /\ ApproveFault(u, p) = "ok"
    /\ Signed(u)
    /\ Progress(p, "Approved", "payment_approved")
    /\ UNCHANGED <<now, bal, escrowVars, registryVars, payAdmin, payRegistry, payNextId, lockedAt>>

(***************************************************************************)
(* Where execute_payment may send create_escrow to: what get_contract      *)
(* answers, which is the entry at the registry itself, and anything at a   *)
(* foreign contract in its place.                                          *)
(***************************************************************************)
Resolved ==
    IF payRegistry = RegistryAt THEN {GetContract(EscrowKey)} \ {Nobody}
    ELSE IF payRegistry \in Foreign THEN Holders
    ELSE {}

\* An account cannot answer; a foreign contract does if it is willing.
LockFault(p, c, willing) ==
    LET q == payments[p] IN
    IF c \in Contracts THEN CreateFault(c, q.creator, q.amount, q.asset, q.deadline, willing)
    ELSE IF c \in Foreign /\ willing THEN "ok"
    ELSE "NoSuchContract"

\* What create_escrow does at c, and the id it answers: any, if c is foreign
\* (0 stands for those that no escrow has).
Lock(p, c, id) ==
    LET q == payments[p] IN
    \/ /\ c \in Contracts /\ id = nextId[c]
       /\ CreateEffect(c, q.creator, q.recipient, q.amount, q.asset, q.deadline)
    \/ /\ c \in Foreign /\ id \in {0} \cup Ids
       /\ UNCHANGED <<now, bal, escrowVars>>

\* Injected fault: approval is not required.
ExecuteFaultUnapproved(u, p, c, willing) ==
    IF Stored(p) /\ u = payments[p].creator /\ payments[p].status \in {"Created", "Approved"}
       /\ c \in Resolved /\ LockFault(p, c, willing) = "ok"
    THEN "ok" ELSE "refused"

ExecuteFault(u, p, c, willing) ==
    IF ~Stored(p) THEN "PaymentNotFound"
    ELSE IF u # payments[p].creator THEN "Unauthorized"
    ELSE IF payments[p].status # "Approved" THEN "InvalidStatus"
    ELSE IF now > payments[p].deadline THEN "InvalidDeadline"
    ELSE IF payRegistry = Nobody THEN "NotInitialized"
    ELSE IF c \notin Resolved THEN "RegistryNotFound"
    ELSE IF LockFault(p, c, willing) # "ok" THEN "EscrowCallFailed"
    ELSE "ok"

Completed(p, c, id) ==
    /\ payments' = [payments EXCEPT ![p].status = "Executed", ![p].escrowId = id]
    /\ PayPublish(p, "payment_completed")
    /\ lockedAt' = [lockedAt EXCEPT ![p] = c]
    /\ UNCHANGED <<registryVars, payAdmin, payRegistry, payNextId>>

\* Injected fault: the error of create_escrow is swallowed, and its default taken.
ExecutePaymentAnyway(u, p, c, id) ==
    LET fault == ExecuteFault(u, p, c, TRUE) IN
    /\ Signed(u)
    /\ \/ fault = "ok" /\ Lock(p, c, id)
       \/ fault = "EscrowCallFailed" /\ id = 0 /\ UNCHANGED <<now, bal, escrowVars>>
    /\ Completed(p, c, id)

ExecutePayment(u, p, c, id) ==
    /\ ExecuteFault(u, p, c, TRUE) = "ok"
    /\ Signed(u)
    /\ Lock(p, c, id)
    /\ Completed(p, c, id)

CancelFault(u, p) ==
    IF ~Stored(p) THEN "PaymentNotFound"
    ELSE IF u # payments[p].creator THEN "Unauthorized"
    ELSE IF payments[p].status \notin {"Created", "Approved"} THEN "InvalidStatus"
    ELSE "ok"

CancelPayment(u, p) ==
    /\ CancelFault(u, p) = "ok"
    /\ Signed(u)
    /\ Progress(p, "Cancelled", "payment_cancelled")
    /\ UNCHANGED <<now, bal, escrowVars, registryVars, payAdmin, payRegistry, payNextId, lockedAt>>

-----------------------------------------------------------------------------
PaymentCalls ==
    \/ \E u \in Admins, r \in {RegistryAt} \cup Users : PayInitialize(u, r)
    \/ \E u \in Users, r \in Payees, n \in Amounts, a \in Assets, t \in Timeouts :
         CreatePayment(u, r, n, a, t)
    \/ \E u \in Users, p \in PaymentIds : ApprovePayment(u, p)
    \/ \E u \in Users, p \in PaymentIds, c \in Holders, id \in {0} \cup Ids :
         ExecutePayment(u, p, c, id)
    \/ \E u \in Users, p \in PaymentIds : CancelPayment(u, p)

SystemNext ==
    \/ PaymentCalls
    \/ RegistryCalls /\ UNCHANGED <<escrowVars, paymentVars>>
    \/ EscrowNext /\ UNCHANGED <<registryVars, paymentVars>>

SystemInit == EscrowInit /\ RegistryInit /\ PaymentInit

SystemSpec == SystemInit /\ [][SystemNext]_systemVars

-----------------------------------------------------------------------------
(* Type invariant of the payment contract and of the registry it asks.     *)
PaymentTypeOK ==
    /\ RegistryTypeOK
    /\ payAdmin \in Admins \cup {Nobody}
    /\ payRegistry \in {RegistryAt, Nobody} \cup Users
    /\ payNextId \in 1..(MaxPayments + 1)
    /\ payments \in [PaymentIds -> PaymentRecord \cup {NoPayment}]
    /\ payEvents \in [PaymentIds -> Seq({"payment_created", "payment_approved",
                                         "payment_completed", "payment_cancelled"})]
    /\ lockedAt \in [PaymentIds -> Contracts \cup Foreign \cup {Nobody}]

Executed(p) == payments[p].status = "Executed"

\* The payment's funds were locked by an escrow contract of this code.
Funded(p) == Executed(p) /\ lockedAt[p] \in Contracts

(* A payment that an escrow contract was called for counts as executed     *)
(* exactly when an escrow holds, or held, its funds on its very terms: the *)
(* escrow it names, at the contract that was registered when it was        *)
(* executed, has the payment's parties, amount, asset and deadline, and    *)
(* was created before that deadline, whatever has happened since to the    *)
(* registry entry and to the escrow.  (A foreign contract under "escrow"   *)
(* vouches for itself: see GenuineRoute in PaymentProofs.)                 *)
ExecutedBacked ==
    \A p \in PaymentIds :
        IF Executed(p)
          THEN Funded(p) =>
               LET q == payments[p]
                   c == lockedAt[p] IN
               /\ q.escrowId \in Ids
               /\ Found(c, q.escrowId)
               /\ LET e == escrows[c][q.escrowId] IN
                    /\ <<e.depositor, e.beneficiary>> = <<q.creator, q.recipient>>
                    /\ <<e.amount, e.asset>> = <<q.amount, q.asset>>
                    /\ e.timeout = q.deadline
                    /\ e.createdAt < q.deadline
          ELSE lockedAt[p] = Nobody /\ (Stored(p) => payments[p].escrowId = 0)

(* No escrow backs two payments, however often the registry entry moves to *)
(* and fro between escrow contracts and foreign ones: each execution locks *)
(* funds of its own.                                                       *)
OneEscrowEach ==
    \A p, q \in PaymentIds :
        Funded(p) /\ Funded(q) /\ p # q =>
            <<lockedAt[p], payments[p].escrowId>> # <<lockedAt[q], payments[q].escrowId>>

\* The lifecycle of a payment as the topics of its events tell it.
PaymentStory ==
    [None      |-> {<<>>},
     Created   |-> {<<"payment_created">>},
     Approved  |-> {<<"payment_created", "payment_approved">>},
     Executed  |-> {<<"payment_created", "payment_approved", "payment_completed">>},
     Cancelled |-> {<<"payment_created", "payment_cancelled">>,
                    <<"payment_created", "payment_approved", "payment_cancelled">>}]

(* Every payment was approved once before it was executed, nothing follows *)
(* its execution or cancellation, and its events say so.                   *)
PaymentTrail ==
    \A p \in PaymentIds : payEvents[p] \in PaymentStory[payments[p].status]

=============================================================================
