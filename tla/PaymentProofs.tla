--------------------------- MODULE PaymentProofs ---------------------------
(***************************************************************************)
(* Proofs about the system of payment, registry and escrow contracts for   *)
(* any number of each payment, user and escrow contract.  First, that the  *)
(* system implements the escrow specification, whose theorems so hold of   *)
(* it; on these rest the theorems about payments.                          *)
(***************************************************************************)
EXTENDS Payment, EscrowProofs, SequenceTheorems

LEMMA PaymentConstants ==
    /\ RegistryAt \notin Contracts /\ RegistryAt # Nobody
    /\ MaxPayments \in Nat \ {0}
    /\ EscrowKey \in Keys
    /\ PaymentIds \subseteq Nat \ {0}
    /\ Nobody \notin Contracts /\ Nobody \notin Holders
    /\ Foreign \subseteq Users /\ Foreign \cap Contracts = {} /\ Nobody \notin Foreign
BY PaymentAssumption, RegistryAssumption, LedgerAssumption
   DEF PaymentAssumption, RegistryAssumption, LedgerAssumption, PaymentIds, Holders

\* The terms of a payment are such as were asked for.
Terms ==
    \A p \in PaymentIds : Stored(p) =>
        /\ payments[p].recipient \in Payees
        /\ payments[p].amount \in Amounts
        /\ payments[p].deadline \in Timeouts

LEMMA StoredRecord ==
    ASSUME PaymentTypeOK, NEW p \in PaymentIds, Stored(p)
    PROVE  payments[p] \in PaymentRecord
BY DEF PaymentTypeOK, Stored, NoPayment

-----------------------------------------------------------------------------
(* A call of the payment contract is, to the ledger and the escrow         *)
(* contracts, an invocation of some other contract or a create_escrow.     *)
LEMMA ExecuteLocks ==
    ASSUME PaymentTypeOK, NEW u \in Users, NEW p \in PaymentIds, NEW c, NEW id,
           ExecutePayment(u, p, c, id)
    PROVE  /\ Stored(p) /\ payments[p].status = "Approved" /\ u = payments[p].creator
           /\ \/ /\ c \in Contracts /\ id = nextId[c]
                 /\ CreateEscrow(c, u, payments[p].recipient, payments[p].amount,
                                 payments[p].asset, payments[p].deadline)
              \/ /\ c \in Foreign /\ id \in Nat
                 /\ Signed(u) /\ UNCHANGED <<now, bal, escrowVars>>
<1>1. ExecuteFault(u, p, c, TRUE) = "ok" /\ Signed(u) /\ Lock(p, c, id)
  BY DEF ExecutePayment
<1>2. Stored(p) /\ payments[p].status = "Approved" /\ u = payments[p].creator
      /\ LockFault(p, c, TRUE) = "ok"
  BY <1>1 DEF ExecuteFault
<1>3. CASE c \in Contracts /\ id = nextId[c]
           /\ CreateEffect(c, payments[p].creator, payments[p].recipient, payments[p].amount,
                           payments[p].asset, payments[p].deadline)
  <2>1. CreateFault(c, payments[p].creator, payments[p].amount, payments[p].asset,
                    payments[p].deadline, TRUE) = "ok"
    BY <1>2, <1>3 DEF LockFault
  <2>2. QED
    BY <1>1, <1>2, <1>3, <2>1 DEF CreateEscrow
<1>4. CASE c \in Foreign /\ id \in {0} \cup Ids /\ UNCHANGED <<now, bal, escrowVars>>
  BY <1>1, <1>2, <1>4 DEF Ids
<1>5. QED
  BY <1>1, <1>3, <1>4 DEF Lock

LEMMA StepRefines ==
    ASSUME PaymentTypeOK, Terms, [SystemNext]_systemVars
    PROVE  [EscrowNext]_vars
<1>1. ASSUME NEW u \in Users, Signed(u), UNCHANGED <<now, bal, escrowVars>> PROVE EscrowNext
  BY <1>1 DEF EscrowNext, LedgerSteps, Elsewhere
<1>2. ASSUME NEW u \in Admins, NEW r, PayInitialize(u, r) PROVE EscrowNext
  BY <1>1, <1>2, Constants DEF PayInitialize
<1>3. ASSUME NEW u \in Users, NEW r, NEW n, NEW a, NEW t, CreatePayment(u, r, n, a, t)
      PROVE  EscrowNext
  BY <1>1, <1>3 DEF CreatePayment
<1>4. ASSUME NEW u \in Users, NEW p, ApprovePayment(u, p) \/ CancelPayment(u, p)
      PROVE  EscrowNext
  BY <1>1, <1>4 DEF ApprovePayment, CancelPayment
<1>5. ASSUME NEW u \in Users, NEW p \in PaymentIds, NEW c, NEW id, ExecutePayment(u, p, c, id)
      PROVE  EscrowNext
  <2> DEFINE q == payments[p]
  <2>1. CASE /\ Stored(p) /\ c \in Contracts
             /\ CreateEscrow(c, u, q.recipient, q.amount, q.asset, q.deadline)
    <3>1. q.asset \in Assets
      BY <2>1, StoredRecord DEF PaymentRecord
    <3>2. q.recipient \in Payees /\ q.amount \in Amounts /\ q.deadline \in Timeouts
      BY <2>1 DEF Terms
    <3>3. EscrowCalls(c)
      BY <2>1, <3>1, <3>2 DEF EscrowCalls
    <3>4. QED
      BY <2>1, <3>3 DEF EscrowNext
  <2>2. CASE Signed(u) /\ UNCHANGED <<now, bal, escrowVars>>
    BY <1>1, <2>2
  <2>3. QED
    BY <1>5, <2>1, <2>2, ExecuteLocks
<1>6. ASSUME RegistryCalls, UNCHANGED escrowVars PROVE EscrowNext
  <2>1. PICK u \in Users : Signed(u) /\ UNCHANGED <<now, bal>>
    BY <1>6, Constants DEF RegistryCalls, RegInitialize, Register, Remove
  <2>2. QED
    BY <1>1, <1>6, <2>1
<1>7. CASE UNCHANGED systemVars
  BY <1>7 DEF systemVars
<1>8. CASE PaymentCalls
  BY <1>2, <1>3, <1>4, <1>5, <1>8 DEF PaymentCalls
<1>9. QED
  BY <1>6, <1>7, <1>8 DEF SystemNext

-----------------------------------------------------------------------------
(* Types.  A step changes one payment at most, or the registry, or none of *)
(* them.                                                                   *)
Topics == {"payment_created", "payment_approved", "payment_completed", "payment_cancelled"}

\* Payment p becomes q, and says so.
Becomes(p, q, topic) ==
    /\ payments' = [payments EXCEPT ![p] = q]
    /\ payEvents' = [payEvents EXCEPT ![p] = Append(payEvents[p], topic)]

PaymentStep ==
    \/ /\ UNCHANGED <<payments, payEvents, lockedAt>>
       /\ \/ UNCHANGED <<payAdmin, payRegistry, payNextId>>
          \/ /\ payAdmin = Nobody /\ payAdmin' \in Admins
             /\ payRegistry' \in {RegistryAt} \cup Users /\ payNextId' = 1
    \/ \E p \in PaymentIds, q \in PaymentRecord :
          /\ UNCHANGED <<payAdmin, payRegistry, lockedAt>>
          /\ payAdmin # Nobody /\ p = payNextId /\ payNextId' = payNextId + 1
          /\ q.status = "Created" /\ q.escrowId = 0
          /\ q.recipient \in Payees /\ q.amount \in Amounts /\ q.deadline \in Timeouts
          /\ Becomes(p, q, "payment_created")
    \/ \E p \in PaymentIds, s \in {"Approved", "Cancelled"} :
          /\ UNCHANGED <<payAdmin, payRegistry, payNextId, lockedAt>>
          /\ payments[p] \in PaymentRecord
          /\ \/ payments[p].status = "Created"
             \/ s = "Cancelled" /\ payments[p].status = "Approved"
          /\ Becomes(p, [payments[p] EXCEPT !.status = s],
                     IF s = "Approved" THEN "payment_approved" ELSE "payment_cancelled")
    \/ \E p \in PaymentIds, c \in Contracts :
          /\ UNCHANGED <<payAdmin, payRegistry, payNextId>>
          /\ payments[p] \in PaymentRecord /\ payments[p].status = "Approved"
          /\ CreateEscrow(c, payments[p].creator, payments[p].recipient, payments[p].amount,
                          payments[p].asset, payments[p].deadline)
          /\ lockedAt' = [lockedAt EXCEPT ![p] = c]
          /\ Becomes(p, [payments[p] EXCEPT !.status = "Executed", !.escrowId = nextId[c]],
                     "payment_completed")
    \/ \E p \in PaymentIds, c \in Foreign, id \in Nat :
          /\ UNCHANGED <<payAdmin, payRegistry, payNextId>>
          /\ payments[p] \in PaymentRecord /\ payments[p].status = "Approved"
          /\ lockedAt' = [lockedAt EXCEPT ![p] = c]
          /\ Becomes(p, [payments[p] EXCEPT !.status = "Executed", !.escrowId = id],
                     "payment_completed")

LEMMA PaymentSteps ==
    ASSUME PaymentTypeOK, EscrowTypeOK, [SystemNext]_systemVars
    PROVE  PaymentStep
<1>1. ASSUME NEW u \in Admins, NEW r \in {RegistryAt} \cup Users, PayInitialize(u, r)
      PROVE  PaymentStep
  BY <1>1 DEF PayInitialize, PayInitializeFault, PaymentStep
<1>2. ASSUME NEW u \in Users, NEW r \in Payees, NEW n \in Amounts, NEW a \in Assets,
             NEW t \in Timeouts, CreatePayment(u, r, n, a, t)
      PROVE  PaymentStep
  <2> DEFINE q == [creator |-> u, recipient |-> r, amount |-> n, asset |-> a, deadline |-> t,
                   status |-> "Created", escrowId |-> 0]
  <2>1. payAdmin # Nobody /\ n > 0 /\ payNextId \in PaymentIds
    BY <1>2, Constants, PaymentConstants
       DEF CreatePayment, CreatePaymentFault, PaymentTypeOK, PaymentIds
  <2>2. q \in PaymentRecord
    BY <2>1, Constants DEF PaymentRecord
  <2>3. /\ q.status = "Created" /\ q.escrowId = 0
        /\ q.recipient \in Payees /\ q.amount \in Amounts /\ q.deadline \in Timeouts
    OBVIOUS
  <2>4. /\ UNCHANGED <<payAdmin, payRegistry, lockedAt>> /\ payNextId' = payNextId + 1
        /\ Becomes(payNextId, q, "payment_created")
    BY <1>2 DEF CreatePayment, PayPublish, Becomes
  <2> HIDE DEF q
  <2>5. QED
    BY <2>1, <2>2, <2>3, <2>4 DEF PaymentStep
<1>3. ASSUME NEW u \in Users, NEW p \in PaymentIds, ApprovePayment(u, p) PROVE PaymentStep
  <2>1. Stored(p) /\ payments[p].status = "Created"
    BY <1>3 DEF ApprovePayment, ApproveFault
  <2>2. /\ UNCHANGED <<payAdmin, payRegistry, payNextId, lockedAt>>
        /\ Becomes(p, [payments[p] EXCEPT !.status = "Approved"], "payment_approved")
    BY <1>3 DEF ApprovePayment, Progress, PayPublish, Becomes
  <2>3. QED
    BY <2>1, <2>2, StoredRecord DEF PaymentStep
<1>4. ASSUME NEW u \in Users, NEW p \in PaymentIds, CancelPayment(u, p) PROVE PaymentStep
  <2>1. Stored(p) /\ payments[p].status \in {"Created", "Approved"}
    BY <1>4 DEF CancelPayment, CancelFault
  <2>2. /\ UNCHANGED <<payAdmin, payRegistry, payNextId, lockedAt>>
        /\ Becomes(p, [payments[p] EXCEPT !.status = "Cancelled"], "payment_cancelled")
    BY <1>4 DEF CancelPayment, Progress, PayPublish, Becomes
  <2>3. QED
    BY <2>1, <2>2, StoredRecord DEF PaymentStep
<1>5. ASSUME NEW u \in Users, NEW p \in PaymentIds, NEW c, NEW id, ExecutePayment(u, p, c, id)
      PROVE  PaymentStep
  <2> DEFINE q == payments[p]
  <2>1. Stored(p) /\ q.status = "Approved" /\ u = q.creator
    BY <1>5, ExecuteLocks
  <2>2. /\ UNCHANGED <<payAdmin, payRegistry, payNextId>>
        /\ lockedAt' = [lockedAt EXCEPT ![p] = c]
        /\ Becomes(p, [q EXCEPT !.status = "Executed", !.escrowId = id], "payment_completed")
    BY <1>5 DEF ExecutePayment, Completed, PayPublish, Becomes
  <2>3. q \in PaymentRecord
    BY <2>1, StoredRecord
  <2>4. CASE /\ c \in Contracts /\ id = nextId[c]
             /\ CreateEscrow(c, u, q.recipient, q.amount, q.asset, q.deadline)
    BY <2>1, <2>2, <2>3, <2>4 DEF PaymentStep
  <2>5. CASE c \in Foreign /\ id \in Nat
    BY <2>1, <2>2, <2>3, <2>5 DEF PaymentStep
  <2>6. QED
    BY <1>5, <2>4, <2>5, ExecuteLocks
<1>6. ASSUME UNCHANGED paymentVars PROVE PaymentStep
  BY <1>6 DEF paymentVars, PaymentStep
<1>7. CASE PaymentCalls
  BY <1>1, <1>2, <1>3, <1>4, <1>5, <1>7 DEF PaymentCalls
<1>8. CASE ~PaymentCalls
  BY <1>6, <1>8 DEF SystemNext, systemVars
<1>9. QED
  BY <1>7, <1>8

LEMMA RegistryType ==
    ASSUME RegistryTypeOK, EscrowTypeOK, [SystemNext]_systemVars
    PROVE  RegistryTypeOK'
<1>1. CASE UNCHANGED registryVars
  BY <1>1 DEF RegistryTypeOK, registryVars
<1>2. CASE RegistryCalls
  <2>1. ASSUME NEW u \in Admins, RegInitialize(u) PROVE RegistryTypeOK'
    BY <2>1 DEF RegInitialize, RegistryTypeOK
  <2>2. ASSUME NEW u \in Users, NEW k \in Keys, NEW addr \in Holders, Register(u, k, addr)
        PROVE  RegistryTypeOK'
    <3>1. [address |-> addr, registeredAt |-> now] \in RegistryEntry
      BY Constants DEF EscrowTypeOK, RegistryEntry
    <3>2. QED
      BY <2>2, <3>1 DEF Register, RegistryTypeOK
  <2>3. ASSUME NEW u \in Users, NEW k \in Keys, Remove(u, k) PROVE RegistryTypeOK'
    BY <2>3 DEF Remove, RegistryTypeOK
  <2>4. QED
    BY <1>2, <2>1, <2>2, <2>3 DEF RegistryCalls
<1>3. CASE PaymentCalls
  <2>1. UNCHANGED registryVars
    BY <1>3 DEF PaymentCalls, PayInitialize, CreatePayment, ApprovePayment, ExecutePayment,
                Completed, CancelPayment
  <2>2. QED
    BY <1>1, <2>1
<1>4. QED
  BY <1>1, <1>2, <1>3 DEF SystemNext, systemVars

\* What the payment contract keeps, apart from the registry.
OwnTypeOK ==
    /\ payAdmin \in Admins \cup {Nobody}
    /\ payRegistry \in {RegistryAt, Nobody} \cup Users
    /\ payNextId \in 1..(MaxPayments + 1)
    /\ payments \in [PaymentIds -> PaymentRecord \cup {NoPayment}]
    /\ payEvents \in [PaymentIds -> Seq(Topics)]
    /\ lockedAt \in [PaymentIds -> Contracts \cup Foreign \cup {Nobody}]

LEMMA BecomesType ==
    ASSUME OwnTypeOK, NEW p \in PaymentIds, NEW q \in PaymentRecord, NEW topic \in Topics,
           Becomes(p, q, topic)
    PROVE  /\ payments' \in [PaymentIds -> PaymentRecord \cup {NoPayment}]
           /\ payEvents' \in [PaymentIds -> Seq(Topics)]
           /\ payments'[p] = q /\ payEvents'[p] = Append(payEvents[p], topic)
           /\ \A o \in PaymentIds \ {p} : payments'[o] = payments[o] /\ payEvents'[o] = payEvents[o]
<1>1. Append(payEvents[p], topic) \in Seq(Topics)
  BY DEF OwnTypeOK
<1>2. QED
  BY <1>1 DEF OwnTypeOK, Becomes

SameDeal(q, r) ==
    /\ r.creator = q.creator /\ r.recipient = q.recipient /\ r.amount = q.amount
    /\ r.asset = q.asset /\ r.deadline = q.deadline

LEMMA StatusRecord ==
    ASSUME NEW q \in PaymentRecord, NEW s \in {"Approved", "Executed", "Cancelled"}
    PROVE  LET r == [q EXCEPT !.status = s] IN
           r \in PaymentRecord /\ r.status = s /\ r.escrowId = q.escrowId /\ SameDeal(q, r)
BY DEF PaymentRecord, SameDeal

LEMMA EscrowIdRecord ==
    ASSUME NEW q \in PaymentRecord, NEW id \in Nat
    PROVE  LET r == [q EXCEPT !.status = "Executed", !.escrowId = id] IN
           r \in PaymentRecord /\ r.status = "Executed" /\ r.escrowId = id /\ SameDeal(q, r)
BY DEF PaymentRecord, SameDeal

\* The five kinds of step, by what they make of one payment.
Unmoved ==
    /\ UNCHANGED <<payments, payEvents, lockedAt>>
    /\ payNextId' \in {1, payNextId}
    /\ payNextId' # payNextId => payAdmin = Nobody
    /\ payAdmin' # payAdmin => payNextId' = 1

Moves(p, q, topic, c) ==
    /\ payments' \in [PaymentIds -> PaymentRecord \cup {NoPayment}]
    /\ q \in PaymentRecord
    /\ payments'[p] = q /\ payEvents'[p] = Append(payEvents[p], topic)
    /\ \A o \in PaymentIds \ {p} :
          payments'[o] = payments[o] /\ payEvents'[o] = payEvents[o] /\ lockedAt'[o] = lockedAt[o]
    /\ lockedAt'[p] = c
    /\ payAdmin' = payAdmin

Created(p, q) ==
    /\ Moves(p, q, "payment_created", lockedAt[p])
    /\ payAdmin # Nobody /\ p = payNextId /\ payNextId' = p + 1
    /\ q.status = "Created" /\ q.escrowId = 0
    /\ q.recipient \in Payees /\ q.amount \in Amounts /\ q.deadline \in Timeouts

Settled(p, q) ==
    /\ payNextId' = payNextId
    /\ payments[p] \in PaymentRecord
    /\ SameDeal(payments[p], q) /\ q.escrowId = payments[p].escrowId
    /\ \/ /\ payments[p].status = "Created" /\ q.status = "Approved"
          /\ Moves(p, q, "payment_approved", lockedAt[p])
       \/ /\ payments[p].status \in {"Created", "Approved"} /\ q.status = "Cancelled"
          /\ Moves(p, q, "payment_cancelled", lockedAt[p])

Locks(p, q, c) ==
    /\ payNextId' = payNextId
    /\ payments[p] \in PaymentRecord /\ payments[p].status = "Approved"
    /\ SameDeal(payments[p], q) /\ q.status = "Executed" /\ q.escrowId = nextId[c]
    /\ CreateEscrow(c, q.creator, q.recipient, q.amount, q.asset, q.deadline)
    /\ Moves(p, q, "payment_completed", c)

\* A foreign contract is taken at its word.
Trusts(p, q, c) ==
    /\ payNextId' = payNextId
    /\ payments[p] \in PaymentRecord /\ payments[p].status = "Approved"
    /\ SameDeal(payments[p], q) /\ q.status = "Executed"
    /\ Moves(p, q, "payment_completed", c)

LEMMA StepKinds ==
    ASSUME PaymentTypeOK, EscrowTypeOK, [SystemNext]_systemVars
    PROVE  /\ OwnTypeOK'
           /\ \/ Unmoved
              \/ \E p \in PaymentIds, q \in PaymentRecord : Created(p, q) \/ Settled(p, q)
              \/ \E p \in PaymentIds, q \in PaymentRecord, c \in Contracts : Locks(p, q, c)
              \/ \E p \in PaymentIds, q \in PaymentRecord, c \in Foreign : Trusts(p, q, c)
<1>0. OwnTypeOK /\ PaymentStep
  BY PaymentSteps DEF PaymentTypeOK, OwnTypeOK, Topics
<1>1. CASE /\ UNCHANGED <<payments, payEvents, lockedAt>>
           /\ \/ UNCHANGED <<payAdmin, payRegistry, payNextId>>
              \/ /\ payAdmin = Nobody /\ payAdmin' \in Admins
                 /\ payRegistry' \in {RegistryAt} \cup Users /\ payNextId' = 1
  <2>1. OwnTypeOK'
    BY <1>0, <1>1, PaymentConstants DEF OwnTypeOK
  <2>2. Unmoved
    BY <1>0, <1>1 DEF OwnTypeOK, Unmoved
  <2>3. QED
    BY <2>1, <2>2
<1>2. ASSUME NEW p \in PaymentIds, NEW q \in PaymentRecord,
             UNCHANGED <<payAdmin, payRegistry, lockedAt>>,
             payAdmin # Nobody, p = payNextId, payNextId' = payNextId + 1,
             q.status = "Created", q.escrowId = 0,
             q.recipient \in Payees, q.amount \in Amounts, q.deadline \in Timeouts,
             Becomes(p, q, "payment_created")
      PROVE  OwnTypeOK' /\ Created(p, q)
  <2>1. Moves(p, q, "payment_created", lockedAt[p])
    BY <1>0, <1>2, BecomesType DEF Moves, Topics
  <2>2. payEvents' \in [PaymentIds -> Seq(Topics)]
    BY <1>0, <1>2, BecomesType DEF Topics
  <2>3. p + 1 \in 1..(MaxPayments + 1)
    BY PaymentConstants DEF PaymentIds
  <2>4. OwnTypeOK'
    BY <1>0, <1>2, <2>1, <2>2, <2>3 DEF OwnTypeOK, Moves
  <2>5. QED
    BY <1>2, <2>1, <2>4 DEF Created
<1>3. ASSUME NEW p \in PaymentIds, NEW s \in {"Approved", "Cancelled"},
             UNCHANGED <<payAdmin, payRegistry, payNextId, lockedAt>>,
             payments[p] \in PaymentRecord,
             \/ payments[p].status = "Created"
             \/ s = "Cancelled" /\ payments[p].status = "Approved",
             Becomes(p, [payments[p] EXCEPT !.status = s],
                     IF s = "Approved" THEN "payment_approved" ELSE "payment_cancelled")
      PROVE  OwnTypeOK' /\ \E q \in PaymentRecord : Settled(p, q)
  <2> DEFINE q == [payments[p] EXCEPT !.status = s]
             topic == IF s = "Approved" THEN "payment_approved" ELSE "payment_cancelled"
  <2>1. /\ q \in PaymentRecord /\ q.status = s
        /\ SameDeal(payments[p], q) /\ q.escrowId = payments[p].escrowId
    <3>1. payments[p] \in PaymentRecord /\ s \in {"Approved", "Executed", "Cancelled"}
      BY <1>3
    <3>2. QED
      BY <3>1, StatusRecord, Zenon
  <2>2. topic \in Topics /\ Becomes(p, q, topic)
    BY <1>3 DEF Topics
  <2> HIDE DEF q
  <2>3. Moves(p, q, topic, lockedAt[p]) /\ payEvents' \in [PaymentIds -> Seq(Topics)]
    <3> HIDE DEF topic
    <3>1. QED
      BY <1>0, <1>3, <2>1, <2>2, BecomesType DEF Moves
  <2>4. OwnTypeOK'
    BY <1>0, <1>3, <2>3 DEF OwnTypeOK, Moves
  <2>5. Settled(p, q)
    <3>1. CASE s = "Approved"
      <4>1. topic = "payment_approved"
        BY <3>1
      <4>2. Moves(p, q, "payment_approved", lockedAt[p])
        BY <2>3, <4>1
      <4>3. QED
        BY <1>3, <2>1, <3>1, <4>2 DEF Settled
    <3>2. CASE s = "Cancelled"
      <4>1. topic = "payment_cancelled"
        BY <3>2
      <4>2. Moves(p, q, "payment_cancelled", lockedAt[p])
        BY <2>3, <4>1
      <4>3. QED
        BY <1>3, <2>1, <3>2, <4>2 DEF Settled
    <3>3. QED
      BY <3>1, <3>2
  <2>6. QED
    BY <2>1, <2>4, <2>5
<1>4. ASSUME NEW p \in PaymentIds, NEW c \in Contracts,
             UNCHANGED <<payAdmin, payRegistry, payNextId>>,
             payments[p] \in PaymentRecord, payments[p].status = "Approved",
             CreateEscrow(c, payments[p].creator, payments[p].recipient, payments[p].amount,
                          payments[p].asset, payments[p].deadline),
             lockedAt' = [lockedAt EXCEPT ![p] = c],
             Becomes(p, [payments[p] EXCEPT !.status = "Executed", !.escrowId = nextId[c]],
                     "payment_completed")
      PROVE  OwnTypeOK' /\ \E q \in PaymentRecord : Locks(p, q, c)
  <2> DEFINE q == [payments[p] EXCEPT !.status = "Executed", !.escrowId = nextId[c]]
  <2>0. nextId[c] \in Nat
    BY Constants DEF EscrowTypeOK
  <2>1. /\ q \in PaymentRecord /\ q.status = "Executed"
        /\ SameDeal(payments[p], q) /\ q.escrowId = nextId[c]
    BY <1>4, <2>0, EscrowIdRecord
  <2> HIDE DEF q
  <2>2. CreateEscrow(c, q.creator, q.recipient, q.amount, q.asset, q.deadline)
    BY <1>4, <2>1 DEF SameDeal
  <2>3. Becomes(p, q, "payment_completed")
    BY <1>4 DEF q
  <2>4. /\ lockedAt' \in [PaymentIds -> Contracts \cup Foreign \cup {Nobody}]
        /\ lockedAt'[p] = c /\ \A o \in PaymentIds \ {p} : lockedAt'[o] = lockedAt[o]
    BY <1>0, <1>4 DEF OwnTypeOK
  <2>5. Moves(p, q, "payment_completed", c) /\ payEvents' \in [PaymentIds -> Seq(Topics)]
    BY <1>0, <1>4, <2>1, <2>3, <2>4, BecomesType DEF Moves, Topics
  <2>6. OwnTypeOK'
    BY <1>0, <1>4, <2>4, <2>5 DEF OwnTypeOK, Moves
  <2>7. Locks(p, q, c)
    BY <1>4, <2>1, <2>2, <2>5 DEF Locks
  <2>8. QED
    BY <2>1, <2>6, <2>7
<1>5. ASSUME NEW p \in PaymentIds, NEW c \in Foreign, NEW id \in Nat,
             UNCHANGED <<payAdmin, payRegistry, payNextId>>,
             payments[p] \in PaymentRecord, payments[p].status = "Approved",
             lockedAt' = [lockedAt EXCEPT ![p] = c],
             Becomes(p, [payments[p] EXCEPT !.status = "Executed", !.escrowId = id],
                     "payment_completed")
      PROVE  OwnTypeOK' /\ \E q \in PaymentRecord : Trusts(p, q, c)
  <2> DEFINE q == [payments[p] EXCEPT !.status = "Executed", !.escrowId = id]
  <2>1. q \in PaymentRecord /\ q.status = "Executed" /\ SameDeal(payments[p], q)
    BY <1>5, EscrowIdRecord
  <2> HIDE DEF q
  <2>2. Becomes(p, q, "payment_completed")
    BY <1>5 DEF q
  <2>3. /\ lockedAt' \in [PaymentIds -> Contracts \cup Foreign \cup {Nobody}]
        /\ lockedAt'[p] = c /\ \A o \in PaymentIds \ {p} : lockedAt'[o] = lockedAt[o]
    BY <1>0, <1>5 DEF OwnTypeOK
  <2>4. Moves(p, q, "payment_completed", c) /\ payEvents' \in [PaymentIds -> Seq(Topics)]
    BY <1>0, <1>5, <2>1, <2>2, <2>3, BecomesType DEF Moves, Topics
  <2>5. OwnTypeOK'
    BY <1>0, <1>5, <2>3, <2>4 DEF OwnTypeOK, Moves
  <2>6. Trusts(p, q, c)
    BY <1>5, <2>1, <2>4 DEF Trusts
  <2>7. QED
    BY <2>1, <2>5, <2>6
<1>6. QED
  BY <1>0, <1>1, <1>2, <1>3, <1>4, <1>5 DEF PaymentStep

PayFresh == payAdmin = Nobody => payNextId = 1
PayDense == \A p \in PaymentIds : p >= payNextId => ~Stored(p)

LEMMA PaymentsNext ==
    ASSUME EscrowTypeOK, PaymentTypeOK, Terms, PayFresh, PayDense, [SystemNext]_systemVars
    PROVE  PaymentTypeOK' /\ Terms' /\ PayFresh' /\ PayDense'
<1>1. OwnTypeOK' /\ RegistryTypeOK'
  BY StepKinds, RegistryType DEF PaymentTypeOK
<1>2. PaymentTypeOK'
  BY <1>1 DEF PaymentTypeOK, OwnTypeOK, Topics
<1>3. PaymentTypeOK /\ payNextId \in Nat /\ PaymentIds \subseteq Nat \ {0}
  BY PaymentConstants DEF PaymentTypeOK
<1>4. CASE Unmoved
  <2>1. Terms'
    BY <1>4 DEF Unmoved, Terms, Stored
  <2>2. PayFresh'
    BY <1>4 DEF Unmoved, PayFresh
  <2>3. PayDense'
    BY <1>3, <1>4 DEF Unmoved, PayFresh, PayDense, Stored
  <2>4. QED
    BY <1>2, <2>1, <2>2, <2>3
<1>5. ASSUME NEW p \in PaymentIds, NEW q \in PaymentRecord, Created(p, q)
      PROVE  Terms' /\ PayFresh' /\ PayDense'
  <2>1. /\ payments'[p] = q /\ payAdmin' = payAdmin
        /\ \A o \in PaymentIds \ {p} : payments'[o] = payments[o]
        /\ payAdmin # Nobody /\ p = payNextId /\ payNextId' = p + 1
        /\ q.recipient \in Payees /\ q.amount \in Amounts /\ q.deadline \in Timeouts
    BY <1>5 DEF Created, Moves
  <2>2. QED
    BY <1>3, <2>1 DEF Terms, PayFresh, PayDense, Stored
<1>6. ASSUME NEW p \in PaymentIds, NEW q \in PaymentRecord,
             payments'[p] = q, payAdmin' = payAdmin, payNextId' = payNextId,
             \A o \in PaymentIds \ {p} : payments'[o] = payments[o],
             payments[p].status # "None", SameDeal(payments[p], q)
      PROVE  Terms' /\ PayFresh' /\ PayDense'
  BY <1>3, <1>6 DEF Terms, PayFresh, PayDense, Stored, SameDeal
<1>7. ASSUME NEW p \in PaymentIds, NEW q \in PaymentRecord, Settled(p, q)
      PROVE  Terms' /\ PayFresh' /\ PayDense'
  BY <1>6, <1>7 DEF Settled, Moves
<1>8. ASSUME NEW p \in PaymentIds, NEW q \in PaymentRecord, NEW c \in Contracts, Locks(p, q, c)
      PROVE  Terms' /\ PayFresh' /\ PayDense'
  BY <1>6, <1>8 DEF Locks, Moves
<1>9. ASSUME NEW p \in PaymentIds, NEW q \in PaymentRecord, NEW c, Trusts(p, q, c)
      PROVE  Terms' /\ PayFresh' /\ PayDense'
  BY <1>6, <1>9 DEF Trusts, Moves
<1>10. QED
  BY <1>2, <1>4, <1>5, <1>7, <1>8, <1>9, StepKinds

-----------------------------------------------------------------------------
(* The trail of events. *)
LEMMA AppendSecond ==
    ASSUME NEW S, NEW x \in S, NEW y \in S
    PROVE  Append(<<x>>, y) = <<x, y>>
<1> DEFINE s == Append(<<x>>, y)
           t == <<x, y>>
<1>1. s \in Seq(S) /\ t \in Seq(S)
  OBVIOUS
<1>2. Len(s) = 2 /\ s[1] = x /\ s[2] = y
  OBVIOUS
<1>3. Len(t) = 2 /\ t[1] = x /\ t[2] = y
  OBVIOUS
<1> HIDE DEF s, t
<1>4. Len(s) = Len(t) /\ \A i \in 1..Len(s) : s[i] = t[i]
  BY <1>2, <1>3
<1>5. s = t
  BY <1>1, <1>4, SeqEqual
<1>6. QED
  BY <1>5 DEF s, t

LEMMA AppendThird ==
    ASSUME NEW S, NEW x \in S, NEW y \in S, NEW z \in S
    PROVE  Append(<<x, y>>, z) = <<x, y, z>>
<1> DEFINE s == Append(<<x, y>>, z)
           t == <<x, y, z>>
<1>1. s \in Seq(S) /\ t \in Seq(S)
  OBVIOUS
<1>2. Len(s) = 3 /\ s[1] = x /\ s[2] = y /\ s[3] = z
  OBVIOUS
<1>3. Len(t) = 3 /\ t[1] = x /\ t[2] = y /\ t[3] = z
  OBVIOUS
<1> HIDE DEF s, t
<1>4. Len(s) = Len(t) /\ \A i \in 1..Len(s) : s[i] = t[i]
  BY <1>2, <1>3
<1>5. s = t
  BY <1>1, <1>4, SeqEqual
<1>6. QED
  BY <1>5 DEF s, t

LEMMA Stories ==
    /\ Append(<<>>, "payment_created") = <<"payment_created">>
    /\ Append(<<"payment_created">>, "payment_approved") = <<"payment_created", "payment_approved">>
    /\ Append(<<"payment_created">>, "payment_cancelled") = <<"payment_created", "payment_cancelled">>
    /\ Append(<<"payment_created", "payment_approved">>, "payment_completed")
         = <<"payment_created", "payment_approved", "payment_completed">>
    /\ Append(<<"payment_created", "payment_approved">>, "payment_cancelled")
         = <<"payment_created", "payment_approved", "payment_cancelled">>
<1>1. /\ "payment_created" \in Topics /\ "payment_approved" \in Topics
      /\ "payment_cancelled" \in Topics /\ "payment_completed" \in Topics
  BY DEF Topics
<1>2. \A x, y \in Topics : Append(<<x>>, y) = <<x, y>>
  BY AppendSecond
<1>3. \A x, y, z \in Topics : Append(<<x, y>>, z) = <<x, y, z>>
  BY AppendThird
<1>4. Append(<<>>, "payment_created") = <<"payment_created">>
  OBVIOUS
<1>5. QED
  BY <1>1, <1>2, <1>3, <1>4, Zenon

LEMMA StoryOf ==
    /\ PaymentStory["None"] = {<<>>}
    /\ PaymentStory["Created"] = {<<"payment_created">>}
    /\ PaymentStory["Approved"] = {<<"payment_created", "payment_approved">>}
    /\ PaymentStory["Executed"] = {<<"payment_created", "payment_approved", "payment_completed">>}
    /\ PaymentStory["Cancelled"] =
         {<<"payment_created", "payment_cancelled">>,
          <<"payment_created", "payment_approved", "payment_cancelled">>}
BY DEF PaymentStory

LEMMA TrailNext ==
    ASSUME EscrowTypeOK, PaymentTypeOK, PayDense, PaymentTrail, [SystemNext]_systemVars
    PROVE  PaymentTrail'
<1>1. CASE Unmoved
  BY <1>1 DEF Unmoved, PaymentTrail, PaymentStory
<1>2. ASSUME NEW p \in PaymentIds, NEW q, NEW topic, NEW c, Moves(p, q, topic, c),
             Append(payEvents[p], topic) \in PaymentStory[q.status]
      PROVE  PaymentTrail'
  <2>1. ASSUME NEW o \in PaymentIds PROVE payEvents'[o] \in PaymentStory[payments'[o].status]
    <3>1. CASE o = p
      BY <1>2, <3>1 DEF Moves
    <3>2. CASE o # p
      BY <1>2, <3>2 DEF Moves, PaymentTrail
    <3>3. QED
      BY <3>1, <3>2
  <2>2. QED
    BY <2>1 DEF PaymentTrail, PaymentStory
<1>3. ASSUME NEW p \in PaymentIds, NEW q \in PaymentRecord, Created(p, q) PROVE PaymentTrail'
  <2>1. payments[p].status = "None" /\ q.status = "Created"
        /\ Moves(p, q, "payment_created", lockedAt[p])
    BY <1>3, PaymentConstants DEF Created, PayDense, Stored
  <2>2. payEvents[p] = <<>>
    BY <2>1, StoryOf DEF PaymentTrail
  <2>3. Append(payEvents[p], "payment_created") \in PaymentStory[q.status]
    BY <2>1, <2>2, StoryOf, Stories
  <2>4. QED
    BY <1>2, <2>1, <2>3
<1>4. ASSUME NEW p \in PaymentIds, NEW q \in PaymentRecord, Settled(p, q) PROVE PaymentTrail'
  <2>1. payEvents[p] \in PaymentStory[payments[p].status]
    BY DEF PaymentTrail
  <2>2. CASE /\ payments[p].status = "Created" /\ q.status = "Approved"
             /\ Moves(p, q, "payment_approved", lockedAt[p])
    <3>1. Append(payEvents[p], "payment_approved") \in PaymentStory[q.status]
      BY <2>1, <2>2, StoryOf, Stories
    <3>2. QED
      BY <1>2, <2>2, <3>1
  <2>3. CASE /\ payments[p].status \in {"Created", "Approved"} /\ q.status = "Cancelled"
             /\ Moves(p, q, "payment_cancelled", lockedAt[p])
    <3>1. Append(payEvents[p], "payment_cancelled") \in PaymentStory[q.status]
      BY <2>1, <2>3, StoryOf, Stories
    <3>2. QED
      BY <1>2, <2>3, <3>1
  <2>4. QED
    BY <1>4, <2>2, <2>3 DEF Settled
<1>5. ASSUME NEW p \in PaymentIds, NEW q \in PaymentRecord, NEW c, Locks(p, q, c) \/ Trusts(p, q, c)
      PROVE  PaymentTrail'
  <2>1. payments[p].status = "Approved" /\ q.status = "Executed"
        /\ Moves(p, q, "payment_completed", c)
    BY <1>5 DEF Locks, Trusts
  <2>2. payEvents[p] \in PaymentStory["Approved"]
    BY <2>1 DEF PaymentTrail
  <2>3. Append(payEvents[p], "payment_completed") \in PaymentStory[q.status]
    BY <2>1, <2>2, StoryOf, Stories
  <2>4. QED
    BY <1>2, <2>1, <2>3
<1>6. QED
  BY <1>1, <1>3, <1>4, <1>5, StepKinds

-----------------------------------------------------------------------------
(* Executed payments and their escrows. *)

\* Escrow e backs payment q.
BackedBy(q, c, e) ==
    /\ c \in Contracts /\ q.escrowId \in Ids
    /\ e.status # "None"
    /\ e.depositor = q.creator /\ e.beneficiary = q.recipient
    /\ e.amount = q.amount /\ e.asset = q.asset
    /\ e.timeout = q.deadline /\ e.createdAt < q.deadline

BackedOne(p) ==
    IF Executed(p)
      THEN Funded(p) =>
             BackedBy(payments[p], lockedAt[p], escrows[lockedAt[p]][payments[p].escrowId])
      ELSE lockedAt[p] = Nobody /\ (Stored(p) => payments[p].escrowId = 0)

LEMMA BackedIs == ExecutedBacked <=> \A p \in PaymentIds : BackedOne(p)
BY DEF ExecutedBacked, BackedOne, BackedBy, Found, Funded

\* What never changes of an escrow that is found.
SameTerms(e, f) ==
    /\ f.status # "None"
    /\ f.depositor = e.depositor /\ f.beneficiary = e.beneficiary
    /\ f.amount = e.amount /\ f.asset = e.asset
    /\ f.timeout = e.timeout /\ f.createdAt = e.createdAt

(* No step changes the terms of an escrow. *)
LEMMA TermsStay ==
    ASSUME EscrowInv, [EscrowNext]_vars, NEW c \in Contracts, NEW i \in Ids, Found(c, i)
    PROVE  SameTerms(escrows[c][i], escrows'[c][i])
<1> USE DEF EscrowInv
<1>1. CASE UNCHANGED escrows
  BY <1>1 DEF SameTerms, Found
<1>2. ASSUME NEW k \in Contracts, NEW j \in Ids,
             NEW s \in {"Released", "Refunded", "Disputed"}, Found(k, j), SetStatus(k, j, s)
      PROVE  SameTerms(escrows[c][i], escrows'[c][i])
  <2>1. escrows[k][j] \in EscrowRecord
    BY <1>2, FoundRecord
  <2>2. QED
    BY <1>2, <2>1 DEF EscrowTypeOK, SetStatus, EscrowRecord, SameTerms, Found
<1>3. ASSUME NEW k \in Contracts, EscrowCalls(k)
      PROVE  SameTerms(escrows[c][i], escrows'[c][i])
  <2>1. ASSUME NEW u \in Admins, Initialize(k, u)
        PROVE  SameTerms(escrows[c][i], escrows'[c][i])
    BY <1>1, <2>1 DEF Initialize
  <2>2. ASSUME NEW d \in Users, NEW b \in Payees, NEW n \in Amounts, NEW a \in Assets,
               NEW t \in Timeouts, CreateEscrow(k, d, b, n, a, t)
        PROVE  SameTerms(escrows[c][i], escrows'[c][i])
    <3>1. ~(c = k /\ i = nextId[k])
      BY Constants DEF IdsDense, EscrowTypeOK, Ids
    <3>2. escrows'[c][i] = escrows[c][i]
      BY <2>2, <3>1 DEF CreateEscrow, CreateEffect, EscrowTypeOK
    <3>3. QED
      BY <3>2 DEF SameTerms, Found
  <2>3. ASSUME NEW u \in Users, NEW j \in Ids, Release(k, u, j)
        PROVE  SameTerms(escrows[c][i], escrows'[c][i])
    BY <1>2, <2>3 DEF Release, ReleaseFault, PayOut
  <2>4. ASSUME NEW u \in Users, NEW j \in Ids, Refund(k, u, j)
        PROVE  SameTerms(escrows[c][i], escrows'[c][i])
    BY <1>2, <2>4 DEF Refund, RefundFault, PayOut
  <2>5. ASSUME NEW u \in Users, NEW j \in Ids, Dispute(k, u, j)
        PROVE  SameTerms(escrows[c][i], escrows'[c][i])
    BY <1>2, <2>5 DEF Dispute, DisputeFault
  <2>6. ASSUME NEW u \in Users, NEW j \in Ids, NEW p \in BOOLEAN, ResolveDispute(k, u, j, p)
        PROVE  SameTerms(escrows[c][i], escrows'[c][i])
    BY <1>2, <2>6 DEF ResolveDispute, ResolveFault, PayOut
  <2>7. QED
    BY <1>3, <2>1, <2>2, <2>3, <2>4, <2>5, <2>6 DEF EscrowCalls
<1>4. QED
  BY <1>1, <1>3 DEF EscrowNext, vars, escrowVars

LEMMA StaysBacked ==
    ASSUME EscrowInv, [EscrowNext]_vars, NEW q, NEW c, BackedBy(q, c, escrows[c][q.escrowId])
    PROVE  BackedBy(q, c, escrows'[c][q.escrowId])
<1>1. c \in Contracts /\ q.escrowId \in Ids /\ Found(c, q.escrowId)
  BY DEF BackedBy, Found
<1>2. SameTerms(escrows[c][q.escrowId], escrows'[c][q.escrowId])
  BY <1>1, TermsStay
<1>3. QED
  BY <1>2 DEF BackedBy, SameTerms

(* An execution locks the payment's funds in an escrow that was not there. *)
LEMMA LocksBacked ==
    ASSUME EscrowInv, NEW p \in PaymentIds, NEW q \in PaymentRecord, NEW c \in Contracts,
           Locks(p, q, c)
    PROVE  /\ q.escrowId = nextId[c] /\ ~Found(c, q.escrowId)
           /\ BackedBy(q, c, escrows'[c][q.escrowId])
<1> DEFINE id == nextId[c]
<1>1. q.escrowId = id /\ CreateEscrow(c, q.creator, q.recipient, q.amount, q.asset, q.deadline)
  BY DEF Locks
<1>2. id <= MaxId /\ q.deadline > now
  <2>1. ~(q.deadline <= now) /\ ~(id > MaxId)
    BY <1>1 DEF CreateEscrow, CreateFault
  <2>2. q.deadline \in Nat /\ id \in Nat /\ now \in Nat /\ MaxId \in Nat
    BY Constants DEF EscrowInv, EscrowTypeOK, PaymentRecord
  <2> HIDE DEF id
  <2>3. QED
    BY <2>1, <2>2
<1>3. id \in Ids
  BY <1>2, Constants DEF EscrowInv, EscrowTypeOK, Ids
<1>4. ~Found(c, id)
  BY <1>3, Constants DEF EscrowInv, IdsDense, Ids
<1>5. escrows'[c][id] = [depositor |-> q.creator, beneficiary |-> q.recipient,
                         amount |-> q.amount, asset |-> q.asset, status |-> "Locked",
                         createdAt |-> now, timeout |-> q.deadline]
  BY <1>1, <1>3 DEF CreateEscrow, CreateEffect, EscrowInv, EscrowTypeOK
<1>6. QED
  BY <1>1, <1>2, <1>3, <1>4, <1>5 DEF BackedBy

LEMMA BackedNext ==
    ASSUME EscrowInv, PaymentTypeOK, PayDense, Terms, \A p \in PaymentIds : BackedOne(p),
           OneEscrowEach, [SystemNext]_systemVars
    PROVE  (\A p \in PaymentIds : BackedOne(p))' /\ OneEscrowEach'
<1>0. [EscrowNext]_vars /\ EscrowTypeOK
  BY StepRefines DEF EscrowInv
<1>1. ASSUME NEW o \in PaymentIds, payments'[o] = payments[o], lockedAt'[o] = lockedAt[o]
      PROVE  BackedOne(o)'
  <2> DEFINE q == payments[o]
             c == lockedAt[o]
  <2>1. CASE Funded(o)
    <3>1. BackedBy(q, c, escrows[c][q.escrowId])
      BY <2>1 DEF BackedOne, Funded
    <3>2. BackedBy(q, c, escrows'[c][q.escrowId])
      <4> HIDE DEF q, c
      <4>1. QED
        BY <1>0, <3>1, StaysBacked
    <3>3. QED
      BY <1>1, <2>1, <3>2 DEF BackedOne, Executed, Funded
  <2>2. CASE ~Funded(o)
    BY <1>1, <2>2 DEF BackedOne, Executed, Stored, Funded
  <2>3. QED
    BY <2>1, <2>2
<1>2. CASE Unmoved
  BY <1>1, <1>2 DEF Unmoved, OneEscrowEach, Executed, Funded
<1>3. ASSUME NEW p \in PaymentIds, NEW q \in PaymentRecord, Created(p, q) \/ Settled(p, q)
      PROVE  (\A o \in PaymentIds : BackedOne(o))' /\ OneEscrowEach'
  <2>1. /\ payments'[p] = q /\ lockedAt'[p] = lockedAt[p] /\ q.status # "Executed"
        /\ \A o \in PaymentIds \ {p} : payments'[o] = payments[o] /\ lockedAt'[o] = lockedAt[o]
    BY <1>3 DEF Created, Settled, Moves
  <2>2. /\ payments[p].status # "Executed"
        /\ q.escrowId = 0
    <3>1. CASE Created(p, q)
      BY <3>1, PaymentConstants DEF Created, PayDense, Stored, PaymentTypeOK
    <3>2. CASE Settled(p, q)
      BY <3>2 DEF Settled, BackedOne, Executed, Stored
    <3>3. QED
      BY <1>3, <3>1, <3>2
  <2>3. BackedOne(p)'
    BY <2>1, <2>2 DEF BackedOne, Executed
  <2>4. QED
    BY <1>1, <2>1, <2>3 DEF OneEscrowEach, Executed, Funded
<1>4. ASSUME NEW p \in PaymentIds, NEW q \in PaymentRecord, NEW c \in Contracts, Locks(p, q, c)
      PROVE  (\A o \in PaymentIds : BackedOne(o))' /\ OneEscrowEach'
  <2>1. /\ payments'[p] = q /\ lockedAt'[p] = c /\ q.status = "Executed"
        /\ \A o \in PaymentIds \ {p} : payments'[o] = payments[o] /\ lockedAt'[o] = lockedAt[o]
    BY <1>4 DEF Locks, Moves
  <2>2. BackedBy(q, c, escrows'[c][q.escrowId]) /\ ~Found(c, q.escrowId)
    BY <1>4, LocksBacked
  <2>3. BackedOne(p)'
    BY <2>1, <2>2 DEF BackedOne, Executed
  <2>4. ASSUME NEW o \in PaymentIds \ {p}, Funded(o)
        PROVE  <<lockedAt[o], payments[o].escrowId>> # <<c, q.escrowId>>
    <3>1. Found(lockedAt[o], payments[o].escrowId)
      BY <2>4 DEF BackedOne, BackedBy, Found, Funded
    <3>2. QED
      BY <2>2, <3>1
  <2>5. OneEscrowEach'
    BY <2>1, <2>4 DEF OneEscrowEach, Executed, Funded
  <2>6. QED
    BY <1>1, <2>1, <2>3, <2>5
<1>5. ASSUME NEW p \in PaymentIds, NEW q \in PaymentRecord, NEW c \in Foreign, Trusts(p, q, c)
      PROVE  (\A o \in PaymentIds : BackedOne(o))' /\ OneEscrowEach'
  <2>1. /\ payments'[p] = q /\ lockedAt'[p] = c /\ q.status = "Executed" /\ c \notin Contracts
        /\ \A o \in PaymentIds \ {p} : payments'[o] = payments[o] /\ lockedAt'[o] = lockedAt[o]
    BY <1>5, PaymentConstants DEF Trusts, Moves
  <2>2. BackedOne(p)'
    BY <2>1 DEF BackedOne, Executed, Funded
  <2>3. OneEscrowEach'
    BY <2>1 DEF OneEscrowEach, Executed, Funded
  <2>4. QED
    BY <1>1, <2>1, <2>2, <2>3
<1>6. QED
  BY <1>0, <1>2, <1>3, <1>4, <1>5, StepKinds

-----------------------------------------------------------------------------
(* The invariant of the whole system: that of the escrow contracts, which  *)
(* is theirs whoever calls them, and the parts of it about payments.       *)
SystemInv ==
    /\ EscrowInv
    /\ PaymentTypeOK
    /\ Terms
    /\ PayFresh
    /\ PayDense
    /\ PaymentTrail
    /\ \A p \in PaymentIds : BackedOne(p)
    /\ OneEscrowEach

LEMMA SystemInvInit == SystemInit => SystemInv
<1> SUFFICES ASSUME SystemInit PROVE SystemInv
  OBVIOUS
<1> USE DEF SystemInit, PaymentInit
<1>1. EscrowInv
  BY InvInit
<1>2. PaymentTypeOK
  BY PaymentConstants DEF PaymentTypeOK, RegistryTypeOK, RegistryInit
<1>3. \A p \in PaymentIds : payments[p].status = "None"
  BY DEF NoPayment
<1>4. Terms /\ PayFresh /\ PayDense /\ OneEscrowEach
  BY <1>3 DEF Terms, PayFresh, PayDense, OneEscrowEach, Stored, Executed, Funded
<1>5. PaymentTrail
  BY <1>3, StoryOf DEF PaymentTrail
<1>6. \A p \in PaymentIds : BackedOne(p)
  BY <1>3 DEF BackedOne, Stored, Executed
<1>7. QED
  BY <1>1, <1>2, <1>4, <1>5, <1>6 DEF SystemInv

LEMMA SystemInvNext == SystemInv /\ [SystemNext]_systemVars => SystemInv'
<1> SUFFICES ASSUME SystemInv, [SystemNext]_systemVars PROVE SystemInv'
  OBVIOUS
<1>1. /\ EscrowInv /\ EscrowTypeOK /\ PaymentTypeOK /\ Terms /\ PayFresh /\ PayDense
      /\ PaymentTrail /\ OneEscrowEach /\ \A p \in PaymentIds : BackedOne(p)
  BY DEF SystemInv, EscrowInv
<1>2. EscrowInv'
  BY <1>1, StepRefines, InvNext
<1>3. PaymentTypeOK' /\ Terms' /\ PayFresh' /\ PayDense'
  BY <1>1, PaymentsNext
<1>4. PaymentTrail'
  BY <1>1, TrailNext
<1>5. (\A p \in PaymentIds : BackedOne(p))' /\ OneEscrowEach'
  BY <1>1, BackedNext
<1>6. QED
  BY <1>2, <1>3, <1>4, <1>5 DEF SystemInv

(* The invariant holds throughout: it is not a property of its own but the *)
(* ground the theorems below stand on.                                     *)
LEMMA SystemCorrect == SystemSpec => []SystemInv
BY SystemInvInit, SystemInvNext, PTL DEF SystemSpec

(* The payment contract and the registry keep to their types, whoever      *)
(* calls them: the id counter stops at its limit and the trail of events   *)
(* holds topics of the contract only.                                      *)
THEOREM PaymentTypeCorrect == SystemSpec => []PaymentTypeOK
BY SystemCorrect, PTL DEF SystemInv

(* The events of a payment tell its whole story: it was approved before it *)
(* was executed, and nothing follows an execution or a cancellation.       *)
THEOREM EventsTellTheStory == SystemSpec => []PaymentTrail
BY SystemCorrect, PTL DEF SystemInv

(* Whoever the registry has named in between, a payment that was executed  *)
(* at an escrow contract has its funds in an escrow on its very terms, and *)
(* one that is not executed has none.                                      *)
THEOREM PaidIsBacked == SystemSpec => []ExecutedBacked
BY SystemCorrect, BackedIs, PTL DEF SystemInv

(* No escrow stands for two payments.                                      *)
THEOREM NoEscrowTwice == SystemSpec => []OneEscrowEach
BY SystemCorrect, PTL DEF SystemInv

\* What a deployment has to keep to: the payment contract asks the registry, and
\* the registry names escrow contracts under "escrow", or nothing.
GenuineRoute ==
    /\ payRegistry \in {RegistryAt, Nobody}
    /\ GetContract(EscrowKey) \in Contracts \cup {Nobody}

AllFunded == \A p \in PaymentIds : Executed(p) => Funded(p)

LEMMA FundedNext ==
    ASSUME AllFunded, GenuineRoute, PaymentTypeOK, [SystemNext]_systemVars
    PROVE  AllFunded'
<1>1. ASSUME UNCHANGED <<payments, lockedAt>> PROVE AllFunded'
  BY <1>1 DEF AllFunded, Executed, Funded
<1>2. ASSUME NEW p \in PaymentIds, payments'[p].status # "Executed", UNCHANGED lockedAt,
             \A o \in PaymentIds \ {p} : payments'[o] = payments[o]
      PROVE  AllFunded'
  BY <1>2 DEF AllFunded, Executed, Funded
<1>3. ASSUME NEW u, NEW r, NEW n, NEW a, NEW t, CreatePayment(u, r, n, a, t) PROVE AllFunded'
  <2>1. payNextId \in PaymentIds
    BY <1>3, PaymentConstants DEF CreatePayment, CreatePaymentFault, PaymentTypeOK, PaymentIds
  <2>2. QED
    BY <1>2, <1>3, <2>1 DEF CreatePayment, PaymentTypeOK
<1>4. ASSUME NEW p \in PaymentIds, NEW s \in {"Approved", "Cancelled"}, NEW topic,
             Stored(p), Progress(p, s, topic), UNCHANGED lockedAt
      PROVE  AllFunded'
  <2>1. payments[p] \in PaymentRecord
    BY <1>4, StoredRecord
  <2>2. QED
    BY <1>2, <1>4, <2>1 DEF Progress, PaymentTypeOK, PaymentRecord
<1>5. ASSUME NEW u, NEW p \in PaymentIds, ApprovePayment(u, p) \/ CancelPayment(u, p)
      PROVE  AllFunded'
  BY <1>4, <1>5 DEF ApprovePayment, ApproveFault, CancelPayment, CancelFault
<1>6. ASSUME NEW u, NEW p \in PaymentIds, NEW c, NEW id, ExecutePayment(u, p, c, id)
      PROVE  AllFunded'
  <2>1. c \in Resolved /\ Completed(p, c, id)
    BY <1>6 DEF ExecutePayment, ExecuteFault
  <2>2. c \in Contracts
    BY <2>1, PaymentConstants, PaymentAssumption
       DEF GenuineRoute, Resolved, PaymentAssumption, Holders
  <2>3. /\ lockedAt'[p] = c
        /\ \A o \in PaymentIds \ {p} : payments'[o] = payments[o] /\ lockedAt'[o] = lockedAt[o]
    BY <2>1 DEF Completed, PaymentTypeOK
  <2>4. QED
    BY <2>2, <2>3 DEF AllFunded, Executed, Funded
<1>7. CASE PaymentCalls
  BY <1>1, <1>3, <1>5, <1>6, <1>7 DEF PaymentCalls, PayInitialize
<1>8. CASE ~PaymentCalls
  BY <1>1, <1>8 DEF SystemNext, systemVars, paymentVars
<1>9. QED
  BY <1>7, <1>8

(* If a deployment keeps to it throughout, every executed payment was      *)
(* executed at an escrow contract, and so is backed by PaidIsBacked.       *)
THEOREM GenuineIsFunded == SystemSpec /\ []GenuineRoute => []AllFunded
<1>1. SystemInit => AllFunded
  BY DEF SystemInit, PaymentInit, AllFunded, Executed, NoPayment
<1>2. SystemInv /\ GenuineRoute /\ AllFunded /\ [SystemNext]_systemVars => AllFunded'
  BY FundedNext DEF SystemInv
<1>3. QED
  BY <1>1, <1>2, SystemCorrect, PTL DEF SystemSpec

(* To the ledger and the escrow contracts, payments and the registry add   *)
(* nothing: every step of the system is one the escrow specification has.  *)
THEOREM SystemIsEscrow == SystemSpec => EscrowSpec
<1>1. SystemInit => EscrowInit
  BY DEF SystemInit
<1>2. SystemInv /\ [SystemNext]_systemVars => [EscrowNext]_vars
  BY StepRefines DEF SystemInv
<1>3. QED
  BY <1>1, <1>2, SystemCorrect, PTL DEF SystemSpec, EscrowSpec

(* So each escrow contract can pay what it owes in the whole system too,   *)
(* whatever escrows the payments have opened.                              *)
COROLLARY SystemIsSolvent == SystemSpec => []Solvency
BY SystemIsEscrow, Solvent, PTL

-----------------------------------------------------------------------------
LEMMA TakeoverStep ==
    ASSUME RegistryTypeOK, [SystemNext]_systemVars,
           NEW k \in Keys, HasEntry(k), entries'[k] # entries[k]
    PROVE  entries'[k] = NoEntry /\ signer' = regAdmin
<1>1. ASSUME NEW u \in Admins, RegInitialize(u) PROVE FALSE
  BY <1>1 DEF RegInitialize
<1>2. ASSUME NEW u \in Users, NEW j \in Keys, NEW addr \in Holders, Register(u, j, addr)
      PROVE  FALSE
  <2>1. ~HasEntry(j)
    BY <1>2 DEF Register, RegisterFault
  <2>2. QED
    BY <1>2, <2>1 DEF Register, RegistryTypeOK
<1>3. ASSUME NEW u \in Users, NEW j \in Keys, Remove(u, j)
      PROVE  entries'[k] = NoEntry /\ signer' = regAdmin
  BY <1>3 DEF Remove, RemoveFault, RegistryTypeOK, Signed
<1>4. CASE RegistryCalls
  BY <1>1, <1>2, <1>3, <1>4 DEF RegistryCalls
<1>5. CASE ~RegistryCalls
  <2>1. UNCHANGED registryVars
    BY <1>5 DEF SystemNext, systemVars, PaymentCalls, PayInitialize, CreatePayment,
                ApprovePayment, ExecutePayment, Completed, CancelPayment
  <2>2. QED
    BY <2>1 DEF registryVars
<1>6. QED
  BY <1>4, <1>5

(* In the whole system too, a key that is taken changes hands only through *)
(* the registry's admin, who must take the entry away first.               *)
THEOREM EntriesAreKept == SystemSpec => NoTakeover
<1>1. SystemInv /\ [SystemNext]_systemVars =>
        [\A k \in Keys : HasEntry(k) /\ entries'[k] # entries[k] =>
           /\ entries'[k] = NoEntry
           /\ signer' = regAdmin]_<<ledgerVars, registryVars>>
  BY TakeoverStep DEF SystemInv, PaymentTypeOK
<1>2. QED
  BY <1>1, SystemCorrect, PTL DEF SystemSpec, NoTakeover

=============================================================================
