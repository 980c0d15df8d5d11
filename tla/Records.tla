------------------------------ MODULE Records -------------------------------
(***************************************************************************)
(* Payments and escrows as the SDK and the web app see them: a status, the *)
(* operations that move it, who may call them, how the SDK reads the       *)
(* status from what the contract's enum is decoded to, and what a card     *)
(* offers.  Escrow.tla and Payment.tla have the contracts themselves.      *)
(***************************************************************************)
EXTENDS Integers, Sequences

FamilyNames == {"payment", "escrow"}

\* What the cards call; the forms call "create".
PaymentOps == {"approve", "execute", "cancel"}
EscrowOps == {"release", "refund", "dispute"}
CardOps(f) == IF f = "payment" THEN PaymentOps ELSE EscrowOps

\* The variants of the Rust enums.
RecordStatuses(f) ==
    IF f = "payment" THEN {"Created", "Approved", "Executed", "Cancelled"}
    ELSE {"Locked", "Released", "Refunded", "Disputed"}

\* The status a record is created with.
Created(f) == IF f = "payment" THEN "Created" ELSE "Locked"

StatusNames == {"none", "Created", "Approved", "Executed", "Cancelled",
                "Locked", "Released", "Refunded", "Disputed"}

\* The statuses an operation is accepted in, and the one it leaves.
Takes(op) ==
    CASE op = "approve" -> {"Created"}
      [] op = "execute" -> {"Approved"}
      [] op = "cancel" -> {"Created", "Approved"}
      [] op \in {"release", "refund", "dispute"} -> {"Locked"}
      [] OTHER -> {"none"}

Gives(op) ==
    CASE op = "approve" -> "Approved"
      [] op = "execute" -> "Executed"
      [] op = "cancel" -> "Cancelled"
      [] op = "release" -> "Released"
      [] op = "refund" -> "Refunded"
      [] OTHER -> "Disputed"

\* What the account of the tab is to a record: its creator or depositor, its
\* recipient or beneficiary, or neither.
Roles == {"owner", "payee", "stranger"}

\* The contract's authorization, the admin's aside.
MayCall(role, op) ==
    \/ role = "owner"
    \/ role = "payee" /\ op \in {"release", "dispute"}

-----------------------------------------------------------------------------
(* The SDK and the cards. *)

\* A unit variant of an enum without values travels as its name and is decoded
\* to an object that holds it.
Decoded(status) == [tag |-> status]

\* JavaScript's Number: that of an object is not a number.  (The tests decode a
\* record by hand, to one whose status is [number |-> n].)
NaN == -1
Number(native) == IF "tag" \in DOMAIN native THEN NaN ELSE native.number

PAYMENT_STATUSES == <<"Created", "Approved", "Executed", "Cancelled">>
ESCROW_STATUSES == <<"Locked", "Released", "Refunded", "Disputed">>

\* Injected fault: the mapping of escrows, copied for payments.
toPaymentCopied(native) ==
    LET n == Number(native) + 1 IN
    IF n \in DOMAIN ESCROW_STATUSES THEN ESCROW_STATUSES[n] ELSE "Locked"

\* What has no name in the list reads as the first status.
toPayment(native) ==
    LET n == Number(native) + 1 IN
    IF n \in DOMAIN PAYMENT_STATUSES THEN PAYMENT_STATUSES[n] ELSE "Created"

toEscrow(native) ==
    LET n == Number(native) + 1 IN
    IF n \in DOMAIN ESCROW_STATUSES THEN ESCROW_STATUSES[n] ELSE "Locked"

toRecord(f, native) == IF f = "payment" THEN toPayment(native) ELSE toEscrow(native)

\* The buttons of a card: can... of PaymentCard and of EscrowCard.
PaymentOffers(role, status) ==
    {op \in PaymentOps : role = "owner" /\
        \/ op = "approve" /\ status = "Created"
        \/ op = "execute" /\ status = "Approved"
        \/ op = "cancel" /\ status \in {"Created", "Approved"}}

EscrowOffers(role, status) ==
    {op \in EscrowOps : status = "Locked" /\
        \/ role = "owner"
        \/ role = "payee" /\ op # "refund"}

Offers(f, role, status) ==
    IF f = "payment" THEN PaymentOffers(role, status) ELSE EscrowOffers(role, status)
=============================================================================
