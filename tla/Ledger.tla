------------------------------- MODULE Ledger -------------------------------
(***************************************************************************)
(* The host the contracts run on, as they use it: the ledger clock, the    *)
(* token contracts' balances, and the signer of the last invocation.       *)
(* Everything here is external to src/ and modelled from the calls the     *)
(* contracts make: env.ledger().timestamp(), token balance and             *)
(* try_transfer, require_auth.                                             *)
(*                                                                         *)
(* An invocation is one atomic step.  One that returns an error or panics  *)
(* leaves nothing behind, for the host rolls its frame back: it is a       *)
(* stuttering step, and the actions describe the calls that succeed.       *)
(***************************************************************************)
EXTENDS Integers

CONSTANTS
    Users,      \* accounts that sign invocations
    Contracts,  \* addresses of the deployed escrow contracts
    Nobody,     \* no address: an unset admin, a step nobody signed
    Admins,     \* users that may initialize a contract
    Assets,     \* token contracts
    Funding,    \* the balance each user starts with, per asset
    Payees,     \* addresses named as a beneficiary or a recipient
    Gifts,      \* amounts users pay each other outside any escrow
    MaxTime     \* bound on the ledger clock

Holders == Users \cup Contracts

ASSUME LedgerAssumption ==
    /\ Users \cap Contracts = {}
    /\ Admins \subseteq Users
    /\ Nobody \notin Users \cup Contracts
    /\ Payees \subseteq Holders
    /\ Gifts \subseteq Int
    /\ Funding \in [Users -> [Assets -> Nat]]
    /\ MaxTime \in Nat

VARIABLES
    now,        \* ledger timestamp
    bal,        \* bal[h][a]: what h owns of asset a
    signer      \* who signed the last invocation

ledgerVars == <<now, bal, signer>>

LedgerInit ==
    /\ now = 0
    /\ bal = [h \in Holders |-> IF h \in Users THEN Funding[h] ELSE [a \in Assets |-> 0]]
    /\ signer = Nobody

(* Every operation checks require_auth of the address it acts for: a call  *)
(* without that signature never runs.                                      *)
Signed(u) == signer' = u

\* The balances after n of asset a went from one holder to another.
Moved(from, to, a, n) ==
    LET debited == [bal EXCEPT ![from][a] = @ - n]
    IN  [debited EXCEPT ![to][a] = @ + n]

(* A transfer is refused for want of funds, or for a reason of the token's *)
(* own ("willing" is false: no trustline, a frozen account, a limit).      *)
Refused(from, a, n, willing) == ~willing \/ bal[from][a] < n

(* The clock of the ledger moves on between invocations. *)
Tick ==
    /\ now < MaxTime
    /\ now' = now + 1
    /\ Signed(Nobody)
    /\ UNCHANGED bal

(* A user pays somebody, an escrow contract included, outside any escrow. *)
Pay(u, to, a, n) ==
    /\ n > 0
    /\ ~Refused(u, a, n, TRUE)
    /\ bal' = Moved(u, to, a, n)
    /\ Signed(u)
    /\ UNCHANGED now

(* An invocation of some other contract, which moves none of these tokens. *)
Elsewhere(u) ==
    /\ Signed(u)
    /\ UNCHANGED <<now, bal>>
=============================================================================
