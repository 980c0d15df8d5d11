------------------------------ MODULE Registry ------------------------------
(***************************************************************************)
(* The registry contract: addresses of the other contracts under string    *)
(* keys.  As in Escrow, an action is a call that succeeds and its Fault    *)
(* operator names the first check that would fail.                         *)
(***************************************************************************)
EXTENDS Ledger

CONSTANTS
    Keys,       \* keys in use
    EscrowKey   \* the key "escrow", which the payment contract looks up

ASSUME RegistryAssumption == EscrowKey \in Keys

VARIABLES
    regAdmin,   \* DataKey::Admin
    entries     \* entries[k]: DataKey::Entry(k)

registryVars == <<regAdmin, entries>>

NoEntry == [address |-> Nobody]
RegistryEntry == [address: Holders, registeredAt: Nat]

HasEntry(k) == entries[k] # NoEntry

RegistryInit ==
    /\ regAdmin = Nobody
    /\ entries = [k \in Keys |-> NoEntry]

RegInitializeFault == IF regAdmin # Nobody THEN "AlreadyInitialized" ELSE "ok"

RegInitialize(u) ==
    /\ RegInitializeFault = "ok"
    /\ Signed(u)
    /\ regAdmin' = u
    /\ UNCHANGED <<now, bal, entries>>

\* Injected fault: an entry in use is replaced.
RegisterFaultOverwrite(u, k, addr) ==
    IF regAdmin # Nobody /\ u \in {regAdmin, addr} THEN "ok" ELSE "refused"

RegisterFault(u, k, addr) ==
    IF regAdmin = Nobody THEN "NotInitialized"
    ELSE IF u # regAdmin /\ u # addr THEN "Unauthorized"
    ELSE IF HasEntry(k) THEN "AlreadyRegistered"
    ELSE "ok"

\* A caller may be an account or a contract of other code, which registers itself
\* under a free key without the admin; those of this code make no such call.
Register(u, k, addr) ==
    /\ RegisterFault(u, k, addr) = "ok"
    /\ Signed(u)
    /\ entries' = [entries EXCEPT ![k] = [address |-> addr, registeredAt |-> now]]
    /\ UNCHANGED <<now, bal, regAdmin>>

RemoveFault(u, k) ==
    IF regAdmin = Nobody THEN "NotInitialized"
    ELSE IF u # regAdmin THEN "Unauthorized"
    ELSE IF ~HasEntry(k) THEN "NotFound"
    ELSE "ok"

Remove(u, k) ==
    /\ RemoveFault(u, k) = "ok"
    /\ Signed(u)
    /\ entries' = [entries EXCEPT ![k] = NoEntry]
    /\ UNCHANGED <<now, bal, regAdmin>>

\* get_contract: the address under k, Nobody standing for the error NotFound.
GetContract(k) == entries[k].address

RegistryCalls ==
    \/ \E u \in Admins : RegInitialize(u)
    \/ \E u \in Users, k \in Keys, addr \in Holders : Register(u, k, addr)
    \/ \E u \in Users, k \in Keys : Remove(u, k)

-----------------------------------------------------------------------------
(* Type invariant of the registry. *)
RegistryTypeOK ==
    /\ regAdmin \in Admins \cup {Nobody}
    /\ entries \in [Keys -> RegistryEntry \cup {NoEntry}]

(* A reader that has resolved a key keeps a right answer until the admin   *)
(* takes the entry away: no registration, not even the admin's, replaces   *)
(* an entry.                                                               *)
NoTakeover ==
    [][\A k \in Keys : HasEntry(k) /\ entries'[k] # entries[k] =>
         /\ entries'[k] = NoEntry
         /\ signer' = regAdmin]_<<ledgerVars, registryVars>>

(* What the comment of register and docs/contracts.md tell: the admin may  *)
(* store an address under any key, one in use included.                    *)
AdminOverwrites ==
    \A k \in Keys, addr \in Holders :
        regAdmin # Nobody => RegisterFault(regAdmin, k, addr) = "ok"

=============================================================================
