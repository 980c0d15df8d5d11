----------------------------- MODULE MCPayment -----------------------------
(* The whole system on small instances: SystemSpec starts with nothing     *)
(* initialized, MCSystemSpec after the deployment script has initialized   *)
(* two escrow contracts, so that TLC spends its states on payments and on  *)
(* the registry's changes.                                                 *)
EXTENDS Payment, TLC

CONSTANTS alice, bob, v1, v2, usdc

MCUsers == {alice, bob}
MCTwo == {v1, v2}
MCFunding == [u \in Users |-> [a \in {usdc} |-> IF u = alice THEN 2 ELSE 0]]

\* The two escrow contracts are alike.
MCSymmetry == Permutations({v1, v2})

\* The deployment script has initialized the escrow contracts; registry and
\* payment contract are next.
MCBegun ==
    /\ LedgerInit
    /\ admin = [c \in Contracts |-> bob]
    /\ nextId = [c \in Contracts |-> 1]
    /\ escrows = [c \in Contracts |-> [i \in Ids |-> NoEscrow]]
    /\ events = [c \in Contracts |-> [i \in Ids |-> <<>>]]
    /\ RegistryInit
    /\ PaymentInit

MCSystemSpec == MCBegun /\ [][SystemNext]_systemVars
=============================================================================
