------------------------------ MODULE MCEscrow ------------------------------
(* One escrow contract, two users and one asset, small enough for TLC.     *)
EXTENDS Escrow

CONSTANTS alice, bob, vault, usdc

MCUsers == {alice, bob}
MCContracts == {vault}
MCAssets == {usdc}
MCAdmins == {bob}
MCFunding == [u \in MCUsers |-> [a \in MCAssets |-> IF u = alice THEN 2 ELSE 0]]
MCPayees == {bob, vault}
MCAmounts == 0..2
=============================================================================
