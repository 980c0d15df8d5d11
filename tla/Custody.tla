------------------------------ MODULE Custody ------------------------------
(***************************************************************************)
(* What an escrow service promises, with no vault in it: every open deal   *)
(* is backed by itself.  A deal takes its amount from the depositor once,  *)
(* and gives the whole of it once, to the depositor or to the beneficiary. *)
(* Nothing else touches what a holder owns but a gift of the holder's own. *)
(***************************************************************************)
EXTENDS Integers

CONSTANTS Deals, Givers, Owners, Tokens

VARIABLES
    wealth,     \* wealth[h][a]: what h owns and can dispose of
    deals       \* deals[k]: a deal's terms and its state

custodyVars == <<wealth, deals>>

NoDeal == [state |-> "none"]

Terms == [depositor: Givers, beneficiary: Owners, amount: Nat \ {0}, asset: Tokens,
          state: {"open", "contested", "returned", "paid"}]

TypeOK ==
    /\ wealth \in [Owners -> [Tokens -> Nat]]
    /\ deals \in [Deals -> Terms \cup {NoDeal}]

Init ==
    /\ wealth \in [Owners -> [Tokens -> Nat]]
    /\ deals = [k \in Deals |-> NoDeal]

IsOpen(k) == deals[k].state \in {"open", "contested"}

Open(k, d, b, n, a) ==
    /\ deals[k] = NoDeal
    /\ n > 0
    /\ wealth[d][a] >= n
    /\ wealth' = [wealth EXCEPT ![d][a] = @ - n]
    /\ deals' = [deals EXCEPT ![k] =
         [depositor |-> d, beneficiary |-> b, amount |-> n, asset |-> a, state |-> "open"]]

Contest(k) ==
    /\ deals[k].state = "open"
    /\ deals' = [deals EXCEPT ![k].state = "contested"]
    /\ UNCHANGED wealth

Close(k, to, state) ==
    /\ IsOpen(k)
    /\ wealth' = [wealth EXCEPT ![to][deals[k].asset] = @ + deals[k].amount]
    /\ deals' = [deals EXCEPT ![k].state = state]

Give(h, to, a, n) ==
    LET given == [wealth EXCEPT ![h][a] = @ - n] IN
    /\ n > 0
    /\ wealth[h][a] >= n
    /\ wealth' = [given EXCEPT ![to][a] = @ + n]
    /\ UNCHANGED deals

Next ==
    \/ \E k \in Deals, d \in Givers, b \in Owners, a \in Tokens :
         \E n \in 1..wealth[d][a] : Open(k, d, b, n, a)
    \/ \E k \in Deals : Contest(k)
    \/ \E k \in Deals : Close(k, deals[k].depositor, "returned")
    \/ \E k \in Deals : Close(k, deals[k].beneficiary, "paid")
    \/ \E h \in Givers, to \in Owners, a \in Tokens :
         \E n \in 1..wealth[h][a] : Give(h, to, a, n)

Spec == Init /\ [][Next]_custodyVars
=============================================================================
