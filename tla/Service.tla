------------------------------ MODULE Service -------------------------------
(***************************************************************************)
(* What a caller may rely on when it calls a contract through the SDK: a   *)
(* request takes effect at most once; what the caller is told of it is     *)
(* told once, and is true for good, except that it may be told that the    *)
(* end is unknown.  Calls.tla shows how the SDK keeps this, and Pages.tla  *)
(* what the pages of the web app make of it.                               *)
(***************************************************************************)

CONSTANT Requests

VARIABLES
    told,   \* per request: "none", "waiting", "ok", "error", "unknown"
    effect  \* "open", "applied", or "never"

serviceVars == <<told, effect>>

ServiceInit ==
    /\ told = [i \in Requests |-> "none"]
    /\ effect = [i \in Requests |-> "open"]

Begin(i) ==
    /\ told[i] = "none"
    /\ told' = [told EXCEPT ![i] = "waiting"]
    /\ UNCHANGED effect

\* The effect is decided, before the caller is told or after it gave up.
Decide(i, e) ==
    /\ told[i] \in {"waiting", "unknown"} /\ effect[i] = "open"
    /\ effect' = [effect EXCEPT ![i] = e]
    /\ UNCHANGED told

Confirm(i) ==
    /\ told[i] = "waiting" /\ effect[i] = "applied"
    /\ told' = [told EXCEPT ![i] = "ok"]
    /\ UNCHANGED effect

Refuse(i) ==
    /\ told[i] = "waiting" /\ effect[i] # "applied"
    /\ told' = [told EXCEPT ![i] = "error"]
    /\ effect' = [effect EXCEPT ![i] = "never"]

\* The caller no longer waits; the request may be given up with it.
GiveUp(i) ==
    /\ told[i] = "waiting"
    /\ told' = [told EXCEPT ![i] = "unknown"]
    /\ \/ UNCHANGED effect
       \/ effect[i] = "open" /\ effect' = [effect EXCEPT ![i] = "never"]

ServiceNext ==
    \E i \in Requests :
        \/ Begin(i) \/ Confirm(i) \/ Refuse(i) \/ GiveUp(i)
        \/ \E e \in {"applied", "never"} : Decide(i, e)

ServiceSpec == ServiceInit /\ [][ServiceNext]_serviceVars

\* What was told is true.
TellsTruth ==
    \A i \in Requests :
        /\ told[i] = "ok" => effect[i] = "applied"
        /\ told[i] = "error" => effect[i] = "never"
=============================================================================
