------------------------------- MODULE Errors -------------------------------
(***************************************************************************)
(* How a failure gets its error code on the way to the user: errors.ts and *)
(* client.ts of our SDK recognize it by its message.                       *)
(*                                                                         *)
(* Of a message the model keeps which of the words toStellarFlowError      *)
(* looks for it holds, and which canonical message it quotes, if any.  The *)
(* messages of a write quote none.  A call that a contract refuses fails   *)
(* with the host's text of the simulation: the number of the error, and a  *)
(* log of events in which anything a token said may stand.                 *)
(***************************************************************************)
EXTENDS Integers, Sequences

ErrorCode ==
    {"WALLET_NOT_INSTALLED", "WALLET_REJECTED", "NOT_CONNECTED", "CONTRACT_CALL_FAILED",
     "NETWORK_ERROR", "TIMEOUT", "INVALID_INPUT", "INSUFFICIENT_BALANCE", "UNAUTHORIZED",
     "NOT_FOUND", "INVALID_STATUS", "NOT_INITIALIZED", "ALREADY_INITIALIZED",
     "INVALID_AMOUNT", "TRANSFER_FAILED", "REGISTRY_ERROR"}

Says(words) == [words |-> words, quotes |-> "nothing"]

\* The texts of the host.
HostTexts == {Says({}), Says({"balance"})}

\* The order of the tests decides on a message that holds several words.
toStellarFlowError(message) ==
    IF "reject" \in message.words THEN "WALLET_REJECTED"
    ELSE IF "timeout" \in message.words THEN "TIMEOUT"
    ELSE IF "network" \in message.words THEN "NETWORK_ERROR"
    ELSE IF "balance" \in message.words THEN "INSUFFICIENT_BALANCE"
    ELSE "CONTRACT_CALL_FAILED"

\* Injected fault: a timeout is not told apart from other failures.
preserveErrorCodeBlunt(message) ==
    LET code == toStellarFlowError(message) IN
    IF code = "TIMEOUT" THEN "CONTRACT_CALL_FAILED"
    ELSE IF code = "CONTRACT_CALL_FAILED" /\ message.quotes # "nothing" THEN message.quotes
    ELSE code

\* Injected fault: the quoted message is taken for a code, found or not.
preserveErrorCodeUnchecked(message) ==
    LET code == toStellarFlowError(message) IN
    IF code = "CONTRACT_CALL_FAILED" THEN message.quotes ELSE code

preserveErrorCode(message) ==
    LET code == toStellarFlowError(message) IN
    IF code = "CONTRACT_CALL_FAILED" /\ message.quotes # "nothing" THEN message.quotes
    ELSE code
=============================================================================
