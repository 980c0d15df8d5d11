------------------------------- MODULE Calls --------------------------------
(***************************************************************************)
(* Calls of a contract from one browser tab: the buttons of forms and      *)
(* cards, the hook useContractCall under each of them, the SDK client with *)
(* its timeouts, the wallet's prompt, and what becomes of the transaction  *)
(* on the ledger.                                                          *)
(*                                                                         *)
(* A run is one call.  It has two lives: what the tab awaits (step,        *)
(* outcome), and what happens to its transaction (tx).  A timeout ends the *)
(* first and not the second.                                               *)
(*                                                                         *)
(* Of the contracts the model keeps which statuses an operation takes and  *)
(* gives (Records.tla); Escrow.tla and Payment.tla have the rest.          *)
(***************************************************************************)
EXTENDS Integers, FiniteSets, Sequences, Sums, Errors, Records

CONSTANTS
    Families,    \* which contracts: a subset of FamilyNames
    OtherFaults, \* numbers of contract errors met besides InvalidStatus
    Cards,       \* the records whose cards the page shows
    Decimals,    \* decimal places of an amount; 7 in the code
    Wholes,      \* whole parts and
    Digits,      \* decimal digits that are typed
    MaxIds,      \* bound on the records of the contract
    MaxRuns      \* bound on the calls made

ASSUME CallsAssumption ==
    /\ Families \subseteq FamilyNames
    /\ OtherFaults \subseteq 1..9
    /\ {Decimals, MaxIds, MaxRuns} \subseteq Nat
    /\ Cards \subseteq 1..MaxIds
    /\ Wholes \subseteq Nat /\ Digits \subseteq 0..9

VARIABLES
    family,     \* the contract called
    chain,      \* the status of its records
    spec,       \* per component, its client's promise of the contract spec
    runs,
    call,       \* the useContractCall status of every button
    submitted   \* PaymentForm's flag

callsVars == <<family, chain, spec, runs, call, submitted>>

Ids == 1..MaxIds
Runs == 1..MaxRuns
Form == 0                 \* the form, among the components with a client
Components == Cards \cup {Form}

-----------------------------------------------------------------------------
(* The amount of a form: digits before and after the point. *)

Values == [whole : Wholes, fraction : UNION {[1..n -> Digits] : n \in 0..(Decimals + 1)}]
NoValue == [whole |-> 0, fraction |-> <<>>]

\* The amount of createPaymentSchema, which is that of createEscrowSchema: no more
\* than so many decimal places, and not zero.
createPaymentSchema(v) ==
    /\ Len(v.fraction) <= Decimals
    /\ v.whole > 0 \/ \E k \in DOMAIN v.fraction : v.fraction[k] > 0

\* The amount that is sent: the digits of both parts, the second padded with
\* zeros and cut, read as one number.
amountToStroops(v) ==
    LET padded == [k \in 1..Decimals |->
                      IF k \in DOMAIN v.fraction THEN v.fraction[k] ELSE 0]
        read[k \in 0..Decimals] == IF k = 0 THEN v.whole ELSE 10 * read[k - 1] + padded[k]
    IN  read[Decimals]

-----------------------------------------------------------------------------
(* The contracts. *)

\* The id the contract gives next.
NextIds == {id \in Ids : chain[id] = "none" /\ \A j \in 1..(id - 1) : chain[j] # "none"}

Accepts(op, id) ==
    IF op = "create" THEN NextIds # {} ELSE chain[id] \in Takes(op)

InvalidStatus == 3
InvalidAmount == 4

\* The contract's errors in the order of its enum, each as the code it stands for.
MeantErrors(f) ==
    IF f = "payment"
    THEN <<"UNAUTHORIZED", "NOT_FOUND", "INVALID_STATUS", "INVALID_AMOUNT", "INVALID_INPUT",
           "REGISTRY_ERROR", "CONTRACT_CALL_FAILED", "ALREADY_INITIALIZED", "NOT_INITIALIZED">>
    ELSE <<"UNAUTHORIZED", "NOT_FOUND", "INVALID_STATUS", "INVALID_AMOUNT",
           "INSUFFICIENT_BALANCE", "TRANSFER_FAILED", "ALREADY_INITIALIZED",
           "NOT_INITIALIZED", "INVALID_INPUT">>

\* Somebody else acts on a record, in another tab or from another account.
SomebodyElse(id) ==
    /\ \E op \in CardOps(family) :
          /\ chain[id] \in Takes(op)
          /\ chain' = [chain EXCEPT ![id] = Gives(op)]
    /\ UNCHANGED <<family, spec, runs, call, submitted>>

-----------------------------------------------------------------------------
(* The tab. *)

\* One useContractCall for every operation of every component: usePayments and
\* useEscrow.
PaymentHooks == (PaymentOps \X Cards) \cup {<<"create", Form>>}
EscrowHooks == (EscrowOps \X Cards) \cup {<<"create", Form>>}
Hooks(f) == IF f = "payment" THEN PaymentHooks ELSE EscrowHooks
Hook(r) == <<r.op, r.id>>

Statuses == {"idle", "connecting", "waiting_approval", "submitting", "pending",
             "confirmed", "failed"}

\* The submit button shows its spinner, and is disabled.
EscrowLoading == call[<<"create", Form>>] \in {"connecting", "waiting_approval", "pending"}
PaymentLoading == EscrowLoading \/ submitted

NoRun == [op |-> "none", id |-> 0, typed |-> NoValue,
          step |-> "none", tx |-> "none", outcome |-> "none", fault |-> 0]

CallsInit ==
    /\ family \in Families
    /\ \E old \in {{}, Cards} :
          chain = [id \in Ids |-> IF id \in old THEN Created(family) ELSE "none"]
    /\ spec = [c \in Components |-> "asked"]
    /\ runs = [i \in Runs |-> NoRun]
    /\ call = [h \in Hooks(family) |-> "idle"]
    /\ submitted = FALSE

\* run: the state of the hook starts over, and fn calls write of the SDK.
Run(i, op, id, typed) ==
    /\ runs[i] = NoRun /\ \A j \in 1..(i - 1) : runs[j] # NoRun
    /\ runs' = [runs EXCEPT ![i] =
                   [NoRun EXCEPT !.op = op, !.id = id, !.typed = typed, !.step = "method"]]
    /\ call' = [call EXCEPT ![<<op, id>>] = "connecting"]

\* createPayment and createEscrow.
Create(i) == \E v \in {v \in Values : createPaymentSchema(v)} : Run(i, "create", Form, v)

\* handleSubmit of PaymentForm and of EscrowForm; values that are not valid, or
\* a form without a wallet, change nothing here.
SubmitPayment(i) ==
    /\ family = "payment" /\ ~PaymentLoading
    /\ Create(i)
    /\ submitted' = TRUE
    /\ UNCHANGED <<family, chain, spec>>

SubmitEscrow(i) ==
    /\ family = "escrow" /\ ~EscrowLoading
    /\ Create(i)
    /\ UNCHANGED <<family, chain, spec, submitted>>

\* handleChange of PaymentForm.
Edit ==
    /\ submitted
    /\ submitted' = FALSE
    /\ UNCHANGED <<family, chain, spec, runs, call>>

\* The Confirm button of a card, which may show an old status of its record
\* (Pages.tla) and is never disabled.
Press(i, op, id) ==
    /\ chain[id] # "none"
    /\ Run(i, op, id, NoValue)
    /\ UNCHANGED <<family, chain, spec, submitted>>

-----------------------------------------------------------------------------
(* The SDK client: write. *)

Component(r) == r.id

Phase(i, status) == call' = [call EXCEPT ![Hook(runs[i])] = status]

\* Injected fault: the catch forgets the status.
FailQuietly(i, message, tx, fault) ==
    /\ runs' = [runs EXCEPT ![i].step = "done", ![i].tx = tx,
                            ![i].outcome = preserveErrorCode(message), ![i].fault = fault]
    /\ UNCHANGED call

\* The run ends with an error, the catch of useContractCall.
Fail(i, message, tx, fault) ==
    LET code == preserveErrorCode(message) IN
    /\ runs' = [runs EXCEPT ![i].step = "done", ![i].tx = tx,
                            ![i].outcome = code, ![i].fault = fault]
    /\ Phase(i, "failed")

Unchanged == UNCHANGED <<family, spec, submitted>>

\* The contract spec is fetched once per client; nothing times it out, and a
\* failure is kept like an answer.
getClient(c) ==
    /\ spec[c] = "asked"
    /\ \E i \in Runs : runs[i].step = "method" /\ Component(runs[i]) = c
    /\ \E answer \in {"ready", "failed"} : spec' = [spec EXCEPT ![c] = answer]
    /\ UNCHANGED <<family, chain, runs, call, submitted>>

Method(i) ==
    LET promise == spec[Component(runs[i])] IN
    /\ runs[i].step = "method"
    /\ \/ /\ promise = "ready"
          /\ runs' = [runs EXCEPT ![i].step = "simulate"]
          /\ Phase(i, "submitting")
       \/ promise = "failed" /\ Fail(i, Says({"network"}), "none", 0)
    /\ Unchanged /\ UNCHANGED chain

\* The simulation succeeds: the contract would accept the call now.
Simulated(i) ==
    /\ runs[i].step = "simulate" /\ Accepts(runs[i].op, runs[i].id)
    /\ runs[i].op = "create" => amountToStroops(runs[i].typed) > 0
    /\ runs' = [runs EXCEPT ![i].step = "send", ![i].tx = "ready"]
    /\ Phase(i, "waiting_approval")
    /\ Unchanged /\ UNCHANGED chain

\* Numbers of the errors the contract may refuse a run with now.
Faults(i) ==
    {n \in OtherFaults \cup {InvalidStatus, InvalidAmount} :
        /\ n = InvalidStatus => runs[i].op # "create" /\ ~Accepts(runs[i].op, runs[i].id)
        /\ n = InvalidAmount => runs[i].op = "create" /\ amountToStroops(runs[i].typed) <= 0}

\* The contract refuses in the simulation; fn returns all the same, and the
\* next phase begins.
SimulationFails(i) ==
    /\ runs[i].step = "simulate"
    /\ \E n \in Faults(i) : runs' = [runs EXCEPT ![i].step = "send", ![i].fault = n]
    /\ Phase(i, "waiting_approval")
    /\ Unchanged /\ UNCHANGED chain

\* signAndSend throws what the host said of the failed simulation; the map of
\* numbers to messages has no part in it.
Refused(i) ==
    /\ runs[i].step = "send" /\ runs[i].tx = "none"
    /\ \E text \in HostTexts : Fail(i, text, "none", runs[i].fault)
    /\ Unchanged /\ UNCHANGED chain

\* signTransaction: the wallet opens its prompt.
Prompt(i) ==
    /\ runs[i].step = "send" /\ runs[i].tx = "ready"
    /\ runs' = [runs EXCEPT ![i].tx = "prompt"]
    /\ Phase(i, "pending")
    /\ Unchanged /\ UNCHANGED chain

\* Injected fault: signAndSend is awaited without withTimeout.
TimeoutInSimulation(i) ==
    /\ runs[i].step = "simulate"
    /\ Fail(i, Says({"timeout"}), runs[i].tx, 0)
    /\ Unchanged /\ UNCHANGED chain

\* withTimeout around the simulation, and around signAndSend.
Timeout(i) ==
    /\ \/ runs[i].step = "simulate"
       \/ runs[i].step = "send" /\ runs[i].tx \notin {"none", "ready"}
    /\ Fail(i, Says({"timeout"}), runs[i].tx, 0)
    /\ Unchanged /\ UNCHANGED chain

\* The RPC server cannot be reached, before or after the transaction went out.
NetworkDown(i) ==
    /\ \/ runs[i].step = "simulate"
       \/ runs[i].step = "send" /\ runs[i].tx \in {"sent", "lost", "applied", "failed"}
    /\ Fail(i, Says({"network"}), runs[i].tx, 0)
    /\ Unchanged /\ UNCHANGED chain

\* The run ends with a result.
Succeed(i) ==
    /\ runs' = [runs EXCEPT ![i].step = "done", ![i].outcome = "ok"]
    /\ Phase(i, "confirmed")

\* Injected fault: the result is not waited for.
SettleEarly(i) ==
    /\ runs[i].step = "send" /\ runs[i].tx = "sent"
    /\ Succeed(i)
    /\ Unchanged /\ UNCHANGED chain

\* sent.result, once the transaction was found on the ledger.
Settle(i) ==
    /\ runs[i].step = "send"
    /\ \/ runs[i].tx = "applied" /\ Succeed(i)
       \/ runs[i].tx = "failed" /\ Fail(i, Says({}), "failed", 0)
    /\ Unchanged /\ UNCHANGED chain

-----------------------------------------------------------------------------
(* The transaction, whether or not the run still waits for it. *)

SetTx(i, tx) == runs' = [runs EXCEPT ![i].tx = tx]

\* The Stellar SDK submits what the wallet signed.
Approve(i) ==
    /\ runs[i].tx = "prompt"
    /\ SetTx(i, "sent")
    /\ UNCHANGED <<family, chain, spec, call, submitted>>

Reject(i) ==
    /\ runs[i].tx = "prompt"
    /\ IF runs[i].step = "send" THEN Fail(i, Says({"reject"}), "lost", 0)
       ELSE SetTx(i, "lost") /\ UNCHANGED call
    /\ Unchanged /\ UNCHANGED chain

\* The transaction does not get there, or expires.
Lose(i) ==
    /\ runs[i].tx = "sent"
    /\ SetTx(i, "lost")
    /\ UNCHANGED <<family, chain, spec, call, submitted>>

\* A ledger includes the transaction: it is applied or refused as of now.
Include(i) ==
    LET r == runs[i] IN
    /\ r.tx = "sent"
    /\ IF Accepts(r.op, r.id)
       THEN \E id \in IF r.op = "create" THEN NextIds ELSE {r.id} :
               /\ runs' = [runs EXCEPT ![i].tx = "applied"]
               /\ chain' = IF r.op = "create" THEN [chain EXCEPT ![id] = Created(family)]
                           ELSE [chain EXCEPT ![id] = Gives(r.op)]
       ELSE SetTx(i, "failed") /\ UNCHANGED chain
    /\ UNCHANGED <<family, spec, call, submitted>>

-----------------------------------------------------------------------------

CallsNext ==
    \/ Edit
    \/ \E c \in Components : getClient(c)
    \/ \E id \in Ids : SomebodyElse(id)
    \/ \E i \in Runs :
          \/ SubmitPayment(i) \/ SubmitEscrow(i)
          \/ \E op \in CardOps(family), id \in Cards : Press(i, op, id)
          \/ Method(i) \/ Simulated(i) \/ SimulationFails(i) \/ Refused(i)
          \/ Prompt(i) \/ Timeout(i) \/ NetworkDown(i) \/ Settle(i)
          \/ Approve(i) \/ Reject(i) \/ Lose(i) \/ Include(i)

(***************************************************************************)
(* Timers fire and the code goes on; the network, the wallet and its user  *)
(* owe the tab nothing.                                                    *)
(***************************************************************************)
CallsFairness ==
    \A i \in Runs : WF_callsVars(Prompt(i) \/ Refused(i)) /\ WF_callsVars(Timeout(i))

CallsSpec == CallsInit /\ [][CallsNext]_callsVars /\ CallsFairness

-----------------------------------------------------------------------------

RunRecord ==
    [op : CardOps("payment") \cup CardOps("escrow") \cup {"create", "none"},
     id : 0..MaxIds,
     typed : Values \cup {NoValue},
     step : {"none", "method", "simulate", "send", "done"},
     tx : {"none", "ready", "prompt", "sent", "lost", "applied", "failed"},
     outcome : ErrorCode \cup {"none", "ok"},
     fault : 0..9]

\* Every variable keeps its type.
CallsTypeOK ==
    /\ family \in Families
    /\ chain \in [Ids -> StatusNames]
    /\ spec \in [Components -> {"asked", "ready", "failed"}]
    /\ runs \in [Runs -> RunRecord]
    /\ call \in [Hooks(family) -> Statuses]
    /\ submitted \in BOOLEAN

\* The two errors after which a transaction may still take effect.
Undecided == {"TIMEOUT", "NETWORK_ERROR"}
Moving == {"ready", "prompt", "sent", "applied"}

\* What the user is told of a call is true, and stays true, however late the
\* wallet and the ledger answer: a confirmed call took effect, and a call that
\* failed with anything but a timeout or a network error never will (write,
\* preserveErrorCode).
OutcomeIsTrue ==
    \A i \in Runs :
        /\ runs[i].outcome = "ok" => runs[i].tx = "applied"
        /\ runs[i].outcome \notin Undecided \cup {"none", "ok"} => runs[i].tx \notin Moving

\* A refusal of the contract reaches the user as the error it stands for, as
\* client.ts says of preserveErrorCode and of errorTypes.
FaultIsNamed ==
    \A i \in Runs :
        runs[i].step = "done" /\ runs[i].fault # 0
            => runs[i].outcome = MeantErrors(family)[runs[i].fault]

\* What was typed, in the smallest unit.
Worth(v) ==
    v.whole * TenTo(Decimals)
    + SumTo([k \in DOMAIN v.fraction |-> v.fraction[k] * TenTo(Decimals - k)], Len(v.fraction))

\* What a button shows is what became of its calls, though a second call of the
\* same hook starts over and both report to it: it is busy only while one of
\* them is under way, and shows success or failure only if one of them ended so,
\* a form's success only if the amount typed is the one sent (run of
\* useContractCall, amountToStroops).
ScreenFollowsRuns ==
    \A h \in Hooks(family) :
        LET Of == {i \in Runs : runs[i] # NoRun /\ Hook(runs[i]) = h} IN
        CASE call[h] = "idle" -> Of = {}
          [] call[h] = "confirmed" ->
               \E i \in Of : /\ runs[i].outcome = "ok"
                            /\ amountToStroops(runs[i].typed) = Worth(runs[i].typed)
          [] call[h] = "failed" -> \E i \in Of : runs[i].outcome \in ErrorCode
          [] OTHER -> \E i \in Of : runs[i].step # "done"

\* Once the SDK has the contract spec, every call comes to an end, whatever the
\* network and the wallet do (withTimeout, run).
CallsEnd ==
    \A i \in Runs : runs[i].step \in {"simulate", "send"} ~> runs[i].step = "done"

\* The caller's side of a run and the ledger's, as Service.tla speaks of them.
ToldOf(r) ==
    CASE r.step = "none" -> "none"
      [] r.outcome = "ok" -> "ok"
      [] r.outcome \in Undecided -> "unknown"
      [] r.outcome = "none" /\ r.step # "none" -> "waiting"
      [] OTHER -> "error"

EffectOf(r) ==
    IF r.tx = "applied" THEN "applied"
    ELSE IF r.tx \in {"lost", "failed"} \/ (r.tx = "none" /\ r.step = "done")
    THEN "never" ELSE "open"

Served == INSTANCE Service WITH
    Requests <- Runs,
    told <- [i \in Runs |-> ToldOf(runs[i])],
    effect <- [i \in Runs |-> EffectOf(runs[i])]

\* The SDK keeps what callers rely on: every call takes effect at most once, and
\* is told of once and truly.
ImplementsService == Served!ServiceSpec
=============================================================================
