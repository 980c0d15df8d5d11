---------------------------- MODULE CallsProofs -----------------------------
(***************************************************************************)
(* Proofs about the calls of a tab, for any number of calls, records and   *)
(* cards, and any errors of the contracts: what the caller is told is true *)
(* and stays true, and the SDK implements the service of Service.tla.      *)
(***************************************************************************)
EXTENDS Calls, RecursionTheorems

-----------------------------------------------------------------------------
(* The codes of the messages of a write. *)

LEMMA OwnCodes ==
    /\ preserveErrorCode(Says({"network"})) = "NETWORK_ERROR"
    /\ preserveErrorCode(Says({"timeout"})) = "TIMEOUT"
    /\ preserveErrorCode(Says({"reject"})) = "WALLET_REJECTED"
    /\ preserveErrorCode(Says({})) = "CONTRACT_CALL_FAILED"
BY DEF preserveErrorCode, toStellarFlowError, Says

(* A message that quotes nothing, or a canonical message, gets a code. *)
LEMMA CodeOfMessage ==
    ASSUME NEW message, message.quotes \in ErrorCode \cup {"nothing"}
    PROVE  preserveErrorCode(message) \in ErrorCode
BY DEF preserveErrorCode, toStellarFlowError, ErrorCode

LEMMA CodeOfRefusal ==
    ASSUME NEW text \in HostTexts
    PROVE  preserveErrorCode(text) \in ErrorCode
BY CodeOfMessage DEF HostTexts, Says

LEMMA FaultsAre == \A i \in Runs : Faults(i) \subseteq 0..9
<1>1. OtherFaults \subseteq 0..9 /\ {InvalidStatus, InvalidAmount} \subseteq 0..9
  BY CallsAssumption DEF CallsAssumption, InvalidStatus, InvalidAmount
<1>2. \A i \in Runs : Faults(i) \subseteq OtherFaults \cup {InvalidStatus, InvalidAmount}
  BY DEF Faults
<1>3. QED
  BY <1>1, <1>2

LEMMA StatusesOfRecords ==
    /\ \A f \in FamilyNames : Created(f) \in StatusNames
    /\ \A op : Gives(op) \in StatusNames
BY DEF FamilyNames, Created, StatusNames, Gives

-----------------------------------------------------------------------------
(* Every variable keeps its type. *)

LEMMA NoRunType == NoRun \in RunRecord
BY CallsAssumption DEF NoRun, RunRecord, CallsAssumption

LEMMA CallsInitType == CallsInit => CallsTypeOK
<1> SUFFICES ASSUME CallsInit PROVE CallsTypeOK
  OBVIOUS
<1>1. family \in FamilyNames
  BY CallsAssumption DEF CallsInit, CallsAssumption
<1>2. chain \in [Ids -> StatusNames]
  BY <1>1, StatusesOfRecords DEF CallsInit, StatusNames
<1>3. NoRun \in RunRecord
  BY NoRunType
<1>4. QED
  BY <1>2, <1>3 DEF CallsInit, CallsTypeOK, Statuses

\* The parts of the type that actions leave alone together.
LEMMA RunType ==
    ASSUME CallsTypeOK, NEW i \in Runs, NEW op \in CardOps("payment") \cup CardOps("escrow") \cup {"create"},
           NEW id \in 0..MaxIds, NEW typed \in Values \cup {NoValue},
           Run(i, op, id, typed)
    PROVE  runs' \in [Runs -> RunRecord] /\ call' \in [Hooks(family) -> Statuses]
<1> DEFINE new == [NoRun EXCEPT !.op = op, !.id = id, !.typed = typed, !.step = "method"]
<1>1. NoRun \in RunRecord
  BY NoRunType
<1>2. new \in RunRecord
  BY <1>1 DEF RunRecord
<1>3. runs' = [runs EXCEPT ![i] = new]
  BY DEF Run
<1>4. call' = [call EXCEPT ![<<op, id>>] = "connecting"]
  BY DEF Run
<1> HIDE DEF new
<1>5. QED
  BY <1>2, <1>3, <1>4 DEF CallsTypeOK, Statuses

(* A record whose step, tx, outcome and fault are replaced. *)
LEMMA EndedType ==
    ASSUME NEW r \in RunRecord, NEW code \in ErrorCode, NEW fault \in 0..9,
           NEW tx \in {"none", "ready", "prompt", "sent", "lost", "applied", "failed"}
    PROVE  [r EXCEPT !.step = "done", !.tx = tx, !.outcome = code, !.fault = fault] \in RunRecord
BY DEF RunRecord

LEMMA FailType ==
    ASSUME CallsTypeOK, NEW i \in Runs, NEW message,
           preserveErrorCode(message) \in ErrorCode,
           NEW tx \in {"none", "ready", "prompt", "sent", "lost", "applied", "failed"},
           NEW fault \in 0..9,
           Fail(i, message, tx, fault)
    PROVE  runs' \in [Runs -> RunRecord] /\ call' \in [Hooks(family) -> Statuses]
<1> DEFINE q == [runs[i] EXCEPT !.step = "done", !.tx = tx,
                                !.outcome = preserveErrorCode(message), !.fault = fault]
<1>1. runs[i] \in RunRecord
  BY DEF CallsTypeOK
<1>2. q \in RunRecord
  BY <1>1, EndedType
<1>3. runs' = [runs EXCEPT ![i] = q]
  BY DEF Fail, CallsTypeOK
<1>4. call' = [call EXCEPT ![Hook(runs[i])] = "failed"]
  BY DEF Fail, Phase
<1> HIDE DEF q
<1>5. QED
  BY <1>2, <1>3, <1>4 DEF CallsTypeOK, Statuses

LEMMA PhaseType ==
    ASSUME CallsTypeOK, NEW i \in Runs, NEW status \in Statuses, Phase(i, status)
    PROVE  call' \in [Hooks(family) -> Statuses]
BY DEF CallsTypeOK, Phase

LEMMA CallsNextType == CallsTypeOK /\ [CallsNext]_callsVars => CallsTypeOK'
<1> SUFFICES ASSUME CallsTypeOK, [CallsNext]_callsVars PROVE CallsTypeOK'
  OBVIOUS
<1> USE DEF CallsTypeOK
<1>0. Form \in 0..MaxIds /\ Cards \subseteq 0..MaxIds /\ OtherFaults \subseteq 0..9
  BY CallsAssumption DEF CallsAssumption, Form
<1>1. CASE UNCHANGED callsVars
  BY <1>1 DEF callsVars
<1>2. CASE Edit
  BY <1>2 DEF Edit
<1>3. ASSUME NEW c \in Components, getClient(c) PROVE CallsTypeOK'
  BY <1>3 DEF getClient
<1>4. ASSUME NEW id \in Ids, SomebodyElse(id) PROVE CallsTypeOK'
  BY <1>4, StatusesOfRecords DEF SomebodyElse
<1>5. ASSUME NEW i \in Runs, SubmitPayment(i) \/ SubmitEscrow(i) PROVE CallsTypeOK'
  <2>1. runs' \in [Runs -> RunRecord] /\ call' \in [Hooks(family) -> Statuses]
    <3>1. PICK v \in Values : Run(i, "create", Form, v)
      BY <1>5 DEF SubmitPayment, SubmitEscrow, Create
    <3>2. QED
      BY <3>1, <1>0, RunType
  <2>2. QED
    BY <1>5, <2>1 DEF SubmitPayment, SubmitEscrow
<1>6. ASSUME NEW i \in Runs, NEW op \in CardOps(family), NEW id \in Cards, Press(i, op, id)
      PROVE  CallsTypeOK'
  <2>1. op \in CardOps("payment") \cup CardOps("escrow")
    BY CallsAssumption DEF CallsAssumption, FamilyNames
  <2>2. runs' \in [Runs -> RunRecord] /\ call' \in [Hooks(family) -> Statuses]
    BY <1>0, <1>6, <2>1, RunType DEF Press
  <2>3. QED
    BY <1>6, <2>2 DEF Press
<1>7. ASSUME NEW i \in Runs, NEW message, preserveErrorCode(message) \in ErrorCode,
             NEW tx \in {"none", "ready", "prompt", "sent", "lost", "applied", "failed"},
             NEW fault \in 0..9,
             Fail(i, message, tx, fault), Unchanged, UNCHANGED chain
      PROVE  CallsTypeOK'
  <2>1. runs' \in [Runs -> RunRecord] /\ call' \in [Hooks(family) -> Statuses]
    BY <1>7, FailType
  <2>2. QED
    BY <1>7, <2>1 DEF Unchanged
<1>8. /\ preserveErrorCode(Says({"network"})) \in ErrorCode
      /\ preserveErrorCode(Says({"timeout"})) \in ErrorCode
      /\ preserveErrorCode(Says({"reject"})) \in ErrorCode
      /\ preserveErrorCode(Says({})) \in ErrorCode
  BY OwnCodes DEF ErrorCode
<1>9. \A i \in Runs :
         runs[i].tx \in {"none", "ready", "prompt", "sent", "lost", "applied", "failed"}
  BY DEF RunRecord
<1>10. ASSUME NEW i \in Runs, NEW status \in Statuses, Phase(i, status),
              runs' \in [Runs -> RunRecord], Unchanged, UNCHANGED chain
       PROVE  CallsTypeOK'
  BY <1>10, PhaseType DEF Unchanged
<1>11. {"submitting", "waiting_approval", "pending", "confirmed"} \subseteq Statuses
  BY DEF Statuses
<1>12. ASSUME NEW i \in Runs, Method(i) PROVE CallsTypeOK'
  <2>1. CASE Fail(i, Says({"network"}), "none", 0)
    BY <1>7, <1>8, <1>12, <2>1 DEF Method
  <2>2. CASE /\ runs' = [runs EXCEPT ![i].step = "simulate"]
             /\ Phase(i, "submitting")
    <3>1. runs' \in [Runs -> RunRecord]
      BY <2>2 DEF RunRecord
    <3>2. QED
      BY <1>12, <1>10, <1>11, <2>2, <3>1 DEF Method
  <2>3. QED
    BY <1>12, <2>1, <2>2 DEF Method
<1>13. ASSUME NEW i \in Runs, Simulated(i) PROVE CallsTypeOK'
  <2>1. runs' \in [Runs -> RunRecord]
    <3>1. [runs[i] EXCEPT !.step = "send", !.tx = "ready"] \in RunRecord
      BY DEF RunRecord
    <3>2. QED
      BY <1>13, <3>1 DEF Simulated
  <2>2. QED
    BY <1>13, <1>10, <1>11, <2>1 DEF Simulated
<1>14. ASSUME NEW i \in Runs, SimulationFails(i) \/ Refused(i) PROVE CallsTypeOK'
  <2>1. CASE Refused(i)
    <3>1. runs[i].fault \in 0..9
      BY DEF RunRecord
    <3>2. PICK text \in HostTexts : Fail(i, text, "none", runs[i].fault)
      BY <2>1 DEF Refused
    <3>3. QED
      BY <1>7, <2>1, <3>1, <3>2, CodeOfRefusal DEF Refused
  <2>2. CASE SimulationFails(i)
    <3>1. PICK n \in 0..9 : runs' = [runs EXCEPT ![i].step = "send", ![i].fault = n]
      BY <2>2, FaultsAre DEF SimulationFails
    <3>2. [runs[i] EXCEPT !.step = "send", !.fault = n] \in RunRecord
      BY DEF RunRecord
    <3>3. runs' \in [Runs -> RunRecord]
      BY <3>1, <3>2
    <3>4. QED
      BY <1>10, <1>11, <2>2, <3>3 DEF SimulationFails
  <2>3. QED
    BY <1>14, <2>1, <2>2
<1>15. ASSUME NEW i \in Runs, Prompt(i) PROVE CallsTypeOK'
  <2>1. runs' \in [Runs -> RunRecord]
    BY <1>15 DEF Prompt, RunRecord
  <2>2. QED
    BY <1>15, <1>10, <1>11, <2>1 DEF Prompt
<1>16. ASSUME NEW i \in Runs, Timeout(i) PROVE CallsTypeOK'
  BY <1>7, <1>8, <1>9, <1>16 DEF Timeout
<1>17. ASSUME NEW i \in Runs, NetworkDown(i) PROVE CallsTypeOK'
  BY <1>7, <1>8, <1>9, <1>17 DEF NetworkDown
<1>18. ASSUME NEW i \in Runs, Settle(i) PROVE CallsTypeOK'
  <2>1. CASE Fail(i, Says({}), "failed", 0)
    BY <1>7, <1>8, <1>18, <2>1 DEF Settle
  <2>2. CASE Succeed(i)
    <3>1. runs' \in [Runs -> RunRecord]
      <4>1. [runs[i] EXCEPT !.step = "done", !.outcome = "ok"] \in RunRecord
        BY DEF RunRecord
      <4>2. QED
        BY <2>2, <4>1 DEF Succeed
    <3>2. QED
      BY <1>18, <1>10, <1>11, <2>2, <3>1 DEF Settle, Succeed
  <2>3. QED
    BY <1>18, <2>1, <2>2 DEF Settle
<1>19. ASSUME NEW i \in Runs, Approve(i) \/ Lose(i) PROVE CallsTypeOK'
  BY <1>19 DEF Approve, Lose, SetTx, RunRecord
<1>20. ASSUME NEW i \in Runs, Reject(i) PROVE CallsTypeOK'
  <2>1. CASE Fail(i, Says({"reject"}), "lost", 0)
    BY <1>7, <1>8, <1>20, <2>1 DEF Reject
  <2>2. CASE SetTx(i, "lost") /\ UNCHANGED call
    BY <1>20, <2>2 DEF Reject, SetTx, Unchanged, RunRecord
  <2>3. QED
    BY <1>20, <2>1, <2>2 DEF Reject
<1>21. ASSUME NEW i \in Runs, Include(i) PROVE CallsTypeOK'
  <2>1. runs' \in [Runs -> RunRecord]
    BY <1>21 DEF Include, SetTx, RunRecord
  <2>2. Created(family) \in StatusNames /\ Gives(runs[i].op) \in StatusNames
    BY StatusesOfRecords, CallsAssumption DEF CallsAssumption
  <2>3. chain' \in [Ids -> StatusNames]
    BY <1>21, <2>2 DEF Include, SetTx, NextIds
  <2>4. QED
    BY <1>21, <2>1, <2>3 DEF Include
<1>22. QED
  BY <1>1, <1>2, <1>3, <1>4, <1>5, <1>6, <1>12, <1>13, <1>14, <1>15, <1>16, <1>17, <1>18,
     <1>19, <1>20, <1>21 DEF CallsNext

(* The variables keep their types. *)
THEOREM CallsTypeCorrect == CallsSpec => []CallsTypeOK
BY CallsInitType, CallsNextType, PTL DEF CallsSpec

-----------------------------------------------------------------------------
(* How one run goes on: what CallsNext does to its step, tx and outcome. *)

Begun(r, q) ==
    r.step = "none" /\ r.tx = "none" /\ r.outcome = "none"
    /\ q.step = "method" /\ q.tx = "none" /\ q.outcome = "none"

Sent(r, q) ==
    /\ q.outcome = r.outcome
    /\ \/ r.step = "method" /\ q.step = "simulate" /\ q.tx = r.tx
       \/ r.step = "simulate" /\ q.step = "send" /\ q.tx \in {"ready", r.tx}
       \/ r.step = "send" /\ q.step = "send" /\ r.tx = "ready" /\ q.tx = "prompt"

GivenUp(r, q) ==
    /\ r.step \in {"method", "simulate", "send"} /\ q.step = "done"
    /\ q.outcome \in Undecided
    /\ q.tx = r.tx \/ (r.step = "method" /\ q.tx = "none")

Declined(r, q) ==
    /\ q.step = "done" /\ q.outcome \in ErrorCode
    /\ \/ r.step = "send" /\ r.tx \in {"none", "ready"} /\ q.tx = "none"
       \/ r.step = "send" /\ r.tx = "failed" /\ q.tx = "failed"
       \/ r.step = "send" /\ r.tx = "prompt" /\ q.tx = "lost"

Confirmed(r, q) ==
    r.step = "send" /\ r.tx = "applied" /\ q.step = "done" /\ q.tx = "applied" /\ q.outcome = "ok"

Moved(r, q) ==
    /\ q.step = r.step /\ q.outcome = r.outcome
    /\ \/ r.tx = "prompt" /\ q.tx = "sent"
       \/ r.tx = "prompt" /\ q.tx = "lost" /\ r.step # "send"
       \/ r.tx = "sent" /\ q.tx \in {"lost", "applied", "failed"}

GoesOn(r, q) ==
    \/ Begun(r, q) \/ Sent(r, q) \/ GivenUp(r, q) \/ Declined(r, q)
    \/ Confirmed(r, q) \/ Moved(r, q)

OneGoesOn == \E i \in Runs, q \in RunRecord : runs' = [runs EXCEPT ![i] = q] /\ GoesOn(runs[i], q)

(* A failure ends its run, with the code of its message. *)
LEMMA FailEnds ==
    ASSUME CallsTypeOK, NEW i \in Runs, NEW message, NEW tx, NEW fault,
           runs[i] \in RunRecord,
           preserveErrorCode(message) \in ErrorCode,
           tx \in {"none", "ready", "prompt", "sent", "lost", "applied", "failed"},
           fault \in 0..9,
           Fail(i, message, tx, fault)
    PROVE  \E q \in RunRecord :
              /\ runs' = [runs EXCEPT ![i] = q]
              /\ q.step = "done" /\ q.tx = tx /\ q.outcome = preserveErrorCode(message)
<1> DEFINE code == preserveErrorCode(message)
           q == [runs[i] EXCEPT !.step = "done", !.tx = tx, !.outcome = code, !.fault = fault]
<1>1. q \in RunRecord
  BY EndedType
<1>2. q.step = "done" /\ q.tx = tx /\ q.outcome = code
  BY DEF RunRecord
<1>3. runs' = [runs EXCEPT ![i] = q]
  BY DEF Fail, CallsTypeOK
<1>4. QED
  BY <1>1, <1>2, <1>3

(* Every step leaves the runs alone or lets one of them go on. *)
LEMMA Progress == CallsTypeOK /\ [CallsNext]_callsVars => UNCHANGED runs \/ OneGoesOn
<1> SUFFICES ASSUME CallsTypeOK, [CallsNext]_callsVars PROVE UNCHANGED runs \/ OneGoesOn
  OBVIOUS
<1>0. runs \in [Runs -> RunRecord]
  BY DEF CallsTypeOK
<1>1. CASE UNCHANGED callsVars \/ Edit
           \/ (\E c \in Components : getClient(c)) \/ (\E id \in Ids : SomebodyElse(id))
  BY <1>1 DEF callsVars, Edit, getClient, SomebodyElse
<1>2. ASSUME NEW i \in Runs, NEW op \in CardOps("payment") \cup CardOps("escrow") \cup {"create"},
             NEW id \in 0..MaxIds, NEW typed \in Values \cup {NoValue}, Run(i, op, id, typed)
      PROVE  OneGoesOn
  <2> DEFINE q == [NoRun EXCEPT !.op = op, !.id = id, !.typed = typed, !.step = "method"]
  <2>1. NoRun \in RunRecord /\ NoRun.step = "none" /\ NoRun.tx = "none" /\ NoRun.outcome = "none"
    BY NoRunType DEF NoRun
  <2>2. q \in RunRecord /\ q.step = "method" /\ q.tx = "none" /\ q.outcome = "none"
    BY <2>1 DEF RunRecord
  <2>3. runs' = [runs EXCEPT ![i] = q] /\ runs[i] = NoRun
    BY <1>2 DEF Run
  <2>4. GoesOn(runs[i], q)
    BY <2>1, <2>2, <2>3 DEF GoesOn, Begun
  <2>5. QED
    BY <2>2, <2>3, <2>4 DEF OneGoesOn
<1>3. ASSUME NEW i \in Runs, SubmitPayment(i) \/ SubmitEscrow(i) PROVE OneGoesOn
  <2>1. PICK v \in Values : Run(i, "create", Form, v)
    BY <1>3 DEF SubmitPayment, SubmitEscrow, Create
  <2>2. Form \in 0..MaxIds
    BY CallsAssumption DEF CallsAssumption, Form
  <2>3. QED
    BY <1>2, <2>1, <2>2
<1>4. ASSUME NEW i \in Runs, NEW op \in CardOps(family), NEW id \in Cards, Press(i, op, id)
      PROVE  OneGoesOn
  <2>1. op \in CardOps("payment") \cup CardOps("escrow") /\ id \in 0..MaxIds
    BY CallsAssumption DEF CallsAssumption, FamilyNames, CallsTypeOK
  <2>2. Run(i, op, id, NoValue)
    BY <1>4 DEF Press
  <2>3. QED
    BY <1>2, <2>1, <2>2
<1>5. ASSUME NEW i \in Runs, NEW message, NEW tx, NEW fault \in 0..9,
             preserveErrorCode(message) \in ErrorCode,
             tx \in {"none", "ready", "prompt", "sent", "lost", "applied", "failed"},
             Fail(i, message, tx, fault),
             \A q : q.step = "done" /\ q.tx = tx /\ q.outcome = preserveErrorCode(message)
                       => GoesOn(runs[i], q)
      PROVE  OneGoesOn
  BY <1>0, <1>5, FailEnds DEF OneGoesOn
<1>6. {"NETWORK_ERROR", "TIMEOUT"} \subseteq ErrorCode \cap Undecided
      /\ {"WALLET_REJECTED", "CONTRACT_CALL_FAILED"} \subseteq ErrorCode
  BY DEF ErrorCode, Undecided
<1>7. ASSUME NEW i \in Runs, Method(i) PROVE OneGoesOn
  <2>1. CASE Fail(i, Says({"network"}), "none", 0)
    BY <1>5, <1>6, <1>7, <2>1, OwnCodes DEF Method, GoesOn, GivenUp
  <2>2. CASE runs' = [runs EXCEPT ![i].step = "simulate"]
    <3> DEFINE q == [runs[i] EXCEPT !.step = "simulate"]
    <3>1. q \in RunRecord /\ q.step = "simulate" /\ q.tx = runs[i].tx /\ q.outcome = runs[i].outcome
      BY <1>0 DEF RunRecord
    <3>2. runs' = [runs EXCEPT ![i] = q]
      BY <2>2
    <3>3. QED
      BY <1>7, <3>1, <3>2 DEF Method, OneGoesOn, GoesOn, Sent
  <2>3. QED
    BY <1>7, <2>1, <2>2 DEF Method
<1>8. ASSUME NEW i \in Runs, Simulated(i) PROVE OneGoesOn
  <2> DEFINE q == [runs[i] EXCEPT !.step = "send", !.tx = "ready"]
  <2>1. q \in RunRecord /\ q.step = "send" /\ q.tx = "ready" /\ q.outcome = runs[i].outcome
    BY <1>0 DEF RunRecord
  <2>2. runs' = [runs EXCEPT ![i] = q]
    BY <1>0, <1>8 DEF Simulated
  <2>3. QED
    BY <1>8, <2>1, <2>2 DEF Simulated, OneGoesOn, GoesOn, Sent
<1>9. ASSUME NEW i \in Runs, SimulationFails(i) PROVE OneGoesOn
  <2>1. PICK n \in 0..9 : runs' = [runs EXCEPT ![i].step = "send", ![i].fault = n]
    BY <1>9, FaultsAre DEF SimulationFails
  <2> DEFINE q == [runs[i] EXCEPT !.step = "send", !.fault = n]
  <2>2. q \in RunRecord /\ q.step = "send" /\ q.tx = runs[i].tx /\ q.outcome = runs[i].outcome
    BY <1>0 DEF RunRecord
  <2>3. runs' = [runs EXCEPT ![i] = q]
    BY <1>0, <2>1
  <2>4. QED
    BY <1>9, <2>2, <2>3 DEF SimulationFails, OneGoesOn, GoesOn, Sent
<1>19. ASSUME NEW i \in Runs, Refused(i) PROVE OneGoesOn
  <2>1. PICK text \in HostTexts : Fail(i, text, "none", runs[i].fault)
    BY <1>19 DEF Refused
  <2>2. runs[i].fault \in 0..9
    BY <1>0 DEF RunRecord
  <2>3. preserveErrorCode(text) \in ErrorCode
    BY CodeOfRefusal
  <2>4. ASSUME NEW q, q.step = "done", q.tx = "none", q.outcome = preserveErrorCode(text)
        PROVE  GoesOn(runs[i], q)
    BY <1>19, <2>3, <2>4 DEF Refused, GoesOn, Declined
  <2>5. QED
    BY <1>5, <2>1, <2>2, <2>3, <2>4
<1>10. ASSUME NEW i \in Runs, Prompt(i) PROVE OneGoesOn
  <2> DEFINE q == [runs[i] EXCEPT !.tx = "prompt"]
  <2>1. q \in RunRecord /\ q.step = runs[i].step /\ q.tx = "prompt" /\ q.outcome = runs[i].outcome
    BY <1>0 DEF RunRecord
  <2>2. runs' = [runs EXCEPT ![i] = q]
    BY <1>10 DEF Prompt
  <2>3. QED
    BY <1>10, <2>1, <2>2 DEF Prompt, OneGoesOn, GoesOn, Sent
<1>11. runs \in [Runs -> RunRecord]
       /\ \A i \in Runs :
             runs[i].tx \in {"none", "ready", "prompt", "sent", "lost", "applied", "failed"}
  BY <1>0 DEF RunRecord
<1>12. ASSUME NEW i \in Runs, Timeout(i) PROVE OneGoesOn
  <2>1. Fail(i, Says({"timeout"}), runs[i].tx, 0) /\ runs[i].step \in {"simulate", "send"}
    BY <1>12 DEF Timeout
  <2>2. ASSUME NEW q, q.step = "done", q.tx = runs[i].tx, q.outcome = "TIMEOUT"
        PROVE  GoesOn(runs[i], q)
    BY <1>6, <2>1, <2>2 DEF GoesOn, GivenUp
  <2>3. preserveErrorCode(Says({"timeout"})) = "TIMEOUT" /\ "TIMEOUT" \in ErrorCode /\ 0 \in 0..9
    BY <1>6, OwnCodes
  <2>4. runs[i].tx \in {"none", "ready", "prompt", "sent", "lost", "applied", "failed"}
    BY <1>11
  <2>5. \A q : q.step = "done" /\ q.tx = runs[i].tx
                  /\ q.outcome = preserveErrorCode(Says({"timeout"})) => GoesOn(runs[i], q)
    BY <2>2, <2>3
  <2> HIDE DEF CallsTypeOK
  <2>6. QED
    BY <1>5, <2>1, <2>3, <2>4, <2>5
<1>13. ASSUME NEW i \in Runs, NetworkDown(i) PROVE OneGoesOn
  <2>1. Fail(i, Says({"network"}), runs[i].tx, 0) /\ runs[i].step \in {"simulate", "send"}
    BY <1>13 DEF NetworkDown
  <2>2. ASSUME NEW q, q.step = "done", q.tx = runs[i].tx, q.outcome = "NETWORK_ERROR"
        PROVE  GoesOn(runs[i], q)
    BY <1>6, <2>1, <2>2 DEF GoesOn, GivenUp
  <2>3. preserveErrorCode(Says({"network"})) = "NETWORK_ERROR" /\ "NETWORK_ERROR" \in ErrorCode /\ 0 \in 0..9
    BY <1>6, OwnCodes
  <2>4. runs[i].tx \in {"none", "ready", "prompt", "sent", "lost", "applied", "failed"}
    BY <1>11
  <2>5. \A q : q.step = "done" /\ q.tx = runs[i].tx
                  /\ q.outcome = preserveErrorCode(Says({"network"})) => GoesOn(runs[i], q)
    BY <2>2, <2>3
  <2> HIDE DEF CallsTypeOK
  <2>6. QED
    BY <1>5, <2>1, <2>3, <2>4, <2>5
<1>14. ASSUME NEW i \in Runs, Settle(i) PROVE OneGoesOn
  <2>1. CASE runs[i].tx = "failed" /\ Fail(i, Says({}), "failed", 0)
    BY <1>5, <1>6, <1>14, <2>1, OwnCodes DEF Settle, GoesOn, Declined
  <2>2. CASE runs[i].tx = "applied" /\ Succeed(i)
    <3> DEFINE q == [runs[i] EXCEPT !.step = "done", !.outcome = "ok"]
    <3>1. q \in RunRecord /\ q.step = "done" /\ q.tx = "applied" /\ q.outcome = "ok"
      BY <1>0, <2>2 DEF RunRecord
    <3>2. runs' = [runs EXCEPT ![i] = q]
      BY <1>0, <2>2 DEF Succeed
    <3>3. QED
      BY <1>14, <2>2, <3>1, <3>2 DEF Settle, OneGoesOn, GoesOn, Confirmed
  <2>3. QED
    BY <1>14, <2>1, <2>2 DEF Settle
<1>15. ASSUME NEW i \in Runs, NEW tx \in {"sent", "lost", "applied", "failed"}, SetTx(i, tx),
              \A q : q.step = runs[i].step /\ q.outcome = runs[i].outcome /\ q.tx = tx
                        => Moved(runs[i], q)
       PROVE  OneGoesOn
  <2> DEFINE q == [runs[i] EXCEPT !.tx = tx]
  <2>1. q \in RunRecord /\ q.step = runs[i].step /\ q.tx = tx /\ q.outcome = runs[i].outcome
    BY <1>0 DEF RunRecord
  <2>2. runs' = [runs EXCEPT ![i] = q]
    BY <1>15 DEF SetTx
  <2>3. QED
    BY <1>15, <2>1, <2>2 DEF OneGoesOn, GoesOn
<1>16. ASSUME NEW i \in Runs, Approve(i) \/ Lose(i) \/ Include(i) PROVE OneGoesOn
  <2>1. PICK tx \in {"sent", "lost", "applied", "failed"} :
           /\ SetTx(i, tx)
           /\ \/ runs[i].tx = "prompt" /\ tx = "sent"
              \/ runs[i].tx = "sent" /\ tx \in {"lost", "applied", "failed"}
    BY <1>16 DEF Approve, Lose, Include, SetTx
  <2>2. QED
    BY <1>15, <2>1 DEF Moved
<1>17. ASSUME NEW i \in Runs, Reject(i) PROVE OneGoesOn
  <2>1. CASE runs[i].step = "send" /\ Fail(i, Says({"reject"}), "lost", 0)
    BY <1>5, <1>6, <1>17, <2>1, OwnCodes DEF Reject, GoesOn, Declined
  <2>2. CASE runs[i].step # "send" /\ SetTx(i, "lost")
    BY <1>15, <1>17, <2>2 DEF Reject, Moved
  <2>3. QED
    BY <1>17, <2>1, <2>2 DEF Reject
<1>18. QED
  BY <1>1, <1>3, <1>4, <1>7, <1>8, <1>9, <1>10, <1>12, <1>13, <1>14, <1>16, <1>17, <1>19 DEF CallsNext

-----------------------------------------------------------------------------
(* What is told is true. *)

\* The strengthening of OutcomeIsTrue: where a run stands when it is told of
\* nothing yet, and when its transaction is not out yet.
TrueRun(r) ==
    /\ r.step \in {"none", "method", "simulate"} => r.tx = "none" /\ r.outcome = "none"
    /\ r.step = "send" => r.outcome = "none"
    /\ r.step = "done" => r.outcome # "none"
    /\ r.outcome = "ok" => r.tx = "applied"
    /\ r.outcome \notin Undecided \cup {"none", "ok"} => r.tx \in {"none", "lost", "failed"}

TrueRuns == \A i \in Runs : TrueRun(runs[i])

LEMMA CodesAreNot == "none" \notin ErrorCode /\ "ok" \notin ErrorCode
BY DEF ErrorCode

LEMMA StaysTrue ==
    ASSUME NEW r \in RunRecord, NEW q \in RunRecord, TrueRun(r), GoesOn(r, q)
    PROVE  TrueRun(q)
<1> USE DEF TrueRun, Undecided
<1>1. CASE Begun(r, q) \/ Sent(r, q)
  BY <1>1 DEF Begun, Sent
<1>2. CASE GivenUp(r, q) \/ Declined(r, q)
  BY <1>2, CodesAreNot DEF GivenUp, Declined
<1>3. CASE Confirmed(r, q) \/ Moved(r, q)
  BY <1>3, CodesAreNot DEF Confirmed, Moved
<1>4. QED
  BY <1>1, <1>2, <1>3 DEF GoesOn

LEMMA TrueRunsInductive ==
    /\ CallsInit => TrueRuns
    /\ TrueRuns /\ CallsTypeOK /\ [CallsNext]_callsVars => TrueRuns'
    /\ TrueRuns => OutcomeIsTrue
<1>1. CallsInit => TrueRuns
  BY DEF CallsInit, TrueRuns, TrueRun, NoRun, Undecided
<1>2. TrueRuns /\ CallsTypeOK /\ [CallsNext]_callsVars => TrueRuns'
  <2> SUFFICES ASSUME TrueRuns, CallsTypeOK, UNCHANGED runs \/ OneGoesOn, NEW j \in Runs
               PROVE  TrueRun(runs'[j])
    BY Progress DEF TrueRuns
  <2>1. CASE UNCHANGED runs
    BY <2>1 DEF TrueRuns
  <2>2. CASE OneGoesOn
    <3>1. PICK i \in Runs, q \in RunRecord :
             runs' = [runs EXCEPT ![i] = q] /\ GoesOn(runs[i], q)
      BY <2>2 DEF OneGoesOn
    <3>2. runs \in [Runs -> RunRecord]
      BY DEF CallsTypeOK
    <3>3. TrueRun(q)
      BY <3>1, <3>2, StaysTrue DEF TrueRuns
    <3>4. QED
      BY <3>1, <3>2, <3>3 DEF TrueRuns
  <2>3. QED
    BY <2>1, <2>2
<1>3. TrueRuns => OutcomeIsTrue
  BY DEF TrueRuns, TrueRun, OutcomeIsTrue, Moving
<1>4. QED
  BY <1>1, <1>2, <1>3

(* What the user is told of a call is true, and stays true, whatever comes of *)
(* its transaction later (write, preserveErrorCode).                          *)
THEOREM ToldIsTrue == CallsSpec => []OutcomeIsTrue
<1>1. CallsSpec => []CallsTypeOK
  BY CallsTypeCorrect
<1>2. CallsInit => TrueRuns
  BY TrueRunsInductive
<1>3. TrueRuns /\ CallsTypeOK /\ [CallsNext]_callsVars => TrueRuns'
  BY TrueRunsInductive
<1>4. TrueRuns => OutcomeIsTrue
  BY TrueRunsInductive
<1>5. QED
  BY <1>1, <1>2, <1>3, <1>4, PTL DEF CallsSpec

-----------------------------------------------------------------------------
(* The SDK implements the service. *)

told == [i \in Runs |-> ToldOf(runs[i])]
effect == [i \in Runs |-> EffectOf(runs[i])]

\* What the service lets a request do: t and e are told and effect before, u and
\* f after the step.
Serves(t, e, u, f) ==
    \/ t = u /\ e = f
    \/ t = "none" /\ u = "waiting" /\ e = f
    \/ t \in {"waiting", "unknown"} /\ u = t /\ e = "open" /\ f \in {"applied", "never"}
    \/ t = "waiting" /\ e = "applied" /\ u = "ok" /\ e = f
    \/ t = "waiting" /\ e # "applied" /\ u = "error" /\ f = "never"
    \/ t = "waiting" /\ u = "unknown" /\ (e = f \/ (e = "open" /\ f = "never"))

LEMMA RunServes ==
    ASSUME NEW r \in RunRecord, NEW q \in RunRecord, TrueRun(r), GoesOn(r, q)
    PROVE  Serves(ToldOf(r), EffectOf(r), ToldOf(q), EffectOf(q))
<1> USE DEF TrueRun, Undecided, ToldOf, EffectOf, Serves
<1>1. CASE Begun(r, q)
  BY <1>1 DEF Begun
<1>2. CASE Sent(r, q)
  BY <1>2 DEF Sent
<1>3. CASE GivenUp(r, q)
  BY <1>3 DEF GivenUp
<1>4. CASE Declined(r, q)
  BY <1>4, CodesAreNot DEF Declined
<1>5. CASE Confirmed(r, q)
  BY <1>5 DEF Confirmed
<1>6. CASE Moved(r, q)
  BY <1>6 DEF Moved
<1>7. QED
  BY <1>1, <1>2, <1>3, <1>4, <1>5, <1>6 DEF GoesOn

LEMMA ServiceStep ==
    TrueRuns /\ CallsTypeOK /\ [CallsNext]_callsVars => [Served!ServiceNext]_(Served!serviceVars)
<1> SUFFICES ASSUME TrueRuns, CallsTypeOK, UNCHANGED runs \/ OneGoesOn
             PROVE  [Served!ServiceNext]_(Served!serviceVars)
  BY Progress
<1>1. CASE UNCHANGED runs
  BY <1>1 DEF Served!serviceVars
<1>2. CASE OneGoesOn
  <2>1. PICK i \in Runs, q \in RunRecord :
           runs' = [runs EXCEPT ![i] = q] /\ GoesOn(runs[i], q)
    BY <1>2 DEF OneGoesOn
  <2>2. runs \in [Runs -> RunRecord]
    BY DEF CallsTypeOK
  <2> DEFINE r == runs[i]
  <2>3. Serves(ToldOf(r), EffectOf(r), ToldOf(q), EffectOf(q))
    BY <2>1, <2>2, RunServes DEF TrueRuns
  <2>4. /\ told' = [told EXCEPT ![i] = ToldOf(q)]
        /\ effect' = [effect EXCEPT ![i] = EffectOf(q)]
    <3>1. \A j \in Runs : runs'[j] = IF j = i THEN q ELSE runs[j]
      BY <2>1, <2>2
    <3>2. QED
      BY <3>1 DEF told, effect
  <2>5. told[i] = ToldOf(r) /\ effect[i] = EffectOf(r)
    BY DEF told, effect
  <2>6. ToldOf(q) = ToldOf(r) => told' = told
    BY <2>4, <2>5 DEF told
  <2>7. EffectOf(q) = EffectOf(r) => effect' = effect
    BY <2>4, <2>5 DEF effect
  <2> HIDE DEF r
  <2>8. \/ told' = told /\ effect' = effect
        \/ Served!Begin(i) \/ Served!Confirm(i) \/ Served!Refuse(i) \/ Served!GiveUp(i)
        \/ \E e \in {"applied", "never"} : Served!Decide(i, e)
    BY <2>3, <2>4, <2>5, <2>6, <2>7
       DEF Serves, told, effect, Served!Begin, Served!Confirm, Served!Refuse, Served!GiveUp, Served!Decide
  <2>9. QED
    BY <2>8 DEF Served!ServiceNext, Served!serviceVars, told, effect
<1>3. QED
  BY <1>1, <1>2

LEMMA ServiceStart == CallsInit => Served!ServiceInit
<1> SUFFICES ASSUME CallsInit PROVE Served!ServiceInit
  OBVIOUS
<1>1. \A i \in Runs : runs[i] = NoRun
  BY DEF CallsInit
<1>2. ToldOf(NoRun) = "none" /\ EffectOf(NoRun) = "open"
  <2>1. NoRun.step = "none" /\ NoRun.tx = "none" /\ NoRun.outcome = "none"
    BY DEF NoRun
  <2>2. QED
    BY <2>1 DEF ToldOf, EffectOf, Undecided
<1>3. QED
  BY <1>1, <1>2 DEF Served!ServiceInit

(* The SDK keeps what its callers rely on: every call takes effect at most  *)
(* once, and is told of once and truly.                                     *)
THEOREM SDKServes == CallsSpec => ImplementsService
<1>1. CallsSpec => []CallsTypeOK
  BY CallsTypeCorrect
<1>2. CallsInit => TrueRuns
  BY TrueRunsInductive
<1>3. TrueRuns /\ CallsTypeOK /\ [CallsNext]_callsVars => TrueRuns'
  BY TrueRunsInductive
<1>4. QED
  BY <1>1, <1>2, <1>3, ServiceStart, ServiceStep, PTL
     DEF CallsSpec, ImplementsService, Served!ServiceSpec

-----------------------------------------------------------------------------
(* The screen. *)

(* What is sent is what was typed, digit by digit, if no more decimals are *)
(* typed than there are.                                                   *)
LEMMA AmountIsWorth ==
    ASSUME NEW v, v.whole \in Nat, v.fraction \in Seq(Nat), Len(v.fraction) <= Decimals
    PROVE  amountToStroops(v) = Worth(v)
<1> DEFINE n == Decimals
           m == Len(v.fraction)
           d == [k \in 1..n |-> IF k \in DOMAIN v.fraction THEN v.fraction[k] ELSE 0]
           g == [k \in DOMAIN v.fraction |-> v.fraction[k] * TenTo(n - k)]
           read == CHOOSE f : f = [k \in 0..n |-> IF k = 0 THEN v.whole ELSE 10 * f[k - 1] + d[k]]
<1>1. n \in Nat /\ m \in 0..n /\ DOMAIN v.fraction = 1..m /\ \A k \in 1..m : v.fraction[k] \in Nat
  BY CallsAssumption DEF CallsAssumption
<1>2. d \in [1..n -> Nat] /\ (\A k \in 1..m : d[k] = v.fraction[k]) /\ \A k \in (m + 1)..n : d[k] = 0
  BY <1>1
<1>3. \A k \in 1..m : g[k] = d[k] * TenTo(n - k)
  BY <1>1, <1>2
<1>4. amountToStroops(v) = read[n]
  BY DEF amountToStroops
<1>5. Worth(v) = v.whole * TenTo(n) + SumTo(g, m)
  BY DEF Worth
<1>6. IsReading(read, v.whole, d, n)
  <2> HIDE DEF d, n
  <2>1. \E f : IsReading(f, v.whole, d, n)
    BY <1>1, <1>2, ReadingExists
  <2>2. QED
    BY <2>1, Zenon DEF IsReading
<1> HIDE DEF n, m, d, g, read
<1>7. read[n] = v.whole * TenTo(n) + SumTo(g, m)
  <2> DEFINE w == v.whole
  <2>1. w \in Nat
    OBVIOUS
  <2>2. IsReading(read, w, d, n)
    BY <1>6
  <2>3. n \in Nat /\ m \in 0..n
    BY <1>1
  <2> HIDE DEF w
  <2>4. read[n] = w * TenTo(n) + SumTo(g, m)
    BY ONLY <1>2, <1>3, <2>1, <2>2, <2>3, ReadingIsWorth
  <2>5. QED
    BY ONLY <2>4 DEF w
<1>8. QED
  BY <1>4, <1>5, <1>7

Fits(v) == Len(v.fraction) <= Decimals

LEMMA FittingIsWorth ==
    ASSUME NEW v \in Values \cup {NoValue}, Fits(v)
    PROVE  amountToStroops(v) = Worth(v)
<1>1. CASE v = NoValue
  <2>1. v.whole \in Nat /\ v.fraction \in Seq(Nat)
    BY <1>1 DEF NoValue
  <2>2. QED
    BY <2>1, AmountIsWorth DEF Fits
<1>2. CASE v \in Values
  <2>1. v.whole \in Nat /\ v.fraction \in UNION {[1..n -> Digits] : n \in 0..(Decimals + 1)}
    BY <1>2, CallsAssumption DEF CallsAssumption, Values
  <2>2. PICK n \in 0..(Decimals + 1) : v.fraction \in [1..n -> Digits]
    BY <2>1
  <2>3. n \in Nat /\ Digits \subseteq Nat
    BY CallsAssumption DEF CallsAssumption
  <2>4. v.fraction \in [1..n -> Nat]
    BY <2>2, <2>3
  <2>5. v.fraction \in Seq(Nat)
    BY <2>3, <2>4
  <2>6. QED
    BY <2>1, <2>5, AmountIsWorth DEF Fits
<1>3. QED
  BY <1>1, <1>2

FitsOK == \A i \in Runs : Fits(runs[i].typed)

\* A run r is one that its button may show as s.
Shows(s, r) ==
    CASE s = "confirmed" -> r.outcome = "ok"
      [] s = "failed" -> r.outcome \in ErrorCode
      [] OTHER -> r.step # "done"

CallsOf(h) == {i \in Runs : runs[i] # NoRun /\ Hook(runs[i]) = h}

ShownOK ==
    \A h \in Hooks(family) :
        IF call[h] = "idle" THEN CallsOf(h) = {} ELSE \E i \in CallsOf(h) : Shows(call[h], runs[i])

\* A step of a run: it begins or goes on, and its button shows it, or it is
\* its transaction alone that goes on.
ShownStep(i, q) ==
    /\ runs' = [runs EXCEPT ![i] = q] /\ q # NoRun
    /\ runs[i] = NoRun \/ Hook(runs[i]) = Hook(q)
    /\ q.typed = runs[i].typed \/ Fits(q.typed)
    /\ \/ \E s \in Statuses \ {"idle"} : call' = [call EXCEPT ![Hook(q)] = s] /\ Shows(s, q)
       \/ call' = call /\ runs[i] # NoRun /\ q.step = runs[i].step /\ q.outcome = runs[i].outcome

OneShows == \E i \in Runs, q \in RunRecord : ShownStep(i, q)

LEMMA PhaseShows ==
    ASSUME CallsTypeOK, NEW i \in Runs, NEW q \in RunRecord, runs' = [runs EXCEPT ![i] = q],
           q.op = runs[i].op, q.id = runs[i].id, q.typed = runs[i].typed, q.step # "none",
           NEW s \in Statuses \ {"idle"}, Phase(i, s), Shows(s, q)
    PROVE  OneShows
<1>1. q # NoRun
  BY DEF NoRun
<1>2. Hook(q) = Hook(runs[i])
  BY DEF Hook
<1>3. call' = [call EXCEPT ![Hook(q)] = s]
  BY <1>2 DEF Phase
<1>4. ShownStep(i, q)
  BY <1>1, <1>2, <1>3 DEF ShownStep
<1>5. QED
  BY <1>4 DEF OneShows

LEMMA FailShows ==
    ASSUME CallsTypeOK, NEW i \in Runs, NEW message, NEW tx, NEW fault,
           preserveErrorCode(message) \in ErrorCode,
           tx \in {"none", "ready", "prompt", "sent", "lost", "applied", "failed"},
           fault \in 0..9,
           Fail(i, message, tx, fault)
    PROVE  OneShows
<1> DEFINE code == preserveErrorCode(message)
           q == [runs[i] EXCEPT !.step = "done", !.tx = tx, !.outcome = code, !.fault = fault]
<1>1. runs[i] \in RunRecord
  BY DEF CallsTypeOK
<1>2. q \in RunRecord
  BY <1>1, EndedType
<1>3. q.op = runs[i].op /\ q.id = runs[i].id /\ q.typed = runs[i].typed /\ q.step = "done"
      /\ q.outcome = code
  BY <1>1 DEF RunRecord
<1>4. runs' = [runs EXCEPT ![i] = q] /\ Phase(i, "failed")
  BY DEF Fail, CallsTypeOK
<1> HIDE DEF q
<1>5. Shows("failed", q) /\ "failed" \in Statuses \ {"idle"}
  BY <1>3 DEF Shows, Statuses
<1>6. QED
  BY <1>2, <1>3, <1>4, <1>5, PhaseShows

LEMMA BegunShows ==
    ASSUME NEW i \in Runs, NEW op \in CardOps("payment") \cup CardOps("escrow") \cup {"create"},
           NEW id \in 0..MaxIds, NEW typed \in Values \cup {NoValue}, Fits(typed), Run(i, op, id, typed)
    PROVE  OneShows
<1> DEFINE q == [NoRun EXCEPT !.op = op, !.id = id, !.typed = typed, !.step = "method"]
<1>1. NoRun \in RunRecord /\ NoRun.step = "none"
  BY NoRunType DEF NoRun
<1>2. q \in RunRecord /\ q.step = "method" /\ q.op = op /\ q.id = id /\ q.typed = typed
  BY <1>1 DEF RunRecord
<1>3. runs' = [runs EXCEPT ![i] = q] /\ runs[i] = NoRun /\ call' = [call EXCEPT ![<<op, id>>] = "connecting"]
  BY DEF Run
<1> HIDE DEF q
<1>4. q # NoRun /\ Hook(q) = <<op, id>>
  BY <1>1, <1>2 DEF Hook
<1>5. Shows("connecting", q) /\ "connecting" \in Statuses \ {"idle"}
  BY <1>2 DEF Shows, Statuses
<1>6. ShownStep(i, q)
  BY <1>2, <1>3, <1>4, <1>5 DEF ShownStep
<1>7. QED
  BY <1>2, <1>6 DEF OneShows

LEMMA TxShows ==
    ASSUME CallsTypeOK, NEW i \in Runs, NEW tx \in {"sent", "lost", "applied", "failed"},
           runs[i].tx # "none", SetTx(i, tx), UNCHANGED call
    PROVE  OneShows
<1> DEFINE q == [runs[i] EXCEPT !.tx = tx]
<1>1. runs[i] \in RunRecord /\ runs[i] # NoRun
  BY DEF CallsTypeOK, NoRun
<1>2. q \in RunRecord /\ q.tx # "none" /\ q.op = runs[i].op /\ q.id = runs[i].id
      /\ q.typed = runs[i].typed /\ q.step = runs[i].step /\ q.outcome = runs[i].outcome
  BY <1>1 DEF RunRecord
<1>3. runs' = [runs EXCEPT ![i] = q]
  BY DEF SetTx
<1> HIDE DEF q
<1>4. q # NoRun /\ Hook(q) = Hook(runs[i])
  BY <1>2 DEF NoRun, Hook
<1>5. ShownStep(i, q)
  BY <1>1, <1>2, <1>3, <1>4 DEF ShownStep
<1>6. QED
  BY <1>2, <1>5 DEF OneShows

LEMMA ScreenStep ==
    CallsTypeOK /\ [CallsNext]_callsVars
        => family' = family /\ (UNCHANGED <<runs, call>> \/ OneShows)
<1> SUFFICES ASSUME CallsTypeOK, [CallsNext]_callsVars
             PROVE  family' = family /\ (UNCHANGED <<runs, call>> \/ OneShows)
  OBVIOUS
<1>0. runs \in [Runs -> RunRecord]
  BY DEF CallsTypeOK
<1>1. CASE UNCHANGED callsVars \/ Edit
           \/ (\E c \in Components : getClient(c)) \/ (\E id \in Ids : SomebodyElse(id))
  BY <1>1 DEF callsVars, Edit, getClient, SomebodyElse
<1>2. ASSUME NEW i \in Runs, SubmitPayment(i) \/ SubmitEscrow(i) PROVE family' = family /\ OneShows
  <2>1. PICK v \in Values : createPaymentSchema(v) /\ Run(i, "create", Form, v)
    BY <1>2 DEF SubmitPayment, SubmitEscrow, Create
  <2>2. Form \in 0..MaxIds /\ Fits(v)
    BY <2>1, CallsAssumption DEF CallsAssumption, Form, createPaymentSchema, Fits
  <2>3. QED
    BY <1>2, <2>1, <2>2, BegunShows DEF SubmitPayment, SubmitEscrow
<1>3. ASSUME NEW i \in Runs, NEW op \in CardOps(family), NEW id \in Cards, Press(i, op, id)
      PROVE  family' = family /\ OneShows
  <2>1. op \in CardOps("payment") \cup CardOps("escrow") /\ id \in 0..MaxIds
    BY CallsAssumption DEF CallsAssumption, FamilyNames, CallsTypeOK
  <2>2. Run(i, op, id, NoValue)
    BY <1>3 DEF Press
  <2>3. Fits(NoValue)
    BY CallsAssumption DEF CallsAssumption, Fits, NoValue
  <2>4. QED
    BY <1>3, <2>1, <2>2, <2>3, BegunShows DEF Press
<1>4. ASSUME NEW i \in Runs,
             Method(i) \/ Simulated(i) \/ SimulationFails(i) \/ Refused(i) \/ Prompt(i) \/ Timeout(i) \/ NetworkDown(i)
             \/ Settle(i) \/ Approve(i) \/ Reject(i) \/ Lose(i) \/ Include(i)
      PROVE  family' = family
  BY <1>4 DEF Method, Simulated, SimulationFails, Refused, Prompt, Timeout, NetworkDown, Settle,
              Approve, Reject, Lose, Include, Unchanged
<1>5. {"NETWORK_ERROR", "TIMEOUT", "WALLET_REJECTED", "CONTRACT_CALL_FAILED"} \subseteq ErrorCode
  BY DEF ErrorCode
<1>6. \A i \in Runs :
         runs[i].tx \in {"none", "ready", "prompt", "sent", "lost", "applied", "failed"}
  BY <1>0 DEF RunRecord
<1>7. ASSUME NEW i \in Runs, NEW step \in {"simulate", "send"},
             NEW tx \in {"none", "ready", "prompt", "sent", "lost", "applied", "failed"},
             runs' = [runs EXCEPT ![i] = [runs[i] EXCEPT !.step = step, !.tx = tx]],
             NEW s \in {"submitting", "waiting_approval", "pending"}, Phase(i, s)
      PROVE  OneShows
  <2> DEFINE q == [runs[i] EXCEPT !.step = step, !.tx = tx]
  <2>1. q \in RunRecord /\ q.op = runs[i].op /\ q.id = runs[i].id /\ q.typed = runs[i].typed
        /\ q.step = step
    BY <1>0 DEF RunRecord
  <2>2. runs' = [runs EXCEPT ![i] = q]
    BY <1>7
  <2> HIDE DEF q
  <2>3. Shows(s, q) /\ s \in Statuses \ {"idle"} /\ q.step # "none"
    BY <2>1 DEF Shows, Statuses
  <2>4. QED
    BY <1>7, <2>1, <2>2, <2>3, PhaseShows
<1>8. ASSUME NEW i \in Runs, Method(i) PROVE OneShows
  <2>1. CASE Fail(i, Says({"network"}), "none", 0)
    BY <1>5, <2>1, OwnCodes, FailShows
  <2>2. CASE runs' = [runs EXCEPT ![i].step = "simulate"] /\ Phase(i, "submitting")
    <3>1. [runs[i] EXCEPT !.step = "simulate"] = [runs[i] EXCEPT !.step = "simulate", !.tx = runs[i].tx]
      BY <1>0 DEF RunRecord
    <3>2. runs' = [runs EXCEPT ![i] = [runs[i] EXCEPT !.step = "simulate", !.tx = runs[i].tx]]
      BY <2>2, <3>1
    <3>3. QED
      BY <1>6, <1>7, <2>2, <3>2
  <2>3. QED
    BY <1>8, <2>1, <2>2 DEF Method
<1>9. ASSUME NEW i \in Runs, Simulated(i) PROVE OneShows
  <2>1. runs' = [runs EXCEPT ![i] = [runs[i] EXCEPT !.step = "send", !.tx = "ready"]]
    BY <1>0, <1>9 DEF Simulated
  <2>2. Phase(i, "waiting_approval")
    BY <1>9 DEF Simulated
  <2>3. QED
    BY <1>7, <2>1, <2>2
<1>10. ASSUME NEW i \in Runs, SimulationFails(i) \/ Refused(i) PROVE OneShows
  <2>1. CASE Refused(i)
    <3>1. PICK text \in HostTexts : Fail(i, text, "none", runs[i].fault)
      BY <2>1 DEF Refused
    <3>2. runs[i].fault \in 0..9
      BY <1>0 DEF RunRecord
    <3>3. QED
      BY <3>1, <3>2, CodeOfRefusal, FailShows
  <2>2. CASE SimulationFails(i)
    <3>1. PICK n \in 0..9 : runs' = [runs EXCEPT ![i].step = "send", ![i].fault = n]
      BY <2>2, FaultsAre DEF SimulationFails
    <3> DEFINE q == [runs[i] EXCEPT !.step = "send", !.fault = n]
    <3>2. q \in RunRecord /\ q.op = runs[i].op /\ q.id = runs[i].id /\ q.typed = runs[i].typed
          /\ q.step = "send"
      BY <1>0 DEF RunRecord
    <3>3. runs' = [runs EXCEPT ![i] = q] /\ Phase(i, "waiting_approval")
      BY <1>0, <2>2, <3>1 DEF SimulationFails
    <3> HIDE DEF q
    <3>4. Shows("waiting_approval", q) /\ "waiting_approval" \in Statuses \ {"idle"} /\ q.step # "none"
      BY <3>2 DEF Shows, Statuses
    <3>5. QED
      BY <3>2, <3>3, <3>4, PhaseShows
  <2>3. QED
    BY <1>10, <2>1, <2>2
<1>11. ASSUME NEW i \in Runs, Prompt(i) PROVE OneShows
  <2>1. runs[i].step = "send" /\ runs' = [runs EXCEPT ![i].tx = "prompt"] /\ Phase(i, "pending")
    BY <1>11 DEF Prompt
  <2>2. [runs[i] EXCEPT !.tx = "prompt"] = [runs[i] EXCEPT !.step = "send", !.tx = "prompt"]
    BY <1>0, <2>1 DEF RunRecord
  <2>3. runs' = [runs EXCEPT ![i] = [runs[i] EXCEPT !.step = "send", !.tx = "prompt"]]
    BY <2>1, <2>2
  <2>4. QED
    BY <1>7, <2>1, <2>3
<1>12. ASSUME NEW i \in Runs, Timeout(i) \/ NetworkDown(i) PROVE OneShows
  <2>1. \/ Fail(i, Says({"timeout"}), runs[i].tx, 0)
        \/ Fail(i, Says({"network"}), runs[i].tx, 0)
    BY <1>12 DEF Timeout, NetworkDown
  <2>2. preserveErrorCode(Says({"timeout"})) \in ErrorCode /\ preserveErrorCode(Says({"network"})) \in ErrorCode
    BY <1>5, OwnCodes
  <2>3. QED
    BY <1>6, <2>1, <2>2, FailShows
<1>13. ASSUME NEW i \in Runs, Settle(i) PROVE OneShows
  <2>1. CASE Fail(i, Says({}), "failed", 0)
    BY <1>5, <2>1, OwnCodes, FailShows
  <2>2. CASE Succeed(i)
    <3> DEFINE q == [runs[i] EXCEPT !.step = "done", !.outcome = "ok"]
    <3>1. q \in RunRecord /\ q.op = runs[i].op /\ q.id = runs[i].id /\ q.typed = runs[i].typed
          /\ q.step = "done" /\ q.outcome = "ok"
      BY <1>0 DEF RunRecord
    <3>2. runs' = [runs EXCEPT ![i] = q] /\ Phase(i, "confirmed")
      BY <1>0, <2>2 DEF Succeed
    <3> HIDE DEF q
    <3>3. Shows("confirmed", q) /\ "confirmed" \in Statuses \ {"idle"} /\ q.step # "none"
      BY <3>1 DEF Shows, Statuses
    <3>4. QED
      BY <3>1, <3>2, <3>3, PhaseShows
  <2>3. QED
    BY <1>13, <2>1, <2>2 DEF Settle
<1>14. ASSUME NEW i \in Runs, Approve(i) \/ Lose(i) \/ Include(i) PROVE OneShows
  <2>1. PICK tx \in {"sent", "lost", "applied", "failed"} :
           SetTx(i, tx) /\ runs[i].tx # "none" /\ UNCHANGED call
    BY <1>14 DEF Approve, Lose, Include, SetTx
  <2>2. QED
    BY <2>1, TxShows
<1>15. ASSUME NEW i \in Runs, Reject(i) PROVE OneShows
  <2>1. CASE Fail(i, Says({"reject"}), "lost", 0)
    BY <1>5, <2>1, OwnCodes, FailShows
  <2>2. CASE SetTx(i, "lost") /\ UNCHANGED call
    <3>1. runs[i].tx # "none"
      BY <1>15 DEF Reject
    <3>2. QED
      BY <2>2, <3>1, TxShows
  <2>3. QED
    BY <1>15, <2>1, <2>2 DEF Reject
<1>16. QED
  BY <1>1, <1>2, <1>3, <1>4, <1>8, <1>9, <1>10, <1>11, <1>12, <1>13, <1>14, <1>15 DEF CallsNext

LEMMA ShownInit == CallsInit => FitsOK /\ ShownOK
<1> SUFFICES ASSUME CallsInit PROVE FitsOK /\ ShownOK
  OBVIOUS
<1>1. \A i \in Runs : runs[i] = NoRun
  BY DEF CallsInit
<1>2. Fits(NoRun.typed)
  BY CallsAssumption DEF CallsAssumption, NoRun, NoValue, Fits
<1>3. \A h \in Hooks(family) : call[h] = "idle" /\ CallsOf(h) = {}
  BY <1>1 DEF CallsInit, CallsOf
<1>4. QED
  BY <1>1, <1>2, <1>3 DEF FitsOK, ShownOK

LEMMA ShownNext ==
    CallsTypeOK /\ FitsOK /\ ShownOK /\ [CallsNext]_callsVars => FitsOK' /\ ShownOK'
<1> SUFFICES ASSUME CallsTypeOK, FitsOK, ShownOK, [CallsNext]_callsVars PROVE FitsOK' /\ ShownOK'
  OBVIOUS
<1>1. family' = family /\ (UNCHANGED <<runs, call>> \/ OneShows)
  BY ScreenStep
<1>2. CASE UNCHANGED <<runs, call>>
  BY <1>1, <1>2 DEF FitsOK, ShownOK, CallsOf
<1>3. ASSUME NEW i \in Runs, NEW q \in RunRecord, ShownStep(i, q) PROVE FitsOK' /\ ShownOK'
  <2>1. /\ runs'[i] = q /\ \A j \in Runs : j # i => runs'[j] = runs[j]
        /\ q # NoRun /\ (runs[i] = NoRun \/ Hook(runs[i]) = Hook(q))
        /\ q.typed = runs[i].typed \/ Fits(q.typed)
    BY <1>3 DEF ShownStep, CallsTypeOK
  <2>2. FitsOK'
    BY <2>1 DEF FitsOK
  <2>3. call \in [Hooks(family) -> Statuses]
    BY DEF CallsTypeOK
  <2>4. ASSUME NEW h \in Hooks(family), h # Hook(q)
        PROVE  /\ CallsOf(h)' = CallsOf(h) /\ call'[h] = call[h]
               /\ \A j \in CallsOf(h) : runs'[j] = runs[j]
    <3>1. i \notin CallsOf(h) /\ i \notin CallsOf(h)'
      BY <2>1, <2>4 DEF CallsOf
    <3>2. \A j \in CallsOf(h) : runs'[j] = runs[j]
      BY <2>1, <3>1 DEF CallsOf
    <3>3. CallsOf(h)' = CallsOf(h)
      BY <2>1, <3>1 DEF CallsOf
    <3>4. call'[h] = call[h]
      BY <1>3, <2>3, <2>4 DEF ShownStep
    <3>5. QED
      BY <3>2, <3>3, <3>4
  <2>5. ASSUME NEW h \in Hooks(family), h = Hook(q)
        PROVE  call'[h] # "idle" /\ \E j \in CallsOf(h)' : Shows(call'[h], runs'[j])
    <3>1. i \in CallsOf(h)'
      BY <2>1, <2>5 DEF CallsOf
    <3>2. ASSUME NEW s \in Statuses \ {"idle"}, call' = [call EXCEPT ![Hook(q)] = s], Shows(s, q)
          PROVE  call'[h] # "idle" /\ \E j \in CallsOf(h)' : Shows(call'[h], runs'[j])
      <4>1. call'[h] = s
        BY <2>3, <2>5, <3>2
      <4>2. QED
        BY <2>1, <3>1, <3>2, <4>1
    <3>3. ASSUME call' = call, runs[i] # NoRun, q.step = runs[i].step, q.outcome = runs[i].outcome
          PROVE  call'[h] # "idle" /\ \E j \in CallsOf(h)' : Shows(call'[h], runs'[j])
      <4>1. i \in CallsOf(h)
        BY <2>1, <2>5, <3>3 DEF CallsOf
      <4>2. call[h] # "idle"
        BY <4>1 DEF ShownOK
      <4>3. PICK j \in CallsOf(h) : Shows(call[h], runs[j])
        BY <4>2 DEF ShownOK
      <4>4. Shows(call[h], runs'[j])
        <5>1. runs'[j].step = runs[j].step /\ runs'[j].outcome = runs[j].outcome
          BY <2>1, <3>3, <4>3 DEF CallsOf
        <5>2. QED
          BY <4>3, <5>1 DEF Shows
      <4>5. j \in CallsOf(h)'
        BY <2>1, <3>1, <4>3 DEF CallsOf
      <4>6. QED
        BY <3>3, <4>2, <4>4, <4>5
    <3>4. QED
      BY <1>3, <3>2, <3>3 DEF ShownStep
  <2>6. ShownOK'
    BY <1>1, <2>4, <2>5 DEF ShownOK
  <2>7. QED
    BY <2>2, <2>6
<1>4. QED
  BY <1>1, <1>2, <1>3 DEF OneShows

LEMMA ShownEnough == CallsTypeOK /\ FitsOK /\ ShownOK => ScreenFollowsRuns
<1> SUFFICES ASSUME CallsTypeOK, FitsOK, ShownOK, NEW h \in Hooks(family)
             PROVE  CASE call[h] = "idle" -> CallsOf(h) = {}
                      [] call[h] = "confirmed" ->
                           \E i \in CallsOf(h) :
                              /\ runs[i].outcome = "ok"
                              /\ amountToStroops(runs[i].typed) = Worth(runs[i].typed)
                      [] call[h] = "failed" -> \E i \in CallsOf(h) : runs[i].outcome \in ErrorCode
                      [] OTHER -> \E i \in CallsOf(h) : runs[i].step # "done"
  BY DEF ScreenFollowsRuns, CallsOf
<1>1. ASSUME NEW i \in Runs PROVE amountToStroops(runs[i].typed) = Worth(runs[i].typed)
  <2>1. runs[i].typed \in Values \cup {NoValue}
    BY DEF CallsTypeOK, RunRecord
  <2>2. QED
    BY <2>1, FittingIsWorth DEF FitsOK
<1>2. CASE call[h] = "idle"
  BY <1>2 DEF ShownOK
<1>3. CASE call[h] # "idle"
  <2>1. PICK i \in CallsOf(h) : Shows(call[h], runs[i])
    BY <1>3 DEF ShownOK
  <2>2. amountToStroops(runs[i].typed) = Worth(runs[i].typed)
    BY <1>1 DEF CallsOf
  <2>3. QED
    BY <1>3, <2>1, <2>2 DEF Shows
<1>4. QED
  BY <1>2, <1>3

(* A button is busy only while one of its calls is under way, and shows    *)
(* success or failure only if one of them ended so, a form's success only  *)
(* if the amount typed is the one sent, however many decimals and digits   *)
(* it has (run of useContractCall, amountToStroops).                       *)
THEOREM ScreenIsTrue == CallsSpec => []ScreenFollowsRuns
<1>1. CallsInit => CallsTypeOK /\ FitsOK /\ ShownOK
  BY CallsInitType, ShownInit
<1>2. CallsTypeOK /\ FitsOK /\ ShownOK /\ [CallsNext]_callsVars => CallsTypeOK' /\ FitsOK' /\ ShownOK'
  BY CallsNextType, ShownNext
<1>3. QED
  BY <1>1, <1>2, ShownEnough, PTL DEF CallsSpec
=============================================================================
