------------------------------- MODULE Deploy -------------------------------
(***************************************************************************)
(* The deployment of the contracts from the command line: deploy.ts, which *)
(* makes seven calls by way of the stellar CLI and then writes the ids to  *)
(* .env.contracts; the .env made of that; verify.ts; and the seed script.  *)
(*                                                                         *)
(* A contract on the ledger belongs to nobody until it is initialized, and *)
(* a registry takes entries of anybody for their own address: a stranger   *)
(* may come between any two steps of the script.  A call may fail before   *)
(* its effect or after it, and a failed script is run again from the       *)
(* start, with contracts of its own.                                       *)
(***************************************************************************)
EXTENDS Integers, Sequences, FiniteSets

CONSTANTS
    Accounts,   \* whose secret keys the scripts are run with
    Runs,       \* the runs of deploy.ts: 1..n
    ByHand      \* whether .env is also edited line by line

ASSUME DeployAssumption ==
    /\ Accounts # {} /\ {"stranger", "nobody", "absent"} \cap Accounts = {}
    /\ Runs \subseteq Nat \ {0}
    /\ ByHand \in BOOLEAN

VARIABLES
    keychain,   \* the account under the alias stellarflow-deployer
    pc,         \* per run, the step of the script it is at
    adminOf,    \* per run and contract: its admin
    registryOf, \* per run, the registry its payment contract was given
    entry,      \* per run, what its registry has under "escrow"
    file,       \* the run whose ids .env.contracts holds
    env,        \* per contract, the run whose id .env holds
    copied,     \* whether .env is a copy of .env.contracts
    seed        \* the run of the seed script

ledger == <<adminOf, registryOf, entry>>
disk == <<file, env, copied>>
deployVars == <<keychain, pc, ledger, disk, seed>>

Names == {"registry", "escrow", "payment"}
Stranger == "stranger"
Nobody == "nobody"     \* deployed, not initialized
Absent == "absent"
NoRun == 0
Alien == -1            \* an address that is no escrow contract

\* main of deploy.ts.
Script == <<"deploy registry", "deploy escrow", "deploy payment",
            "initialize registry", "initialize escrow", "initialize payment",
            "register escrow", "write">>
Failed == -1
Over == Len(Script) + 1
Deploys(step) ==
    CASE step = "deploy registry" -> "registry" [] step = "deploy escrow" -> "escrow"
      [] step = "deploy payment" -> "payment" [] OTHER -> "none"
Initializes(step) ==
    CASE step = "initialize registry" -> "registry" [] step = "initialize escrow" -> "escrow"
      [] step = "initialize payment" -> "payment" [] OTHER -> "none"

NoSeed == [step |-> "none", ids |-> [n \in Names |-> NoRun], copied |-> FALSE,
           lockedAt |-> NoRun, releasedAt |-> NoRun]

DeployInit ==
    /\ keychain = Nobody
    /\ pc = [r \in Runs |-> 0]
    /\ adminOf = [r \in Runs |-> [n \in Names |-> Absent]]
    /\ registryOf = [r \in Runs |-> NoRun]
    /\ entry = [r \in Runs |-> NoRun]
    /\ file = NoRun /\ env = NoSeed.ids /\ copied = FALSE
    /\ seed = NoSeed

-----------------------------------------------------------------------------
(* The contracts, as Registry.tla, Escrow.tla and Payment.tla have them. *)

Initialize(r, n, admin, registry) ==
    /\ adminOf[r][n] = Nobody
    /\ adminOf' = [adminOf EXCEPT ![r][n] = admin]
    /\ registryOf' = IF n = "payment" THEN [registryOf EXCEPT ![r] = registry] ELSE registryOf
    /\ UNCHANGED entry

Register(r, caller, address) ==
    /\ adminOf[r]["registry"] \notin {Absent, Nobody} /\ entry[r] = NoRun
    /\ caller = adminOf[r]["registry"] \/ address = Alien
    /\ entry' = [entry EXCEPT ![r] = address]
    /\ UNCHANGED <<adminOf, registryOf>>

StrangerCalls ==
    /\ \E r \in Runs :
          \/ \E n \in Names, registry \in Runs : Initialize(r, n, Stranger, registry)
          \/ \E address \in Runs \cup {Alien} : Register(r, Stranger, address)
    /\ UNCHANGED <<keychain, pc, disk, seed>>

-----------------------------------------------------------------------------
(* deploy.ts. *)

\* The build, which may fail, and then requireSecretKey and ensureKey: a key that
\* is there is kept, whatever the secret.
Start(r) ==
    /\ pc[r] = 0
    /\ \/ pc' = [pc EXCEPT ![r] = Failed] /\ UNCHANGED keychain
       \/ /\ pc' = [pc EXCEPT ![r] = 1]
          /\ \E account \in Accounts :
                keychain' = IF keychain = Nobody THEN account ELSE keychain
    /\ UNCHANGED <<ledger, disk, seed>>

\* The ledger's part of a step, by deployContract or invokeContract.
Effect(r, step) ==
    CASE Deploys(step) # "none" ->
           /\ adminOf' = [adminOf EXCEPT ![r][Deploys(step)] = Nobody]
           /\ UNCHANGED <<registryOf, entry>>
      [] Initializes(step) # "none" -> Initialize(r, Initializes(step), keychain, r)
      [] step = "register escrow" -> Register(r, keychain, r)
      [] OTHER -> UNCHANGED ledger

\* writeContractEnv.
Written(r, step) ==
    /\ file' = IF step = "write" THEN r ELSE file
    /\ UNCHANGED <<env, copied>>

At(r) == Script[pc[r]]
Running(r) == pc[r] \in 1..Len(Script)

\* Injected fault: the error of a call is logged and the script goes on.
StepAnyway(r) ==
    /\ Running(r)
    /\ Effect(r, At(r)) \/ UNCHANGED ledger
    /\ Written(r, At(r))
    /\ pc' = [pc EXCEPT ![r] = @ + 1]
    /\ UNCHANGED <<keychain, seed>>

\* A step succeeds.
Step(r) ==
    /\ Running(r)
    /\ Effect(r, At(r))
    /\ Written(r, At(r))
    /\ pc' = [pc EXCEPT ![r] = @ + 1]
    /\ UNCHANGED <<keychain, seed>>

\* A step fails, refused by the contract or not, and the script exits; the call
\* may have had its effect, but nothing is written.
StepFails(r) ==
    /\ Running(r)
    /\ Effect(r, At(r)) \/ UNCHANGED ledger
    /\ pc' = [pc EXCEPT ![r] = Failed]
    /\ UNCHANGED <<keychain, disk, seed>>

-----------------------------------------------------------------------------
(* .env, and the scripts that read it. *)

\* cp .env.contracts .env
CopyEnv ==
    /\ file # NoRun
    /\ env' = [n \in Names |-> file]
    /\ copied' = TRUE
    /\ UNCHANGED <<keychain, pc, ledger, file, seed>>

\* "... or add the STELLARFLOW_*_CONTRACT values to .env", which the script also logs.
EditEnv ==
    /\ ByHand
    /\ \E n \in Names, r \in Runs :
          /\ adminOf[r][n] # Absent
          /\ env' = [env EXCEPT ![n] = r]
    /\ copied' = FALSE
    /\ UNCHANGED <<keychain, pc, ledger, file, seed>>

Configured == \A n \in Names : env[n] # NoRun

\* Whether a contract of .env answers to admin: it is initialized.
Answers(n) == adminOf[env[n]][n] \notin {Absent, Nobody}

\* verify.ts passes: all its reads are answered.  The ids they return are not
\* compared.
Verifies ==
    /\ Configured
    /\ \A n \in Names : Answers(n)
    /\ entry[env["registry"]] # NoRun

contractAddresses == {n \in Names : env[n] # NoRun}

\* The seed script reads .env once, of which it needs two ids, and creates a
\* payment and approves it.
Seed ==
    /\ {"payment", "escrow"} \subseteq contractAddresses
    /\ seed.step = "none"
    /\ Answers("payment")
    /\ seed' = [NoSeed EXCEPT !.step = "approved", !.ids = env, !.copied = copied]
    /\ UNCHANGED <<keychain, pc, ledger, disk>>

\* Injected fault: what the registry yields is not called, or the call's error lost.
SeedExecutesBlindly ==
    /\ seed.step = "approved"
    /\ seed' = [seed EXCEPT !.step = "executed",
                            !.lockedAt = entry[registryOf[seed.ids["payment"]]]]
    /\ UNCHANGED <<keychain, pc, ledger, disk>>

\* executePayment: the escrow is made at the contract the registry of the payment
\* contract names.
SeedExecutes ==
    LET at == entry[registryOf[seed.ids["payment"]]] IN
    /\ seed.step = "approved"
    /\ adminOf[registryOf[seed.ids["payment"]]]["registry"] # Absent
    /\ at \in Runs /\ adminOf[at]["escrow"] \notin {Absent, Nobody}
    /\ seed' = [seed EXCEPT !.step = "executed", !.lockedAt = at]
    /\ UNCHANGED <<keychain, pc, ledger, disk>>

\* With --release, the escrow of that id at the escrow contract of .env; one that
\* is not initialized has none.
SeedReleases ==
    /\ seed.step = "executed"
    /\ adminOf[seed.ids["escrow"]]["escrow"] \notin {Absent, Nobody}
    /\ seed' = [seed EXCEPT !.step = "done", !.releasedAt = seed.ids["escrow"]]
    /\ UNCHANGED <<keychain, pc, ledger, disk>>

\* A call fails or times out, or there is no --release.
SeedStops ==
    /\ seed.step \in {"approved", "executed"}
    /\ seed' = [NoSeed EXCEPT !.step = "stopped"]
    /\ UNCHANGED <<keychain, pc, ledger, disk>>

-----------------------------------------------------------------------------

DeployNext ==
    \/ StrangerCalls
    \/ \E r \in Runs : Start(r) \/ Step(r) \/ StepFails(r)
    \/ CopyEnv \/ EditEnv
    \/ Seed \/ SeedExecutes \/ SeedReleases \/ SeedStops

DeploySpec == DeployInit /\ [][DeployNext]_deployVars

-----------------------------------------------------------------------------

People == Accounts \cup {Stranger}

\* Every variable keeps its type.
DeployTypeOK ==
    /\ keychain \in Accounts \cup {Nobody}
    /\ pc \in [Runs -> Failed..Over]
    /\ adminOf \in [Runs -> [Names -> People \cup {Nobody, Absent}]]
    /\ registryOf \in [Runs -> Runs \cup {NoRun}]
    /\ entry \in [Runs -> Runs \cup {NoRun, Alien}]
    /\ file \in Runs \cup {NoRun}
    /\ env \in [Names -> Runs \cup {NoRun}]
    /\ copied \in BOOLEAN
    /\ seed \in [step : {"none", "approved", "executed", "done", "stopped"},
                 ids : [Names -> Runs \cup {NoRun}], copied : BOOLEAN,
                 lockedAt : Runs \cup {NoRun}, releasedAt : Runs \cup {NoRun}]

\* The contracts of a run work together, and the deployer is their admin.
Works(r) ==
    /\ \A n \in Names : adminOf[r][n] = keychain
    /\ registryOf[r] = r
    /\ entry[r] = r

\* What deploy.ts writes works, for good, whatever failed before and whoever
\* called the contracts in between; and so does a .env copied from it, which
\* verify.ts therefore never rejects.
EnvWorks ==
    /\ file # NoRun => Works(file)
    /\ copied => Verifies /\ \E r \in Runs : Works(r) /\ \A n \in Names : env[n] = r
=============================================================================
