---------------------------- MODULE DeployProofs ----------------------------
(***************************************************************************)
(* Proofs about the deployment for any accounts and any number of runs of  *)
(* deploy.ts: what the script writes works, whatever fails and whoever     *)
(* calls the contracts in between, and the seed script releases what its   *)
(* own payment locked.                                                     *)
(***************************************************************************)
EXTENDS Deploy, TLAPS

LEMMA Steps ==
    /\ Len(Script) = 8 /\ Over = 9
    /\ Script[1] = "deploy registry" /\ Script[2] = "deploy escrow" /\ Script[3] = "deploy payment"
    /\ Script[4] = "initialize registry" /\ Script[5] = "initialize escrow"
    /\ Script[6] = "initialize payment" /\ Script[7] = "register escrow" /\ Script[8] = "write"
BY DEF Script, Over

LEMMA NotRuns == Runs \subseteq Nat \ {0} /\ NoRun \notin Runs /\ Alien \notin Runs
BY DeployAssumption DEF DeployAssumption, NoRun, Alien

\* What a run has achieved at the contracts, by the step it is at.
Achieved(r) ==
    /\ pc[r] > 0 => keychain \in Accounts
    /\ pc[r] > 4 => adminOf[r]["registry"] = keychain
    /\ pc[r] > 5 => adminOf[r]["escrow"] = keychain
    /\ pc[r] > 6 => adminOf[r]["payment"] = keychain /\ registryOf[r] = r
    /\ pc[r] > 7 => entry[r] = r

\* The state of the contracts and the script has its type.
ContractsOK ==
    /\ keychain \in Accounts \cup {Nobody}
    /\ pc \in [Runs -> Failed..Over]
    /\ adminOf \in [Runs -> [Names -> People \cup {Nobody, Absent}]]
    /\ registryOf \in [Runs -> Runs \cup {NoRun}]
    /\ entry \in [Runs -> Runs \cup {NoRun, Alien}]

Contracts == ContractsOK /\ \A r \in Runs : Achieved(r)

\* What the ledger does for a step at k of run r.
Took(r, k) ==
    \/ /\ k \in 1..3
       /\ \E n \in Names : adminOf' = [adminOf EXCEPT ![r][n] = Nobody]
       /\ UNCHANGED <<registryOf, entry>>
    \/ k = 4 /\ Initialize(r, "registry", keychain, r)
    \/ k = 5 /\ Initialize(r, "escrow", keychain, r)
    \/ k = 6 /\ Initialize(r, "payment", keychain, r)
    \/ k = 7 /\ Register(r, keychain, r)
    \/ k = 8 /\ UNCHANGED ledger

LEMMA EffectTook ==
    ASSUME NEW r \in Runs, NEW k \in 1..8, Effect(r, Script[k])
    PROVE  Took(r, k)
<1>1. CASE k = 1
  <2>1. Deploys(Script[k]) = "registry" /\ Initializes(Script[k]) = "none"
        /\ Script[k] # "register escrow"
    BY <1>1, Steps DEF Deploys, Initializes
  <2>2. adminOf' = [adminOf EXCEPT ![r]["registry"] = Nobody] /\ UNCHANGED <<registryOf, entry>>
    BY <2>1 DEF Effect
  <2>3. QED
    BY <1>1, <2>2 DEF Took, Names
<1>2. CASE k = 2
  <2>1. Deploys(Script[k]) = "escrow" /\ Initializes(Script[k]) = "none"
        /\ Script[k] # "register escrow"
    BY <1>2, Steps DEF Deploys, Initializes
  <2>2. adminOf' = [adminOf EXCEPT ![r]["escrow"] = Nobody] /\ UNCHANGED <<registryOf, entry>>
    BY <2>1 DEF Effect
  <2>3. QED
    BY <1>2, <2>2 DEF Took, Names
<1>3. CASE k = 3
  <2>1. Deploys(Script[k]) = "payment" /\ Initializes(Script[k]) = "none"
        /\ Script[k] # "register escrow"
    BY <1>3, Steps DEF Deploys, Initializes
  <2>2. adminOf' = [adminOf EXCEPT ![r]["payment"] = Nobody] /\ UNCHANGED <<registryOf, entry>>
    BY <2>1 DEF Effect
  <2>3. QED
    BY <1>3, <2>2 DEF Took, Names
<1>4. CASE k = 4
  BY <1>4, Steps DEF Effect, Deploys, Initializes, Took
<1>5. CASE k = 5
  BY <1>5, Steps DEF Effect, Deploys, Initializes, Took
<1>6. CASE k = 6
  BY <1>6, Steps DEF Effect, Deploys, Initializes, Took
<1>7. CASE k = 7
  BY <1>7, Steps DEF Effect, Deploys, Initializes, Took
<1>8. CASE k = 8
  BY <1>8, Steps DEF Effect, Deploys, Initializes, Took
<1>9. k = 1 \/ k = 2 \/ k = 3 \/ k = 4 \/ k = 5 \/ k = 6 \/ k = 7 \/ k = 8
  OBVIOUS
<1>10. QED
  BY <1>1, <1>2, <1>3, <1>4, <1>5, <1>6, <1>7, <1>8, <1>9

LEMMA NamesAre == "registry" \in Names /\ "escrow" \in Names /\ "payment" \in Names
                  /\ \A a \in Accounts : a \in People /\ a # Nobody /\ a # Absent
BY DeployAssumption DEF DeployAssumption, Names, People, Nobody, Absent

(* Who initializes a contract, and who registers, changes nothing achieved. *)
LEMMA InitializeKeeps ==
    ASSUME ContractsOK, NEW r \in Runs, NEW n \in Names, NEW admin \in People, NEW registry \in Runs,
           Initialize(r, n, admin, registry)
    PROVE  /\ adminOf' \in [Runs -> [Names -> People \cup {Nobody, Absent}]]
           /\ registryOf' \in [Runs -> Runs \cup {NoRun}]
           /\ entry' = entry
           /\ adminOf'[r][n] = admin
           /\ \A s \in Runs, m \in Names : adminOf[s][m] # Nobody => adminOf'[s][m] = adminOf[s][m]
           /\ \A s \in Runs : adminOf[s]["payment"] # Nobody => registryOf'[s] = registryOf[s]
           /\ n = "payment" => registryOf'[r] = registry
BY NamesAre DEF Initialize, ContractsOK

LEMMA RegisterKeeps ==
    ASSUME ContractsOK, NEW r \in Runs, NEW caller, NEW address \in Runs \cup {Alien},
           Register(r, caller, address)
    PROVE  /\ entry' \in [Runs -> Runs \cup {NoRun, Alien}]
           /\ adminOf' = adminOf /\ registryOf' = registryOf
           /\ entry'[r] = address
           /\ \A s \in Runs : entry[s] \in Runs => entry'[s] = entry[s]
BY NotRuns DEF Register, ContractsOK

\* After a step at k, run r has done the steps up to k.
Done(r, k) ==
    /\ k > 3 => adminOf[r]["registry"] = keychain
    /\ k > 4 => adminOf[r]["escrow"] = keychain
    /\ k > 5 => adminOf[r]["payment"] = keychain /\ registryOf[r] = r
    /\ k > 6 => entry[r] = r

LEMMA TookAchieves ==
    ASSUME Contracts, NEW r \in Runs, NEW k \in 1..8, pc[r] = k, Took(r, k), keychain' = keychain
    PROVE  /\ adminOf' \in [Runs -> [Names -> People \cup {Nobody, Absent}]]
           /\ registryOf' \in [Runs -> Runs \cup {NoRun}]
           /\ entry' \in [Runs -> Runs \cup {NoRun, Alien}]
           /\ Done(r, k)'
           /\ \A s \in Runs \ {r} :
                 /\ \A m \in Names : adminOf[s][m] # Nobody => adminOf'[s][m] = adminOf[s][m]
                 /\ adminOf[s]["payment"] # Nobody => registryOf'[s] = registryOf[s]
                 /\ entry[s] \in Runs => entry'[s] = entry[s]
<1>0. keychain \in Accounts /\ keychain \in People /\ keychain # Nobody /\ ContractsOK
  BY NamesAre DEF Contracts, Achieved
<1>1. CASE k \in 1..3
  <2>1. PICK n \in Names : adminOf' = [adminOf EXCEPT ![r][n] = Nobody]
    BY <1>1 DEF Took
  <2>2. UNCHANGED <<registryOf, entry>>
    BY <1>1 DEF Took
  <2>3. QED
    BY <1>0, <1>1, <2>1, <2>2 DEF ContractsOK, Done
<1>2. ASSUME NEW n \in Names, Initialize(r, n, keychain, r),
             (k = 4 /\ n = "registry") \/ (k = 5 /\ n = "escrow") \/ (k = 6 /\ n = "payment")
      PROVE  /\ adminOf' \in [Runs -> [Names -> People \cup {Nobody, Absent}]]
             /\ registryOf' \in [Runs -> Runs \cup {NoRun}]
             /\ entry' = entry
             /\ Done(r, k)'
             /\ \A s \in Runs, m \in Names : adminOf[s][m] # Nobody => adminOf'[s][m] = adminOf[s][m]
             /\ \A s \in Runs : adminOf[s]["payment"] # Nobody => registryOf'[s] = registryOf[s]
  <2>1. /\ k > 4 => adminOf[r]["registry"] = keychain
        /\ k > 5 => adminOf[r]["escrow"] = keychain
    BY DEF Contracts, Achieved
  <2>2. Done(r, k)'
    BY <1>0, <1>2, <2>1, InitializeKeeps, NamesAre DEF Done
  <2>3. QED
    BY <1>0, <1>2, <2>2, InitializeKeeps
<1>3. CASE k = 4 \/ k = 5 \/ k = 6
  <2>1. PICK n \in Names :
           /\ Initialize(r, n, keychain, r)
           /\ (k = 4 /\ n = "registry") \/ (k = 5 /\ n = "escrow") \/ (k = 6 /\ n = "payment")
    BY <1>3, NamesAre DEF Took
  <2>2. entry \in [Runs -> Runs \cup {NoRun, Alien}]
    BY <1>0 DEF ContractsOK
  <2>3. QED
    BY <1>2, <2>1, <2>2
<1>4. CASE k = 7
  <2>1. Register(r, keychain, r)
    BY <1>4 DEF Took
  <2>2. /\ adminOf[r]["registry"] = keychain /\ adminOf[r]["escrow"] = keychain
        /\ adminOf[r]["payment"] = keychain /\ registryOf[r] = r
    BY <1>4 DEF Contracts, Achieved
  <2>3. QED
    BY <1>0, <1>4, <2>1, <2>2, RegisterKeeps DEF ContractsOK, Done
<1>5. CASE k = 8
  BY <1>0, <1>5 DEF Took, ledger, ContractsOK, Done, Contracts, Achieved
<1>6. QED
  BY <1>1, <1>3, <1>4, <1>5

LEMMA StepRange == Failed = -1 /\ Over = 9
BY DEF Failed, Over, Script

LEMMA ContractsInit == DeployInit => Contracts
<1> SUFFICES ASSUME DeployInit PROVE Contracts
  OBVIOUS
<1>1. ContractsOK
  BY StepRange, NamesAre DEF DeployInit, ContractsOK, Names
<1>2. \A r \in Runs : pc[r] = 0
  BY DEF DeployInit
<1>3. QED
  BY <1>1, <1>2 DEF Contracts, Achieved

(* What a run has achieved stays, whoever takes the step; a run that is over *)
(* stays so.                                                                  *)
LEMMA ContractsNext ==
    ASSUME Contracts, [DeployNext]_deployVars
    PROVE  Contracts' /\ \A r \in Runs : pc[r] = Over => pc'[r] = Over
<1>0. ContractsOK /\ \A r \in Runs : Achieved(r)
  BY DEF Contracts
<1>1. ASSUME UNCHANGED <<keychain, pc, ledger>>
      PROVE  Contracts' /\ \A r \in Runs : pc[r] = Over => pc'[r] = Over
  BY <1>1 DEF Contracts, ContractsOK, Achieved, ledger
<1>2. CASE StrangerCalls
  <2>1. ASSUME UNCHANGED <<keychain, pc>>,
               adminOf' \in [Runs -> [Names -> People \cup {Nobody, Absent}]],
               registryOf' \in [Runs -> Runs \cup {NoRun}],
               entry' \in [Runs -> Runs \cup {NoRun, Alien}],
               \A s \in Runs, m \in Names : adminOf[s][m] # Nobody => adminOf'[s][m] = adminOf[s][m],
               \A s \in Runs : adminOf[s]["payment"] # Nobody => registryOf'[s] = registryOf[s],
               \A s \in Runs : entry[s] \in Runs => entry'[s] = entry[s]
        PROVE  Contracts' /\ \A r \in Runs : pc[r] = Over => pc'[r] = Over
    <3>1. ContractsOK'
      BY <1>0, <2>1 DEF ContractsOK
    <3>2. ASSUME NEW r \in Runs PROVE Achieved(r)'
      <4>1. Achieved(r) /\ pc'[r] = pc[r] /\ keychain' = keychain
        BY <1>0, <2>1
      <4>2. pc[r] \in Int
        BY <1>0, StepRange DEF ContractsOK
      <4>3. keychain \in Accounts => keychain # Nobody
        BY NamesAre
      <4>4. QED
        BY <2>1, <4>1, <4>2, <4>3, NamesAre, NotRuns DEF Achieved
    <3>3. QED
      BY <2>1, <3>1, <3>2 DEF Contracts
  <2>2. ASSUME NEW r \in Runs, NEW n \in Names, NEW registry \in Runs,
               Initialize(r, n, Stranger, registry)
        PROVE  Contracts' /\ \A s \in Runs : pc[s] = Over => pc'[s] = Over
    <3>1. Stranger \in People
      BY DEF People
    <3>2. UNCHANGED <<keychain, pc>>
      BY <1>2 DEF StrangerCalls
    <3>3. entry' = entry /\ entry \in [Runs -> Runs \cup {NoRun, Alien}]
      BY <1>0, <2>2, <3>1, InitializeKeeps DEF ContractsOK
    <3>4. QED
      BY <1>0, <2>1, <2>2, <3>1, <3>2, <3>3, InitializeKeeps
  <2>3. ASSUME NEW r \in Runs, NEW address \in Runs \cup {Alien}, Register(r, Stranger, address)
        PROVE  Contracts' /\ \A s \in Runs : pc[s] = Over => pc'[s] = Over
    <3>1. UNCHANGED <<keychain, pc>>
      BY <1>2 DEF StrangerCalls
    <3>2. QED
      BY <1>0, <2>1, <2>3, <3>1, RegisterKeeps DEF ContractsOK
  <2>4. QED
    BY <1>2, <2>2, <2>3 DEF StrangerCalls
<1>3. ASSUME NEW r \in Runs, Start(r)
      PROVE  Contracts' /\ \A s \in Runs : pc[s] = Over => pc'[s] = Over
  <2>1. UNCHANGED <<adminOf, registryOf, entry>>
    BY <1>3 DEF Start, ledger
  <2>2. pc[r] = 0 /\ pc \in [Runs -> -1..9]
    BY <1>0, <1>3, StepRange DEF Start, ContractsOK
  <2>3. PICK p \in {-1, 1} : pc' = [pc EXCEPT ![r] = p]
    BY <1>3 DEF Start, Failed
  <2>4. /\ keychain' \in Accounts \cup {Nobody}
        /\ keychain \in Accounts => keychain' = keychain
        /\ pc'[r] = 1 => keychain' \in Accounts
    <3>1. CASE pc' = [pc EXCEPT ![r] = Failed] /\ UNCHANGED keychain
      BY <1>0, <2>2, <3>1 DEF ContractsOK, Failed
    <3>2. ASSUME NEW account \in Accounts, keychain' = IF keychain = Nobody THEN account ELSE keychain
          PROVE  /\ keychain' \in Accounts
                 /\ keychain \in Accounts => keychain' = keychain
      BY <1>0, <3>2, NamesAre DEF ContractsOK
    <3>3. QED
      BY <1>3, <3>1, <3>2 DEF Start
  <2>5. ContractsOK'
    BY <1>0, <2>1, <2>2, <2>3, <2>4, StepRange DEF ContractsOK
  <2>6. ASSUME NEW s \in Runs PROVE Achieved(s)'
    <3>1. CASE s = r
      BY <2>2, <2>3, <2>4, <3>1 DEF Achieved
    <3>2. CASE s # r
      <4>1. pc'[s] = pc[s] /\ pc[s] \in Int /\ Achieved(s)
        BY <1>0, <2>2, <2>3, <3>2
      <4>2. QED
        BY <2>1, <2>4, <4>1 DEF Achieved
    <3>3. QED
      BY <3>1, <3>2
  <2>7. QED
    BY <2>2, <2>3, <2>5, <2>6, StepRange DEF Contracts
<1>4. ASSUME NEW r \in Runs, Step(r) \/ StepFails(r)
      PROVE  Contracts' /\ \A s \in Runs : pc[s] = Over => pc'[s] = Over
  <2>0. pc[r] \in 1..8 /\ keychain' = keychain /\ pc \in [Runs -> -1..9]
    BY <1>0, <1>4, Steps, StepRange DEF Step, StepFails, Running, ContractsOK
  <2>1. PICK k \in 1..8 : pc[r] = k
    BY <2>0
  <2>2. \/ Took(r, k) /\ pc' = [pc EXCEPT ![r] = k + 1]
        \/ Took(r, k) /\ pc' = [pc EXCEPT ![r] = -1]
        \/ UNCHANGED ledger /\ pc' = [pc EXCEPT ![r] = -1]
    BY <1>4, <2>0, <2>1, EffectTook DEF Step, StepFails, At, Failed
  <2>3. /\ adminOf' \in [Runs -> [Names -> People \cup {Nobody, Absent}]]
        /\ registryOf' \in [Runs -> Runs \cup {NoRun}]
        /\ entry' \in [Runs -> Runs \cup {NoRun, Alien}]
        /\ pc'[r] = k + 1 => Done(r, k)'
        /\ \A s \in Runs \ {r} :
              /\ \A m \in Names : adminOf[s][m] # Nobody => adminOf'[s][m] = adminOf[s][m]
              /\ adminOf[s]["payment"] # Nobody => registryOf'[s] = registryOf[s]
              /\ entry[s] \in Runs => entry'[s] = entry[s]
    <3>1. CASE Took(r, k)
      BY <2>0, <2>1, <3>1, TookAchieves
    <3>2. CASE UNCHANGED ledger /\ pc' = [pc EXCEPT ![r] = -1]
      BY <1>0, <2>0, <2>1, <3>2 DEF ledger, ContractsOK
    <3>3. QED
      BY <2>2, <3>1, <3>2
  <2>4. pc' \in [Runs -> -1..9] /\ (pc'[r] = k + 1 \/ pc'[r] = -1)
        /\ \A s \in Runs \ {r} : pc'[s] = pc[s]
    BY <2>0, <2>1, <2>2
  <2>5. ContractsOK'
    BY <1>0, <2>0, <2>1, <2>3, <2>4, StepRange DEF ContractsOK
  <2>6. Achieved(r)'
    <3>1. keychain \in Accounts
      BY <1>0, <2>0, <2>1 DEF Achieved
    <3>2. QED
      BY <2>0, <2>1, <2>3, <2>4, <3>1 DEF Achieved, Done
  <2>7. ASSUME NEW s \in Runs \ {r} PROVE Achieved(s)'
    <3>1. pc'[s] = pc[s] /\ pc[s] \in Int /\ Achieved(s)
      BY <1>0, <2>0, <2>1, <2>4
    <3>2. QED
      BY <2>0, <2>1, <2>3, <3>1, NamesAre DEF Achieved
  <2>8. QED
    BY <2>0, <2>1, <2>4, <2>5, <2>6, <2>7, StepRange DEF Contracts
<1>5. QED
  <2>1. CASE UNCHANGED deployVars
    BY <1>1, <2>1 DEF deployVars
  <2>2. CASE CopyEnv \/ EditEnv \/ Seed \/ SeedExecutes \/ SeedReleases \/ SeedStops
    BY <1>1, <2>2 DEF CopyEnv, EditEnv, Seed, SeedExecutes, SeedReleases, SeedStops
  <2>3. QED
    BY <1>2, <1>3, <1>4, <2>1, <2>2 DEF DeployNext

-----------------------------------------------------------------------------
(* What is written works. *)

\* Run r is over, so that all it did is done.
IsOver(r) == r \in Runs /\ pc[r] = Over

\* The strengthening of EnvWorks: what the files and the seed script have of a
\* run, they have of one that is over.
OfOver ==
    /\ file \in Runs \cup {NoRun} /\ (file # NoRun => IsOver(file))
    /\ env \in [Names -> Runs \cup {NoRun}]
    /\ copied \in BOOLEAN
    /\ copied => \E r \in Runs : IsOver(r) /\ \A n \in Names : env[n] = r
    /\ seed.copied => \E r \in Runs :
          /\ IsOver(r) /\ \A n \in Names : seed.ids[n] = r
          /\ seed.lockedAt \in {NoRun, r}
          /\ seed.releasedAt \in {NoRun, seed.lockedAt}
          /\ seed.step \in {"executed", "done"} => seed.lockedAt = r

SeedRecord == [step : {"none", "approved", "executed", "done", "stopped"},
               ids : [Names -> Runs \cup {NoRun}], copied : BOOLEAN,
               lockedAt : Runs \cup {NoRun}, releasedAt : Runs \cup {NoRun}]

LEMMA NoSeedIs ==
    /\ NoSeed \in SeedRecord /\ NoSeed.copied = FALSE /\ NoSeed.step = "none"
    /\ NoSeed.lockedAt = NoRun /\ NoSeed.releasedAt = NoRun
BY DEF NoSeed, SeedRecord

LEMMA OverWorks ==
    ASSUME Contracts, NEW r, IsOver(r)
    PROVE  Works(r) /\ keychain \in Accounts
BY StepRange DEF Contracts, Achieved, IsOver, Works, Names

LEMMA OverStays ==
    ASSUME Contracts, [DeployNext]_deployVars, NEW r \in Runs, IsOver(r)
    PROVE  IsOver(r)'
BY ContractsNext DEF IsOver

LEMMA OfOverInit == DeployInit => OfOver /\ seed \in SeedRecord
BY NoSeedIs DEF DeployInit, OfOver, NoSeed

LEMMA OfOverNext ==
    ASSUME Contracts, OfOver, seed \in SeedRecord, [DeployNext]_deployVars
    PROVE  OfOver' /\ seed' \in SeedRecord
<1>1. ASSUME UNCHANGED <<file, env, copied>>, UNCHANGED seed PROVE OfOver' /\ seed' \in SeedRecord
  BY <1>1, OverStays DEF OfOver
<1>2. ASSUME UNCHANGED <<file, env, copied>>, seed' \in SeedRecord,
             seed'.copied => \E r \in Runs :
                /\ IsOver(r) /\ \A n \in Names : seed'.ids[n] = r
                /\ seed'.lockedAt \in {NoRun, r}
                /\ seed'.releasedAt \in {NoRun, seed'.lockedAt}
                /\ seed'.step \in {"executed", "done"} => seed'.lockedAt = r
      PROVE  OfOver' /\ seed' \in SeedRecord
  BY <1>2, OverStays DEF OfOver
<1>3. ASSUME NEW r \in Runs, Start(r) \/ StepFails(r) PROVE OfOver' /\ seed' \in SeedRecord
  BY <1>1, <1>3 DEF Start, StepFails, disk
<1>4. ASSUME NEW r \in Runs, Step(r) PROVE OfOver' /\ seed' \in SeedRecord
  <2>1. UNCHANGED <<env, copied, seed>>
    BY <1>4 DEF Step, Written
  <2>2. CASE file' = file
    BY <1>1, <2>1, <2>2
  <2>3. CASE At(r) = "write" /\ file' = r
    <3>1. pc[r] = 8
      <4>1. pc[r] \in 1..8 /\ Script[pc[r]] = "write"
        BY <1>4, <2>3, Steps DEF Step, Running, At
      <4>2. \/ pc[r] = 1 \/ pc[r] = 2 \/ pc[r] = 3 \/ pc[r] = 4
            \/ pc[r] = 5 \/ pc[r] = 6 \/ pc[r] = 7 \/ pc[r] = 8
        BY <4>1
      <4>3. \A k \in {1, 2, 3, 4, 5, 6, 7} : Script[k] # "write"
        BY Steps
      <4>4. QED
        BY <4>1, <4>2, <4>3
    <3>2. pc'[r] = 9
      BY <1>4, <3>1 DEF Step, Contracts, ContractsOK
    <3>3. IsOver(r)'
      BY <3>2, StepRange DEF IsOver
    <3>4. QED
      BY <2>1, <2>3, <3>3, OverStays, NotRuns DEF OfOver
  <2>4. QED
    BY <1>4, <2>2, <2>3 DEF Step, Written
<1>5. CASE CopyEnv
  <2>1. env' = [n \in Names |-> file] /\ copied' = TRUE /\ file' = file /\ file # NoRun /\ seed' = seed
    BY <1>5 DEF CopyEnv
  <2>2. file \in Runs /\ IsOver(file)'
    BY <2>1, OverStays DEF OfOver
  <2>3. QED
    BY <2>1, <2>2, OverStays DEF OfOver
<1>6. CASE EditEnv
  <2>1. copied' = FALSE /\ file' = file /\ seed' = seed /\ env' \in [Names -> Runs \cup {NoRun}]
    BY <1>6 DEF EditEnv, OfOver
  <2>2. QED
    BY <2>1, OverStays DEF OfOver
<1>7. CASE Seed
  <2> DEFINE q == [NoSeed EXCEPT !.step = "approved", !.ids = env, !.copied = copied]
  <2>1. /\ q \in SeedRecord /\ q.step = "approved" /\ q.ids = env /\ q.copied = copied
        /\ q.lockedAt = NoRun /\ q.releasedAt = NoRun
    BY NoSeedIs DEF SeedRecord, OfOver
  <2>2. seed' = q /\ UNCHANGED <<file, env, copied>>
    BY <1>7 DEF Seed, disk
  <2> HIDE DEF q
  <2>3. QED
    BY <1>2, <2>1, <2>2 DEF OfOver
<1>8. CASE SeedExecutes
  <2> DEFINE at == entry[registryOf[seed.ids["payment"]]]
             q == [seed EXCEPT !.step = "executed", !.lockedAt = at]
  <2>1. at \in Runs /\ seed' = q /\ UNCHANGED <<file, env, copied>> /\ seed.step = "approved"
    BY <1>8 DEF SeedExecutes, disk
  <2>2. /\ q \in SeedRecord /\ q.step = "executed" /\ q.ids = seed.ids /\ q.copied = seed.copied
        /\ q.lockedAt = at /\ q.releasedAt = seed.releasedAt
    BY <2>1 DEF SeedRecord
  <2>3. ASSUME NEW r \in Runs, IsOver(r), \A n \in Names : seed.ids[n] = r PROVE at = r
    BY <2>3, OverWorks, NamesAre DEF Works
  <2>4. CASE ~seed.copied
    <3> HIDE DEF q, at
    <3>1. QED
      BY <1>2, <2>1, <2>2, <2>4
  <2>5. CASE seed.copied
    <3>1. PICK r \in Runs : /\ IsOver(r) /\ \A n \in Names : seed.ids[n] = r
                            /\ seed.lockedAt \in {NoRun, r}
                            /\ seed.releasedAt \in {NoRun, seed.lockedAt}
      BY <2>5 DEF OfOver
    <3>2. at = r
      BY <2>3, <3>1
    <3>3. seed.releasedAt \in {NoRun, r}
      BY <3>1
    <3> HIDE DEF q, at
    <3>4. QED
      BY <1>2, <2>1, <2>2, <3>1, <3>2, <3>3
  <2>6. QED
    BY <2>4, <2>5
<1>9. CASE SeedReleases
  <2> DEFINE q == [seed EXCEPT !.step = "done", !.releasedAt = seed.ids["escrow"]]
  <2>1. seed' = q /\ UNCHANGED <<file, env, copied>> /\ seed.step = "executed"
    BY <1>9 DEF SeedReleases, disk
  <2>2. /\ q \in SeedRecord /\ q.step = "done" /\ q.ids = seed.ids /\ q.copied = seed.copied
        /\ q.lockedAt = seed.lockedAt /\ q.releasedAt = seed.ids["escrow"]
    BY NamesAre DEF SeedRecord
  <2> HIDE DEF q
  <2>3. QED
    BY <1>2, <2>1, <2>2, NamesAre DEF OfOver
<1>10. CASE SeedStops
  <2> DEFINE q == [NoSeed EXCEPT !.step = "stopped"]
  <2>1. q \in SeedRecord /\ q.copied = FALSE
    BY NoSeedIs DEF SeedRecord
  <2>2. seed' = q /\ UNCHANGED <<file, env, copied>>
    BY <1>10 DEF SeedStops, disk
  <2> HIDE DEF q
  <2>3. QED
    BY <1>2, <2>1, <2>2
<1>11. QED
  <2>1. CASE UNCHANGED deployVars \/ StrangerCalls
    BY <1>1, <2>1 DEF deployVars, StrangerCalls, disk
  <2>2. QED
    BY <1>3, <1>4, <1>5, <1>6, <1>7, <1>8, <1>9, <1>10, <2>1 DEF DeployNext

-----------------------------------------------------------------------------

LEMMA EnvOf == Contracts /\ OfOver => EnvWorks
<1> SUFFICES ASSUME Contracts, OfOver PROVE EnvWorks
  OBVIOUS
<1>1. file # NoRun => Works(file)
  BY OverWorks DEF OfOver
<1>2. ASSUME copied PROVE Verifies /\ \E r \in Runs : Works(r) /\ \A n \in Names : env[n] = r
  <2>1. PICK r \in Runs : IsOver(r) /\ \A n \in Names : env[n] = r
    BY <1>2 DEF OfOver
  <2>2. Works(r) /\ keychain \in Accounts
    BY <2>1, OverWorks
  <2>3. Configured
    BY <2>1, NotRuns DEF Configured
  <2>4. \A n \in Names : Answers(n)
    BY <2>1, <2>2, NamesAre DEF Works, Answers
  <2>5. entry[env["registry"]] # NoRun
    BY <2>1, <2>2, NamesAre, NotRuns DEF Works
  <2>6. QED
    BY <2>1, <2>2, <2>3, <2>4, <2>5 DEF Verifies
<1>3. QED
  BY <1>1, <1>2 DEF EnvWorks

SeedReleasesOwn ==
    seed.copied /\ seed.releasedAt # NoRun => seed.releasedAt = seed.lockedAt

LEMMA SeedOf == OfOver => SeedReleasesOwn
BY DEF OfOver, SeedReleasesOwn

LEMMA TypesOf == Contracts /\ OfOver /\ seed \in SeedRecord => DeployTypeOK
BY DEF Contracts, ContractsOK, OfOver, SeedRecord, DeployTypeOK

\* The inductive invariant of the deployment.
DeployInv == Contracts /\ OfOver /\ seed \in SeedRecord

THEOREM DeployInvariant == DeploySpec => []DeployInv
<1>1. DeployInit => DeployInv
  BY ContractsInit, OfOverInit DEF DeployInv
<1>2. DeployInv /\ [DeployNext]_deployVars => DeployInv'
  BY ContractsNext, OfOverNext DEF DeployInv
<1>3. QED
  BY <1>1, <1>2, PTL DEF DeploySpec

\* Every variable of the scripts, the contracts and the files keeps its type.
THEOREM DeployTypeCorrect == DeploySpec => []DeployTypeOK
<1>1. DeployInv => DeployTypeOK
  BY TypesOf DEF DeployInv
<1>2. QED
  BY <1>1, DeployInvariant, PTL

\* What deploy.ts writes to .env.contracts works for good, and so does a copy of
\* it, whatever failed and whoever called the contracts between its steps.
THEOREM EnvAlwaysWorks == DeploySpec => []EnvWorks
<1>1. DeployInv => EnvWorks
  BY EnvOf DEF DeployInv
<1>2. QED
  BY <1>1, DeployInvariant, PTL

\* The seed script with a copied .env releases the escrow its own payment was
\* locked in, not the one of the same id at another contract: the contract is
\* found by the registry for the one and by .env for the other, and .env may be
\* replaced while the script runs.  (Nothing keeps a .env that mixes two
\* deployments by hand from it.)
THEOREM SeedReleasesItsOwn == DeploySpec => []SeedReleasesOwn
<1>1. DeployInv => SeedReleasesOwn
  BY SeedOf DEF DeployInv
<1>2. QED
  BY <1>1, DeployInvariant, PTL
=============================================================================
