----------------------------- MODULE AgonArena ------------------------------
(***************************************************************************)
(* AgonArena.sol, and the rows the backend keeps of its evaluations.  The  *)
(* owner of a listed agent requests an evaluation on chain, an evaluator   *)
(* starts it, the participant anchors evidence, the evaluator scores it;   *)
(* whatever is still open after expiresAt may be expired by anyone.  A row *)
(* is prepared first, marked by its owner as the transactions go out, and  *)
(* reconciled with the chain; unlike the marks, reconcile takes no lock.   *)
(*                                                                         *)
(* A request hash stands for the task, capability and evaluator version it *)
(* commits to.  The participant's wallet anchors the evidence root of the  *)
(* row ("pinned") or another one.                                          *)
(***************************************************************************)
EXTENDS AgonServiceRegistry, BlockTime

CONSTANTS RequestHashes,  \* validation request hashes
          Recorded,       \* bound: the requests the backend has a row for
          MaxEvaluations, \* bound: evaluations ever requested
          Expiries,       \* bound: the expiry times asked for
          ArenaReaders    \* concurrent reconcile requests

ASSUME ArenaAssumption == /\ Recorded \subseteq RequestHashes
                          /\ MaxEvaluations \in Nat
                          /\ Expiries \subseteq Nat

VARIABLES arenaPaused,  \* whenNotPaused
          evaluations,  \* evaluations[e]: the Evaluation of id e
          rows,         \* rows[h]: the row of agon_arena_evaluations, or NoRow
          reconciles    \* reconciles[r]: where the reconcile request r stands

arenaVars == <<arenaPaused, evaluations, rows, reconciles>>
chainVars == <<identityOwner, registryVars, now>>

ArenaState == {"Pending", "Active", "Submitted", "Verified", "Rejected", "Expired", "Revoked"}
OpenStates == {"Pending", "Active", "Submitted"}
Evaluation == [hash: RequestHashes, listing: Nat, version: Nat, participant: Accounts,
               expiresAt: Expiries, evidence: {"none", "pinned", "other"},
               submittedAt: Nat, state: ArenaState]

(* The row's name for a state of the contract, and its place in the order. *)
RowState == [Pending |-> "request_submitted", Active |-> "evidence_ready",
             Submitted |-> "evidence_submitted", Verified |-> "verified",
             Rejected |-> "rejected", Expired |-> "expired", Revoked |-> "revoked"]
rank == [prepared |-> 0, request_submitted |-> 1, evidence_ready |-> 2, evidence_submitted |-> 3,
         verified |-> 4, rejected |-> 4, expired |-> 4, revoked |-> 5]
NoRow  == [state |-> "none"]
Row    == [listing: Nat, version: Nat, participant: Accounts, expiresAt: Expiries,
           evaluationId: 0..MaxEvaluations, state: DOMAIN rank]
Idle   == [phase |-> "idle"]
Recon  == [phase: {"read", "checked"}, hash: Recorded, state: DOMAIN rank]
-----------------------------------------------------------------------------
(* The contract. *)
requestEvaluation(sender, h, id, expiry) ==
    /\ ~arenaPaused
    /\ Len(evaluations) < MaxEvaluations
    /\ expiry > now
    /\ \A e \in DOMAIN evaluations : evaluations[e].hash # h
    /\ listings[id].status = "Listed"
    /\ currentOwner(listings[id].agentId) = sender
    /\ evaluations' = Append(evaluations,
          [hash |-> h, listing |-> id, version |-> listings[id].version, participant |-> sender,
           expiresAt |-> expiry, evidence |-> "none", submittedAt |-> 0,
           state |-> "Pending"])
    /\ UNCHANGED <<arenaPaused, rows, reconciles>>

startEvaluation(e) ==
    /\ ~arenaPaused
    /\ evaluations[e].state = "Pending"
    /\ now < evaluations[e].expiresAt
    /\ evaluations' = [evaluations EXCEPT ![e].state = "Active"]
    /\ UNCHANGED <<arenaPaused, rows, reconciles>>

(* Mutant: the participant may be late. *)
LateEvidence(sender, e, root) ==
    /\ ~arenaPaused
    /\ sender = evaluations[e].participant
    /\ evaluations[e].state = "Active"
    /\ evaluations' = [evaluations EXCEPT ![e].state = "Submitted", ![e].evidence = root,
                                          ![e].submittedAt = now]
    /\ UNCHANGED <<arenaPaused, rows, reconciles>>

(* The sender is compared with the participant of the request, not with    *)
(* the agent's current owner.                                              *)
submitEvidence(sender, e, root) ==
    /\ ~arenaPaused
    /\ sender = evaluations[e].participant
    /\ evaluations[e].state = "Active"
    /\ now < evaluations[e].expiresAt
    /\ evaluations' = [evaluations EXCEPT ![e].state = "Submitted", ![e].evidence = root,
                                          ![e].submittedAt = now]
    /\ UNCHANGED <<arenaPaused, rows, reconciles>>

(* A submitted evaluation may be scored after its expiry. *)
scoreEvaluation(e, passed) ==
    /\ ~arenaPaused
    /\ evaluations[e].state = "Submitted"
    /\ evaluations' = [evaluations EXCEPT ![e].state =
                           IF passed THEN "Verified" ELSE "Rejected"]
    /\ UNCHANGED <<arenaPaused, rows, reconciles>>

(* Mutant: like every other call, expiry waits for the pause to end. *)
ExpireUnlessPaused(e) ==
    /\ ~arenaPaused
    /\ evaluations[e].state \in OpenStates
    /\ now >= evaluations[e].expiresAt
    /\ evaluations' = [evaluations EXCEPT ![e].state = "Expired"]
    /\ UNCHANGED <<arenaPaused, rows, reconciles>>

expireEvaluation(e) ==
    /\ evaluations[e].state \in OpenStates
    /\ now >= evaluations[e].expiresAt
    /\ evaluations' = [evaluations EXCEPT ![e].state = "Expired"]
    /\ UNCHANGED <<arenaPaused, rows, reconciles>>

revokeEvaluation(e) ==
    /\ evaluations[e].state \in {"Verified", "Rejected"}
    /\ evaluations' = [evaluations EXCEPT ![e].state = "Revoked"]
    /\ UNCHANGED <<arenaPaused, rows, reconciles>>

SetPaused ==
    /\ arenaPaused' = ~arenaPaused
    /\ UNCHANGED <<evaluations, rows, reconciles>>
-----------------------------------------------------------------------------
(* The rows.  Only the provider of the listing version it reads prepares   *)
(* one; the projection it reads may be behind the chain.                   *)
prepareAgonArenaEvaluation(h, id, expiry) ==
    /\ rows[h] = NoRow
    /\ expiry > now
    /\ \E v \in DOMAIN versions[id] :
          rows' = [rows EXCEPT ![h] = [listing |-> id, version |-> v, expiresAt |-> expiry,
                       participant |-> versions[id][v].providerSnapshot,
                       evaluationId |-> 0, state |-> "prepared"]]
    /\ UNCHANGED <<arenaPaused, evaluations, reconciles>>

(* The owner names the evaluation; nothing checks it here. *)
markAgonArenaEvaluationRequested(h, e) ==
    /\ rows[h].state = "prepared"
    /\ rows' = [rows EXCEPT ![h].state = "request_submitted", ![h].evaluationId = e]
    /\ UNCHANGED <<arenaPaused, evaluations, reconciles>>

markAgonArenaEvaluationStarted(h) ==
    /\ rows[h].state = "request_submitted"
    /\ rows' = [rows EXCEPT ![h].state = "evidence_ready"]
    /\ UNCHANGED <<arenaPaused, evaluations, reconciles>>

markAgonArenaEvidenceSubmitted(h) ==
    /\ rows[h].state \in {"request_submitted", "evidence_ready"}
    /\ rows' = [rows EXCEPT ![h].state = "evidence_submitted"]
    /\ UNCHANGED <<arenaPaused, evaluations, reconciles>>

(* Mutant: any evaluation of the same listing and participant will do. *)
MatchesAnyRequest(h, row, e) ==
    /\ e.listing = row.listing
    /\ e.version = row.version
    /\ e.participant = row.participant
    /\ e.expiresAt = row.expiresAt
    /\ e.state \in {"Pending", "Active"} \/ e.evidence = "pinned"

(* From Submitted on, the evidence root must be the row's: an evaluation   *)
(* that expired without evidence has none, and does not match either.      *)
Matches(h, row, e) ==
    /\ e.hash = h
    /\ e.listing = row.listing
    /\ e.version = row.version
    /\ e.participant = row.participant
    /\ e.expiresAt = row.expiresAt
    /\ e.state \in {"Pending", "Active"} \/ e.evidence = "pinned"

(* Mutant: only an evaluation whose evidence was marked is looked up. *)
InspectMarked(r, h) ==
    LET id == rows[h].evaluationId IN
    /\ reconciles[r] = Idle
    /\ rows[h].state = "evidence_submitted"
    /\ id \in DOMAIN evaluations
    /\ Matches(h, rows[h], evaluations[id])
    /\ reconciles' = [reconciles EXCEPT ![r] = [phase |-> "read", hash |-> h,
                                                state |-> RowState[evaluations[id].state]]]
    /\ UNCHANGED <<arenaPaused, evaluations, rows>>

(* reconcileAgonArenaEvaluation, in the service: the row, then the chain. *)
inspectArenaEvaluation(r, h) ==
    LET id == rows[h].evaluationId IN
    /\ reconciles[r] = Idle
    /\ rows[h] # NoRow
    /\ id \in DOMAIN evaluations
    /\ Matches(h, rows[h], evaluations[id])
    /\ reconciles' = [reconciles EXCEPT ![r] = [phase |-> "read", hash |-> h,
                                                state |-> RowState[evaluations[id].state]]]
    /\ UNCHANGED <<arenaPaused, evaluations, rows>>

Accepts(from, to) ==
    /\ rank[to] >= rank[from]
    /\ from \in {"verified", "rejected", "expired", "revoked"} /\ to # from
          => from \in {"verified", "rejected"} /\ to = "revoked"

(* ... in the repository: the row is read and compared, ... *)
checkAgonArenaEvaluation(r) ==
    /\ reconciles[r].phase = "read"
    /\ reconciles' = [reconciles EXCEPT ![r] =
          IF Accepts(rows[reconciles[r].hash].state, reconciles[r].state)
          THEN [reconciles[r] EXCEPT !.phase = "checked"] ELSE Idle]
    /\ UNCHANGED <<arenaPaused, evaluations, rows>>

(* ... and updated in a statement of its own. *)
updateAgonArenaEvaluation(r) ==
    /\ reconciles[r].phase = "checked"
    /\ rows' = [rows EXCEPT ![reconciles[r].hash].state = reconciles[r].state]
    /\ reconciles' = [reconciles EXCEPT ![r] = Idle]
    /\ UNCHANGED <<arenaPaused, evaluations>>
-----------------------------------------------------------------------------
ArenaInit == /\ TimeInit
             /\ IdentityInit
             /\ RegistryInit
             /\ arenaPaused = FALSE
             /\ evaluations = << >>
             /\ rows = [h \in Recorded |-> NoRow]
             /\ reconciles = [r \in ArenaReaders |-> Idle]

ContractStep ==
    \/ \E s \in Accounts, h \in RequestHashes, id \in DOMAIN listings, t \in Expiries :
           requestEvaluation(s, h, id, t)
    \/ \E e \in DOMAIN evaluations :
           \/ startEvaluation(e)
           \/ \E s \in Accounts, root \in {"pinned", "other"} : submitEvidence(s, e, root)
           \/ \E passed \in BOOLEAN : scoreEvaluation(e, passed)
           \/ expireEvaluation(e)
           \/ revokeEvaluation(e)
    \/ SetPaused

RowStep ==
    \/ \E h \in Recorded, id \in DOMAIN listings, t \in Expiries :
           prepareAgonArenaEvaluation(h, id, t)
    \/ \E h \in Recorded :
           \/ \E e \in 1..MaxEvaluations : markAgonArenaEvaluationRequested(h, e)
           \/ markAgonArenaEvaluationStarted(h)
           \/ markAgonArenaEvidenceSubmitted(h)
           \/ \E r \in ArenaReaders : inspectArenaEvaluation(r, h)
    \/ \E r \in ArenaReaders : checkAgonArenaEvaluation(r) \/ updateAgonArenaEvaluation(r)

ArenaNext ==
    \/ ContractStep /\ UNCHANGED chainVars
    \/ RowStep /\ UNCHANGED chainVars
    \/ RegistryNext /\ UNCHANGED <<identityOwner, now, arenaVars>>
    \/ \E a \in AgentIds, to \in Accounts :
           TransferIdentity(a, to) /\ UNCHANGED <<registryVars, now, arenaVars>>
    \/ Tick /\ UNCHANGED <<identityOwner, registryVars, arenaVars>>

ArenaSpec == ArenaInit /\ [][ArenaNext]_<<chainVars, arenaVars>>

(* Fairness: time passes, anyone may expire an evaluation and somebody     *)
(* does, the owner of a row asks for its reconciliation again and again,   *)
(* and a request that has started ends.                                    *)
ArenaFairness ==
    /\ WF_<<chainVars, arenaVars>>(Tick /\ UNCHANGED <<identityOwner, registryVars, arenaVars>>)
    /\ \A e \in 1..MaxEvaluations : WF_<<chainVars, arenaVars>>(
           e \in DOMAIN evaluations /\ expireEvaluation(e) /\ UNCHANGED chainVars)
    /\ \A h \in Recorded : SF_<<chainVars, arenaVars>>(
           (\E r \in ArenaReaders : inspectArenaEvaluation(r, h)) /\ UNCHANGED chainVars)
    /\ \A r \in ArenaReaders : WF_<<chainVars, arenaVars>>(
           (checkAgonArenaEvaluation(r) \/ updateAgonArenaEvaluation(r)) /\ UNCHANGED chainVars)

FairArenaSpec == ArenaSpec /\ ArenaFairness
-----------------------------------------------------------------------------
ArenaTypeOK ==
    /\ TimeTypeOK /\ RegistryTypeOK
    /\ arenaPaused \in BOOLEAN
    /\ evaluations \in Seq(Evaluation)
    /\ rows \in [Recorded -> Row \cup {NoRow}]
    /\ reconciles \in [ArenaReaders -> Recon \cup {Idle}]

(* A verdict, revoked or not, was given on evidence anchored before the    *)
(* expiry of the evaluation, though it may itself come after it.           *)
VerdictOnTimelyEvidence ==
    \A e \in DOMAIN evaluations :
        evaluations[e].state \in {"Verified", "Rejected", "Revoked"} =>
            /\ evaluations[e].submittedAt # 0
            /\ evaluations[e].submittedAt < evaluations[e].expiresAt

(* A verdict in the backend is one the contract gave to the row's own      *)
(* request, on the row's own evidence; only its revocation may be news.    *)
VerdictIsTheChains ==
    \A h \in Recorded :
        rows[h].state \in {"verified", "rejected", "expired", "revoked"} =>
            /\ rows[h].evaluationId \in DOMAIN evaluations
            /\ LET e == evaluations[rows[h].evaluationId] IN
               /\ e.hash = h
               /\ e.evidence = "pinned"
               /\ e.state = "Revoked" \/ RowState[e.state] = rows[h].state

(* Every evaluation ends: with a verdict, or expired after its time, even  *)
(* while the contract is paused.                                           *)
OpenEvaluationsEnd ==
    \A e \in 1..MaxEvaluations :
        e \in DOMAIN evaluations ~>
            e \in DOMAIN evaluations /\ evaluations[e].state \notin OpenStates

BoundTo(h, s) ==
    /\ rows[h] # NoRow
    /\ rows[h].evaluationId \in DOMAIN evaluations
    /\ LET e == evaluations[rows[h].evaluationId] IN e.state \in s /\ Matches(h, rows[h], e)

(* Whatever unlocked and late reconciles write in between, a row ends up   *)
(* with the expiry, revocation or verdict of its evaluation.               *)
RowsCatchUp ==
    \A h \in Recorded :
        BoundTo(h, ArenaState \ OpenStates) ~>
            /\ BoundTo(h, ArenaState \ OpenStates)
            /\ rows[h].state = RowState[evaluations[rows[h].evaluationId].state]
=============================================================================
