# ArcRun / Agon: TLA+ models and proofs

Formal models of the custody contracts of this repository and of the parts of its back end that
move money or keep a record of money, the TLC configurations that check them on small instances,
and TLAPS proofs of their main properties for every value of the constants. Paths are relative to
the repository root; back end paths without a prefix are under `backend/src`.

- [1. The system](#1-the-system): inventory of components, their state, operations and hazards
- [2. Modules](#2-modules): which module models what, and how its state and actions map to code
- [3. Runs](#3-runs): what each TLC run checks, its bounds, its fairness
- [4. Proofs](#4-proofs): what is proved, from which assumptions and along which argument
- [5. Where the code and its documents differ](#5-where-the-code-and-its-documents-differ)
- [6. What is not modelled](#6-what-is-not-modelled)

## 1. The system

Two generations of one product live side by side. The legacy **ArcRun** contracts run contests and
challenges between agents; **Agon** is a market of agent services with jobs held in escrow, x402
calls paid through Circle, evaluations and prize pools. Solidity contracts (`contracts/src`) hold
all money and are the final authority; a TypeScript back end coordinates contests, executes
payments, indexes events into Postgres and serves the HTTP API.

    buyer, provider, DAO, evaluator                 back end (HTTP, workers, Postgres)
          |                                              |
    AgonServiceRegistry <-- AgonJobEscrowV2 <----- job records      write adapter, indexer,
      (listing, version) <-- AgonArena     <------ arena rows       listing tables
          |                  AgonPrizeVault              |
    AgonProfileRegistry / ERC-8004 identity        x402 receipts ---- provider, Circle
      (external, transferable)                     agent spending --- Circle wallets
                                                   escrow execution
                                                         |
    AgentRegistry <--- ContestEngine ---> PrizeEscrow <--+   ChallengeArena ---> AgentRegistry
    (tiers, standing)   (contests)      (one pot of USDC)      (stakes)
                            |
                       coordinator: settles contests, divides pools, returns join fees

### Contracts

**AgonJobEscrowV2** (`contracts/src/AgonJobEscrowV2.sol`).
State: `jobs` (a pinned version, buyer, payee, amounts, status, deadlines), the idempotency
table `jobByReference`, the protocol fee with its timelocked successor, treasury, pause flag.
Operations: `createJob`, `acceptJob`, `submitJob`, `acceptSubmission`, `rejectSubmission`,
`autoAccept`, `openDispute`, `resolveDispute`, `failJob`; the three of the fee's timelock;
`pause`, `unpause`, `setTreasury`.
Hard: time windows that must not overlap; parties who change while a job runs (the identity is
transferable, the listing is replaced); a fee that changes between quote and settlement; a retried
`createJob`.
Correct when: the balance is the sum of the open jobs, each account's balance is explained by the
job records, submitted work is paid or judged and never silently refunded, a job stays what was
bought, it does only what the back end's life cycle says a job does, and every escrowed amount
leaves in the end.

**AgonServiceRegistry**. State: listings and their version history. Operations: `publish`,
`publishVersion`, `setStatus`, `setVerification`, `escrowEligible`. Hard: what a buyer, an anchor
or a reader saw may be stale; a verification survives a new version. Correct when: a listing's head
agrees with its history and history is never rewritten.

**AgonArena**. State: evaluations of a listed agent, each `Pending` to `Submitted` and then a
verdict, an expiry or a revocation. Operations: `requestEvaluation`, `startEvaluation`,
`submitEvidence`, `scoreEvaluation`, `expireEvaluation`, `revokeEvaluation`, pause. Hard: evidence at
the deadline, a verdict after it, an identity that changes hands on the way. Correct when: a verdict
rests on evidence that was in time, and every evaluation ends.

**AgonPrizeVault**. State: pools (principal, fee, payout root and total, claimed, deadline), the
claim bitmap. Operations: `createPool`, `publishPayoutRoot`, `claim`, `refundRemaining`, pause,
treasury. Hard: a root that promises more than the pool holds or repeats an index; claims racing the
refund at the deadline; all pools in one balance. Correct when: the balance is the sum of the pools'
remainders, an honest root pays everyone in any order, the remainder goes back in the end.

**PrizeEscrow, ContestEngine, ChallengeArena**. State: one pool per (controller, id) in the escrow;
contests and challenges with status, entries, stakes, roots, claims and refunds. Operations: every
function of the three. Hard: both engines number from 1 and share one escrow; refunds and payouts
of one pool exclude each other only through the status; who may cancel depends on role, status and
time. Correct when: pools stay apart, stakes and prizes stay covered until they are paid or
returned, and nothing waits for ever on a coordinator who stays away.

**AgentRegistry**. State: agents (owner, tiers, reputation with the day of its last change), caps and
prices. Operations: `createAgent`, `upgradeAgent`, `applyReputationChange`, settings, the lazy decay
of `getEffectiveReputation`. Hard: decay in whole days with integer rounding, rebased by each write;
saturation at both ends. Correct when: standing rises only by a result, by no more than its worth.

### Back end

**Job life cycle policy** (`agon/job-lifecycle.ts`): pure; which party may take which action when.
It is the abstract specification of a job.

**Job records** (`agon/store/repository.ts`, `agon/http/service.ts`, job intent handlers;
`agon/execution/job-escrow-state.ts`). State: `agon_job_escrow_intents`, pinned to a listing version
and a fee. Operations: prepare, mark as submitted, reconcile. Hard: the chain is read before the row
is locked, listing and fee move between quote and transaction. Correct when: a record is bound to
a job on its own terms, an older reading never undoes a newer one, settlements arrive.

**x402 receipts** (`agon/execution/x402-*.ts` and the x402 handlers). State: one receipt per call
intent with a state, a settlement marker, a transfer id; delivery evidence; outside it the transfer
at Circle. Operations: approve, quote, authorize, submit, settle, reconcile, delivery evidence, each
a sequence of awaits. Hard: requests interleave at each await, a process dies between two of them,
an answer is lost, evidence arrives before the reference it belongs to. Correct when: reconciled
means paid and delivered, failed means unpaid, what is delivered and paid reconciles.

**Agent wallet spending** (`agon/execution/x402-agent-executor.ts`, `x402-agent-policy.ts`,
`agon/store/x402-agent-policy.ts`). State: a policy row, one spend row per idempotency key.
Operations: `setPolicy`, `reserve`, the adapter's call, `transition`, `confirm`. Hard: concurrent
reservations against a daily cap that may be lowered meanwhile, midnight, outcomes nobody knows.
Correct when: the day's charges stay within the cap they were checked against, a key is called once,
a failed spend was never charged.

**Escrow execution** (`agon/execution/escrow-*.ts`, `agon/escrow-policy.ts`, the three lifecycle
handlers). State: escrow intents, approvals, transactions, the PrizeEscrow pool. Operations: approve,
fund, release, refund. Hard: marker before the transaction, receipts that time out, two actions on
one intent. Correct when: one call holds the marker, an intent is funded once and before it pays out,
the record never claims what did not happen.

**Indexer, projector, write adapter** (`agon/indexer.ts`, `agon/store/projector.ts`,
`agon/write/adapter.ts`, certification jobs). State: cursor, `agon_listings`, the anchors of reviewed
versions, certification jobs. Operations: a batch of events in one transaction; publish, confirm,
backfill. Hard: anchors are stored before signing and confirmed afterwards, owners also publish
without the back end, READ COMMITTED shows each query another state, a batch may be lost. Correct
when: the market shows a listing as active only at a version that was reviewed, the tables match
the log, every event is projected.

**Arena rows** (`agon_arena_evaluations`). Operations: prepare, three marks, an unlocked reconcile.
Hard: the reconcile reads row and chain and writes later without a lock. Correct when: a row never
shows a verdict its own request did not get, and follows its evaluation to the end.

**Coordinator, contests** (`coordinator/runContestById.ts`, `autopilot.ts`, `adminCommands.ts`,
`contestOps.ts`, `runners/missions/fees.ts`, the cancel and withdraw handlers of `auth/index.ts`).
State: the in-memory guard `inFlight`, payout rows, missions, the marks of returned fees; the
wallet's pending transactions. Operations: a run (wait, score, store rows, `postScoreRoot`, `settle`
or `cancelContest`, return fees), its retry, admin cancel, API cancel, refund script, withdrawal.
Hard: a run fails between any two of these, its transaction is mined after its timeout, the process
restarts. Correct when: the posted root is the root of the stored rows, a due contest does not stay
open, a fee is returned once.

**Coordinator, payout arithmetic** (`coordinator/payouts.ts`, `scoring/prediction.ts`): pure; every
curve in integer divisions. Correct when: the leaves add up to the pool and none is negative.

**External**: USDC, the ERC-8004 identity registry (of `AgonProfileRegistry.sol` only
`currentOwner`), block time and the mempool, x402 providers, Circle, the agent wallets. They are
modelled from how the code uses them and marked external.

Components without a model are listed in section 6. Every hazard, modelled or not, is listed at its
line in `PROJECT.json` with the properties that cover it or the reason none does.

## 2. Modules

| Module | Models | Built on |
| --- | --- | --- |
| `BlockTime`, `USDC`, `Addresses`, `AgonIdentity` | block time; exact transfers; the callers; who owns an identity | |
| `Sums` | `SumTo(f, n)`, a sum as a recursive function | |
| `Custody` | the abstract contract every custodian implements | `Sums` |
| `JobLifecycle` | the abstract life cycle of a job (`job-lifecycle.ts`) | |
| `AgonServiceRegistry` | listings, versions, verification | `AgonIdentity` |
| `AgonProtocolFee`, `AgonFeeQuote` | fee and timelock; the same with a reader of the fee | `BlockTime` |
| `AgonJobEscrow` | AgonJobEscrowV2 | the four above, instances of `Custody` and `JobLifecycle` |
| `AgonPrizeVault` | AgonPrizeVault | `BlockTime`, `USDC`, instance of `Custody` |
| `AgonArena` | AgonArena and the back end's rows | `AgonServiceRegistry`, `BlockTime` |
| `AgentRegistry`, `PrizeEscrow`, `ContestEngine`, `ChallengeArena` | the legacy contracts | `BlockTime`, `USDC` |
| `ArcRunCustody` | their composition | all four, instance of `Custody` |
| `JobRecord` | job intents over the chain's jobs | |
| `X402Receipt`, `X402Settlement` | the receipt's states; the requests, provider, Circle, crashes | |
| `AgentSpend` | agent wallet spending | `Sums` |
| `EscrowExecution` | escrow execution | |
| `ListingIndex` | registry log, projector, write adapter, backfill | `AgonServiceRegistry` |
| `ContestSettlement` | the coordinator's settlement of one contest | |
| `Payouts` | the payout curves | |
| `MCAgonJobEscrow`, `MCAgonCompetition`, `MCArcRunCustody`, `MCReconcile`, `MCBackend` (over `MCExecution`, `MCListingIndex`) | instances for TLC | |
| `*Proofs` | theorems and lemmas | the module they are about, `TLAPS` |

**Contracts.** A contract's storage is the module's variables under the Solidity names, a `mapping`
is a function, a struct a record. An external function is one action with the caller and arguments
bound by `\E`: a `revert` condition is a guard, because a reverted transaction leaves no trace, and
the effects are its primed variables, token transfers included. A transaction is atomic and the
functions that move money are `nonReentrant`, so one action per function loses no interleaving: what
interleaves is whole transactions of all callers and contracts, and the passing of time. Fields no
decision reads (hashes, URIs, metrics, names) are left out. Administrator-only functions are
ordinary actions whose caller is left unnamed, so an administrator may act at any time; roles that
make a difference to a guard (creator, privileged canceller, current owner) are explicit.

**Merkle roots** are the set of leaves they commit to (in the coordinator, where a root is computed
from rows in order, the list): a proof verifies exactly for the leaves, which is what a
collision-free hash gives.

**Time** is one global tick that any action may precede; deadlines and windows are compared with the
operator the code uses (`<` or `<=`). Hours and days are ticks or small multiples.

**The back end.** A request is a record (or control variable) that says where it is and what it keeps
across an await; a step is what runs between two awaits. A row-locked read-check-write of the store
is one action; a read without a lock and the later write are two. Processes die between any two
steps wherever the module has a `crash`, `Crash`, `Die` or `restart`.

- `X402Settlement`: `pc[c]` and `rpc[r]` are settle and reconcile requests. The provider and Circle
  are nondeterministic: accept, refuse, lose the answer, name the payment by a transaction or by a
  transfer id, confirm or fail. One transfer per authorization is what the nonce gives.
- `JobRecord`: the chain's jobs move as `JobLifecycle` says, without its deadlines; listing version and
  fee rate move too. `inspect` reads the chain, `reconcileAgonJobEscrowIntent` locks the row and
  writes by the transition table of `job-escrow-state.ts`.
- `AgentSpend`: `reserve` is the transaction under the policy's row lock; `settle` is the adapter,
  which may transfer, refuse, throw, or transfer and throw; `Midnight` changes `utcDay`.
- `EscrowExecution`: the gates of `service.ts` (`CheckPool`, `CheckApproval`), the orchestrator
  (`ReadIntent`, `Mark`, `Record`), adapter and writer (`Write`, `Receipt`), and the chain (`Include`),
  which may include a transaction after its receipt has timed out. The controller also uses the
  pool for itself. It is the runtime with every execution switch on.
- `ListingIndex`: `log` is the registry's event log; `tx` is the projector's open transaction, one
  step per query; the adapter's two halves, and the backfill, commit between them.
- `AgonArena`: beside the contract, `prepare`, three marks, and `inspect`, `check`, `update` of a
  reconcile that holds no lock.
- `ContestSettlement`: `run.at` is the place in `runContestById`; `inFlight` is held while `run` is
  not `Idle`; `mempool` keeps what the wallet sent, mined in order, each with who still waits.
  `faults` bounds failing calls, timeouts and crashes together. It takes every tree as encodable
  (see `payout_rounding`), and updates of a row's status do not fail. Its one contest is among the
  latest 100, as `findDueContests` looks no further back: an older one is found by nobody.
- `Payouts`: entrants are places in the result list; scores are in hundredths, as the ranks of
  syndicates make them fractional. A rank is the number of entrants that sort before one, which is what
  the comparators' stable sorts compute (leaves of equal amounts in the order they were first added
  to the map); a curve fills a function of the entrants and lists it in that
  order.

### Mutants

`PROJECT.json` names, for each property of a passing run, a mutant: an operator next to the
definition it replaces (its comment starts with "Mutant:") that is wrong the way a plausible bug
would be: a dropped guard, a key without its controller, a missing reset, an unlocked second
try. Under the mutant TLC finds the property violated, so no property holds vacuously.

## 3. Runs

`tlc -config X.cfg M` for each row; every bound is a constant of the cfg. Components that share no
state are checked side by side in one instance: an MC module lets one of them move while the others
are where they began. Their interleavings would show nothing more, since no action of one reads or
writes what another has, and fairness of the parts that stand still asks for nothing, because no fair
action of theirs is enabled where they begin. `MCAgonCompetition` shares the clock between its two
parts and nothing else.

| Run | Module | States | Question |
| --- | --- | --- | --- |
| `job_escrow` | `MCAgonJobEscrow` | 664,252 | custody, pinning, idempotency, protection of submitted work, the life cycle and release of every amount, on every interleaving |
| `reconcile` | `MCReconcile` | 332,195 | what is recorded from an outside reading is true, and what settled is recorded |
| `backend` | `MCBackend` | 1,049,124 | no key charged twice or over the cap, no intent funded twice, listing tables that match the log |
| `agon_competition` | `MCAgonCompetition` | 785,058 | prize pools under bad roots; evaluations and their rows |
| `arcrun_custody` | `MCArcRunCustody` | 517,608 | a contest and a challenge with one id; standing; the coordinator's settlement; every payout curve |
| `x402_duplicate`, `escrow_replay`, `job_record_stuck`, `index_stuck`, `contest_stuck`, `mission_fee_twice`, `payout_rounding` | | violations | section 5 |

### Properties, and why the bounds show them

**job_escrow.** `Solvency` (balance = sum over open jobs), `AccountsReconcile` (the balance of each
account follows from the job records), `JobPinnedToVersion`, `ReferencesUnique`,
`SubmittedWorkIsPaidOrJudged` (submitted work is refunded only by the resolver after a rejection, and
once its review window is over it can only be paid), `ImplementsLifecycle` (each job refines
`JobLifecycle`), `EscrowedFundsReleased`. Two jobs are what isolation between jobs, and a retried
reference, need; one listing with two versions and one transferable identity let every party change
under a job; amount 20 at 500 bps gives a fee of 1, amount 0 is refused, a fee of 0 pays in one
transfer. In a horizon of 4 with a review window of one tick a deadline is met, hit exactly and missed;
jobs are created up to tick 1, so that their windows close within the horizon. The refinement of
`Custody` needs no run: it is proved.
Fairness: time passes; somebody calls `autoAccept` once it is open (anyone may); the buyer calls
`failJob` when the provider missed the deadline, a party opens the dispute that is its own only way
to the money, and the resolver rules. Each is the caller's own interest or stated duty. Nothing is
assumed of provider, verifier, pauser or admin.

**reconcile.** Three parts.
*Job records*: two intents for the same terms, two reconcile requests, two jobs, two versions, fee
rates 0 and 500. `BoundToItsTerms`, `StaleReadsDropped` (a record moves only the way its job does;
the table's one step back is from a dispute to the rejection before it),
`UndisputedSettlementRecorded`. `JobBound` lets one request at a time run once two jobs exist;
`Tracked` says whose owner comes back. Fairness: a request that has read goes on; its owner polls
again and again (strongly fair, as another request may be in the way).
*Fee notice*: the real cap, a delay of 3 ticks within 9 and a rate above the cap, so that schedule,
cancel and reschedule fit before and after a reading. `QuoteHolds`: a fee read while no change was
pending is in force until the delay has passed.
*x402*: two settle requests, one reconcile request that may run again and again, one reporting
provider, both ways of naming a payment, and every request may crash. `ReconciledIsProven`,
`FailedIsUnpaid`, `DeliveredIsReconciled`. Fairness: a request under way takes its next step (a
crash may still end it), Circle decides, and reconciliation is tried until no outage hits it
(strongly fair: each try starts from the beginning). Nothing is assumed of the provider.

**backend.** Three parts.
*Spending*: two calls, two keys, two days, two recipients, amounts 1 and 2, and four policies (a
generous cap, a lower one for one recipient, no wallet, switched off): two calls are what a race for
the cap needs, the second day shows what midnight forgets. `ChargesWithinCap`, `CalledAtMostOnce`,
`FailedIsUncharged`.
*Execution*: one intent, two requests, up to three transactions, a pool the controller also moves
(`MaxPool` 2). `OneCallHoldsTheMarker`, `FundedOnceBeforePayout`, `RecordMatchesChain`.
*Index*: one listing of two versions, three events, one publisher beside the owner who publishes on
his own, one lost batch. By symmetry the first version is that of a given owner and manifest
(`FirstByAlice`). `EffectiveIsReviewed`, `TablesMatchLog`, `IndexCatchesUp`. Fairness: the indexer's
loop goes on; `MaxFailures` bounds what it loses.

**agon_competition.** Two parts.
*Vault*: two pools, the first funded first (they are alike), two claimants, a treasury that moves
once, principals 0 and 3, a fee of half of it, rounded down to 1, and a rate that is too high; roots
that are honest, over-pay, or repeat an index; deadlines 2 and 3 in a horizon of 3.
`VaultSolvency`, `HonestRootPaysEveryone` (a leaf not yet claimed is covered, whatever was claimed
before), `RemainderReturned`. Fairness: time passes and the operator asks for the remainder, which
is its own money, pool by pool; no unpausing and no claim is assumed.
*Arena*: from tick 2 on, so that a tick is left before the expiry at 3; two evaluations, one with a
row, two reconcile requests (of two idle ones the first starts, as they are alike).
`VerdictOnTimelyEvidence`, `VerdictIsTheChains`, `OpenEvaluationsEnd`, `RowsCatchUp`. The agent and
its listing stand still once there is a row or a second evaluation. Fairness: time passes, somebody
expires what is overdue (anyone may, paused or not), the worker inspects again and again, and a
reconcile that has begun goes on.

**arcrun_custody.** Four parts.
*With three agents*: one contest and one challenge that share the id 1; alice owns two agents of
which one operator may enter one, bob's is not upgraded; an open two-seat challenge and a private
three-seat one; honest and over-paying roots; a claim window of one tick. `PrizePoolIntact`,
`StakesAlwaysCovered`, `HonestWinnersCovered`, `EscrowImplementsCustody`, `StakesComeBack`,
`UnclaimedPrizesSwept`. Fairness: time passes; anyone locks a full challenge, cancels an overdue one,
sweeps a contest whose window is over (all open to everybody); an entrant of a cancelled challenge
asks for its stake. A challenge's own creator and the privileged callers are excluded from the fair
cancellations, and nothing is asked of coordinator, admin or winners.
*Without agents* only the registry moves: days of two ticks, decay by half, reputation up to 5, small
enough that each step rounds, saturates and crosses a day boundary in both orders.
`StandingIsEarned`: effective reputation rises only in a step that applies a batch with a result of
that agent, and by no more than that result; a step of time, or one that applies another agent's, a
neutral or a losing result, never raises it.
*Without agents and at the horizon*, where the contracts have nothing left to do, the coordinator
settles: two operatives, up to two winners, one withdrawal, two pending transactions, one fault.
`PostedTreeIsStored`, `DueContestsLeaveOpen`. One fault is what a retry needs; several, scripts
included, are covered by the theorem. Fairness: transactions are mined, and the sweeper starts a due
contest whenever the guard is free and takes it on; failures are bounded by `MaxFaults`.
*There too* it divides a pool: every preset, custom shares that add up and that do not, the legacy,
profit and volume curves, over all fields of up to three entrants with scores 0, 1 and 2.05 and pools
of 7 and 100 units, so that every division leaves something. `PoolIsPaidOut`: no leaf is negative and
the leaves add up to the pool, less than a unit per analyst and flat split aside.

`CHECK_DEADLOCK FALSE` is set where the system may stop: at the horizon, or with everything settled
and nobody left with a move. `MCAgonJobEscrow` and `MCArcRunCustody` also fix where a run starts (an
identity in a wallet's hands; three agents created and upgraded), states the components' own actions
lead to.

## 4. Proofs

All theorems hold for every value of the constants that satisfies the modules' named `ASSUME`s: any
number of jobs, pools, contests, agents, accounts, requests, keys, failures and ticks, any fee, any
finite set of roots. `tlapm M.tla` checks each module.

| Module | Theorem | States |
| --- | --- | --- |
| `AgonJobEscrowProofs` | `TypeCorrect`, `EscrowSolvent`, `JobsStayPinned`, `ReferencesStayUnique` | types, `Solvency`, `JobPinnedToVersion`, `ReferencesUnique` |
| | `EscrowImplementsCustody`, `EscrowImplementsLifecycle` | refinement of `Custody`; `ImplementsLifecycle` |
| | `AccountsAlwaysReconcile`, `SubmittedWorkProtected` | `AccountsReconcile`, `SubmittedWorkIsPaidOrJudged` |
| | `QuoteTypeCorrect`, `QuoteHeldForDelay` | types, `QuoteHolds` of `AgonFeeQuote` |
| `ReconcileProofs` | `X402TypeCorrect`, `ReconciledReceiptsProven`, `FailedReceiptsUnpaid`, `CallsAreMarked`, `FinalReceiptsFinal` | types, `ReconciledIsProven`, `FailedIsUnpaid`, `MarkedBeforeCalled`, `FinalStaysFinal` |
| | `RecordTypes`, `BindingNeverMoves`, `StaleReadsNeverLand` | types, `BoundToItsTerms`, `StaleReadsDropped` of `JobRecord` |
| | `IndexTypeCorrect`, `EffectiveAreReviewed`, `TablesFollowLog` | types, `EffectiveIsReviewed`, `TablesMatchLog` of `ListingIndex` |
| `ExecutionProofs` | `ChargesStayWithinCap`, `KeysCalledOnce`, `FailedSpendsUncharged` | `ChargesWithinCap`, `CalledAtMostOnce`, `FailedIsUncharged` |
| | `MarkerIsALock`, `FundedOnce`, `RecordIsTrue` | `OneCallHoldsTheMarker`, `FundedOnceBeforePayout`, `RecordMatchesChain` |
| `AgonCompetitionProofs` | `VaultTypeCorrect`, `VaultSolvent`, `HonestRootPays`, `VaultIsCustody` | types, `VaultSolvency`, `HonestRootPaysEveryone`, refinement of `Custody` |
| | `ArenaTypes`, `VerdictsOnTimelyEvidence`, `VerdictsAreTheChains` | types, `VerdictOnTimelyEvidence`, `VerdictIsTheChains` of `AgonArena` |
| `ArcRunCustodyProofs` | `ArcRunTypeCorrect`, `PrizePoolsIntact`, `StakesCovered`, `OneEntryEach`, `EscrowIsCustody` | types, `PrizePoolIntact`, `StakesAlwaysCovered`, one entry per operator, `EscrowImplementsCustody` |
| | `HonestWinnersPaid`, `StandingEarned` | `HonestWinnersCovered`, `StandingIsEarned` |
| `CoordinatorProofs` | `SettlementTypeCorrect`, `StoredTreePosted` | types, `PostedTreeIsStored` |
| | `PoolPaidOut`, `ExactUnlessByProfit` | `PoolIsPaidOut` if no score is rounded up; exact on every other curve |
| `AgonServiceRegistryProofs`, `SumsProofs` | (lemmas) | head and history of listings agree; sums over places and over finite sets |

`FinalReceiptsFinal`, `CallsAreMarked`, `OneEntryEach`, `VaultIsCustody` and
`EscrowImplementsCustody` stand without a run: the runs' time goes to what is not proved.

**Job escrow.** `IInv` is inductive: types, `HeadMatchesHistory` (the registry's record of a listing is
its last version), `StatusMatchesSettlement` (a job is settled exactly when its status is final),
`JobPinnedToVersion`, `ReferencesUnique`, `Solvency`. The head is needed because a job copies the head
and is compared with the history; the settlement part because a payment subtracts what the job holds
from the balance and must know the job still holds it. There is a case per action; those that settle a
job reduce to one lemma, which moves one term of the sum and the balance by the same amount
(`SumToUpdate`). The same lemma gives the step of `Custody`; the step of `JobLifecycle` needs only
types and guards, with the deadlines mapped to hours. `AccountsReconcile` follows from `IInv` by one
lemma per way an account can be paid.

**x402.** `X402Inv` adds to the properties what a request may know while it waits: an answer
`confirmed` or `failed` remains Circle's answer, a captured `service_delivered` remains backed by
evidence, a request past its marker leaves the receipt past `BeforeSettlement`. These are why a
stale read is harmless; each is stable under every other request's steps and under `crash`.

**Job records.** `RecordInv` says that a bound record has the version, terms and fee of its job, and
that a read in flight does too: they are fixed when the job is created. The status a read carries may be
long out of date; that a late one does no harm is `Allowed`'s doing, so nothing is claimed of it.

**Listing index.** `IndexInv` compares three things at every place the projector can stop: the log, which
tells each listing's history (`LogTells`); the rows, which show the log up to the cursor; and the open
transaction (`TxFacts`): what it has written shows the events before its position, and what it has
read stays true while anchors only grow and rows are only relabelled. The adapter's and the chain's
steps follow by one frame lemma (`OthersKeepInv`); the projector's have a lemma each.

**Spending and execution.** `SpendInv` says what a request holds: its key is reserved, no other
request has it, the provider was not called before, and an outcome `failed` was never charged
(`ReservationsHeld`); and that no day's rows count more than the cap of its last reservation
(`ActiveWithinCap`, by `SumsProofs`), which is more than what is charged. `ExecutionInv` relates each
intent to its transactions (`IntentFacts`: at most one funding, payouts only after it landed, an outcome
recorded only if it happened), each call to the marker it set (`CallFacts`), and lets one call hold an
intent (`OneHolder`); a transaction that lands late disturbs none of them.

**Vault.** `VaultInv` ties the bitmap to the books (`BitmapMatchesBooks`: what a pool has paid is the
sum of the leaves its bitmap marks). With unique indexes the leaves not claimed are a gap in that sum
(`SumToGap`), so they fit into what the total leaves.

**Arena.** `ArenaInv` says that an ended evaluation moves only to Revoked, that a row's evaluation is
fixed once named, and that what a read or a row shows is something the contract said; a verdict that
lands late is then still the verdict of that evaluation.

**Legacy custody.** `ArcRunInv` is a conjunction of one part per contract. Each contract's step is
shown to keep its own part and to leave the pools of the other alone (`PoolsApart`: keys of different
controllers differ), so that the other parts follow by a frame lemma. The refinement of `Custody`
comes from the same pool lemmas.

`HonestWinnersPaid` adds to `ArcRunInv` what a pool owes (`ContestsOwe`, `ChallengesOwe`): under an
honest root, the leaves nobody has claimed add up to no more than the pool; before a root is posted
nobody has claimed. The sum is what makes it inductive: a claim takes one leaf from it and the
same amount from the pool. In a contest it ends with the claim window, when a sweep may take the
rest; in a challenge never. `Total` is a fold over a set, so roots are assumed finite, as a Merkle tree is.

`StandingEarned` rests on three facts about the decay of a reputation, for any number of days
(`DecayedFacts`): none leaves it as it is, more days leave no more of it, and it stays a reputation. Its invariant adds to the types that no agent was last active in the future; then each
action either leaves an agent's reputation to time or applies a batch that names it.

**Settlement of contests.** `SettlementInv` adds to the property that a root on its way is the root of
the rows (`RootsOnTheWay`), and what the run holds at each place (`RunHoldsRows`): until rows are stored
there is none and nothing was posted, while they are stored they are a prefix of its tree, and when it
posts they are the tree. Most steps touch neither rows nor roots and follow by one frame lemma
(`QuietStep`).

**Payouts.** One step divides the pool, so the work is in the operators. `SortedLists`: a sorted list is
a bijection from the places to the entrants, because the number of entrants before one is an
injection into as many places. A payout list therefore sums to the sum over the entrants of what each
is due (`ListPays`). Shares `(c * x) \div D` of parts x of D add up to at most c (`SetSumShares`),
equal shares of a group to less than a unit per member below the pool (`GroupsShare`), and the residual
of the first entrant makes up the rest (`ResidualFits`). The theorem about the curve by profit needs a
hypothesis: no score is rounded up, and a positive one is at least 1 (`NotRoundedUp`). It is what the
code lacks (`payout_rounding`): whole scores satisfy it, and so does the configuration's fractional 2.05;
`ExactUnlessByProfit` needs no hypothesis.

**Sums.** `SumTo` is a recursive function over 1..n, the folds of the community modules are over
sets. `SumsProofs` gets what they compute without the library's induction theorems: a least
counterexample, or a smallest subset that is one, would follow from the one below it. The fold
is shown not to depend on the order `CHOOSE` takes (`SetSumsAny`), and to be invariant under a bijection.

**The abstract contract.** `Custody` says what all custodians owe their users, whatever their rules: a
transaction pays into one account or out of one account, never out of it more than it holds, and the
pot moves by the same amount. Three contracts are proved to implement it.

**Only model-checked.** Liveness (`EscrowedFundsReleased`, `UndisputedSettlementRecorded`,
`DeliveredIsReconciled`, `IndexCatchesUp`, `RemainderReturned`, `OpenEvaluationsEnd`, `RowsCatchUp`,
`StakesComeBack`, `UnclaimedPrizesSwept`, `DueContestsLeaveOpen`) is out of the prover's reach. Every
invariant and action property of a passing run is a theorem; `PoolIsPaidOut` is one under the
hypothesis above, and TLC also checks it for scores of the same kind.

**Assumed by models and proofs.** The treasury is not the contract itself and no beneficiary is; no
one sends USDC to a contract outside its functions; USDC moves the exact amount or reverts; ids are
never reused; a posted root commits to finitely many leaves; a reputation batch names an agent at most
once, with integer deltas; amounts do not overflow `uint256`
(Solidity 0.8 reverts, and the supply of USDC is far below it); hashes do not collide.

## 5. Where the code and its documents differ

Each of these is a run in which TLC shows the behaviour; the quotation is in `PROJECT.json`.

- `x402_duplicate`: two settle requests that both read `authorization_submitted` both pass the marker,
  which is allowed from itself, and both call the provider. Circle's nonce keeps it to one payment.
- `escrow_replay`: a refund that read the intent before a release ended `unknown` marks it from
  `unknown` and calls the adapter, though unknown outcomes are never to be replayed.
- `job_record_stuck`: a record that saw its job rejected takes no later reading, and one that saw a
  dispute takes no refund: reconcile fails for ever after.
- `index_stuck`: an anchor prepared and never published, a certification job backfilled for it, and
  another version published under its number: the projector throws on the job, and no later event of
  any listing is projected.
- `contest_stuck`: a run that fails between `postScoreRoot` and `settle` is not retried, because runs
  and sweeps take only OPEN contests.
- `mission_fee_twice`: two withdraw requests both pass the check before either has recorded anything.
  `runners/missions/fees.ts:190` ("Idempotent") and the backfill script ("running this twice never
  double-refunds") fail the same way.
- `payout_rounding`: the parts of the profit curve are rounded scores over a rounded total, and scores
  are fractional after a syndicate's rank: with ten analysts at 10.5 and two at 1 the last leaf is
  negative and the others exceed the pool. `payoutLeaf` (`coordinator/merkle.ts:10`) encodes a
  `uint256` and throws on it, after the rows were stored, so that each retry throws too.

Seen while modelling, without a run of its own:

- A new version inherits the listing's verification (`AgonServiceRegistry.sol:143`), while `README.md:7`
  and `docs/list-your-agent.md:90` scope verification to a version.
- At the deadline itself AgonPrizeVault takes both a claim and a refund (`AgonPrizeVault.sol:160`,
  `docs/AGON.md:679`).
- AgonArena takes evidence from the participant recorded at the request, not from the current owner
  (`AgonArena.sol:169`, `docs/AGON.md:659`).
- A settled challenge's pot has no sweep (`docs/ARCHITECTURE.md:203`); what winners leave stays.
- A delivery report between the provider's acceptance and settle's write moves the receipt on; the
  transfer id is dropped, and the paid, delivered call cannot reconcile (`x402-orchestrator.ts:147`,
  `docs/AGON.md:214`).
- `fund` asks for a pool that already holds exactly the intent's amount (`agon/http/service.ts:1623`)
  and then deposits it again: with nobody else using the pool, a funded intent has twice its amount in
  its pool, and release and refund are refused from then on (`docs/AGON.md:356`).
- The arena's reconcile holds no lock (`agon/store/repository.ts:1494`); an evaluation that expired
  without evidence never matches its row.
- An anchor prepared and abandoned blocks its version number in the adapter; `anchorMismatch` compares
  neither rail nor URI; a row with `version_mismatch` is not lifted by a confirmation; a certification job
  created blocked is never unblocked; expired leases are claimed again without a look at
  `max_attempts`, and completing one checks no owner.
- A failure between two payout rows leaves a partial tree, which the retry posts as the tree
  (`runContestById.ts:431`). The retry also skips the rewards, saying they ran, and leaves the
  mission open.
- The admin's cancel takes no `inFlight` guard though `adminCommands.ts:19` says it shares it; with
  receipts' status unchecked, a settle that races a cancel leaves a mission whose status contradicts the
  contest. A run started by `RUN_CONTEST_ID` is not guarded either. The API's cancel leaves the mission
  open; a cancelled contest keeps its payout rows.
- A withdrawal is accepted after the field was read, and after a retried settlement.
- The remainder of the profit curve goes to the last analyst with a profit and the flat split's stays in
  the escrow, where `payouts.ts:237` promises the largest share and the exact total.

## 6. What is not modelled

| Component | Why |
| --- | --- |
| Profile stream of the indexer, `bindProfile` | owner snapshots beside the listings; the next part of `ListingIndex` to write |
| Certification worker's leases | its backfill is in `ListingIndex`; claims, leases and retries are one queue of their own |
| `runChallengeById`, nonce queue | challenges settle along the lines of `ContestSettlement`; the queue only serialises sends |
| Opening of contests, the PNL_REALIZED wait, intel purchases, rewards | around the modelled run, without a say in its root |
| Agent-to-agent trades, nanopayments, mission runners | model calls and single transfers; of missions the return of join fees is modelled |
| AgonSyndicateRegistry, AgonProfileRegistry, SyndicateFactory, PointsLedger | bookkeeping without custody or time; of profiles `currentOwner` is modelled |
| AgonJobEscrow V1 | V2 is the same life cycle with a timelocked fee |
| Scoring, LLM runners | heuristics on floating point numbers and model answers |
| Auth, HTTP routes, email, notifications, database, chain clients | I/O around the handlers; the transaction and lock behaviour handlers rely on is in their models |
| Front end, bnb-market, deployment, docs, scripts | no protocol state; most of the repository's lines are here and in the two rows above |

Partly modelled: `refundAllCancelledMissions` only without a target; the administrator's commands only
as far as they touch a contest's settlement; the indexer and adapter for listings.

A continuation would take, in this order: the challenge run with its seats and refunds next to
`ContestSettlement`; the certification queue with leases, attempts and two workers; the profile stream;
the order of opening a contest (listing transaction, row, mission); purchases and trades as pairs of a
durable record and an outside transfer.
