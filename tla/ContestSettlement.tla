-------------------------- MODULE ContestSettlement --------------------------
(***************************************************************************)
(* How the coordinator settles one contest that carries a mission.  A run  *)
(* waits for the entry window to close, scores the field, stores the       *)
(* payout rows one by one and sends postScoreRoot and settle, or           *)
(* cancelContest when nobody scored; a run after a failed one reuses the   *)
(* rows that are stored.  Beside it the admin worker cancels the contest   *)
(* and returns join fees, the API cancels on its own, a backfill script    *)
(* returns join fees too, and operatives withdraw.                         *)
(*                                                                         *)
(* The guard inFlight admits one run at a time: it is held while run is    *)
(* not Idle.  A root is the list of leaves it commits to.  Amounts,        *)
(* scores, intel purchases, rewards, notices and nonces are left out; the  *)
(* wallet's transactions are mined in the order they were sent.            *)
(***************************************************************************)
EXTENDS Naturals, Sequences

CONSTANTS Operators,     \* the operatives who entered, each with a join fee paid
          topN,          \* winners of the contest
          Clicks,        \* concurrent withdraw requests
          Scripts,       \* concurrent runs of the backfill script
          MaxPending,    \* bound: the coordinator's transactions not mined yet
          MaxFaults      \* bound: calls that fail, receipts that time out, crashes

ASSUME SettlementAssumption ==
    /\ {"run", "worker", "nobody"} \cap Scripts = {}
    /\ topN \in Nat /\ MaxPending \in Nat /\ MaxFaults \in Nat

VARIABLES contest,       \* ContestEngine: status and finalRoot
          closed,        \* whether block.timestamp has reached endTime
          mempool,       \* the coordinator's transactions, each with who waits for it
          payouts,       \* the payouts rows, by rank
          mission,       \* missions.status
          feeMarked,     \* operators whose mission_operative_fees row is marked
          withdrawn,     \* mission_withdrawals
          received,      \* received[o]: how often o got the join fee back
          run,           \* the run of the contest
          worker,        \* the admin worker
          loops,         \* loops[p]: the refund loop process p is in
          clicks,        \* clicks[q]: where the withdraw request q stands
          faults

chain          == <<contest, closed, mempool>>
tables         == <<payouts, mission, feeMarked, withdrawn>>
processes      == <<run, worker, loops, clicks>>
settlementVars == <<chain, tables, received, processes, faults>>

Refunders == {"run", "worker"} \cup Scripts
NoRoot    == << >>
Idle      == [at |-> "idle"]
NoLoop    == [last |-> "no loop"]

(* The payout lists a field can score to: some winners, in some order.     *)
Trees(field) == {t \in UNION {[1..n -> field] : n \in 0..topN} :
                    \A i, j \in DOMAIN t : t[i] = t[j] => i = j}

Fault == faults < MaxFaults /\ faults' = faults + 1
-----------------------------------------------------------------------------
(* ContestEngine, as far as the coordinator drives it.                     *)
accepts(call) ==
    \/ call = "postScoreRoot" /\ contest.status = "OPEN" /\ closed
    \/ call = "settle" /\ contest.status = "SCORING"
    \/ call = "cancelContest" /\ contest.status \in {"OPEN", "SCORING"}

executed(tx) ==
    CASE tx.call = "postScoreRoot" -> [status |-> "SCORING", finalRoot |-> tx.root]
      [] tx.call = "settle"        -> [contest EXCEPT !.status = "SETTLED"]
      [] tx.call = "cancelContest" -> [contest EXCEPT !.status = "CANCELLED"]

mine ==
    /\ mempool # << >>
    /\ LET tx == Head(mempool)
       IN  contest' = IF accepts(tx.call) THEN executed(tx) ELSE contest
    /\ mempool' = Tail(mempool)
    /\ UNCHANGED <<closed, tables, received, processes, faults>>

windowCloses ==
    /\ ~closed
    /\ closed' = TRUE
    /\ UNCHANGED <<contest, mempool, tables, received, processes, faults>>

(* send: writeContract estimates first and throws on what would revert,    *)
(* waitForTransactionReceipt returns; its status is not looked at.         *)
submit(p, call, root) ==
    /\ accepts(call)
    /\ Len(mempool) < MaxPending
    /\ mempool' = Append(mempool, [by |-> p, call |-> call, root |-> root])

mined(p) == \A i \in DOMAIN mempool : mempool[i].by # p

withoutWaiting(ps) ==
    [i \in DOMAIN mempool |-> IF mempool[i].by \in ps THEN [mempool[i] EXCEPT !.by = "nobody"]
                              ELSE mempool[i]]
-----------------------------------------------------------------------------
(* A loop over fee rows.  refundMissionFees reads the rows that are not    *)
(* marked and sends for each; refundParticipationFees reads each row again *)
(* before it sends.  paid holds the operator whose refund is mined and not *)
(* marked; last is the status the mission gets when the loop ends.         *)
refundMissionFees(last) ==
    [todo |-> Operators \ feeMarked, paid |-> {}, rereads |-> FALSE, last |-> last]
refundParticipationFees(os) ==
    [todo |-> os, paid |-> {}, rereads |-> TRUE, last |-> "none"]

between(p) == loops[p] # NoLoop /\ loops[p].paid = {}

sendRefund(p, o) ==
    /\ between(p)
    /\ o \in loops[p].todo
    /\ IF loops[p].rereads /\ o \in feeMarked
       THEN /\ loops' = [loops EXCEPT ![p].todo = @ \ {o}]
            /\ UNCHANGED received
       ELSE /\ loops' = [loops EXCEPT ![p].todo = @ \ {o}, ![p].paid = {o}]
            /\ received' = [received EXCEPT ![o] = @ + 1]
    /\ UNCHANGED <<chain, tables, run, worker, clicks, faults>>

markRefund(p) ==
    /\ loops[p] # NoLoop /\ loops[p].paid # {}
    /\ feeMarked' = feeMarked \cup loops[p].paid
    /\ loops' = [loops EXCEPT ![p].paid = {}]
    /\ UNCHANGED <<chain, payouts, mission, withdrawn, received, run, worker, clicks, faults>>

(* The transfer or the mark fails, or the receipt times out; the error is  *)
(* caught row by row.                                                      *)
refundFails(p) ==
    /\ loops[p] # NoLoop
    /\ Fault
    /\ \/ loops[p].paid # {} /\ loops' = [loops EXCEPT ![p].paid = {}]
       \/ between(p) /\ \E o \in loops[p].todo : loops' = [loops EXCEPT ![p].todo = @ \ {o}]
    /\ UNCHANGED <<chain, tables, received, run, worker, clicks>>

endRefunds(p) ==
    /\ between(p) /\ loops[p].todo = {}
    /\ loops' = [loops EXCEPT ![p] = NoLoop]
    /\ mission' = IF loops[p].last = "none" THEN mission ELSE loops[p].last
    /\ run' = IF p = "run" THEN Idle ELSE run
    /\ worker' = IF p = "worker" THEN "idle" ELSE worker
    /\ UNCHANGED <<chain, payouts, feeMarked, withdrawn, received, clicks, faults>>
-----------------------------------------------------------------------------
(* runContestById, started by autopilot, the due-sweeper or an operator.   *)
startRun ==
    /\ run = Idle
    /\ contest.status = "OPEN"
    /\ run' = [at |-> "window"]
    /\ UNCHANGED <<chain, tables, received, worker, loops, clicks, faults>>

(* Mutant: a run scores the field, whatever an earlier one stored.         *)
ScoreAfresh ==
    /\ run.at = "window" /\ closed
    /\ run' = [at |-> "field"]
    /\ UNCHANGED <<chain, tables, received, worker, loops, clicks, faults>>

retrying == payouts # << >>

readPersisted ==
    /\ run.at = "window" /\ closed
    /\ run' = IF retrying THEN [at |-> "post", tree |-> payouts, retry |-> TRUE]
                          ELSE [at |-> "field"]
    /\ UNCHANGED <<chain, tables, received, worker, loops, clicks, faults>>

fetchField ==
    /\ run.at = "field"
    /\ run' = [at |-> "scoring", field |-> Operators \ withdrawn]
    /\ UNCHANGED <<chain, tables, received, worker, loops, clicks, faults>>

score ==
    /\ run.at = "scoring"
    /\ \E t \in Trees(run.field) :
          run' = [at |-> IF t = << >> THEN "cancel" ELSE "persist", field |-> run.field,
                  tree |-> t, retry |-> FALSE, rank |-> 1]
    /\ UNCHANGED <<chain, tables, received, worker, loops, clicks, faults>>

(* One insert per rank, on conflict do nothing.                            *)
insertPayout ==
    /\ run.at = "persist"
    /\ payouts' = IF run.rank \in DOMAIN payouts THEN payouts
                  ELSE Append(payouts, run.tree[run.rank])
    /\ run' = IF run.rank < Len(run.tree) THEN [run EXCEPT !.rank = @ + 1]
                                          ELSE [run EXCEPT !.at = "post"]
    /\ UNCHANGED <<chain, mission, feeMarked, withdrawn, received, worker, loops, clicks, faults>>

callAt == [post |-> "postScoreRoot", settle |-> "settle", cancel |-> "cancelContest"]
after  == [post |-> "settle", settle |-> "settled", cancel |-> "cancelled"]

sending == run.at \in DOMAIN callAt /\ mined("run")

sendCall ==
    /\ sending
    /\ submit("run", callAt[run.at], IF run.at = "post" THEN run.tree ELSE NoRoot)
    /\ run' = [run EXCEPT !.at = after[@]]
    /\ UNCHANGED <<contest, closed, tables, received, worker, loops, clicks, faults>>

callThrows ==
    /\ sending /\ ~accepts(callAt[run.at])
    /\ run' = Idle
    /\ UNCHANGED <<chain, tables, received, worker, loops, clicks, faults>>

(* The last receipt is there.  A first run marks the mission settled and   *)
(* refunds those who spent enough and did not win; a retry only returns.   *)
finishSettled ==
    /\ run.at = "settled" /\ mined("run")
    /\ \/ run.retry /\ run' = Idle /\ UNCHANGED <<mission, loops>>
       \/ /\ ~run.retry
          /\ mission' = "settled"
          /\ \E os \in SUBSET (run.field \ {run.tree[i] : i \in DOMAIN run.tree}) :
                loops' = [loops EXCEPT !["run"] = refundParticipationFees(os)]
          /\ run' = [at |-> "refunding"]
    /\ UNCHANGED <<chain, payouts, feeMarked, withdrawn, received, worker, clicks, faults>>

finishCancelled ==
    /\ run.at = "cancelled" /\ mined("run")
    /\ loops' = [loops EXCEPT !["run"] = refundMissionFees("cancelled")]
    /\ run' = [at |-> "refunding"]
    /\ UNCHANGED <<chain, tables, received, worker, clicks, faults>>

(* Mutant: the guard is released by a run that returns, not by one that    *)
(* throws.                                                                 *)
GuardKept ==
    /\ run.at \notin {"idle", "refunding", "failed"}
    /\ Fault
    /\ run' = [at |-> "failed"]
    /\ mempool' = withoutWaiting({"run"})
    /\ UNCHANGED <<contest, closed, tables, received, worker, loops, clicks>>

(* Anything the run awaits throws, or its receipt times out; the guard is  *)
(* released and the transaction stays in the mempool.                      *)
runFails ==
    /\ run.at \notin {"idle", "refunding"}
    /\ Fault
    /\ run' = Idle
    /\ mempool' = withoutWaiting({"run"})
    /\ UNCHANGED <<contest, closed, tables, received, worker, loops, clicks>>

(* The coordinator restarts.                                               *)
restart ==
    /\ run # Idle \/ worker # "idle"
    /\ Fault
    /\ run' = Idle
    /\ worker' = "idle"
    /\ loops' = [loops EXCEPT !["run"] = NoLoop, !["worker"] = NoLoop]
    /\ mempool' = withoutWaiting({"run", "worker"})
    /\ UNCHANGED <<contest, closed, tables, received, clicks>>
-----------------------------------------------------------------------------
(* The admin worker: cancel_contest, which takes no guard ...              *)
cancelOnChain ==
    /\ worker = "idle"
    /\ submit("worker", "cancelContest", NoRoot)
    /\ worker' = "cancelling"
    /\ UNCHANGED <<contest, closed, tables, received, run, loops, clicks, faults>>

(* ... and goes on to the refunds when it has a receipt.                   *)
cancelReceipt ==
    /\ worker = "cancelling" /\ mined("worker")
    /\ loops' = [loops EXCEPT !["worker"] = refundMissionFees("cancelled")]
    /\ worker' = "refunding"
    /\ UNCHANGED <<chain, tables, received, run, clicks, faults>>

cancelFails ==
    /\ worker = "cancelling"
    /\ Fault
    /\ worker' = "idle"
    /\ mempool' = withoutWaiting({"worker"})
    /\ UNCHANGED <<contest, closed, tables, received, run, loops, clicks>>

(* refundAllCancelledMissions, as refund_missions or as the script, in the *)
(* form that names no mission.                                             *)
refundAllCancelledMissions(p) ==
    /\ IF p = "worker" THEN worker = "idle" ELSE p \in Scripts /\ loops[p] = NoLoop
    /\ mission = "cancelled" /\ feeMarked # Operators
    /\ loops' = [loops EXCEPT ![p] = refundMissionFees("none")]
    /\ worker' = IF p = "worker" THEN "refunding" ELSE worker
    /\ UNCHANGED <<chain, tables, received, run, clicks, faults>>

(* POST /admin/contest/:id/cancel waits for nothing and marks nothing.     *)
apiCancel ==
    /\ submit("nobody", "cancelContest", NoRoot)
    /\ UNCHANGED <<contest, closed, tables, received, processes, faults>>
-----------------------------------------------------------------------------
(* POST /missions/:id/withdraw: the mission's status, an earlier           *)
(* withdrawal and the fee's row are read, the fee is sent, marked, and the *)
(* withdrawal recorded.                                                    *)
checkWithdrawal(q, o) ==
    /\ clicks[q] = Idle
    /\ mission = "open"
    /\ o \notin withdrawn
    /\ clicks' = [clicks EXCEPT ![q] = [at |-> IF o \in feeMarked THEN "record" ELSE "send",
                                        of |-> o]]
    /\ UNCHANGED <<chain, tables, received, run, worker, loops, faults>>

withdrawStep(q, from, to) ==
    /\ clicks[q].at = from
    /\ clicks' = [clicks EXCEPT ![q] = IF to = "idle" THEN Idle ELSE [@ EXCEPT !.at = to]]
    /\ UNCHANGED <<chain, payouts, mission, run, worker, loops, faults>>

sendWithdrawn(q) ==
    /\ withdrawStep(q, "send", "mark")
    /\ received' = [received EXCEPT ![clicks[q].of] = @ + 1]
    /\ UNCHANGED <<feeMarked, withdrawn>>

markWithdrawn(q) ==
    /\ withdrawStep(q, "mark", "record")
    /\ feeMarked' = feeMarked \cup {clicks[q].of}
    /\ UNCHANGED <<received, withdrawn>>

recordWithdrawal(q) ==
    /\ withdrawStep(q, "record", "idle")
    /\ withdrawn' = withdrawn \cup {clicks[q].of}
    /\ UNCHANGED <<received, feeMarked>>

withdrawFails(q) ==
    /\ clicks[q] # Idle
    /\ Fault
    /\ clicks' = [clicks EXCEPT ![q] = Idle]
    /\ UNCHANGED <<chain, tables, received, run, worker, loops>>
-----------------------------------------------------------------------------
SettlementInit ==
    /\ contest = [status |-> "OPEN", finalRoot |-> NoRoot]
    /\ closed = FALSE
    /\ mempool = << >>
    /\ payouts = << >>
    /\ mission = "open"
    /\ feeMarked = {}
    /\ withdrawn = {}
    /\ received = [o \in Operators |-> 0]
    /\ run = Idle
    /\ worker = "idle"
    /\ loops = [p \in Refunders |-> NoLoop]
    /\ clicks = [q \in Clicks |-> Idle]
    /\ faults = 0

refundStep(p) == (\E o \in Operators : sendRefund(p, o)) \/ markRefund(p) \/ endRefunds(p)

runStep == \/ startRun \/ readPersisted \/ fetchField \/ score \/ insertPayout
           \/ sendCall \/ callThrows \/ finishSettled \/ finishCancelled
           \/ refundStep("run")

SettlementNext ==
    \/ windowCloses \/ mine \/ runStep \/ runFails \/ restart
    \/ cancelOnChain \/ cancelReceipt \/ cancelFails \/ apiCancel
    \/ \E p \in Refunders : \/ p # "run" /\ (refundStep(p) \/ refundAllCancelledMissions(p))
                            \/ refundFails(p)
    \/ \E q \in Clicks : \/ \E o \in Operators : checkWithdrawal(q, o)
                         \/ sendWithdrawn(q) \/ markWithdrawn(q) \/ recordWithdrawal(q)
                         \/ withdrawFails(q)

(* Fairness: transactions are mined, and the sweeper starts a contest that *)
(* is due again whenever its guard is free.                                *)
SettlementFairness == WF_settlementVars(mine) /\ WF_settlementVars(closed /\ runStep)

SettlementSpec == SettlementInit /\ [][SettlementNext]_settlementVars /\ SettlementFairness
-----------------------------------------------------------------------------
Tx    == [by: Refunders \cup {"nobody"},
          call: {"postScoreRoot", "settle", "cancelContest"}, root: Seq(Operators)]
Run   == [at: {"idle", "window", "field", "refunding"}]
         \cup [at: {"scoring"}, field: SUBSET Operators]
         \cup [at: {"post", "settle", "settled"}, tree: Seq(Operators), retry: {TRUE}]
         \cup [at: {"persist", "post", "settle", "settled", "cancel", "cancelled"},
               field: SUBSET Operators, tree: Seq(Operators), retry: {FALSE}, rank: Nat]
Loop  == [todo: SUBSET Operators, paid: SUBSET Operators, rereads: BOOLEAN,
          last: {"none", "cancelled"}]
Click == [at: {"send", "mark", "record"}, of: Operators]

SettlementTypeOK ==
    /\ contest \in [status: {"OPEN", "SCORING", "SETTLED", "CANCELLED"},
                    finalRoot: Seq(Operators)]
    /\ closed \in BOOLEAN
    /\ mempool \in Seq(Tx)
    /\ payouts \in Seq(Operators)
    /\ mission \in {"open", "settled", "cancelled"}
    /\ feeMarked \subseteq Operators /\ withdrawn \subseteq Operators
    /\ received \in [Operators -> Nat]
    /\ run \in Run
    /\ worker \in {"idle", "cancelling", "refunding"}
    /\ loops \in [Refunders -> Loop \cup {NoLoop}]
    /\ clicks \in [Clicks -> Click \cup {Idle}]
    /\ faults \in Nat

(* Winners claim with proofs built from the payout rows: whatever failed   *)
(* and was retried, and however late a transaction of an earlier run was   *)
(* mined, the posted root is the root of the rows.                         *)
PostedTreeIsStored == contest.finalRoot # NoRoot => contest.finalRoot = payouts

(* What keeps it so, as an inductive invariant: a root that is on its way  *)
(* is the root of the stored rows, the run about to post holds exactly     *)
(* them, and rows are only added while nothing was posted.                 *)
NothingPosted == /\ contest.finalRoot = NoRoot
                 /\ \A i \in DOMAIN mempool : mempool[i].call # "postScoreRoot"

RootsOnTheWay == \A i \in DOMAIN mempool :
    mempool[i].call = "postScoreRoot" => payouts # << >> /\ mempool[i].root = payouts

RunHoldsRows ==
    /\ run.at \in {"field", "scoring"} => payouts = << >>
    /\ run.at = "persist" => /\ NothingPosted
                             /\ Len(payouts) = run.rank - 1
                             /\ run.rank <= Len(run.tree)
                             /\ \A i \in DOMAIN payouts : payouts[i] = run.tree[i]
    /\ run.at = "post" => payouts # << >> /\ run.tree = payouts

SettlementInv == SettlementTypeOK /\ PostedTreeIsStored /\ RootsOnTheWay /\ RunHoldsRows

(* A due contest does not stay OPEN: a run that fails releases the guard   *)
(* and the next sweep runs it again.                                       *)
DueContestsLeaveOpen == closed ~> contest.status # "OPEN"

(* runContestById.ts:54-57: a run whose transaction is not mined "fails,   *)
(* the guard clears, and the next sweep retries cleanly".                  *)
ScoredContestsLeaveScoring == contest.status = "SCORING" ~> contest.status # "SCORING"

(* auth/index.ts:2915, "idempotent success so a double-click is harmless", *)
(* and backfillMissionRefunds.ts:13, "never double-refunds".               *)
FeeReturnedOnce == \A o \in Operators : received[o] <= 1
=============================================================================
