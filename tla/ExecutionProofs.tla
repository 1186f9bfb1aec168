-------------------------- MODULE ExecutionProofs ---------------------------
(***************************************************************************)
(* The two money-moving executors of the backend, for every number of      *)
(* concurrent calls, keys, days, intents and pools: no lock outlives its   *)
(* row, no crash or lost answer spends or pays twice.                      *)
(***************************************************************************)
EXTENDS AgentSpend, EscrowExecution, SumsProofs, SequenceTheorems

(* What a held reservation promises to the call that holds it. *)
HeldReservation(r) ==
    LET k == requests[r].key IN
    /\ spends[k].state = "reserved"
    /\ \A q \in Requests \ {r} : requests[q] # Idle => requests[q].key # k
    /\ requests[r].at \in {"reserved", "settling"} => calls[k] = 0
    /\ requests[r].at = "recording" =>
           /\ requests[r].outcome # "none"
           /\ requests[r].outcome = "failed" => charged[k] = 0

ReservationsHeld == \A r \in Requests : requests[r] # Idle => HeldReservation(r)
UnusedIsUncalled == \A k \in Keys : spends[k] = NoSpend => calls[k] = 0
ActiveWithinCap  == \A d \in 1..Days : used(d) <= capOf[d]

CallsInv == /\ SpendTypeOK /\ ReservationsHeld /\ UnusedIsUncalled
            /\ CalledAtMostOnce /\ FailedIsUncharged
SpendInv == CallsInv /\ ActiveWithinCap

LEMMA SpendInitInv == SpendInit => SpendInv
<1> SUFFICES ASSUME SpendInit PROVE SpendInv
  OBVIOUS
<1>1. CallsInv
  BY SpendAssumption
     DEF SpendInit, CallsInv, SpendTypeOK, ReservationsHeld, UnusedIsUncalled, CalledAtMostOnce,
         FailedIsUncharged, NoSpend, Idle
<1>2. ASSUME NEW d \in 1..Days PROVE used(d) <= capOf[d]
  <2>1. activeSpend(d) \in [1..MaxKeys -> Int] /\ \A k \in 1..MaxKeys : activeSpend(d)[k] = 0
    BY DEF SpendInit, activeSpend, NoSpend, Keys
  <2> QED BY <2>1, SumToZero, SpendAssumption DEF SpendInit, used
<1> QED BY <1>1, <1>2 DEF SpendInv, ActiveWithinCap

(* A spend only moves by the table, and keeps its day, amount, recipient.  *)
LEMMA TransitionKeeps ==
    ASSUME SpendTypeOK, NEW k \in Keys, NEW to \in {"submitted", "unknown", "failed", "confirmed"},
           transition(k, to)
    PROVE  /\ spends' \in [Keys -> Spend \cup {NoSpend}]
           /\ \A j \in Keys : j # k => spends'[j] = spends[j]
           /\ spends[k] = NoSpend => spends'[k] = NoSpend
           /\ spends[k] # NoSpend =>
                 /\ spends'[k] # NoSpend
                 /\ spends'[k].day = spends[k].day /\ spends'[k].amount = spends[k].amount
                 /\ spends'[k].state \in {to, spends[k].state}
                 /\ spends[k].state = "failed" => spends'[k].state = "failed"
                 /\ spends[k].state = "reserved" /\ to = "confirmed" =>
                        spends'[k].state = "reserved"
<1>1. CASE spends' = spends
  BY <1>1 DEF SpendTypeOK, transition, Spend, SpendState, NoSpend, allowedTransitions
<1>2. CASE /\ spends' = [spends EXCEPT ![k].state = to]
           /\ spends[k] # NoSpend /\ to \in allowedTransitions[spends[k].state]
  <2> DEFINE s == [spends[k] EXCEPT !.state = to]
  <2>1. spends[k] \in Spend
    BY <1>2 DEF SpendTypeOK
  <2>2. /\ s \in Spend /\ s # NoSpend /\ s.state = to
        /\ s.day = spends[k].day /\ s.amount = spends[k].amount
    BY <2>1 DEF Spend, SpendState, NoSpend
  <2>3. /\ spends[k].state = "failed" => to = "failed"
        /\ ~(spends[k].state = "reserved" /\ to = "confirmed")
    BY <1>2, <2>1 DEF Spend, SpendState, allowedTransitions
  <2>4. spends' = [spends EXCEPT ![k] = s]
    BY <1>2
  <2> HIDE DEF s
  <2> QED BY <1>2, <2>2, <2>3, <2>4 DEF SpendTypeOK
<1> QED BY <1>1, <1>2 DEF transition

(* The steps that move no reservation. *)
LEMMA QuietSpendSteps ==
    ASSUME CallsInv, UNCHANGED <<spends, requests, calls, charged>>, SpendTypeOK'
    PROVE  CallsInv'
BY Zenon DEF CallsInv, ReservationsHeld, HeldReservation, UnusedIsUncalled, CalledAtMostOnce,
       FailedIsUncharged

LEMMA ReserveCalls ==
    ASSUME CallsInv, NEW r \in Requests, NEW k \in Keys, NEW amount \in SpendAmounts,
           NEW to \in Recipients, reserve(r, k, amount, to)
    PROVE  CallsInv'
<1> DEFINE req == [at |-> "reserved", key |-> k, outcome |-> "none"]
<1>0. /\ spends[k] = NoSpend /\ requests[r] = Idle
      /\ spends' = [spends EXCEPT ![k] = Reserved(today, amount, to)]
      /\ requests' = [requests EXCEPT ![r] = req]
      /\ UNCHANGED <<policy, today, calls, charged>>
      /\ capOf' = [capOf EXCEPT ![today] = policy.daily]
  BY DEF reserve, unused
<1>1. /\ Reserved(today, amount, to) \in Spend
      /\ Reserved(today, amount, to).state = "reserved"
      /\ Reserved(today, amount, to) # NoSpend
  BY DEF CallsInv, SpendTypeOK, Reserved, Spend, SpendState, NoSpend
<1>2. req \in Request /\ req # Idle /\ req.key = k /\ req.at = "reserved"
  BY DEF Request, Steps, Idle
<1>3. policy.daily \in Nat
  BY SpendAssumption DEF CallsInv, SpendTypeOK, Policy
<1> HIDE DEF req
<1>4. SpendTypeOK'
  BY <1>0, <1>1, <1>2, <1>3 DEF CallsInv, SpendTypeOK
<1>5. calls[k] = 0 /\ charged[k] = 0
  BY <1>0 DEF CallsInv, UnusedIsUncalled, CalledAtMostOnce, SpendTypeOK
<1>6. \A q \in Requests : requests[q] # Idle => requests[q].key # k
  BY <1>0 DEF CallsInv, ReservationsHeld, HeldReservation, NoSpend
<1>7. ASSUME NEW q \in Requests, requests'[q] # Idle PROVE HeldReservation(q)'
  <2>1. CASE q = r
    <3>1. requests'[q] = req /\ spends'[k].state = "reserved" /\ calls'[k] = 0
      BY <1>0, <1>1, <1>5, <2>1 DEF CallsInv, SpendTypeOK
    <3>2. \A p \in Requests \ {q} : requests'[p] # Idle => requests'[p].key # k
      BY <1>0, <1>6, <2>1 DEF CallsInv, SpendTypeOK
    <3> QED BY <1>2, <3>1, <3>2 DEF HeldReservation
  <2>2. CASE q # r
    <3>1. requests'[q] = requests[q] /\ requests[q].key # k /\ HeldReservation(q)
      BY <1>0, <1>6, <1>7, <2>2 DEF CallsInv, SpendTypeOK, ReservationsHeld
    <3>2. requests[q].key \in Keys /\ spends'[requests[q].key] = spends[requests[q].key]
      BY <1>0, <1>7, <3>1 DEF CallsInv, SpendTypeOK, Request
    <3>3. \A p \in Requests \ {q} : requests'[p] # Idle => requests'[p].key # requests[q].key
      BY <1>0, <1>2, <3>1 DEF CallsInv, SpendTypeOK, HeldReservation
    <3> QED BY <1>0, <3>1, <3>2, <3>3 DEF HeldReservation
  <2> QED BY <2>1, <2>2
<1>8. UnusedIsUncalled' /\ CalledAtMostOnce'
  BY <1>0, <1>1, <1>5 DEF CallsInv, UnusedIsUncalled, CalledAtMostOnce, SpendTypeOK
<1>9. FailedIsUncharged'
  <2> SUFFICES ASSUME NEW j \in Keys, spends'[j].state = "failed"
               PROVE  charged'[j] = 0
                      /\ \A q \in Requests : requests'[q] = Idle \/ requests'[q].key # j
    BY DEF FailedIsUncharged
  <2>1. j # k /\ spends[j].state = "failed"
    BY <1>0, <1>1 DEF CallsInv, SpendTypeOK
  <2> QED BY <1>0, <1>2, <2>1 DEF CallsInv, FailedIsUncharged, SpendTypeOK
<1> QED BY <1>4, <1>7, <1>8, <1>9 DEF CallsInv, ReservationsHeld

(* A request that ends, or moves on with the key it has. *)
LEMMA RequestMoves ==
    ASSUME CallsInv, NEW r \in Requests, NEW req \in Request \cup {Idle},
           requests[r] # Idle, req # Idle => req.key = requests[r].key,
           requests' = [requests EXCEPT ![r] = req],
           NEW k, k = requests[r].key,
           \A j \in Keys : j # k => /\ spends'[j] = spends[j] /\ calls'[j] = calls[j]
                                    /\ charged'[j] = charged[j],
           req # Idle => HeldReservation(r)',
           SpendTypeOK',
           spends'[k] = NoSpend => calls'[k] = 0,
           charged'[k] <= calls'[k] /\ calls'[k] <= 1,
           spends'[k].state = "failed" => charged'[k] = 0 /\ req = Idle
    PROVE  CallsInv'
<1>0. k \in Keys /\ requests \in [Requests -> Request \cup {Idle}]
  BY DEF CallsInv, SpendTypeOK, Request
<1>1. ASSUME NEW q \in Requests, q # r, requests'[q] # Idle PROVE HeldReservation(q)'
  <2>1. requests'[q] = requests[q] /\ HeldReservation(q) /\ requests[q].key # k
        /\ requests[q].key \in Keys
    BY <1>0, <1>1 DEF CallsInv, ReservationsHeld, HeldReservation, Request
  <2>2. \A p \in Requests \ {q} : requests'[p] # Idle => requests'[p].key # requests[q].key
    BY <1>0, <2>1 DEF HeldReservation
  <2> QED BY <2>1, <2>2 DEF HeldReservation
<1>2. ReservationsHeld'
  BY <1>0, <1>1 DEF ReservationsHeld
<1>3. UnusedIsUncalled' /\ CalledAtMostOnce'
  BY <1>0 DEF CallsInv, UnusedIsUncalled, CalledAtMostOnce
<1>4. FailedIsUncharged'
  <2> SUFFICES ASSUME NEW j \in Keys, spends'[j].state = "failed"
               PROVE  charged'[j] = 0
                      /\ \A q \in Requests : requests'[q] = Idle \/ requests'[q].key # j
    BY DEF FailedIsUncharged
  <2>1. CASE j = k
    <3>1. \A q \in Requests \ {r} : requests[q] = Idle \/ requests[q].key # k
      BY DEF CallsInv, ReservationsHeld, HeldReservation
    <3> QED BY <1>0, <2>1, <3>1
  <2>2. CASE j # k
    BY <1>0, <2>2 DEF CallsInv, FailedIsUncharged
  <2> QED BY <2>1, <2>2
<1> QED BY <1>2, <1>3, <1>4 DEF CallsInv

LEMMA GetPolicyCalls == ASSUME CallsInv, NEW r \in Requests, getPolicy(r) PROVE CallsInv'
<1>k. PICK k : k = requests[r].key
  OBVIOUS
<1>0. /\ k = requests[r].key /\ requests[r] \in Request /\ requests[r] # Idle /\ k \in Keys /\ HeldReservation(r)
      /\ requests[r].at = "reserved"
      /\ UNCHANGED <<policy, spends, today, calls, charged, capOf>>
  BY <1>k DEF getPolicy, CallsInv, SpendTypeOK, ReservationsHeld, Request, Idle
<1>1. calls[k] = 0 /\ charged[k] = 0 /\ spends[k].state = "reserved"
  BY <1>0 DEF HeldReservation, CallsInv, CalledAtMostOnce, SpendTypeOK
<1>2. PICK req : /\ req \in Request /\ req # Idle /\ req.key = k
                 /\ requests' = [requests EXCEPT ![r] = req]
                 /\ req.at \in {"settling", "recording"}
                 /\ req.at = "recording" => req.outcome = "failed"
  <2>1. CASE requests' = [requests EXCEPT ![r].at = "settling"]
    <3> DEFINE req == [requests[r] EXCEPT !.at = "settling"]
    <3>1. /\ req \in Request /\ req # Idle /\ req.key = k /\ req.at = "settling"
          /\ requests' = [requests EXCEPT ![r] = req]
      BY <1>0, <2>1 DEF Request, Steps, Idle
    <3> HIDE DEF req
    <3> QED BY <3>1
  <2>2. CASE requests' = [requests EXCEPT ![r].at = "recording", ![r].outcome = "failed"]
    <3> DEFINE req == [requests[r] EXCEPT !.at = "recording", !.outcome = "failed"]
    <3>1. /\ req \in Request /\ req # Idle /\ req.key = k /\ req.at = "recording"
          /\ req.outcome = "failed"
      BY <1>0 DEF Request, Steps, Idle
    <3>2. requests' = [requests EXCEPT ![r] = req]
      BY <1>0, <2>2 DEF CallsInv, SpendTypeOK
    <3> HIDE DEF req
    <3> QED BY <3>1, <3>2
  <2> QED BY <2>1, <2>2 DEF getPolicy
<1>3. requests'[r] = req /\ SpendTypeOK'
  BY <1>0, <1>2 DEF CallsInv, SpendTypeOK
<1>4. HeldReservation(r)'
  <2>1. \A q \in Requests \ {r} : requests'[q] = requests[q]
    BY <1>2 DEF CallsInv, SpendTypeOK
  <2> QED BY <1>0, <1>1, <1>2, <1>3, <2>1 DEF HeldReservation
<1>5. /\ spends'[k] # NoSpend /\ spends'[k].state # "failed"
      /\ charged'[k] <= calls'[k] /\ calls'[k] <= 1 /\ req \in Request \cup {Idle}
      /\ \A j \in Keys : j # k => /\ spends'[j] = spends[j] /\ calls'[j] = calls[j]
                                 /\ charged'[j] = charged[j]
  BY <1>0, <1>1, <1>2 DEF NoSpend
<1> QED BY <1>0, <1>2, <1>3, <1>4, <1>5, RequestMoves

LEMMA SettleCalls == ASSUME CallsInv, NEW r \in Requests, settle(r) PROVE CallsInv'
<1>k. PICK k : k = requests[r].key
  OBVIOUS
<1>0. /\ k = requests[r].key /\ requests[r] \in Request /\ requests[r] # Idle /\ k \in Keys /\ HeldReservation(r)
      /\ requests[r].at = "settling"
      /\ UNCHANGED <<policy, spends, today, capOf>>
  BY <1>k DEF settle, CallsInv, SpendTypeOK, ReservationsHeld, Request, Idle
<1>1. calls[k] = 0 /\ charged[k] = 0 /\ spends[k].state = "reserved"
  BY <1>0 DEF HeldReservation, CallsInv, CalledAtMostOnce, SpendTypeOK
<1>2. PICK outcome \in {"submitted", "unknown", "failed"}, made \in {0, 1} :
          /\ outcome = "failed" => made = 0
          /\ calls' = [calls EXCEPT ![k] = @ + 1]
          /\ charged' = [charged EXCEPT ![k] = @ + made]
          /\ requests' = [requests EXCEPT ![r].at = "recording", ![r].outcome = outcome]
  BY <1>k DEF settle
<1>p. PICK req : req = [requests[r] EXCEPT !.at = "recording", !.outcome = outcome]
  OBVIOUS
<1>3. /\ req \in Request /\ req # Idle /\ req.key = k /\ req.at = "recording"
      /\ req.outcome = outcome
  BY <1>0, <1>p DEF Request, Steps, Idle
<1>4. requests' = [requests EXCEPT ![r] = req]
  BY <1>0, <1>2, <1>p DEF CallsInv, SpendTypeOK
<1>5. /\ calls'[k] = 1 /\ charged'[k] = made
      /\ \A j \in Keys : j # k => calls'[j] = calls[j] /\ charged'[j] = charged[j]
  BY <1>0, <1>1, <1>2 DEF CallsInv, SpendTypeOK
<1>6. requests'[r] = req /\ SpendTypeOK'
  <2>1. calls' \in [Keys -> Nat] /\ charged' \in [Keys -> Nat]
    BY <1>0, <1>2 DEF CallsInv, SpendTypeOK
  <2> QED BY <1>0, <1>3, <1>4, <2>1 DEF CallsInv, SpendTypeOK
<1>7. HeldReservation(r)'
  <2>1. \A q \in Requests \ {r} : requests'[q] = requests[q]
    BY <1>4 DEF CallsInv, SpendTypeOK
  <2> QED BY <1>0, <1>1, <1>2, <1>3, <1>5, <1>6, <2>1 DEF HeldReservation
<1>8. req \in Request \cup {Idle}
  BY <1>3
<1>9. /\ spends'[k] # NoSpend /\ spends'[k].state # "failed"
      /\ charged'[k] <= calls'[k] /\ calls'[k] <= 1
      /\ \A j \in Keys : j # k => /\ spends'[j] = spends[j] /\ calls'[j] = calls[j]
                                 /\ charged'[j] = charged[j]
  BY <1>0, <1>1, <1>5 DEF NoSpend
<1> QED BY <1>0, <1>3, <1>4, <1>6, <1>7, <1>8, <1>9, RequestMoves

LEMMA RecordCalls == ASSUME CallsInv, NEW r \in Requests, record(r) PROVE CallsInv'
<1>k. PICK k : k = requests[r].key
  OBVIOUS
<1>0. /\ k = requests[r].key /\ requests[r] \in Request /\ requests[r] # Idle /\ k \in Keys /\ HeldReservation(r)
      /\ requests[r].at = "recording"
      /\ requests' = [requests EXCEPT ![r] = Idle]
      /\ transition(k, requests[r].outcome)
      /\ UNCHANGED <<policy, today, calls, charged, capOf>>
  BY <1>k DEF record, CallsInv, SpendTypeOK, ReservationsHeld, Request, Idle
<1>1. /\ requests[r].outcome \in {"submitted", "unknown", "failed"}
      /\ requests[r].outcome = "failed" => charged[k] = 0
      /\ spends[k].state = "reserved" /\ spends[k] # NoSpend
  BY <1>0 DEF HeldReservation, Request, NoSpend
<1>2. /\ spends' \in [Keys -> Spend \cup {NoSpend}]
      /\ \A j \in Keys : j # k => spends'[j] = spends[j]
      /\ spends'[k] # NoSpend
      /\ spends'[k].state \in {requests[r].outcome, "reserved"}
  BY <1>0, <1>1, TransitionKeeps DEF CallsInv
<1>3. SpendTypeOK'
  BY <1>0, <1>2 DEF CallsInv, SpendTypeOK
<1> QED BY <1>0, <1>1, <1>2, <1>3, RequestMoves DEF CallsInv, CalledAtMostOnce

LEMMA CrashCalls == ASSUME CallsInv, NEW r \in Requests, Crash(r) PROVE CallsInv'
<1>k. PICK k : k = requests[r].key
  OBVIOUS
<1>0. /\ k = requests[r].key /\ requests[r] # Idle /\ requests[r] \in Request /\ k \in Keys /\ HeldReservation(r)
      /\ requests' = [requests EXCEPT ![r] = Idle]
      /\ UNCHANGED <<policy, spends, today, calls, charged, capOf>>
  BY <1>k DEF Crash, CallsInv, SpendTypeOK, ReservationsHeld, Request
<1>1. spends[k].state = "reserved" /\ spends[k] # NoSpend
  BY <1>0 DEF HeldReservation, NoSpend
<1>2. SpendTypeOK'
  BY <1>0 DEF CallsInv, SpendTypeOK
<1> QED BY <1>0, <1>1, <1>2, RequestMoves DEF CallsInv, CalledAtMostOnce

LEMMA ConfirmCalls == ASSUME CallsInv, NEW k \in Keys, confirm(k) PROVE CallsInv'
<1>0. /\ charged[k] > 0 /\ transition(k, "confirmed")
      /\ UNCHANGED <<policy, today, requests, calls, charged, capOf>>
  BY DEF confirm
<1>1. /\ spends' \in [Keys -> Spend \cup {NoSpend}]
      /\ \A j \in Keys : j # k => spends'[j] = spends[j]
      /\ spends[k] = NoSpend => spends'[k] = NoSpend
      /\ spends[k] # NoSpend => /\ spends'[k] # NoSpend
                                /\ spends'[k].state \in {"confirmed", spends[k].state}
      /\ spends[k].state = "reserved" => spends'[k].state = "reserved"
  BY <1>0, TransitionKeeps DEF CallsInv, NoSpend
<1>2. SpendTypeOK'
  BY <1>0, <1>1 DEF CallsInv, SpendTypeOK
<1>3. ReservationsHeld'
  <2> SUFFICES ASSUME NEW r \in Requests, requests[r] # Idle PROVE HeldReservation(r)'
    BY <1>0 DEF ReservationsHeld
  <2>1. HeldReservation(r) /\ requests[r].key \in Keys
    BY DEF CallsInv, ReservationsHeld, SpendTypeOK, Request
  <2> QED BY <1>0, <1>1, <2>1 DEF HeldReservation
<1>4. UnusedIsUncalled' /\ CalledAtMostOnce'
  BY <1>0, <1>1 DEF CallsInv, UnusedIsUncalled, CalledAtMostOnce
<1>5. FailedIsUncharged'
  <2> SUFFICES ASSUME NEW j \in Keys, spends'[j].state = "failed"
               PROVE  spends[j].state = "failed"
    BY <1>0 DEF FailedIsUncharged, CallsInv
  <2> QED BY <1>1 DEF NoSpend
<1> QED BY <1>2, <1>3, <1>4, <1>5 DEF CallsInv

LEMMA NextCalls == CallsInv /\ [SpendNext]_spendVars => CallsInv'
<1> SUFFICES ASSUME CallsInv, [SpendNext]_spendVars PROVE CallsInv'
  OBVIOUS
<1>1. ASSUME NEW r \in Requests, execute(r) PROVE CallsInv'
  BY <1>1, ReserveCalls, GetPolicyCalls, SettleCalls, RecordCalls, CrashCalls DEF execute
<1>2. ASSUME NEW k \in Keys, confirm(k) PROVE CallsInv'
  BY <1>2, ConfirmCalls
<1>3. ASSUME NEW p \in Policies, setPolicy(p) PROVE CallsInv'
  BY <1>3, QuietSpendSteps DEF setPolicy, CallsInv, SpendTypeOK
<1>4. CASE Midnight
  BY <1>4, QuietSpendSteps, SpendAssumption DEF Midnight, CallsInv, SpendTypeOK
<1>5. CASE UNCHANGED spendVars
  BY <1>5, QuietSpendSteps DEF spendVars, CallsInv, SpendTypeOK
<1> QED BY <1>1, <1>2, <1>3, <1>4, <1>5 DEF SpendNext

(* The daily cap: a bound on the sum of the active spends of a day.        *)
LEMMA SumToMonotone ==
    ASSUME NEW n \in Nat, NEW f \in [1..n -> Nat], NEW g \in [1..n -> Nat],
           \A i \in 1..n : f[i] <= g[i]
    PROVE  SumTo(f, n) <= SumTo(g, n) /\ SumTo(f, n) \in Int /\ SumTo(g, n) \in Int
<1>0. f \in [1..n -> Int] /\ g \in [1..n -> Int]
  OBVIOUS
<1>1. SumTo(f, n) \in Int /\ SumTo(g, n) \in Int
  <2>1. PICK s : IsPartialSums(s, f, n) /\ SumTo(f, n) = s[n]
    BY <1>0, SumToIsPartialSum
  <2>2. PICK t : IsPartialSums(t, g, n) /\ SumTo(g, n) = t[n]
    BY <1>0, SumToIsPartialSum
  <2> QED BY <2>1, <2>2 DEF IsPartialSums
<1>2. CASE n = 0
  <2>1. (\A i \in 1..n : f[i] = 0) /\ (\A i \in 1..n : g[i] = 0)
    BY <1>2
  <2>2. SumTo(f, n) = 0
    BY <1>0, <2>1, SumToZero
  <2>3. SumTo(g, n) = 0
    BY <1>0, <2>1, SumToZero
  <2> QED BY <2>2, <2>3
<1>3. CASE n # 0
  <2>1. 1 \in 1..n /\ f[1] + 0 <= g[1]
    BY <1>3
  <2>2. SumTo(f, n) + 0 <= SumTo(g, n)
    BY <2>1, SumToGap
  <2> QED BY <1>1, <2>2
<1> QED BY <1>2, <1>3

LEMMA ActiveType ==
    ASSUME NEW d, SpendTypeOK
    PROVE  activeSpend(d) \in [1..MaxKeys -> Nat]
<1>1. ASSUME NEW k \in Keys, spends[k].state \notin {"none", "failed"}
      PROVE  spends[k].amount \in Nat
  <2>1. spends[k] \in Spend
    BY <1>1 DEF SpendTypeOK, NoSpend
  <2> QED BY <2>1, SpendAssumption DEF Spend
<1> QED BY <1>1 DEF activeSpend, Keys

LEMMA NextActiveType ==
    ASSUME NEW d, SpendTypeOK'
    PROVE  activeSpend(d)' \in [1..MaxKeys -> Nat]
<1>1. ASSUME NEW k \in Keys, spends'[k].state \notin {"none", "failed"}
      PROVE  spends'[k].amount \in Nat
  <2>1. spends'[k] \in Spend
    BY <1>1 DEF SpendTypeOK, NoSpend
  <2> QED BY <2>1, SpendAssumption DEF Spend
<1> QED BY <1>1 DEF activeSpend, Keys

(* A step after which no spend weighs more, and no cap was checked anew.   *)
LEMMA LighterWithinCap ==
    ASSUME SpendTypeOK, SpendTypeOK', ActiveWithinCap, UNCHANGED capOf,
           \A k \in Keys : spends'[k].state \notin {"none", "failed"} =>
               /\ spends[k].state \notin {"none", "failed"}
               /\ spends'[k].day = spends[k].day /\ spends'[k].amount = spends[k].amount
    PROVE  ActiveWithinCap'
<1> SUFFICES ASSUME NEW d \in 1..Days PROVE used(d)' <= capOf'[d]
  BY DEF ActiveWithinCap
<1>1. activeSpend(d) \in [1..MaxKeys -> Nat] /\ activeSpend(d)' \in [1..MaxKeys -> Nat]
  BY ActiveType, NextActiveType
<1>2. \A k \in 1..MaxKeys : activeSpend(d)'[k] <= activeSpend(d)[k]
  <2> SUFFICES ASSUME NEW k \in 1..MaxKeys PROVE activeSpend(d)'[k] <= activeSpend(d)[k]
    OBVIOUS
  <2>1. activeSpend(d)'[k] = 0 \/ activeSpend(d)'[k] = activeSpend(d)[k]
    BY DEF activeSpend, Keys
  <2> QED BY <1>1, <2>1
<1>3. used(d)' <= used(d) /\ used(d) \in Int /\ used(d)' \in Int
  BY <1>1, <1>2, SumToMonotone, SpendAssumption DEF used
<1>4. used(d) <= capOf[d] /\ capOf[d] \in Nat
  BY DEF ActiveWithinCap, SpendTypeOK
<1> QED BY <1>3, <1>4

LEMMA ReserveWithinCap ==
    ASSUME CallsInv, CallsInv', ActiveWithinCap, NEW r \in Requests, NEW k \in Keys,
           NEW amount \in SpendAmounts, NEW to \in Recipients, reserve(r, k, amount, to)
    PROVE  ActiveWithinCap'
<1> SUFFICES ASSUME NEW d \in 1..Days PROVE used(d)' <= capOf'[d]
  BY DEF ActiveWithinCap
<1>0. /\ spends[k] = NoSpend /\ used(today) + amount <= policy.daily
      /\ spends' = [spends EXCEPT ![k] = Reserved(today, amount, to)]
      /\ capOf' = [capOf EXCEPT ![today] = policy.daily]
      /\ amount \in Nat /\ today \in 1..Days
      /\ spends \in [Keys -> Spend \cup {NoSpend}]
      /\ capOf \in [1..Days -> Nat]
  BY SpendAssumption DEF reserve, unused, CallsInv, SpendTypeOK
<1>1. activeSpend(d) \in [1..MaxKeys -> Nat] /\ activeSpend(d)' \in [1..MaxKeys -> Nat]
  BY ActiveType, NextActiveType DEF CallsInv
<1>2. \A j \in 1..MaxKeys : j # k => activeSpend(d)'[j] = activeSpend(d)[j]
  BY <1>0 DEF activeSpend, Keys
<1>3. activeSpend(d)[k] = 0 /\ activeSpend(d)'[k] = IF d = today THEN amount ELSE 0
  BY <1>0 DEF activeSpend, NoSpend, Reserved
<1>4. used(d)' = used(d) + (IF d = today THEN amount ELSE 0)
  <2>1. activeSpend(d) \in [1..MaxKeys -> Int] /\ activeSpend(d)' \in [1..MaxKeys -> Int]
    BY <1>1
  <2>2. SumTo(activeSpend(d)', MaxKeys)
            = SumTo(activeSpend(d), MaxKeys) + (activeSpend(d)'[k] - activeSpend(d)[k])
    BY <1>2, <2>1, SumToUpdate, SpendAssumption DEF Keys
  <2>3. activeSpend(d)'[k] - activeSpend(d)[k] = IF d = today THEN amount ELSE 0
    BY <1>0, <1>3
  <2>4. used(d)' = SumTo(activeSpend(d)', MaxKeys) /\ used(d) = SumTo(activeSpend(d), MaxKeys)
    BY DEF used
  <2> QED BY <2>2, <2>3, <2>4, Zenon
<1>5. used(d) \in Int /\ used(d) <= capOf[d] /\ capOf[d] \in Nat
  <2>1. used(d) \in Int
    <3>1. \A j \in 1..MaxKeys : activeSpend(d)[j] <= activeSpend(d)[j]
      BY <1>1
    <3> QED BY <1>1, <3>1, SumToMonotone, SpendAssumption DEF used
  <2> QED BY <1>0, <2>1 DEF ActiveWithinCap
<1>6. CASE d = today
  <2>1. used(d)' = used(today) + amount /\ capOf'[d] = policy.daily
    BY <1>0, <1>4, <1>6
  <2> QED BY <1>0, <2>1
<1>7. CASE d # today
  <2>1. used(d)' = used(d) + 0 /\ capOf'[d] = capOf[d]
    BY <1>0, <1>4, <1>7
  <2> QED BY <1>5, <2>1
<1> QED BY <1>6, <1>7

LEMMA NextWithinCap ==
    CallsInv /\ CallsInv' /\ ActiveWithinCap /\ [SpendNext]_spendVars => ActiveWithinCap'
<1> SUFFICES ASSUME CallsInv, CallsInv', ActiveWithinCap, [SpendNext]_spendVars
             PROVE  ActiveWithinCap'
  OBVIOUS
<1>0. SpendTypeOK /\ SpendTypeOK'
  BY DEF CallsInv
<1>1. ASSUME NEW r \in Requests, NEW k \in Keys, NEW amount \in SpendAmounts,
             NEW to \in Recipients, reserve(r, k, amount, to)
      PROVE  ActiveWithinCap'
  BY <1>1, ReserveWithinCap
<1>2. CASE UNCHANGED <<spends, capOf>>
  BY <1>0, <1>2, LighterWithinCap
<1>3. ASSUME UNCHANGED capOf, NEW k, k \in Keys,
             NEW to \in {"submitted", "unknown", "failed", "confirmed"}, transition(k, to)
      PROVE  ActiveWithinCap'
  <2>1. /\ \A j \in Keys : j # k => spends'[j] = spends[j]
        /\ spends[k] = NoSpend => spends'[k] = NoSpend
        /\ spends[k] # NoSpend =>
              /\ spends'[k].day = spends[k].day /\ spends'[k].amount = spends[k].amount
              /\ spends[k].state = "failed" => spends'[k].state = "failed"
    BY <1>0, <1>3, TransitionKeeps
  <2>2. NoSpend.state = "none" /\ (spends[k] # NoSpend => spends[k].state # "none")
    BY <1>0, <1>3 DEF NoSpend, SpendTypeOK, Spend, SpendState
  <2> QED BY <1>0, <1>3, <2>1, <2>2, LighterWithinCap
<1>4. ASSUME NEW r \in Requests, record(r) PROVE ActiveWithinCap'
  <2>1. PICK k, to : k = requests[r].key /\ to = requests[r].outcome
    OBVIOUS
  <2>2. requests[r] # Idle /\ HeldReservation(r) /\ requests[r] \in Request
    BY <1>4 DEF record, CallsInv, ReservationsHeld, SpendTypeOK, Idle
  <2>3. k \in Keys /\ to \in {"submitted", "unknown", "failed", "confirmed"}
    BY <1>4, <2>1, <2>2 DEF record, HeldReservation, Request
  <2> QED BY <1>3, <1>4, <2>1, <2>3 DEF record
<1>5. ASSUME NEW k \in Keys, confirm(k) PROVE ActiveWithinCap'
  BY <1>3, <1>5 DEF confirm
<1> QED BY <1>1, <1>2, <1>4, <1>5
        DEF SpendNext, execute, getPolicy, settle, Crash, setPolicy, Midnight, spendVars

LEMMA SpendInvImpliesCap == SpendInv => ChargesWithinCap
<1> SUFFICES ASSUME SpendInv, NEW d \in 1..Days PROVE SumTo(chargedOn(d), MaxKeys) <= capOf[d]
  BY DEF ChargesWithinCap
<1>0. SpendTypeOK /\ CalledAtMostOnce /\ FailedIsUncharged /\ ActiveWithinCap
  BY DEF SpendInv, CallsInv
<1>1. activeSpend(d) \in [1..MaxKeys -> Nat]
  BY <1>0, ActiveType
<1>2. ASSUME NEW k \in 1..MaxKeys
      PROVE  chargedOn(d)[k] \in Nat /\ chargedOn(d)[k] <= activeSpend(d)[k]
  <2>1. charged[k] \in {0, 1} /\ (spends[k].state = "failed" => charged[k] = 0)
    BY <1>0 DEF SpendTypeOK, CalledAtMostOnce, FailedIsUncharged, Keys
  <2>2. spends[k] # NoSpend => spends[k].amount \in Nat /\ spends[k].state # "none"
    BY <1>0, SpendAssumption DEF SpendTypeOK, Spend, SpendState, Keys
  <2>3. CASE spends[k] # NoSpend /\ spends[k].day = d
    <3>1. chargedOn(d)[k] = charged[k] * spends[k].amount
      BY <2>3 DEF chargedOn, Keys
    <3>2. CASE charged[k] = 0
      BY <1>1, <2>2, <2>3, <3>1, <3>2
    <3>3. CASE charged[k] = 1
      <4>1. activeSpend(d)[k] = spends[k].amount
        BY <2>1, <2>2, <2>3, <3>3 DEF activeSpend, Keys
      <4> QED BY <2>2, <2>3, <3>1, <3>3, <4>1
    <3> QED BY <2>1, <3>2, <3>3
  <2>4. CASE ~(spends[k] # NoSpend /\ spends[k].day = d)
    <3>1. chargedOn(d)[k] = 0
      BY <2>4 DEF chargedOn, Keys
    <3> QED BY <1>1, <3>1
  <2> QED BY <2>3, <2>4
<1>3. chargedOn(d) \in [1..MaxKeys -> Nat]
  BY <1>2 DEF chargedOn, Keys
<1>4. /\ SumTo(chargedOn(d), MaxKeys) <= used(d) /\ SumTo(chargedOn(d), MaxKeys) \in Int
      /\ used(d) \in Int
  BY <1>1, <1>2, <1>3, SumToMonotone, SpendAssumption DEF used
<1>5. used(d) <= capOf[d] /\ capOf[d] \in Nat
  BY <1>0 DEF ActiveWithinCap, SpendTypeOK
<1> QED BY <1>4, <1>5

THEOREM SpendInvariant == SpendSpec => []SpendInv
<1>1. SpendInv /\ [SpendNext]_spendVars => SpendInv'
  BY NextCalls, NextWithinCap DEF SpendInv
<1> QED BY <1>1, SpendInitInv, PTL DEF SpendSpec

(* Racing, retried and dying calls never charge the wallet more in a day   *)
(* than the cap in force when the day's last reservation was made.         *)
THEOREM ChargesStayWithinCap == SpendSpec => []ChargesWithinCap
BY SpendInvariant, SpendInvImpliesCap, PTL

(* A key reaches the provider at most once, for any number of keys, calls  *)
(* and days.                                                               *)
THEOREM KeysCalledOnce == SpendSpec => []CalledAtMostOnce
<1>1. SpendInv => CalledAtMostOnce
  BY DEF SpendInv, CallsInv
<1> QED BY <1>1, SpendInvariant, PTL

(* What a failed spend gave back to its day was never charged, nor can be. *)
THEOREM FailedSpendsUncharged == SpendSpec => []FailedIsUncharged
<1>1. SpendInv => FailedIsUncharged
  BY DEF SpendInv, CallsInv
<1> QED BY <1>1, SpendInvariant, PTL
-----------------------------------------------------------------------------
(* The escrow executor.  A call that passed its marker holds the intent's  *)
(* row; everything the row says about money it says because a transaction  *)
(* did it.                                                                 *)
Holding == {"calling", "receipt", "recording"}
FundLanded(i) == Landed(i, "fund") # {}

IntentFacts(i) ==
    /\ \A g, h \in Of(i, "fund") : g = h
    /\ escrow[i] = "prepared" => Of(i, "fund") = {}
    /\ Payouts(i) # {} => FundLanded(i)
    /\ escrow[i] \in {"funded", "release_pending", "refund_pending", "released", "refunded"} =>
           FundLanded(i)
    /\ escrow[i] = "released" => Landed(i, "release") # {}
    /\ escrow[i] = "refunded" => Landed(i, "refund") # {}
    /\ escrow[i] = "failed" /\ Payouts(i) = {} =>
           \A h \in Of(i, "fund") : transactions[h].status = "reverted"

CallFacts(c) ==
    /\ c.at = "marking" /\ c.action # "fund" => FundLanded(c.intent)
    /\ c.at \in Holding => escrow[c.intent] = markerState[c.action]
    /\ c.at = "calling" /\ c.action = "fund" => Of(c.intent, "fund") = {}
    /\ c.at = "receipt" => c.hash \in Of(c.intent, c.action)
    /\ c.at = "recording" =>
           /\ c.outcome # "none"
           /\ c.outcome = "success" => Landed(c.intent, c.action) # {}
           /\ c.outcome = "reverted" => /\ c.hash \in Of(c.intent, c.action)
                                        /\ transactions[c.hash].status = "reverted"

OneHolder ==
    \A q, r \in EscrowRequests :
        q # r /\ lifecycle[q].at \in Holding /\ lifecycle[r].at \in Holding =>
            lifecycle[q].intent # lifecycle[r].intent

ExecutionInv ==
    /\ ExecutionTypeOK
    /\ \A i \in EscrowIntents : IntentFacts(i)
    /\ \A q \in EscrowRequests : CallFacts(lifecycle[q])
    /\ OneHolder

LEMMA ExecutionInitInv == ExecutionInit => ExecutionInv
<1> SUFFICES ASSUME ExecutionInit PROVE ExecutionInv
  OBVIOUS
<1>1. ExecutionTypeOK
  BY ExecutionAssumption DEF ExecutionInit, ExecutionTypeOK, AgonEscrowIntentState
<1>2. \A i, action : Of(i, action) = {}
  BY DEF ExecutionInit, Of
<1>3. \A i \in EscrowIntents : IntentFacts(i)
  BY <1>2 DEF ExecutionInit, IntentFacts, Payouts
<1>4. \A q \in EscrowRequests : CallFacts(lifecycle[q]) /\ lifecycle[q].at \notin Holding
  BY DEF ExecutionInit, CallFacts, Ready, Holding
<1> QED BY <1>1, <1>3, <1>4 DEF ExecutionInv, OneHolder

(* A call moves on, or ends, without writing anything. *)
LEMMA QuietCall ==
    ASSUME ExecutionInv, NEW q \in EscrowRequests, NEW c \in Call \cup {Ready},
           lifecycle' = [lifecycle EXCEPT ![q] = c], UNCHANGED <<escrow, approval, pool, transactions>>,
           c.at \in Holding => lifecycle[q].at \in Holding /\ lifecycle[q].intent = c.intent,
           CallFacts(c)
    PROVE  ExecutionInv'
<1>1. /\ lifecycle'[q] = c
      /\ \A r \in EscrowRequests : r # q => lifecycle'[r] = lifecycle[r]
  BY DEF ExecutionInv, ExecutionTypeOK
<1>2. ExecutionTypeOK'
  BY DEF ExecutionInv, ExecutionTypeOK
<1>3. \A i, action : Of(i, action)' = Of(i, action) /\ Landed(i, action)' = Landed(i, action)
  BY DEF Of, Landed
<1>4. \A i \in EscrowIntents : IntentFacts(i)'
  BY <1>3 DEF ExecutionInv, IntentFacts, Payouts, FundLanded
<1>5. \A d : CallFacts(d) => CallFacts(d)'
  BY <1>3 DEF CallFacts, FundLanded
<1>6. \A r \in EscrowRequests : CallFacts(lifecycle[r])'
  <2> SUFFICES ASSUME NEW r \in EscrowRequests PROVE CallFacts(lifecycle[r])'
    OBVIOUS
  <2>1. PICK d : d = lifecycle'[r]
    OBVIOUS
  <2>2. CallFacts(d)
    BY <1>1, <2>1 DEF ExecutionInv
  <2>3. CallFacts(d)'
    BY <1>5, <2>2
  <2> QED BY <2>1, <2>3 DEF CallFacts
<1>7. OneHolder'
  BY <1>1 DEF ExecutionInv, OneHolder
<1> QED BY <1>2, <1>4, <1>6, <1>7 DEF ExecutionInv

(* The calls' own steps that write nothing. *)
LEMMA CallStepsQuiet ==
    ASSUME ExecutionInv, NEW q \in EscrowRequests,
           \/ \E i \in EscrowIntents, action \in AgonEscrowLifecycleAction :
                  executeAgonEscrowLifecycle(q, i, action)
           \/ CheckPool(q) \/ CheckApproval(q) \/ ReadIntent(q) \/ Receipt(q) \/ Die(q)
    PROVE  ExecutionInv'
<1>0. /\ lifecycle \in [EscrowRequests -> Call \cup {Ready}]
      /\ CallFacts(lifecycle[q])
  BY DEF ExecutionInv, ExecutionTypeOK
<1>p. PICK c : c = lifecycle'[q]
  OBVIOUS
<1>r. CASE lifecycle' = [lifecycle EXCEPT ![q] = Ready]
           /\ UNCHANGED <<escrow, approval, pool, transactions>>
  <2>1. c = Ready /\ Ready.at \notin Holding /\ CallFacts(Ready)
    BY <1>0, <1>p, <1>r DEF Ready, Holding, CallFacts
  <2> QED BY <1>r, <2>1, QuietCall
<1>1. ASSUME NEW i \in EscrowIntents, NEW action \in AgonEscrowLifecycleAction,
             executeAgonEscrowLifecycle(q, i, action)
      PROVE  ExecutionInv'
  <2>1. /\ c = [at |-> "pool", intent |-> i, action |-> action, hash |-> 0, outcome |-> "none"]
        /\ lifecycle' = [lifecycle EXCEPT ![q] = c]
    BY <1>0, <1>1, <1>p DEF executeAgonEscrowLifecycle
  <2>2. c \in Call /\ c.at = "pool"
    BY <2>1 DEF Call
  <2>3. CallFacts(c) /\ c.at \notin Holding
    BY <2>2 DEF CallFacts, Holding
  <2> QED BY <1>1, <2>1, <2>2, <2>3, QuietCall DEF executeAgonEscrowLifecycle
<1>2. ASSUME NEW step \in {"approval", "intent", "marking"}, Goto(q, step),
             lifecycle[q].at \in {"pool", "approval", "intent"},
             UNCHANGED <<escrow, approval, pool, transactions>>,
             step = "marking" /\ lifecycle[q].action # "fund" => FundLanded(lifecycle[q].intent)
      PROVE  ExecutionInv'
  <2>1. /\ c = [lifecycle[q] EXCEPT !.at = step] /\ lifecycle[q] \in Call
        /\ lifecycle' = [lifecycle EXCEPT ![q] = c]
    BY <1>0, <1>2, <1>p DEF Goto, Ready
  <2>2. /\ c \in Call /\ c.at = step
        /\ c.intent = lifecycle[q].intent /\ c.action = lifecycle[q].action
    BY <2>1 DEF Call
  <2>3. CallFacts(c) /\ c.at \notin Holding
    BY <1>2, <2>2 DEF CallFacts, Holding
  <2> QED BY <1>2, <2>1, <2>2, <2>3, QuietCall
<1>3. ASSUME CheckPool(q) PROVE ExecutionInv'
  BY <1>2, <1>3, <1>r DEF CheckPool, Return
<1>4. ASSUME CheckApproval(q) PROVE ExecutionInv'
  BY <1>2, <1>4, <1>r DEF CheckApproval, Return
<1>5. ASSUME ReadIntent(q) PROVE ExecutionInv'
  <2>1. CASE Return(q)
    BY <1>5, <1>r, <2>1 DEF ReadIntent, Return
  <2>2. CASE Goto(q, "marking") /\ escrow[lifecycle[q].intent] = readyState[lifecycle[q].action]
    <3>1. lifecycle[q] \in Call
      BY <1>0, <1>5 DEF ReadIntent, Ready
    <3>2. lifecycle[q].action # "fund" => escrow[lifecycle[q].intent] = "funded"
      BY <2>2, <3>1 DEF Call, AgonEscrowLifecycleAction, readyState
    <3>3. lifecycle[q].action # "fund" => FundLanded(lifecycle[q].intent)
      BY <3>1, <3>2 DEF Call, ExecutionInv, IntentFacts
    <3> QED BY <1>2, <1>5, <2>2, <3>3 DEF ReadIntent
  <2> QED BY <1>5, <2>1, <2>2 DEF ReadIntent
<1>6. ASSUME Receipt(q) PROVE ExecutionInv'
  <2>1. PICK outcome \in {"success", "reverted", "ambiguous"} :
            /\ Ends(q, outcome)
            /\ outcome = "success" => transactions[lifecycle[q].hash].status = "landed"
            /\ outcome = "reverted" => transactions[lifecycle[q].hash].status = "reverted"
    BY <1>6 DEF Receipt
  <2>2. lifecycle[q] \in Call /\ lifecycle[q].at = "receipt"
    BY <1>0, <1>6 DEF Receipt, Ready
  <2>3. PICK d : d = [lifecycle[q] EXCEPT !.at = "recording", !.outcome = outcome]
    OBVIOUS
  <2>4. /\ d \in Call /\ d.at = "recording" /\ d.outcome = outcome /\ d.hash = lifecycle[q].hash
        /\ d.intent = lifecycle[q].intent /\ d.action = lifecycle[q].action
    BY <2>2, <2>3 DEF Call
  <2>5. lifecycle' = [lifecycle EXCEPT ![q] = d]
    BY <1>0, <2>1, <2>3 DEF Ends
  <2>6. d.hash \in Of(d.intent, d.action)
    BY <1>0, <2>2, <2>4 DEF CallFacts
  <2>7. outcome = "success" => d.hash \in Landed(d.intent, d.action)
    BY <2>1, <2>4, <2>6 DEF Landed
  <2>8. CallFacts(d)
    <3>1. lifecycle[q].at \in Holding
      BY <2>2 DEF Holding
    <3>2. escrow[d.intent] = markerState[d.action]
      BY <1>0, <2>4, <3>1 DEF CallFacts
    <3> QED BY <2>1, <2>4, <2>6, <2>7, <3>2 DEF CallFacts
  <2>9. lifecycle[q].at \in Holding
    BY <2>2 DEF Holding
  <2> QED BY <1>6, <2>4, <2>5, <2>8, <2>9, QuietCall DEF Receipt
<1>7. ASSUME Die(q) PROVE ExecutionInv'
  BY <1>7, <1>r DEF Die, Return
<1> QED BY <1>1, <1>3, <1>4, <1>5, <1>6, <1>7

(* The owner's and the controller's own steps. *)
LEMMA OutsideStepsQuiet ==
    ASSUME ExecutionInv,
           \/ \E i \in EscrowIntents, action \in AgonEscrowLifecycleAction :
                  approveAgonEscrowTransaction(i, action)
           \/ \E i \in EscrowIntents : ApprovalExpires(i)
           \/ \E p \in PoolIds : ControllerMovesPool(p)
           \/ UNCHANGED executionVars
    PROVE  ExecutionInv'
<1>1. UNCHANGED <<escrow, lifecycle, transactions>>
  BY DEF approveAgonEscrowTransaction, ApprovalExpires, ControllerMovesPool, executionVars
<1>2. ExecutionTypeOK'
  <2>0. ExecutionTypeOK
    BY DEF ExecutionInv
  <2>1. ASSUME NEW i \in EscrowIntents, NEW action \in AgonEscrowLifecycleAction \cup {"none"},
               approval' = [approval EXCEPT ![i] = action], UNCHANGED pool
        PROVE  ExecutionTypeOK'
    BY <1>1, <2>0, <2>1 DEF ExecutionTypeOK
  <2>2. ASSUME NEW p \in PoolIds, ControllerMovesPool(p) PROVE ExecutionTypeOK'
    <3>1. PICK balance \in 0..MaxPool : pool' = [pool EXCEPT ![p] = balance]
      BY <2>2 DEF ControllerMovesPool
    <3>2. balance \in Nat
      BY ExecutionAssumption
    <3> QED BY <2>0, <2>2, <3>1, <3>2 DEF ControllerMovesPool, ExecutionTypeOK
  <2>3. CASE UNCHANGED executionVars
    BY <2>0, <2>3 DEF executionVars, ExecutionTypeOK
  <2> QED BY <2>1, <2>2, <2>3 DEF approveAgonEscrowTransaction, ApprovalExpires
<1>3. \A i, action : Of(i, action)' = Of(i, action) /\ Landed(i, action)' = Landed(i, action)
  BY <1>1 DEF Of, Landed
<1> QED BY <1>1, <1>2, <1>3
        DEF ExecutionInv, IntentFacts, CallFacts, OneHolder, Payouts, FundLanded

(* The marker is only set on a row nobody holds. *)
LEMMA MarkKeeps ==
    ASSUME ExecutionInv, NEW q \in EscrowRequests, Mark(q)
    PROVE  ExecutionInv'
<1>0. /\ lifecycle \in [EscrowRequests -> Call \cup {Ready}] /\ CallFacts(lifecycle[q])
      /\ lifecycle[q] \in Call /\ lifecycle[q].at = "marking"
      /\ UNCHANGED <<approval, pool, transactions>>
  BY DEF ExecutionInv, ExecutionTypeOK, Mark, Ready
<1>i. PICK i, a : i = lifecycle[q].intent /\ a = lifecycle[q].action
  OBVIOUS
<1>1. CASE escrow' = escrow /\ Return(q)
  <2>1. Ready.at \notin Holding /\ CallFacts(Ready)
    BY DEF Ready, Holding, CallFacts
  <2> QED BY <1>0, <1>1, <2>1, QuietCall DEF Return
<1>2. CASE /\ isAgonEscrowTransitionAllowed(escrow[i], markerState[a])
           /\ escrow' = [escrow EXCEPT ![i] = markerState[a]]
           /\ Goto(q, "calling")
  <2>1. i \in EscrowIntents /\ a \in AgonEscrowLifecycleAction /\ escrow[i] \in AgonEscrowIntentState
    BY <1>0, <1>i DEF Call, ExecutionInv, ExecutionTypeOK
  <2>2. /\ \A b \in AgonEscrowLifecycleAction : escrow[i] # markerState[b]
        /\ a = "fund" => escrow[i] = "prepared"
        /\ markerState[a] \in {"funding", "release_pending", "refund_pending"}
        /\ a = "fund" => markerState[a] = "funding"
    BY <1>2, <2>1 DEF isAgonEscrowTransitionAllowed, Transitions, markerState,
                      AgonEscrowLifecycleAction, AgonEscrowIntentState
  <2>3. ASSUME NEW r \in EscrowRequests, lifecycle[r].at \in Holding
        PROVE  lifecycle[r].intent # i
    <3>1. lifecycle[r] \in Call /\ CallFacts(lifecycle[r])
      BY <2>3 DEF ExecutionInv, ExecutionTypeOK, Ready, Holding
    <3>2. escrow[lifecycle[r].intent] = markerState[lifecycle[r].action]
          /\ lifecycle[r].action \in AgonEscrowLifecycleAction
      BY <2>3, <3>1 DEF CallFacts, Call
    <3> QED BY <2>2, <3>2
  <2>4. PICK c : c = [lifecycle[q] EXCEPT !.at = "calling"]
    OBVIOUS
  <2>5. /\ c \in Call /\ c.at = "calling" /\ c.intent = i /\ c.action = a
        /\ lifecycle' = [lifecycle EXCEPT ![q] = c]
    BY <1>0, <1>2, <1>i, <2>4 DEF Call, Goto
  <2>6. /\ lifecycle'[q] = c /\ \A r \in EscrowRequests : r # q => lifecycle'[r] = lifecycle[r]
        /\ escrow'[i] = markerState[a]
        /\ \A j \in EscrowIntents : j # i => escrow'[j] = escrow[j]
    BY <1>0, <1>2, <2>1, <2>5 DEF ExecutionInv, ExecutionTypeOK
  <2>7. ExecutionTypeOK'
    BY <1>0, <1>2, <2>1, <2>2, <2>5 DEF ExecutionInv, ExecutionTypeOK, AgonEscrowIntentState
  <2>8. \A j, b : Of(j, b)' = Of(j, b) /\ Landed(j, b)' = Landed(j, b)
    BY <1>0 DEF Of, Landed
  <2>9. a # "fund" => FundLanded(i)
    BY <1>0, <1>i DEF CallFacts
  <2>10. \A j \in EscrowIntents : IntentFacts(j)'
    <3> SUFFICES ASSUME NEW j \in EscrowIntents PROVE IntentFacts(j)'
      OBVIOUS
    <3>1. IntentFacts(j)
      BY DEF ExecutionInv
    <3>2. CASE j = i
      <4>1. escrow'[j] \in {"release_pending", "refund_pending"} => a # "fund"
        BY <2>2, <2>6, <3>2
      <4> QED BY <2>2, <2>6, <2>8, <2>9, <3>1, <3>2, <4>1
              DEF IntentFacts, Payouts, FundLanded
    <3>3. CASE j # i
      BY <1>0, <2>6, <2>8, <3>1, <3>3 DEF IntentFacts, Payouts, FundLanded
    <3> QED BY <3>2, <3>3
  <2>11. \A r \in EscrowRequests : CallFacts(lifecycle[r])'
    <3> SUFFICES ASSUME NEW r \in EscrowRequests PROVE CallFacts(lifecycle[r])'
      OBVIOUS
    <3>1. CASE r = q
      <4>1. a = "fund" => Of(i, "fund") = {}
        BY <2>1, <2>2 DEF ExecutionInv, IntentFacts
      <4> QED BY <2>5, <2>6, <2>8, <3>1, <4>1 DEF CallFacts, Holding
    <3>2. CASE r # q
      <4>1. lifecycle'[r] = lifecycle[r] /\ CallFacts(lifecycle[r])
        BY <2>6, <3>2 DEF ExecutionInv
      <4>2. lifecycle[r].at \in Holding =>
                lifecycle[r].intent \in EscrowIntents /\ lifecycle[r].intent # i
        BY <2>3 DEF ExecutionInv, ExecutionTypeOK, Ready, Holding, Call
      <4> QED BY <1>0, <2>6, <2>8, <4>1, <4>2 DEF CallFacts, FundLanded
    <3> QED BY <3>1, <3>2
  <2>12. OneHolder'
    BY <2>3, <2>5, <2>6 DEF ExecutionInv, OneHolder
  <2> QED BY <2>7, <2>10, <2>11, <2>12 DEF ExecutionInv
<1> QED BY <1>1, <1>2, <1>i DEF Mark

(* The outcome is recorded for what the transaction really did. *)
LEMMA RecordKeeps ==
    ASSUME ExecutionInv, NEW q \in EscrowRequests, Record(q)
    PROVE  ExecutionInv'
<1>0. /\ lifecycle \in [EscrowRequests -> Call \cup {Ready}] /\ CallFacts(lifecycle[q])
      /\ lifecycle[q] \in Call /\ lifecycle[q].at = "recording"
      /\ lifecycle' = [lifecycle EXCEPT ![q] = Ready]
      /\ UNCHANGED <<approval, pool, transactions>>
  BY DEF ExecutionInv, ExecutionTypeOK, Record, Return, Ready
<1>i. PICK i, a : i = lifecycle[q].intent /\ a = lifecycle[q].action
  OBVIOUS
<1>1. CASE escrow' = escrow
  <2>1. Ready.at \notin Holding /\ CallFacts(Ready)
    BY DEF Ready, Holding, CallFacts
  <2> QED BY <1>0, <1>1, <2>1, QuietCall
<1>2. ASSUME NEW state, escrow' = [escrow EXCEPT ![i] = state],
             \/ state = "unknown"
             \/ lifecycle[q].outcome = "success" /\ state = terminalState[a]
             \/ lifecycle[q].outcome = "reverted" /\ state = "failed"
      PROVE  ExecutionInv'
  <2>1. i \in EscrowIntents /\ a \in AgonEscrowLifecycleAction
    BY <1>0, <1>i DEF Call
  <2>2. state \in {"unknown", "failed", "funded", "released", "refunded"}
    BY <1>2, <2>1 DEF terminalState, AgonEscrowLifecycleAction
  <2>3. /\ lifecycle'[q] = Ready /\ \A r \in EscrowRequests : r # q => lifecycle'[r] = lifecycle[r]
        /\ escrow'[i] = state
        /\ \A j \in EscrowIntents : j # i => escrow'[j] = escrow[j]
    BY <1>0, <1>2, <2>1 DEF ExecutionInv, ExecutionTypeOK
  <2>4. ExecutionTypeOK'
    BY <1>0, <1>2, <2>1, <2>2 DEF ExecutionInv, ExecutionTypeOK, AgonEscrowIntentState
  <2>5. \A j, b : Of(j, b)' = Of(j, b) /\ Landed(j, b)' = Landed(j, b)
    BY <1>0 DEF Of, Landed
  <2>6. \A r \in EscrowRequests : r # q /\ lifecycle[r].at \in Holding => lifecycle[r].intent # i
    BY <1>0, <1>i DEF ExecutionInv, OneHolder, Holding
  <2>7. IntentFacts(i)'
    <3>1. IntentFacts(i) /\ (a # "fund" => FundLanded(i))
      <4>1. escrow[i] = markerState[a]
        BY <1>0, <1>i DEF CallFacts, Holding
      <4> QED BY <2>1, <4>1 DEF ExecutionInv, IntentFacts, markerState, AgonEscrowLifecycleAction
    <3>2. CASE state = "unknown"
      BY <1>0, <2>3, <2>5, <3>1, <3>2 DEF IntentFacts, Payouts, FundLanded
    <3>3. CASE lifecycle[q].outcome = "success" /\ state = terminalState[a]
      <4>1. Landed(i, a) # {}
        BY <1>0, <1>i, <3>3 DEF CallFacts
      <4>2. /\ state = "funded" => FundLanded(i)
            /\ state = "released" => Landed(i, "release") # {} /\ FundLanded(i)
            /\ state = "refunded" => Landed(i, "refund") # {} /\ FundLanded(i)
            /\ state \in {"funded", "released", "refunded"}
        BY <2>1, <3>1, <3>3, <4>1 DEF terminalState, AgonEscrowLifecycleAction, FundLanded
      <4> QED BY <1>0, <2>3, <2>5, <3>1, <4>2 DEF IntentFacts, Payouts, FundLanded
    <3>4. CASE lifecycle[q].outcome = "reverted" /\ state = "failed"
      <4>1. PICK h : h = lifecycle[q].hash
        OBVIOUS
      <4>2. h \in Of(i, a) /\ transactions[h].status = "reverted"
        BY <1>0, <1>i, <3>4, <4>1 DEF CallFacts
      <4>3. Payouts(i) = {} => a = "fund"
        BY <2>1, <4>2 DEF Payouts, AgonEscrowLifecycleAction
      <4>4. Payouts(i) = {} => \A g \in Of(i, "fund") : transactions[g].status = "reverted"
        BY <3>1, <4>2, <4>3 DEF IntentFacts
      <4>5. Payouts(i)' = Payouts(i) /\ FundLanded(i)' = FundLanded(i)
        BY <2>5 DEF Payouts, FundLanded
      <4> QED BY <1>0, <2>3, <2>5, <3>1, <3>4, <4>4, <4>5 DEF IntentFacts
    <3> QED BY <1>2, <3>2, <3>3, <3>4
  <2>8. \A j \in EscrowIntents : IntentFacts(j)'
    <3> SUFFICES ASSUME NEW j \in EscrowIntents, j # i PROVE IntentFacts(j)'
      BY <2>7
    <3>1. IntentFacts(j)
      BY DEF ExecutionInv
    <3> QED BY <1>0, <2>3, <2>5, <3>1 DEF IntentFacts, Payouts, FundLanded
  <2>9. \A r \in EscrowRequests : CallFacts(lifecycle[r])'
    <3> SUFFICES ASSUME NEW r \in EscrowRequests PROVE CallFacts(lifecycle[r])'
      OBVIOUS
    <3>1. CASE r = q
      BY <2>3, <3>1 DEF CallFacts, Ready, Holding
    <3>2. CASE r # q
      <4>1. lifecycle'[r] = lifecycle[r] /\ CallFacts(lifecycle[r])
        BY <2>3, <3>2 DEF ExecutionInv
      <4>2. lifecycle[r].at \in Holding =>
                lifecycle[r].intent \in EscrowIntents /\ lifecycle[r].intent # i
        BY <2>6, <3>2 DEF ExecutionInv, ExecutionTypeOK, Ready, Holding, Call
      <4> QED BY <1>0, <2>3, <2>5, <4>1, <4>2 DEF CallFacts, FundLanded
    <3> QED BY <3>1, <3>2
  <2>10. OneHolder'
    <3>1. Ready.at \notin Holding
      BY DEF Ready, Holding
    <3> QED BY <2>3, <3>1 DEF ExecutionInv, OneHolder
  <2> QED BY <2>4, <2>8, <2>9, <2>10 DEF ExecutionInv
<1>3. lifecycle[q].outcome \in {"success", "reverted", "ambiguous"}
  BY <1>0 DEF CallFacts, Call
<1>4. PICK state : state = CASE lifecycle[q].outcome = "success"   -> terminalState[a]
                             [] lifecycle[q].outcome = "reverted"  -> "failed"
                             [] lifecycle[q].outcome = "ambiguous" -> "unknown"
  OBVIOUS
<1>5. escrow' = escrow \/ escrow' = [escrow EXCEPT ![i] = state]
  BY <1>4, <1>i DEF Record
<1>6. \/ state = "unknown"
      \/ lifecycle[q].outcome = "success" /\ state = terminalState[a]
      \/ lifecycle[q].outcome = "reverted" /\ state = "failed"
  BY <1>3, <1>4
<1> QED BY <1>1, <1>2, <1>5, <1>6

(* A call that still holds the row, after another call or the chain moved. *)
LEMMA CallFactsStand ==
    ASSUME NEW c \in Call, CallFacts(c), UNCHANGED escrow,
           c.at = "calling" => Of(c.intent, c.action)' = Of(c.intent, c.action),
           \A i, a : Of(i, a) \subseteq Of(i, a)' /\ Landed(i, a) \subseteq Landed(i, a)',
           \A h \in DOMAIN transactions :
               transactions[h].status = "reverted" => transactions'[h].status = "reverted"
    PROVE  CallFacts(c)'
<1>1. \A i, a : \A h \in Of(i, a) : h \in DOMAIN transactions
  BY DEF Of
<1> QED BY <1>1 DEF CallFacts, FundLanded

(* A transaction is sent for the intent whose row the call holds. *)
LEMMA WriteKeeps ==
    ASSUME ExecutionInv, NEW q \in EscrowRequests, Write(q)
    PROVE  ExecutionInv'
<1>0. /\ lifecycle \in [EscrowRequests -> Call \cup {Ready}] /\ CallFacts(lifecycle[q])
      /\ lifecycle[q] \in Call /\ lifecycle[q].at = "calling" /\ lifecycle[q].at \in Holding
      /\ transactions \in Seq(Transaction)
      /\ UNCHANGED <<escrow, approval, pool>>
  BY DEF ExecutionInv, ExecutionTypeOK, Write, Ready, Holding
<1>i. PICK i, a : i = lifecycle[q].intent /\ a = lifecycle[q].action
  OBVIOUS
<1>a. /\ i \in EscrowIntents /\ a \in AgonEscrowLifecycleAction
      /\ escrow[i] = markerState[a] /\ (a = "fund" => Of(i, "fund") = {})
  BY <1>0, <1>i DEF Call, CallFacts
<1>1. CASE Ends(q, "ambiguous") /\ transactions' = transactions
  <2>1. PICK c : c = [lifecycle[q] EXCEPT !.at = "recording", !.outcome = "ambiguous"]
    OBVIOUS
  <2>2. /\ c \in Call /\ c.at = "recording" /\ c.outcome = "ambiguous"
        /\ c.intent = i /\ c.action = a
    BY <1>0, <1>i, <2>1 DEF Call
  <2>3. lifecycle' = [lifecycle EXCEPT ![q] = c]
    BY <1>0, <1>1, <2>1 DEF Ends
  <2>4. CallFacts(c)
    BY <1>a, <2>2 DEF CallFacts
  <2> QED BY <1>0, <1>1, <1>i, <2>2, <2>3, <2>4, QuietCall
<1>2. ASSUME NEW step \in {"receipt", "recording"}, NEW outcome, NEW hash,
             step = "receipt" => outcome = "none",
             step = "recording" => outcome = "ambiguous",
             hash = Len(transactions) + 1,
             transactions' = Append(transactions,
                                    [intent |-> i, action |-> a, status |-> "pending"]),
             lifecycle' = [lifecycle EXCEPT ![q].at = step, ![q].outcome = outcome,
                                            ![q].hash = hash]
      PROVE  ExecutionInv'
  <2>1. PICK t : t = [intent |-> i, action |-> a, status |-> "pending"]
    OBVIOUS
  <2>2. t \in Transaction /\ t.intent = i /\ t.action = a /\ t.status = "pending"
    BY <1>a, <2>1 DEF Transaction
  <2>3. /\ transactions' \in Seq(Transaction) /\ transactions'[hash] = t
        /\ DOMAIN transactions' = DOMAIN transactions \cup {hash}
        /\ hash \in Nat /\ hash \notin DOMAIN transactions
        /\ \A h \in DOMAIN transactions : transactions'[h] = transactions[h]
    BY <1>0, <1>2, <2>1, <2>2
  <2>4. /\ Of(i, a)' = Of(i, a) \cup {hash}
        /\ \A j, b : j # i \/ b # a => Of(j, b)' = Of(j, b)
        /\ \A j, b : Landed(j, b)' = Landed(j, b)
    BY <2>2, <2>3 DEF Of, Landed
  <2>5. PICK c : c = [lifecycle[q] EXCEPT !.at = step, !.outcome = outcome, !.hash = hash]
    OBVIOUS
  <2>6. /\ c \in Call /\ c.at = step /\ c.outcome = outcome /\ c.hash = hash
        /\ c.intent = i /\ c.action = a
    BY <1>0, <1>2, <1>i, <2>3, <2>5 DEF Call
  <2>7. lifecycle' = [lifecycle EXCEPT ![q] = c]
    BY <1>0, <1>2, <2>5
  <2>8. /\ lifecycle'[q] = c /\ \A r \in EscrowRequests : r # q => lifecycle'[r] = lifecycle[r]
    BY <1>0, <2>7
  <2>9. ExecutionTypeOK'
    BY <1>0, <2>3, <2>6, <2>7 DEF ExecutionInv, ExecutionTypeOK
  <2>10. \A r \in EscrowRequests : r # q /\ lifecycle[r].at \in Holding => lifecycle[r].intent # i
    BY <1>0, <1>i DEF ExecutionInv, OneHolder
  <2>11. IntentFacts(i)'
    <3>1. IntentFacts(i) /\ escrow'[i] = markerState[a]
      BY <1>0, <1>a DEF ExecutionInv
    <3>2. CASE a = "fund"
      <4>1. Of(i, "fund")' = {hash} /\ Payouts(i)' = Payouts(i)
        BY <1>a, <2>4, <3>2 DEF Payouts
      <4>2. escrow'[i] = "funding"
        BY <3>1, <3>2 DEF markerState
      <4> QED BY <2>4, <3>1, <4>1, <4>2 DEF IntentFacts, FundLanded
    <3>3. CASE a # "fund"
      <4>1. Of(i, "fund")' = Of(i, "fund") /\ escrow'[i] \in {"release_pending", "refund_pending"}
        BY <1>a, <2>4, <3>1, <3>3 DEF markerState, AgonEscrowLifecycleAction
      <4>2. FundLanded(i) /\ FundLanded(i)'
        BY <1>0, <2>4, <3>1, <4>1 DEF IntentFacts, FundLanded
      <4> QED BY <2>4, <3>1, <4>1, <4>2 DEF IntentFacts
    <3> QED BY <3>2, <3>3
  <2>12. \A j \in EscrowIntents : IntentFacts(j)'
    <3> SUFFICES ASSUME NEW j \in EscrowIntents, j # i PROVE IntentFacts(j)'
      BY <2>11
    <3>1. IntentFacts(j)
      BY DEF ExecutionInv
    <3>2. \A h \in Of(j, "fund") : transactions'[h] = transactions[h]
      BY <2>3 DEF Of
    <3> QED BY <1>0, <2>4, <3>1, <3>2 DEF IntentFacts, Payouts, FundLanded
  <2>13. \A r \in EscrowRequests : CallFacts(lifecycle[r])'
    <3> SUFFICES ASSUME NEW r \in EscrowRequests PROVE CallFacts(lifecycle[r])'
      OBVIOUS
    <3>1. CASE r = q
      BY <1>0, <1>2, <1>a, <2>4, <2>6, <2>8, <3>1 DEF CallFacts
    <3>2. CASE r # q
      <4>1. PICK d : d = lifecycle[r]
        OBVIOUS
      <4>2. lifecycle'[r] = d /\ CallFacts(d) /\ d \in Call \cup {Ready}
        BY <2>8, <3>2, <4>1 DEF ExecutionInv, ExecutionTypeOK
      <4>3. CASE d = Ready
        BY <4>2, <4>3 DEF CallFacts, Ready, Holding
      <4>4. CASE d \in Call
        <5>1. d.at = "calling" => d.intent # i
          BY <2>10, <3>2, <4>1 DEF Holding
        <5>2. d.at = "calling" => Of(d.intent, d.action)' = Of(d.intent, d.action)
          BY <2>4, <5>1
        <5>3. \A j, b : Of(j, b) \subseteq Of(j, b)' /\ Landed(j, b) \subseteq Landed(j, b)'
          BY <2>4
        <5>4. CallFacts(d)'
          BY <1>0, <2>3, <4>2, <4>4, <5>2, <5>3, CallFactsStand
        <5> QED BY <4>2, <5>4 DEF CallFacts
      <4> QED BY <4>2, <4>3, <4>4
    <3> QED BY <3>1, <3>2
  <2>14. OneHolder'
    BY <1>0, <1>i, <2>6, <2>8, <2>10 DEF ExecutionInv, OneHolder
  <2> QED BY <2>9, <2>12, <2>13, <2>14 DEF ExecutionInv
<1> QED BY <1>1, <1>2, <1>i, Zenon DEF Write

(* The chain includes a transaction. *)
LEMMA IncludeKeeps ==
    ASSUME ExecutionInv, NEW n \in DOMAIN transactions, Include(n)
    PROVE  ExecutionInv'
<1>0. /\ lifecycle \in [EscrowRequests -> Call \cup {Ready}]
      /\ transactions \in Seq(Transaction) /\ pool \in [PoolIds -> Nat]
      /\ transactions[n] \in Transaction /\ transactions[n].status = "pending"
      /\ UNCHANGED <<escrow, approval, lifecycle>>
  BY DEF ExecutionInv, ExecutionTypeOK, Include
<1>1. PICK status \in {"landed", "reverted"} :
          transactions' = [transactions EXCEPT ![n].status = status]
  BY DEF Include
<1>2. PICK t : t = [transactions[n] EXCEPT !.status = status]
  OBVIOUS
<1>3. /\ t \in Transaction /\ t.intent = transactions[n].intent
      /\ t.action = transactions[n].action /\ t.status = status
  BY <1>0, <1>2 DEF Transaction
<1>4. transactions' = [transactions EXCEPT ![n] = t] /\ n \in 1..Len(transactions)
  BY <1>0, <1>1, <1>2
<1>5. transactions' \in Seq(Transaction)
  BY <1>0, <1>3, <1>4, ExceptSeq
<1>6. /\ DOMAIN transactions' = DOMAIN transactions /\ transactions'[n] = t
      /\ \A h \in DOMAIN transactions : h # n => transactions'[h] = transactions[h]
  BY <1>0, <1>4
<1>7. pool' \in [PoolIds -> Nat]
  <2>1. PICK p, amount : p = poolBinding[transactions[n].intent]
                         /\ amount = terms[transactions[n].intent]
    OBVIOUS
  <2>2. p \in PoolIds /\ amount \in Nat
    BY <1>0, <2>1, ExecutionAssumption DEF Transaction
  <2>3. \/ pool' = [pool EXCEPT ![p] = @ + amount]
        \/ pool[p] >= amount /\ pool' = [pool EXCEPT ![p] = @ - amount]
        \/ pool' = pool
    BY <2>1, Zenon DEF Include
  <2> QED BY <1>0, <2>2, <2>3
<1>8. ExecutionTypeOK'
  BY <1>0, <1>5, <1>7 DEF ExecutionInv, ExecutionTypeOK
<1>9. \A j, b : Of(j, b)' = Of(j, b) /\ Landed(j, b) \subseteq Landed(j, b)'
  BY <1>0, <1>3, <1>6 DEF Of, Landed
<1>10. \A h \in DOMAIN transactions :
           transactions[h].status = "reverted" => transactions'[h].status = "reverted"
  BY <1>0, <1>6
<1>11. \A j \in EscrowIntents : IntentFacts(j)'
  <2> SUFFICES ASSUME NEW j \in EscrowIntents PROVE IntentFacts(j)'
    OBVIOUS
  <2>1. IntentFacts(j)
    BY DEF ExecutionInv
  <2>2. Payouts(j)' = Payouts(j) /\ (FundLanded(j) => FundLanded(j)')
    BY <1>9 DEF Payouts, FundLanded
  <2>3. \A h \in Of(j, "fund") : h \in DOMAIN transactions
    BY DEF Of
  <2> QED BY <1>0, <1>9, <1>10, <2>1, <2>2, <2>3 DEF IntentFacts
<1>12. \A r \in EscrowRequests : CallFacts(lifecycle[r])'
  <2> SUFFICES ASSUME NEW r \in EscrowRequests PROVE CallFacts(lifecycle[r])'
    OBVIOUS
  <2>1. PICK d : d = lifecycle[r]
    OBVIOUS
  <2>2. lifecycle'[r] = d /\ CallFacts(d) /\ d \in Call \cup {Ready}
    BY <1>0, <2>1 DEF ExecutionInv
  <2>3. CASE d = Ready
    BY <2>2, <2>3 DEF CallFacts, Ready, Holding
  <2>4. CASE d \in Call
    <3>1. CallFacts(d)'
      BY <1>0, <1>9, <1>10, <2>2, <2>4, CallFactsStand
    <3> QED BY <2>2, <3>1 DEF CallFacts
  <2> QED BY <2>2, <2>3, <2>4
<1>13. OneHolder'
  BY <1>0 DEF ExecutionInv, OneHolder
<1> QED BY <1>8, <1>11, <1>12, <1>13 DEF ExecutionInv

THEOREM ExecutionInvariant == ExecutionSpec => []ExecutionInv
<1>1. ExecutionInv /\ [ExecutionNext]_executionVars => ExecutionInv'
  BY CallStepsQuiet, OutsideStepsQuiet, MarkKeeps, WriteKeeps, RecordKeeps, IncludeKeeps
     DEF ExecutionNext, LifecycleCall
<1> QED BY <1>1, ExecutionInitInv, PTL DEF ExecutionSpec

(* The marker is a lock, for any number of calls, deaths and retries. *)
THEOREM MarkerIsALock == ExecutionSpec => []OneCallHoldsTheMarker
<1>1. ExecutionInv => OneCallHoldsTheMarker
  BY DEF ExecutionInv, OneHolder, CallFacts, OneCallHoldsTheMarker, Holder, Holding
<1> QED BY <1>1, ExecutionInvariant, PTL

(* At most one deposit is ever sent for an intent, and nothing is paid out *)
(* for it before that deposit landed.                                      *)
THEOREM FundedOnce == ExecutionSpec => []FundedOnceBeforePayout
<1>1. ExecutionInv => FundedOnceBeforePayout
  BY DEF ExecutionInv, IntentFacts, FundLanded, FundedOnceBeforePayout
<1> QED BY <1>1, ExecutionInvariant, PTL

(* The record never claims a movement that did not happen. *)
THEOREM RecordIsTrue == ExecutionSpec => []RecordMatchesChain
<1>1. ExecutionInv => RecordMatchesChain
  <2> SUFFICES ASSUME ExecutionInv, NEW i \in EscrowIntents
               PROVE  /\ \A action \in AgonEscrowLifecycleAction :
                             escrow[i] = terminalState[action] => Landed(i, action) # {}
                      /\ escrow[i] = "failed" /\ Payouts(i) = {} =>
                             \A h \in Of(i, "fund") : transactions[h].status = "reverted"
    BY DEF RecordMatchesChain
  <2>1. IntentFacts(i)
    BY DEF ExecutionInv
  <2> QED BY <2>1 DEF IntentFacts, FundLanded, terminalState, AgonEscrowLifecycleAction
<1> QED BY <1>1, ExecutionInvariant, PTL
=============================================================================
