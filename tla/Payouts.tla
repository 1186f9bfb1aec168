------------------------------ MODULE Payouts ------------------------------
(***************************************************************************)
(* How the coordinator divides a contest's or a challenge's pool among the *)
(* entrants: the curves of payouts.ts and the volume curve of              *)
(* scoring/prediction.ts, with the integer divisions of their bigints.     *)
(*                                                                         *)
(* An operator enters once, so an entrant is its place in the results,     *)
(* which is also the order of agent ids; ties are between agents of equal  *)
(* strength.  A score is in hundredths: the runners round theirs to whole  *)
(* numbers, and a syndicate's rank then multiplies them by 1.02 to 1.05.   *)
(***************************************************************************)
EXTENDS Integers, Sequences, FiniteSets, SequencesExt

CONSTANTS MaxField,     \* bound: entrants
          Scores,       \* bound: the scores they get
          Traded,       \* whether an analyst took a position
          Claimables,   \* bound: the pools, less the platform fee
          CustomBps     \* bound: the shares of custom distributions

ASSUME PayoutsAssumption == /\ MaxField \in Nat /\ Scores \subseteq Nat
                            /\ Claimables \subseteq Nat /\ CustomBps \subseteq 0..10000
                            /\ Traded \subseteq BOOLEAN

VARIABLE distribution   \* the last one computed: its input and its payouts

total(f)  == SumFunction(f)
round(x)  == (x + 50) \div 100        \* Math.round of hundredths
leaf(entrant, amount) == [entrant |-> entrant, amount |-> amount]

(* The elements of S by a value that falls, then by one that rises, and    *)
(* equal ones in their own order: the place of each is the number of those *)
(* before it.                                                              *)
before(i, j, falls, rises) ==
    \/ falls[i] > falls[j]
    \/ falls[i] = falls[j] /\ rises[i] < rises[j]
    \/ falls[i] = falls[j] /\ rises[i] = rises[j] /\ i < j

sorted(S, falls, rises) ==
    LET ranked == {<<1 + Cardinality({j \in S : before(j, i, falls, rises)}), i>> : i \in S}
    IN  [k \in 1..Cardinality(S) |-> (CHOOSE r \in ranked : r[1] = k)[2]]

Places(results) == [i \in DOMAIN results |-> i]
rankResults(S, results) ==
    sorted(S, [i \in DOMAIN results |-> results[i].score], Places(results))

(* What the divisions dropped goes to the first.                           *)
WithoutResidual(shares, claimable) == shares  \* Mutant: it is left in escrow.
withResidual(shares, claimable) == [shares EXCEPT ![1] = @ + claimable - total(shares)]
-----------------------------------------------------------------------------
(* The legacy curve of scouts and solvers: 60 to 40 between the first two. *)
computePayouts(results, claimable) ==
    LET scored == rankResults({i \in DOMAIN results : results[i].score > 0}, results)
        top    == (claimable * 60) \div 100
    IN  CASE Len(scored) = 0 -> << >>
          [] Len(scored) = 1 -> <<leaf(scored[1], claimable)>>
          [] OTHER -> <<leaf(scored[1], top), leaf(scored[2], claimable - top)>>

PAYOUT_PRESETS ==
    [winner_take_all |-> [winnersBps |-> <<10000>>, restSharedBps |-> 0],
     top2            |-> [winnersBps |-> <<6000, 4000>>, restSharedBps |-> 0],
     top3            |-> [winnersBps |-> <<5000, 3000, 2000>>, restSharedBps |-> 0],
     top5_half_field |-> [winnersBps |-> <<2000, 1200, 800, 600, 400>>, restSharedBps |-> 5000],
     even_all        |-> [winnersBps |-> << >>, restSharedBps |-> 10000]]

Configs == [winnersBps: SeqOf(CustomBps, 2), restSharedBps: CustomBps]
NoSpec  == [winnersBps |-> << >>, restSharedBps |-> 0]

resolvePayoutSpec(preset, config) ==
    CASE preset \in DOMAIN PAYOUT_PRESETS -> PAYOUT_PRESETS[preset]
      [] preset = "custom" /\ total(config.winnersBps) + config.restSharedBps = 10000 -> config
      [] OTHER -> NoSpec

(* Winners by rank, the rest shared by those below, or by all if nobody is.*)
(* Equal amounts stay in the order they were first added.                  *)
computePresetPayouts(spec, results, claimable) ==
    LET ops    == rankResults(DOMAIN results, results)
        slots  == Len(spec.winnersBps)
        below  == slots + 1 .. Len(ops)
        group  == IF below # {} THEN below ELSE DOMAIN ops
        each   == ((claimable * spec.restSharedBps) \div 10000) \div Cardinality(group)
        won    == [k \in DOMAIN ops |->
                      IF k <= slots THEN (claimable * spec.winnersBps[k]) \div 10000 ELSE 0]
        share  == [k \in DOMAIN ops |-> won[k] + (IF k \in group THEN each ELSE 0)]
        paid   == withResidual(share, claimable)
        added  == [k \in DOMAIN ops |-> k + (CASE won[k] > 0   -> 0
                                             [] share[k] > 0 -> Len(ops)
                                             [] OTHER        -> 2 * Len(ops))]
        order  == sorted({k \in DOMAIN ops : paid[k] > 0}, paid, added)
    IN  IF \A i \in DOMAIN results : results[i].score = 0 THEN << >>
        ELSE [p \in DOMAIN order |-> leaf(ops[order[p]], paid[order[p]])]

(* Analysts: 30 % flat to all who took a position, 70 % by positive score, *)
(* what that division leaves to the last of them; flat if nobody scored.   *)
computePnlWeightedPayouts(results, claimable) ==
    LET qualified == {i \in DOMAIN results : results[i].traded}
        positive  == {i \in qualified : results[i].score > 0}
        last      == Max(positive)
        n         == Cardinality(qualified)
        pool      == (claimable * 30) \div 100
        pnlPool   == claimable - pool
        all       == round(total([i \in positive |-> results[i].score]))
        part      == [i \in positive \ {last} |-> (pnlPool * round(results[i].score)) \div all]
        rest      == pnlPool - total(part)
        extra(i)  == CASE positive = {}            -> pnlPool \div n
                       [] i \in positive \ {last} -> part[i]
                       [] i \in positive /\ i = last -> rest
                       [] OTHER                    -> 0
        amount    == [i \in qualified |-> pool \div n + extra(i)]
        order     == sorted(qualified, amount, Places(results))
    IN  IF qualified = {} THEN << >>
        ELSE [k \in DOMAIN order |-> leaf(order[k], amount[order[k]])]

(* Analysts by volume; no runner reports stakes, so the score stands for   *)
(* them, and its factor of a million cancels.  The comparator never says   *)
(* that two are equal, which reverses those that are.                      *)
volumeWeightedPayouts(results, claimable) ==
    LET volume == [i \in DOMAIN results |-> round(results[i].score)]
        all    == total(volume)
        order  == sorted({i \in DOMAIN results : volume[i] > 0},
                         volume, [i \in DOMAIN results |-> -i])
        share  == [k \in DOMAIN order |-> (claimable * volume[order[k]]) \div all]
        paid   == withResidual(share, claimable)
    IN  IF order = << >> THEN << >>
        ELSE [k \in DOMAIN order |-> leaf(order[k], paid[k])]

computePayoutsForMode(mode, arcana, results, claimable) ==
    CASE ~arcana -> computePayouts(results, claimable)
      [] arcana /\ mode = "volume" -> volumeWeightedPayouts(results, claimable)
      [] OTHER -> computePnlWeightedPayouts(results, claimable)

computeDistribution(preset, config, mode, arcana, results, claimable) ==
    LET spec == resolvePayoutSpec(preset, config)
    IN  IF spec = NoSpec THEN computePayoutsForMode(mode, arcana, results, claimable)
        ELSE computePresetPayouts(spec, results, claimable)
-----------------------------------------------------------------------------
Fields(traded) == SeqOf([score: Scores, traded: traded], MaxField)
Undistributed  == [payouts |-> << >>, claimable |-> 0, flat |-> 0]

distribute(preset, config, mode, arcana, results, claimable) ==
    /\ distribution = Undistributed
    /\ LET byProfit == /\ resolvePayoutSpec(preset, config) = NoSpec
                       /\ arcana /\ mode # "volume"
           traders  == {i \in DOMAIN results : results[i].traded}
       IN  distribution' =
             [payouts   |-> computeDistribution(preset, config, mode, arcana, results, claimable),
              claimable |-> claimable,
              flat      |-> IF byProfit THEN Cardinality(traders) ELSE 0]

PayoutInit == distribution = Undistributed

(* Only the curve by profit asks who traded.                               *)
PayoutNext == \E claimable \in Claimables :
    \/ \E preset \in DOMAIN PAYOUT_PRESETS, results \in Fields({TRUE}) :
          distribute(preset, NoSpec, "pnl_mtm", FALSE, results, claimable)
    \/ \E config \in Configs, arcana \in BOOLEAN, results \in Fields({TRUE}) :
          distribute("custom", config, "volume", arcana, results, claimable)
    \/ \E results \in Fields(Traded) :
          distribute("standard", NoSpec, "pnl_mtm", TRUE, results, claimable)

PayoutSpec == PayoutInit /\ [][PayoutNext]_distribution
-----------------------------------------------------------------------------
amounts == [k \in DOMAIN distribution.payouts |-> distribution.payouts[k].amount]

(* The leaves add up to the pool: never to more, and to less only by what  *)
(* the flat splits drop, under a unit per analyst for each of the two.     *)
PoolIsPaidOut ==
    amounts # << >> =>
        /\ \A k \in DOMAIN amounts : amounts[k] >= 0
        /\ total(amounts) <= distribution.claimable
        /\ total(amounts) >= distribution.claimable - 2 * distribution.flat

(* payouts.ts:8: "The sum must not exceed the claimable pool, or late      *)
(* claimers would hit the escrow's balance floor": what can be claimed.    *)
ClaimsFitPool ==
    total([k \in DOMAIN amounts |-> IF amounts[k] > 0 THEN amounts[k] ELSE 0])
        <= distribution.claimable
=============================================================================
