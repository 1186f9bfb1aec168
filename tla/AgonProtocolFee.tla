-------------------------- MODULE AgonProtocolFee ---------------------------
(***************************************************************************)
(* The timelocked protocol fee of AgonJobEscrowV2.sol: the admin schedules *)
(* one bounded change at a time, anybody applies it once the delay is over *)
(* and the admin may cancel it until then.  No change is pending when the  *)
(* effective time is 0; the pending rate alone cannot say so, because 0 is *)
(* a rate.                                                                 *)
(***************************************************************************)
EXTENDS BlockTime

CONSTANTS BPS,                        \* basis points in the whole: 10000
          MAX_PROTOCOL_FEE_BPS,       \* 1000
          PROTOCOL_FEE_CHANGE_DELAY,  \* 2 days, in ticks
          FeeChoices                  \* bound: the rates the admin asks for

ASSUME FeeAssumption ==
    /\ BPS \in Nat \ {0}
    /\ MAX_PROTOCOL_FEE_BPS \in Nat
    /\ PROTOCOL_FEE_CHANGE_DELAY \in Nat \ {0}
    /\ FeeChoices \subseteq Nat

VARIABLES protocolFeeBps,               \* the rate createJob copies
          pendingProtocolFeeBps,
          pendingProtocolFeeEffectiveAt \* 0 when no change is pending

feeVars == <<protocolFeeBps, pendingProtocolFeeBps, pendingProtocolFeeEffectiveAt>>

_validateProtocolFee(bps) == bps <= MAX_PROTOCOL_FEE_BPS

FeeInit == /\ protocolFeeBps \in {b \in FeeChoices : _validateProtocolFee(b)}
           /\ pendingProtocolFeeBps = 0
           /\ pendingProtocolFeeEffectiveAt = 0

scheduleProtocolFeeChange(bps) ==
    /\ _validateProtocolFee(bps)
    /\ pendingProtocolFeeEffectiveAt = 0
    /\ bps # protocolFeeBps
    /\ pendingProtocolFeeBps' = bps
    /\ pendingProtocolFeeEffectiveAt' = now + PROTOCOL_FEE_CHANGE_DELAY
    /\ UNCHANGED protocolFeeBps

(* Mutant: the timelock is taken for over one tick early. *)
ApplyEarly ==
    /\ pendingProtocolFeeEffectiveAt # 0
    /\ now + 1 >= pendingProtocolFeeEffectiveAt
    /\ protocolFeeBps' = pendingProtocolFeeBps
    /\ pendingProtocolFeeBps' = 0
    /\ pendingProtocolFeeEffectiveAt' = 0

applyProtocolFeeChange ==
    /\ pendingProtocolFeeEffectiveAt # 0
    /\ now >= pendingProtocolFeeEffectiveAt
    /\ protocolFeeBps' = pendingProtocolFeeBps
    /\ pendingProtocolFeeBps' = 0
    /\ pendingProtocolFeeEffectiveAt' = 0

cancelProtocolFeeChange ==
    /\ pendingProtocolFeeEffectiveAt # 0
    /\ pendingProtocolFeeBps' = 0
    /\ pendingProtocolFeeEffectiveAt' = 0
    /\ UNCHANGED protocolFeeBps

FeeNext == \/ \E bps \in FeeChoices : scheduleProtocolFeeChange(bps)
           \/ applyProtocolFeeChange
           \/ cancelProtocolFeeChange

FeeTypeOK ==
    /\ protocolFeeBps \in 0..MAX_PROTOCOL_FEE_BPS
    /\ pendingProtocolFeeBps \in 0..MAX_PROTOCOL_FEE_BPS
    /\ pendingProtocolFeeEffectiveAt \in Nat
    /\ pendingProtocolFeeEffectiveAt = 0 => pendingProtocolFeeBps = 0
=============================================================================
