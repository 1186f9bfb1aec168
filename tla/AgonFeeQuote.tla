---------------------------- MODULE AgonFeeQuote ----------------------------
(***************************************************************************)
(* A depositor who reads the protocol fee of AgonJobEscrowV2 while no      *)
(* change is pending, and relies on it.  The quote is the observer's, not  *)
(* the contract's: it remembers one reading, and a later reading replaces  *)
(* it.                                                                     *)
(***************************************************************************)
EXTENDS AgonProtocolFee

VARIABLE quote         \* the last reading [bps, at]; at is 0 before the first

quoteVars == <<now, feeVars, quote>>

QuoteInit == /\ TimeInit
             /\ FeeInit
             /\ quote = [bps |-> 0, at |-> 0]

ReadFee == /\ pendingProtocolFeeEffectiveAt = 0
           /\ quote' = [bps |-> protocolFeeBps, at |-> now]
           /\ UNCHANGED <<now, feeVars>>

QuoteNext == \/ ReadFee
             \/ FeeNext /\ UNCHANGED <<now, quote>>
             \/ Tick /\ UNCHANGED <<feeVars, quote>>

QuoteSpec == QuoteInit /\ [][QuoteNext]_quoteVars

QuoteTypeOK == /\ TimeTypeOK
               /\ FeeTypeOK
               /\ quote \in [bps : 0..MAX_PROTOCOL_FEE_BPS, at : 0..Horizon]

(* The notice the timelock gives: whoever saw rate r with no change        *)
(* pending is charged r for a whole PROTOCOL_FEE_CHANGE_DELAY, whatever    *)
(* the admin schedules, cancels and schedules again in between.            *)
QuoteHolds == quote.at # 0 /\ now < quote.at + PROTOCOL_FEE_CHANGE_DELAY
                  => protocolFeeBps = quote.bps

(* Strengthening of QuoteHolds: a change pending after the reading takes   *)
(* effect no sooner than one delay after it.                               *)
PendingLeavesNotice ==
    quote.at # 0 /\ pendingProtocolFeeEffectiveAt # 0
        => pendingProtocolFeeEffectiveAt >= quote.at + PROTOCOL_FEE_CHANGE_DELAY

QuoteIInv == /\ QuoteTypeOK
             /\ quote.at <= now
             /\ PendingLeavesNotice
             /\ QuoteHolds
=============================================================================
