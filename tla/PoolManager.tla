---------------------------- MODULE PoolManager ----------------------------
(***************************************************************************)
(* SinglePoolManager with an installed hook: before-hook, pool operation,  *)
(* after-hook (concentrated/pool_manager.rs, the adapter HooksImpl of      *)
(* types/hooks.rs) and the pool's swap-fee cache (types/fee/swap_fee.rs).  *)
(* The hook is external: each callback returns any of a few values or an   *)
(* error.  The pool is abstracted to what an operation returns, any delta  *)
(* within the amount it was given, and to the tokens it holds.             *)
(***************************************************************************)
EXTENDS FeeMath

CONSTANTS
  LpFees,         \* LP fees: the pool's static one, and what hooks return
  ProtocolFees,   \* protocol fees, per direction
  Amounts,        \* the amounts callers specify
  HookDeltas,     \* what hooks claim of a token (negative: what they give)
  PoolOutputs,    \* the unspecified amounts a pool swap can come to
  ModifyDeltas,   \* token deltas of a liquidity change and of its fees
  I128Max         \* largest BalanceDelta component

ASSUME ManagerAssumption ==
  /\ LpFees \subseteq Fees \cup {DynamicFee} /\ LpFees \cap Fees # {}
  /\ ProtocolFees \subseteq Fees
  /\ Amounts \subseteq Int /\ HookDeltas \subseteq Int
  /\ PoolOutputs \subseteq Nat /\ ModifyDeltas \subseteq Int

VARIABLES
  dynamic,   \* PoolKey::is_dynamic_fee of the hook's key
  swapFee,   \* Pool::swap_fee: LP fee (an Option), protocol fees, cached fees
  call       \* the operation in progress, or how the last one ended

vars == <<dynamic, swapFee, call>>

Tokens == {0, 1}
Zero == [i \in Tokens |-> 0]
Plus(a, b)  == [i \in Tokens |-> a[i] + b[i]]
Minus(a, b) == [i \in Tokens |-> a[i] - b[i]]
Fits(d) == \A i \in Tokens : d[i] \in -I128Max - 1 .. I128Max

-----------------------------------------------------------------------------
(* SwapFee *)

\* calculate_effective_fee, for both directions (TRUE is zero for one).
EffectiveFees(lp, protocol) ==
  {f \in [BOOLEAN -> Fees] : \A d \in BOOLEAN : f[d] \in CalculateSwapFee(protocol[d], lp)}

\* from_lp_fee and new_dynamic: no LP fee, no fee at all.
CachedFees(lp, protocol) ==
  IF lp = {} THEN {[d \in BOOLEAN |-> 0]}
  ELSE UNION {EffectiveFees(l, protocol) : l \in lp}

\* set_lp_fee, as an Option.
WithLpFee(sf, lp) ==
  IF sf.lp = {lp} THEN {sf}
  ELSE {[sf EXCEPT !.lp = {lp}, !.cached = c] : c \in EffectiveFees(lp, sf.protocol)}

\* Mutant: the cached fees are refreshed only for one direction.
WithProtocolFee_OneSided(sf, protocol) ==
  {[sf EXCEPT !.protocol = protocol, !.cached[TRUE] = c[TRUE]] :
     c \in CachedFees(sf.lp, protocol)}

\* set_protocol_fee, as an Option.
WithProtocolFee(sf, protocol) ==
  IF sf.protocol = protocol THEN {sf}
  ELSE {[sf EXCEPT !.protocol = protocol, !.cached = c] : c \in CachedFees(sf.lp, protocol)}

-----------------------------------------------------------------------------
(* The adapter *)

\* Mutant: any pool takes the hook's fee.
FeeOverride_Always(fee) == {fee}

\* lp_fee_override: only dynamic-fee pools take the hook's fee.
FeeOverride(fee) == IF dynamic THEN {fee} ELSE {}

\* The amount the pool swaps after the hook has taken its part; an error when
\* exact input would become exact output, or the other way round.
AmountToSwap(amount, specified) ==
  {a \in {amount + specified} : specified # 0 => IF amount < 0 THEN a <= 0 ELSE a >= 0}

\* Mutant: specified and unspecified sides are taken by direction alone.
SpecifiedToken_ByDirection(amount, zeroForOne) == IF zeroForOne THEN 0 ELSE 1

\* The token the caller's amount is in.
SpecifiedToken(amount, zeroForOne) == IF (amount < 0) = zeroForOne THEN 0 ELSE 1

HookDelta(amount, zeroForOne, specified, unspecified) ==
  [i \in Tokens |-> IF i = SpecifiedToken(amount, zeroForOne) THEN specified ELSE unspecified]

\* What a pool swap of amount a returns: at most a of the specified token, and
\* nothing when nothing is to be swapped.  Unfilled amounts stay with the caller.
PoolDeltas(a, zeroForOne) ==
  LET filled == IF a < 0 THEN a .. 0 ELSE 0 .. a
      other(o) == IF a < 0 THEN o ELSE -o
      token  == IF (a < 0) = zeroForOne THEN 0 ELSE 1
  IN  IF a = 0 THEN {Zero}
      ELSE UNION {{[i \in Tokens |-> IF i = token THEN s ELSE other(o)] : s \in filled} :
                    o \in PoolOutputs}

-----------------------------------------------------------------------------
(* Operations, hook by hook.  One that is rejected has not reached the pool;   *)
(* one that is broken off returns an error although the pool has changed.      *)

Idle == call.at \in {"settled", "rejected", "broken off"}

Rejected  == call' = [at |-> "rejected"] /\ UNCHANGED <<dynamic, swapFee>>
BrokenOff == call' = [at |-> "broken off"] /\ UNCHANGED <<dynamic, swapFee>>
Goes(next) == call' = next /\ UNCHANGED <<dynamic, swapFee>>

\* The fee configuration a swap runs with; the override is for this swap only.
SwapFeeFor(override) ==
  IF override = {} THEN {swapFee} ELSE UNION {WithLpFee(swapFee, l) : l \in override}

SwapBegin(amount, zeroForOne) ==
  /\ Idle
  /\ IF amount = 0 THEN Rejected
     ELSE Goes([at |-> "before swap", amount |-> amount, zeroForOne |-> zeroForOne])

\* before_swap: the hook claims `specified` and `unspecified` and names a fee.
BeforeSwap(specified, unspecified, lp) ==
  /\ call.at = "before swap"
  /\ LET toSwap == AmountToSwap(call.amount, specified)
         fees   == SwapFeeFor(FeeOverride(lp))
     IN  IF toSwap = {} \/ fees = {} THEN Rejected
         ELSE \E a \in toSwap, sf \in fees :
                Goes([at |-> "pool swap", amount |-> call.amount, zeroForOne |-> call.zeroForOne,
                      specified |-> specified, unspecified |-> unspecified,
                      toSwap |-> a, lp |-> sf.lp, pips |-> sf.cached[call.zeroForOne]])

\* Pool::swap; an exact output at a 100% fee is an error.
PoolSwap ==
  /\ call.at = "pool swap"
  /\ ~(call.toSwap > 0 /\ call.pips = MaxFee)
  /\ \E delta \in PoolDeltas(call.toSwap, call.zeroForOne) :
       Goes([at |-> "after swap", amount |-> call.amount, zeroForOne |-> call.zeroForOne,
             specified |-> call.specified, unspecified |-> call.unspecified, pool |-> delta])

\* after_swap: the hook claims `after` more, and the delta is split.
AfterSwap(after) ==
  /\ call.at = "after swap"
  /\ LET hook   == HookDelta(call.amount, call.zeroForOne,
                             call.specified, call.unspecified + after)
         caller == Minus(call.pool, hook)
     IN  IF Fits(hook) /\ Fits(caller)
         THEN Goes([at |-> "settled", amount |-> call.amount, zeroForOne |-> call.zeroForOne,
                    pool |-> call.pool, caller |-> caller, hook |-> hook])
         ELSE BrokenOff

\* modify_liquidity: the before-hook passes, then the pool changes.
ModifyLiquidity(principal, fee) ==
  /\ Idle
  /\ IF Fits(Plus(principal, fee))
     THEN Goes([at |-> "after modify", total |-> Plus(principal, fee)])
     ELSE BrokenOff

\* after_modify_liquidity: principal and fees less the hook's part.
AfterModify(hook) ==
  /\ call.at = "after modify"
  /\ IF Fits(Minus(call.total, hook))
     THEN Goes([at |-> "settled", caller |-> Minus(call.total, hook)])
     ELSE BrokenOff

\* donate runs the hooks only.
Donate == Idle /\ Goes([at |-> "settled", caller |-> Zero])

\* The hook returns an error, or the pool does.
OperationFails ==
  \/ call.at \in {"settled", "before swap", "pool swap"} /\ Rejected
  \/ call.at \in {"after swap", "after modify"} /\ BrokenOff

\* Pool::set_protocol_fee, through pool_mut.
SetProtocolFee(protocol) ==
  /\ Idle
  /\ swapFee' \in WithProtocolFee(swapFee, protocol)
  /\ UNCHANGED <<dynamic, call>>

-----------------------------------------------------------------------------
ProtocolConfigs == [BOOLEAN -> ProtocolFees]
ModifyVectors == [Tokens -> ModifyDeltas]

\* SwapFee::new and SwapFee::new_dynamic.
Init ==
  /\ dynamic \in BOOLEAN
  /\ \E lp \in {{}} \cup {{l} : l \in LpFees}, p \in ProtocolConfigs :
       \E c \in CachedFees(lp, p) : swapFee = [lp |-> lp, protocol |-> p, cached |-> c]
  /\ call = [at |-> "rejected"]

Next ==
  \/ \E amount \in Amounts, zeroForOne \in BOOLEAN : SwapBegin(amount, zeroForOne)
  \/ \E specified, unspecified \in HookDeltas, lp \in LpFees :
       BeforeSwap(specified, unspecified, lp)
  \/ PoolSwap
  \/ \E after \in HookDeltas : AfterSwap(after)
  \/ \E principal, fee \in ModifyVectors : ModifyLiquidity(principal, fee)
  \/ \E hook \in ModifyVectors : AfterModify(hook)
  \/ Donate
  \/ OperationFails
  \/ \E protocol \in ProtocolConfigs : SetProtocolFee(protocol)

Spec == Init /\ [][Next]_vars

-----------------------------------------------------------------------------
(* Properties *)

\* Whatever protocol fees are set and whatever fees hooks override in between,
\* both cached fees are those of the stored LP and protocol fees.
CacheIsFresh == {swapFee.cached} = CachedFees(swapFee.lp, swapFee.protocol)

\* However much the hook takes or gives, and however little the pool fills, a
\* caller never pays more than an exact input nor receives more than an exact
\* output.
SpecifiedAmountKept ==
  call.at = "settled" /\ "pool" \in DOMAIN call =>
    LET spec == IF (call.amount < 0) = call.zeroForOne THEN 0 ELSE 1
    IN  IF call.amount < 0 THEN call.caller[spec] >= call.amount
                           ELSE call.caller[spec] <= call.amount

\* A static-fee pool charges its own LP fee whatever its hook returns, and the
\* pips a swap is charged are those of the LP fee in force and the protocol
\* fee of its direction.
ChargesFeeInForce ==
  call.at = "pool swap" =>
    /\ ~dynamic => call.lp = swapFee.lp
    /\ \A l \in call.lp :
         CalculateSwapFee(swapFee.protocol[call.zeroForOne], l) = {call.pips}
=============================================================================
