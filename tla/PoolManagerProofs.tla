------------------------- MODULE PoolManagerProofs -------------------------
(* Proofs about the manager, for every fee, amount, hook delta and width. *)
EXTENDS PoolManager, TLAPS

-----------------------------------------------------------------------------
(* The fee cache *)

\* A combination of two fees has at most one value.
LEMMA SwapFeeUnique ==
  ASSUME NEW p, NEW l, NEW f \in CalculateSwapFee(p, l)
  PROVE  CalculateSwapFee(p, l) = {f}
BY DEF CalculateSwapFee

\* At most one cache fits an LP fee and protocol fees.
LEMMA CacheUnique ==
  ASSUME NEW lp, NEW p, lp = {} \/ \E l : lp = {l},
         NEW c \in CachedFees(lp, p)
  PROVE  CachedFees(lp, p) = {c}
<1>1. CASE lp = {}
  BY <1>1 DEF CachedFees
<1>2. ASSUME NEW l, lp = {l} PROVE CachedFees(lp, p) = {c}
  <2>1. CachedFees(lp, p) = EffectiveFees(l, p)
    BY <1>2 DEF CachedFees
  <2>2. \A d \in EffectiveFees(l, p) :
          d \in [BOOLEAN -> Fees] /\ \A b \in BOOLEAN : d[b] \in CalculateSwapFee(p[b], l)
    BY DEF EffectiveFees
  <2>3. ASSUME NEW d \in EffectiveFees(l, p) PROVE d = c
    <3>1. \A b \in BOOLEAN : d[b] = c[b]
      <4> TAKE b \in BOOLEAN
      <4>1. c[b] \in CalculateSwapFee(p[b], l) /\ d[b] \in CalculateSwapFee(p[b], l)
        BY <2>1, <2>2, <2>3
      <4>2. CalculateSwapFee(p[b], l) = {c[b]}
        BY <4>1, SwapFeeUnique
      <4> QED BY <4>1, <4>2
    <3>2. c \in [BOOLEAN -> Fees] /\ d \in [BOOLEAN -> Fees]
      BY <2>1, <2>2, <2>3
    <3> QED BY <3>1, <3>2
  <2> QED BY <2>1, <2>3
<1> QED BY <1>1, <1>2

FeeRecord == [lp |-> swapFee.lp, protocol |-> swapFee.protocol, cached |-> swapFee.cached]

CacheInv ==
  /\ swapFee = FeeRecord
  /\ swapFee.lp = {} \/ \E l : swapFee.lp = {l}
  /\ swapFee.cached \in CachedFees(swapFee.lp, swapFee.protocol)

\* A fee configuration the pool swaps with, its own or one with an override,
\* holds the cached fee of its LP fee.
LEMMA OverrideIsCached ==
  ASSUME CacheInv, NEW o, NEW sf \in SwapFeeFor(o)
  PROVE  /\ o = {} => sf.lp = swapFee.lp
         /\ \A l \in sf.lp : \A d \in BOOLEAN :
              sf.cached[d] \in CalculateSwapFee(swapFee.protocol[d], l)
<1>1. CASE sf = swapFee
  <2> SUFFICES ASSUME NEW l \in swapFee.lp, NEW d \in BOOLEAN
               PROVE  swapFee.cached[d] \in CalculateSwapFee(swapFee.protocol[d], l)
    BY <1>1
  <2>1. swapFee.lp = {l}
    BY DEF CacheInv
  <2>2. swapFee.cached \in EffectiveFees(l, swapFee.protocol)
    BY <2>1 DEF CacheInv, CachedFees
  <2> QED BY <2>2 DEF EffectiveFees
<1>2. CASE sf # swapFee
  <2>0. PICK l \in o : sf \in WithLpFee(swapFee, l)
    BY <1>2 DEF SwapFeeFor
  <2>1. PICK c \in EffectiveFees(l, swapFee.protocol) :
          sf = [swapFee EXCEPT !.lp = {l}, !.cached = c]
    BY <1>2, <2>0 DEF WithLpFee
  <2>2. sf.lp = {l} /\ sf.cached = c
    BY <2>1 DEF CacheInv, FeeRecord
  <2> QED BY <2>1, <2>2 DEF EffectiveFees
<1> QED BY <1>1, <1>2

-----------------------------------------------------------------------------
(* The operation in progress *)

Specified == SpecifiedToken(call.amount, call.zeroForOne)

\* The amount handed on keeps the sign of the caller's and differs from it by
\* what the hook has taken; the pool fills no more than that.
CallInv ==
  /\ call.at \in {"before swap", "pool swap", "after swap"} =>
       call.amount \in Int /\ call.zeroForOne \in BOOLEAN
  /\ call.at \in {"pool swap", "after swap"} =>
       call.specified \in Int /\ call.unspecified \in Int
  /\ call.at = "pool swap" =>
       /\ call.toSwap = call.amount + call.specified
       /\ IF call.amount < 0 THEN call.toSwap <= 0 ELSE call.toSwap >= 0
  /\ call.at = "after swap" =>
       /\ call.pool \in [Tokens -> Int]
       /\ IF call.amount < 0 THEN call.pool[Specified] >= call.amount + call.specified
                             ELSE call.pool[Specified] <= call.amount + call.specified

ManagerInv == CacheInv /\ CallInv /\ SpecifiedAmountKept /\ ChargesFeeInForce

LEMMA InitManager == Init => ManagerInv
<1> SUFFICES ASSUME Init PROVE ManagerInv
  OBVIOUS
<1>1. call = [at |-> "rejected"]
  BY DEF Init
<1>2. PICK lp \in {{}} \cup {{l} : l \in LpFees}, p \in ProtocolConfigs :
        \E c \in CachedFees(lp, p) : swapFee = [lp |-> lp, protocol |-> p, cached |-> c]
  BY DEF Init
<1>3. CacheInv
  BY <1>2 DEF CacheInv, FeeRecord
<1>4. CallInv /\ SpecifiedAmountKept /\ ChargesFeeInForce
  BY <1>1 DEF CallInv, SpecifiedAmountKept, ChargesFeeInForce
<1> QED BY <1>3, <1>4 DEF ManagerInv

\* An operation that ends without a settled swap keeps the invariant.
LEMMA EndsWell ==
  ASSUME ManagerInv, UNCHANGED <<dynamic, swapFee>>,
         call'.at \in {"rejected", "broken off", "settled", "after modify"},
         call'.at = "settled" => "pool" \notin DOMAIN call'
  PROVE  ManagerInv'
<1>1. CacheInv'
  BY DEF ManagerInv, CacheInv, FeeRecord
<1>2. CallInv' /\ SpecifiedAmountKept' /\ ChargesFeeInForce'
  BY DEF CallInv, SpecifiedAmountKept, ChargesFeeInForce
<1> QED BY <1>1, <1>2 DEF ManagerInv

LEMMA StepBrokenOff == ManagerInv /\ (Rejected \/ BrokenOff) => ManagerInv'
<1> SUFFICES ASSUME ManagerInv, Rejected \/ BrokenOff PROVE ManagerInv'
  OBVIOUS
<1>1. CASE Rejected
  <2>1. UNCHANGED <<dynamic, swapFee>> /\ call' = [at |-> "rejected"]
    BY <1>1 DEF Rejected
  <2> QED BY <2>1, EndsWell
<1>2. CASE BrokenOff
  <2>1. UNCHANGED <<dynamic, swapFee>> /\ call' = [at |-> "broken off"]
    BY <1>2 DEF BrokenOff
  <2> QED BY <2>1, EndsWell
<1> QED BY <1>1, <1>2

-----------------------------------------------------------------------------
(* One lemma per callback *)

LEMMA StepSwapBegin ==
  ASSUME ManagerInv, NEW amount \in Amounts, NEW zeroForOne \in BOOLEAN,
         SwapBegin(amount, zeroForOne)
  PROVE  ManagerInv'
<1>1. CASE amount = 0
  BY <1>1, StepBrokenOff DEF SwapBegin
<1>2. CASE amount # 0
  <2>1. call' = [at |-> "before swap", amount |-> amount, zeroForOne |-> zeroForOne]
        /\ UNCHANGED <<dynamic, swapFee>>
    BY <1>2 DEF SwapBegin, Goes
  <2>2. CacheInv'
    BY <2>1 DEF ManagerInv, CacheInv, FeeRecord
  <2>3. amount \in Int
    BY ManagerAssumption
  <2>4. CallInv' /\ SpecifiedAmountKept' /\ ChargesFeeInForce'
    BY <2>1, <2>3 DEF CallInv, SpecifiedAmountKept, ChargesFeeInForce
  <2> QED BY <2>2, <2>4 DEF ManagerInv
<1> QED BY <1>1, <1>2

LEMMA StepBeforeSwap ==
  ASSUME ManagerInv, NEW specified \in HookDeltas, NEW unspecified \in HookDeltas, NEW lp \in LpFees,
         BeforeSwap(specified, unspecified, lp)
  PROVE  ManagerInv'
<1> DEFINE toSwap == AmountToSwap(call.amount, specified)
           fees   == SwapFeeFor(FeeOverride(lp))
<1>1. CASE toSwap = {} \/ fees = {}
  BY <1>1, StepBrokenOff DEF BeforeSwap
<1>2. CASE ~(toSwap = {} \/ fees = {})
  <2>1. PICK a \in toSwap, sf \in fees :
          /\ call' = [at |-> "pool swap", amount |-> call.amount, zeroForOne |-> call.zeroForOne,
                      specified |-> specified, unspecified |-> unspecified,
                      toSwap |-> a, lp |-> sf.lp, pips |-> sf.cached[call.zeroForOne]]
          /\ UNCHANGED <<dynamic, swapFee>>
    BY <1>2 DEF BeforeSwap, Goes
  <2>2. CacheInv /\ CacheInv'
    BY <2>1 DEF ManagerInv, CacheInv, FeeRecord
  <2>3. specified \in Int /\ unspecified \in Int /\ call.amount \in Int /\ call.zeroForOne \in BOOLEAN
    BY ManagerAssumption DEF BeforeSwap, ManagerInv, CallInv
  <2>4. a = call.amount + specified /\ (IF call.amount < 0 THEN a <= 0 ELSE a >= 0)
    BY <2>3 DEF AmountToSwap
  <2>5. CallInv' /\ SpecifiedAmountKept'
    BY <2>1, <2>3, <2>4 DEF CallInv, SpecifiedAmountKept
  <2>6. ChargesFeeInForce'
    <3>1. ~dynamic => sf.lp = swapFee.lp
      BY <2>2, OverrideIsCached DEF FeeOverride
    <3>2. \A l \in sf.lp : sf.cached[call.zeroForOne]
                             \in CalculateSwapFee(swapFee.protocol[call.zeroForOne], l)
      BY <2>2, <2>3, OverrideIsCached
    <3>3. \A l \in sf.lp : CalculateSwapFee(swapFee.protocol[call.zeroForOne], l)
                             = {sf.cached[call.zeroForOne]}
      BY <3>2, SwapFeeUnique
    <3> QED BY <2>1, <3>1, <3>3 DEF ChargesFeeInForce
  <2> QED BY <2>2, <2>5, <2>6 DEF ManagerInv
<1> QED BY <1>1, <1>2

LEMMA StepPoolSwap ==
  ASSUME ManagerInv, PoolSwap
  PROVE  ManagerInv'
<1> DEFINE amount == call.amount
           a      == call.toSwap
           zero   == call.zeroForOne
<1>1. call.at = "pool swap"
  BY DEF PoolSwap
<1>2. PICK delta \in PoolDeltas(a, zero) :
        /\ call' = [at |-> "after swap", amount |-> amount, zeroForOne |-> zero,
                    specified |-> call.specified, unspecified |-> call.unspecified, pool |-> delta]
        /\ UNCHANGED <<dynamic, swapFee>>
  BY DEF PoolSwap, Goes
<1>3. /\ amount \in Int /\ zero \in BOOLEAN
      /\ call.specified \in Int /\ call.unspecified \in Int
      /\ a = amount + call.specified /\ a \in Int
      /\ IF amount < 0 THEN a <= 0 ELSE a >= 0
  <2>1. CallInv
    BY DEF ManagerInv
  <2>2. amount \in Int /\ zero \in BOOLEAN /\ call.specified \in Int /\ call.unspecified \in Int
    BY <1>1, <2>1 DEF CallInv
  <2>3. a = amount + call.specified /\ (IF amount < 0 THEN a <= 0 ELSE a >= 0)
    BY <1>1, <2>1 DEF CallInv
  <2> QED BY <2>2, <2>3
<1> DEFINE spec == SpecifiedToken(amount, zero)
<1>4. delta \in [Tokens -> Int] /\ IF amount < 0 THEN delta[spec] >= a ELSE delta[spec] <= a
  <2>1. spec \in Tokens
    BY DEF SpecifiedToken, Tokens
  <2>2. CASE a = 0
    BY <2>1, <2>2, <1>3 DEF PoolDeltas, Zero
  <2>3. CASE a # 0
    <3>1. (a < 0) = (amount < 0)
      BY <2>3, <1>3
    <3>2. PICK s \in Int, o \in Int :
            /\ IF a < 0 THEN s >= a ELSE s <= a
            /\ delta = [i \in Tokens |-> IF i = spec THEN s ELSE o]
      <4>0. PICK u \in PoolOutputs :
              delta \in {[i \in Tokens |-> IF i = (IF (a < 0) = zero THEN 0 ELSE 1) THEN s
                                           ELSE IF a < 0 THEN u ELSE -u] :
                           s \in IF a < 0 THEN a .. 0 ELSE 0 .. a}
        <5>1. ~(a = 0)
          BY <2>3
        <5>2. delta \in UNION {{[i \in Tokens |-> IF i = (IF (a < 0) = zero THEN 0 ELSE 1) THEN s
                                           ELSE IF a < 0 THEN o ELSE -o] :
                           s \in IF a < 0 THEN a .. 0 ELSE 0 .. a} : o \in PoolOutputs}
          BY <1>2, <5>1, Zenon DEF PoolDeltas
        <5> HIDE DEF a, zero
        <5> QED BY <5>2, Zenon
      <4>1. PICK s \in (IF a < 0 THEN a .. 0 ELSE 0 .. a) :
              delta = [i \in Tokens |-> IF i = (IF (a < 0) = zero THEN 0 ELSE 1) THEN s
                                        ELSE IF a < 0 THEN u ELSE -u]
        BY <4>0, Zenon
      <4>2. u \in Int /\ -u \in Int
        BY ManagerAssumption
      <4>3. delta = [i \in Tokens |-> IF i = spec THEN s ELSE IF a < 0 THEN u ELSE -u]
        BY <3>1, <4>1 DEF SpecifiedToken
      <4>4. s \in Int /\ (IF a < 0 THEN s >= a ELSE s <= a)
        BY <1>3
      <4> QED BY <4>2, <4>3, <4>4
    <3> QED BY <2>1, <3>1, <3>2
  <2> QED BY <2>2, <2>3
<1>5. CacheInv'
  BY <1>2 DEF ManagerInv, CacheInv, FeeRecord
<1>6. CallInv'
  BY <1>2, <1>3, <1>4 DEF CallInv, Specified
<1>7. SpecifiedAmountKept' /\ ChargesFeeInForce'
  BY <1>2 DEF SpecifiedAmountKept, ChargesFeeInForce
<1> QED BY <1>5, <1>6, <1>7 DEF ManagerInv

LEMMA StepAfterSwap ==
  ASSUME ManagerInv, NEW after \in HookDeltas, AfterSwap(after)
  PROVE  ManagerInv'
<1> DEFINE hook   == HookDelta(call.amount, call.zeroForOne, call.specified, call.unspecified + after)
           caller == Minus(call.pool, hook)
<1>1. CASE ~(Fits(hook) /\ Fits(caller))
  BY <1>1, StepBrokenOff DEF AfterSwap
<1>2. CASE Fits(hook) /\ Fits(caller)
  <2>1. /\ call.at = "after swap"
        /\ call' = [at |-> "settled", amount |-> call.amount, zeroForOne |-> call.zeroForOne,
                    pool |-> call.pool, caller |-> caller, hook |-> hook]
        /\ UNCHANGED <<dynamic, swapFee>>
    BY <1>2 DEF AfterSwap, Goes
  <2>2. /\ call.amount \in Int /\ call.specified \in Int
        /\ call.pool \in [Tokens -> Int]
        /\ IF call.amount < 0 THEN call.pool[Specified] >= call.amount + call.specified
                              ELSE call.pool[Specified] <= call.amount + call.specified
    BY <2>1 DEF ManagerInv, CallInv
  <2>3. Specified \in Tokens /\ Specified = IF (call.amount < 0) = call.zeroForOne THEN 0 ELSE 1
    BY DEF Specified, SpecifiedToken, Tokens
  <2>4. caller[Specified] = call.pool[Specified] - call.specified
    BY <2>3 DEF Minus, HookDelta, Specified
  <2>5. IF call.amount < 0 THEN caller[Specified] >= call.amount
                           ELSE caller[Specified] <= call.amount
    <3>1. call.pool[Specified] \in Int
      BY <2>2, <2>3
    <3> HIDE DEF caller
    <3> QED BY <2>2, <2>4, <3>1
  <2>6. SpecifiedAmountKept'
    <3> HIDE DEF caller, hook
    <3> QED BY <2>1, <2>3, <2>5 DEF SpecifiedAmountKept
  <2>7. CacheInv' /\ CallInv' /\ ChargesFeeInForce'
    BY <2>1 DEF ManagerInv, CacheInv, FeeRecord, CallInv, ChargesFeeInForce
  <2> QED BY <2>6, <2>7 DEF ManagerInv
<1> QED BY <1>1, <1>2

LEMMA StepSetProtocolFee ==
  ASSUME ManagerInv, NEW protocol \in ProtocolConfigs, SetProtocolFee(protocol)
  PROVE  ManagerInv'
<1>1. Idle /\ swapFee' \in WithProtocolFee(swapFee, protocol) /\ UNCHANGED <<dynamic, call>>
  BY DEF SetProtocolFee
<1>2. CacheInv'
  <2>1. CASE swapFee' = swapFee
    BY <2>1 DEF ManagerInv, CacheInv, FeeRecord
  <2>2. CASE swapFee' # swapFee
    <3>1. PICK c \in CachedFees(swapFee.lp, protocol) :
            swapFee' = [[swapFee EXCEPT !.protocol = protocol] EXCEPT !.cached = c]
      BY <1>1, <2>2 DEF WithProtocolFee
    <3>2. swapFee = FeeRecord
      BY DEF ManagerInv, CacheInv
    <3>3. swapFee' = [lp |-> swapFee.lp, protocol |-> protocol, cached |-> c]
      BY <3>1, <3>2 DEF FeeRecord
    <3> QED BY <3>3 DEF ManagerInv, CacheInv, FeeRecord
  <2> QED BY <2>1, <2>2
<1>3. CallInv' /\ SpecifiedAmountKept' /\ ChargesFeeInForce'
  BY <1>1 DEF ManagerInv, CallInv, SpecifiedAmountKept, ChargesFeeInForce, Idle, Specified
<1> QED BY <1>2, <1>3 DEF ManagerInv

LEMMA NextManager == ManagerInv /\ [Next]_vars => ManagerInv'
<1> SUFFICES ASSUME ManagerInv, [Next]_vars PROVE ManagerInv'
  OBVIOUS
<1>1. ASSUME NEW amount \in Amounts, NEW zeroForOne \in BOOLEAN, SwapBegin(amount, zeroForOne)
      PROVE  ManagerInv'
  BY <1>1, StepSwapBegin
<1>2. ASSUME NEW specified \in HookDeltas, NEW unspecified \in HookDeltas, NEW lp \in LpFees,
             BeforeSwap(specified, unspecified, lp)
      PROVE  ManagerInv'
  BY <1>2, StepBeforeSwap
<1>3. CASE PoolSwap
  BY <1>3, StepPoolSwap
<1>4. ASSUME NEW after \in HookDeltas, AfterSwap(after) PROVE ManagerInv'
  BY <1>4, StepAfterSwap
<1>5. ASSUME NEW principal \in ModifyVectors, NEW fee \in ModifyVectors,
             ModifyLiquidity(principal, fee)
      PROVE  ManagerInv'
  <2>1. CASE Fits(Plus(principal, fee))
    <3>1. UNCHANGED <<dynamic, swapFee>> /\ call' = [at |-> "after modify", total |-> Plus(principal, fee)]
      BY <1>5, <2>1 DEF ModifyLiquidity, Goes
    <3> QED BY <3>1, EndsWell
  <2>2. CASE ~Fits(Plus(principal, fee))
    BY <1>5, <2>2, StepBrokenOff DEF ModifyLiquidity
  <2> QED BY <2>1, <2>2
<1>6. ASSUME NEW hook \in ModifyVectors, AfterModify(hook) PROVE ManagerInv'
  <2>1. CASE Fits(Minus(call.total, hook))
    <3>1. UNCHANGED <<dynamic, swapFee>> /\ call' = [at |-> "settled", caller |-> Minus(call.total, hook)]
      BY <1>6, <2>1 DEF AfterModify, Goes
    <3> QED BY <3>1, EndsWell
  <2>2. CASE ~Fits(Minus(call.total, hook))
    BY <1>6, <2>2, StepBrokenOff DEF AfterModify
  <2> QED BY <2>1, <2>2
<1>7. CASE Donate
  <2>1. UNCHANGED <<dynamic, swapFee>> /\ call' = [at |-> "settled", caller |-> Zero]
    BY <1>7 DEF Donate, Goes
  <2> QED BY <2>1, EndsWell
<1>8. CASE OperationFails
  BY <1>8, StepBrokenOff DEF OperationFails
<1>9. ASSUME NEW protocol \in ProtocolConfigs, SetProtocolFee(protocol) PROVE ManagerInv'
  BY <1>9, StepSetProtocolFee
<1>10. CASE UNCHANGED vars
  BY <1>10 DEF ManagerInv, CacheInv, FeeRecord, CallInv, Specified,
               SpecifiedAmountKept, ChargesFeeInForce, vars
<1> QED BY <1>1, <1>2, <1>3, <1>4, <1>5, <1>6, <1>7, <1>8, <1>9, <1>10 DEF Next

LEMMA ManagerInvariant == Spec => []ManagerInv
<1> QED BY InitManager, NextManager, PTL DEF Spec

-----------------------------------------------------------------------------
\* The cached fees are those of the stored LP and protocol fees, whatever fees
\* are set and overridden: swap_fee.rs set_lp_fee, set_protocol_fee.
THEOREM FreshCache == Spec => []CacheIsFresh
<1>1. ManagerInv => CacheIsFresh
  BY CacheUnique DEF ManagerInv, CacheInv, CacheIsFresh
<1> QED BY <1>1, ManagerInvariant, PTL

\* No hook makes a caller pay more than an exact input, or receive more than an
\* exact output: the deltas of hooks.rs before_swap and after_swap.
THEOREM AmountKept == Spec => []SpecifiedAmountKept
<1>1. ManagerInv => SpecifiedAmountKept
  BY DEF ManagerInv
<1> QED BY <1>1, ManagerInvariant, PTL

\* Every swap is charged the LP fee in force and the protocol fee of its
\* direction, and a static-fee pool its own LP fee: pool.rs swap.
THEOREM FeeInForce == Spec => []ChargesFeeInForce
<1>1. ManagerInv => ChargesFeeInForce
  BY DEF ManagerInv
<1> QED BY <1>1, ManagerInvariant, PTL
=============================================================================
