------------------------------ MODULE FeeMath ------------------------------
(***************************************************************************)
(* Fees in pips: the fee arithmetic of math/swap.rs, the combination of LP *)
(* and protocol fee of types/fee/protocol_fee.rs and the protocol's share  *)
(* of a swap step in swap_inner.  An Option is the set of its values.      *)
(***************************************************************************)
EXTENDS Integers

CONSTANTS
  MaxFee,        \* MAX_FEE and PIPS_DENOMINATOR: 100%
  DynamicFee     \* DYNAMIC_FEE_FLAG, the pips of Fee::DYNAMIC

ASSUME FeeAssumption == MaxFee \in Nat \ {0} /\ DynamicFee \in Nat /\ DynamicFee > MaxFee

CeilDiv(a, b) == (a + b - 1) \div b

Fees == 0 .. MaxFee

\* amount_less_fee_exact_in.
AmountLessFee(amount, fee) == (amount * (MaxFee - fee)) \div MaxFee

\* Mutant: the fee on top of the input is taken as a rate of the input alone.
FeeOnInput_OfNet(amount, fee) == CeilDiv(amount * fee, MaxFee)

\* fee_on_exact_input: the fee on top of a net input.
FeeOnInput(amount, fee) ==
  IF fee = MaxFee THEN amount ELSE CeilDiv(amount * fee, MaxFee - fee)

\* Mutant: the protocol fee is not part of the swap fee.
CalculateSwapFee_LpOnly(protocol, lp) == {lp} \cap Fees

\* calculate_swap_fee: no fee for Fee::DYNAMIC, the LP fee alone without a
\* protocol fee, else both less their overlap.
CalculateSwapFee(protocol, lp) ==
  CASE lp \notin Fees -> {}
    [] lp \in Fees /\ protocol = 0 -> {lp}
    [] OTHER -> {protocol + lp - (protocol * lp) \div MaxFee} \cap Fees

\* protocol_delta of swap_inner.
ProtocolShare(in, fee, swapFee, protocol) ==
  CASE protocol = 0 -> 0
    [] protocol # 0 /\ swapFee = protocol -> fee
    [] OTHER -> ((in + fee) * protocol) \div MaxFee
=============================================================================
