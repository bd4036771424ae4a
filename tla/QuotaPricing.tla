----------------------------- MODULE QuotaPricing -----------------------------
(***************************************************************************)
(* The fixed-point pricing of the quota proxy (OpenAIModelPricing).         *)
(*                                                                         *)
(* A configured price is a decimal number of USD per million tokens with   *)
(* up to nine decimal places, so the price of ONE token is a whole number  *)
(* of 1/Scale nano-USD (Scale is 10^6 in the code) and in general NOT a    *)
(* whole number of nano-USD.  The ledger keeps whole nano-USD, and every   *)
(* token class is rounded up to one on its own.                            *)
(***************************************************************************)
EXTENDS Integers

CONSTANTS
  Scale,          \* price units in one nano-USD
  InputRate,      \* price of a regular input token, in 1/Scale nano-USD
  CachedRate,     \* price of a cached input token
  OutputRate      \* price of an output token

ASSUME PricingAssumption ==
  /\ Scale \in Nat \ {0}
  /\ InputRate \in Nat \ {0}
  /\ OutputRate \in Nat \ {0}
  /\ CachedRate \in Nat
  /\ CachedRate <= InputRate

\* A reported usage: cached input tokens are part of the input tokens.
Usage(inputLimit, outputLimit) ==
  { u \in [input : 0 .. inputLimit, cached : 0 .. inputLimit, output : 0 .. outputLimit] :
      u.cached <= u.input }

\* Rounding up to a whole nano-USD, as _cost does for one token class.
CostAsFloor(tokens, rate) == (tokens * rate) \div Scale
Cost(tokens, rate) == (tokens * rate + Scale - 1) \div Scale

MaximumCost(inputTokens, outputTokens) ==
  Cost(inputTokens, InputRate) + Cost(outputTokens, OutputRate)

ActualCost(u) ==
  Cost(u.input - u.cached, InputRate) + Cost(u.cached, CachedRate) + Cost(u.output, OutputRate)

\* What the provider charges for a usage, in 1/Scale nano-USD and unrounded.
ExactBill(u) ==
  (u.input - u.cached) * InputRate + u.cached * CachedRate + u.output * OutputRate

=============================================================================
