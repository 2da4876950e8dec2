----------------------------- MODULE PayoutSplit ------------------------------
(***************************************************************************)
(* The split of a received payment into commission and payout              *)
(* (domain/money/split.ts), called by the payout node with the amount that *)
(* submit_payment_confirmation was told.                                   *)
(*                                                                         *)
(* JavaScript multiplies and divides doubles.  While received * rate is    *)
(* below 2^53, that is up to some nine billion euros, Math.floor of the    *)
(* rounded quotient is the integer quotient, which is what is used here.   *)
(***************************************************************************)
EXTENDS Integers

WholeRate == 10000                   \* basis points
Rates     == 0..WholeRate

SupportedCurrency == "EUR"
UpperCase(currency) == IF currency = "eur" THEN "EUR" ELSE currency

\* The checks, in the order in which they are made.
SplitError(received, rate, currency) ==
  IF UpperCase(currency) # SupportedCurrency THEN "UnsupportedCurrencyError"
  ELSE IF received \notin Nat THEN "InvalidAmountError"
  ELSE IF rate \notin Rates THEN "InvalidCommissionRateError"
  ELSE "none"

\* A plausible bug: rounding to the nearest cent.
CommissionRounded(received, rate) == (received * rate + WholeRate \div 2) \div WholeRate

Commission(received, rate) == (received * rate) \div WholeRate

SplitPayout(received, rate, currency) ==
  IF SplitError(received, rate, currency) # "none"
    THEN [ error |-> SplitError(received, rate, currency) ]
    ELSE [ error      |-> "none",
           commission |-> Commission(received, rate),
           payout     |-> received - Commission(received, rate) ]

(***************************************************************************)
(* What a split promises: no cent is lost or invented, nobody owes, and    *)
(* the commission is the largest whole number of cents within the rate,    *)
(* so that rounding never costs the passenger anything.                    *)
(***************************************************************************)
Exact(received, rate, split) ==
  /\ split.commission \in Nat /\ split.payout \in Nat
  /\ split.commission + split.payout = received
  /\ split.commission * WholeRate <= received * rate
  /\ (split.commission + 1) * WholeRate > received * rate
=============================================================================
