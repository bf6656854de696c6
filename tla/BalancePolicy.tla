--------------------------- MODULE BalancePolicy ---------------------------
(***************************************************************************)
(* The arithmetic by which the wallet decides where money should live:     *)
(* how much of the custodial balance to move into lightning channels       *)
(* (Wallet::get_balance_amt), and which side issues the invoice of a       *)
(* single-use receive URI (Wallet::get_single_use_receive_uri together     *)
(* with LightningWallet::get_bolt11_invoice).                              *)
(*                                                                         *)
(* Amounts are natural numbers of one unit; the 2^64 bound of Amount and   *)
(* its rounding to satoshis are not part of these decisions.               *)
(***************************************************************************)
EXTENDS Naturals

CONSTANTS custodial_balance_limit,    \* Tunables of the wallet
          rebalance_min,
          onchain_receive_threshold

ASSUME TunablesAssumption ==
    /\ custodial_balance_limit \in Nat
    /\ rebalance_min \in Nat
    /\ onchain_receive_threshold \in Nat

\* Amount::saturating_sub
saturating_sub(a, b) == IF a >= b THEN a - b ELSE 0

Lesser(a, b) == IF a <= b THEN a ELSE b

\* get_balance_amt answers None when there is nothing worth moving; a transfer
\* is always larger than rebalance_min, so 0 can stand for None.
None == 0

\* "We always assume lighting balance is an overestimate by `rebalance_min`."
LightningReceivable(receivable) == saturating_sub(receivable, rebalance_min)

-----------------------------------------------------------------------------
(* Mutants of the decisions: variants a plausible slip would produce.      *)

MovesOnlyTheExcess(receivable, custodial) ==
    LET fits == Lesser(LightningReceivable(receivable), custodial)
        transfer == IF saturating_sub(custodial, fits) > custodial_balance_limit
                    THEN custodial - custodial_balance_limit
                    ELSE fits
    IN IF transfer > rebalance_min THEN transfer ELSE None

NeverOpensChannel(receivable, custodial) ==
    LET fits == Lesser(LightningReceivable(receivable), custodial)
    IN IF fits > rebalance_min THEN fits ELSE None

ForgetsMargin(receivable, custodial) ==
    LET fits == Lesser(receivable, custodial)
        transfer == IF saturating_sub(custodial, fits) > custodial_balance_limit
                    THEN custodial
                    ELSE fits
    IN IF transfer > rebalance_min THEN transfer ELSE None

StrictLimit(receivable, amount) ==
    /\ amount < custodial_balance_limit
    /\ amount >= LightningReceivable(receivable)

-----------------------------------------------------------------------------
(* The amount to move to lightning: what the channels can take, or all of  *)
(* it when what would stay behind is above the limit (that transfer buys a *)
(* new channel), and nothing when the amount is not worth a transfer.      *)
get_balance_amt(receivable, custodial) ==
    LET fits == Lesser(LightningReceivable(receivable), custodial)
        transfer == IF saturating_sub(custodial, fits) > custodial_balance_limit
                    THEN custodial
                    ELSE fits
    IN IF transfer > rebalance_min THEN transfer ELSE None

\* LightningWallet::get_bolt11_invoice for a given amount: a plain invoice when
\* the estimate covers it, else one that has the LSP open a channel.
LightningInvoiceKind(receivable, amount) ==
    IF receivable >= amount THEN "Bolt11" ELSE "Bolt11Jit"

\* A receive of this amount is taken by the custodial side.
use_custodial(receivable, amount) ==
    /\ amount <= custodial_balance_limit
    /\ amount >= LightningReceivable(receivable)

\* What get_single_use_receive_uri puts in the URI for a given amount.
SingleUseReceiveUri(receivable, amount) ==
    [onchain |-> amount >= onchain_receive_threshold,
     invoice |-> IF use_custodial(receivable, amount)
                 THEN "Custodial"
                 ELSE LightningInvoiceKind(receivable, amount)]

=============================================================================
