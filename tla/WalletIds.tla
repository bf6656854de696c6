----------------------------- MODULE WalletIds -----------------------------
(***************************************************************************)
(* The identifiers the parts of the wallet share, and what the environment *)
(* of a model may do to it.                                                *)
(***************************************************************************)
EXTENDS Naturals

CONSTANTS CustId,       \* transfer ids of the custodial service (CustodialPaymentId)
          LnId,         \* payment ids of the lightning node; for BOLT 11 the payment hash
          NoId,         \* no id
          Monitor,      \* the background task spawned by Wallet::new
          Payer,        \* calls of Wallet::pay; each may spawn one rebalance task
          NoTask,       \* nobody, as the owner of the mutex
          Environment   \* which of the hazards below the environment produces

\* store::PaymentId: Custodial(..) or Lightning(..)
PaymentId == CustId \cup LnId

\* Everything that may run do_custodial_rebalance.
Task == {Monitor} \cup Payer

\* "err": a call to a backend answers Err; "route": a payment under way fails;
\* "crash": the process dies and is started again; "receipts": lightning
\* payments that have nothing to do with the wallet's transfers arrive.
Hazards == {"err", "route", "crash", "receipts"}

ASSUME IdsAssumption ==
    /\ CustId \cap LnId = {}
    /\ NoId \notin PaymentId
    /\ Monitor \notin Payer
    /\ NoTask \notin Task
    /\ Environment \subseteq Hazards

=============================================================================
