-------------------------- MODULE LightningWallet --------------------------
(***************************************************************************)
(* The lightning wallet: the adapter of lightning_wallet.rs, its task that *)
(* handles ldk-node's events, and the watch channel by which that task     *)
(* tells waiting tasks of a receipt.  The node behind it is outside the    *)
(* repository; its payments and its capacity are modelled from what the    *)
(* adapter calls and returns.                                              *)
(***************************************************************************)
EXTENDS WalletIds

CONSTANTS OpenedInbound,    \* inbound capacities a newly opened channel may have
          MaxEvents         \* bound: unhandled events an unrelated receipt may add to

ASSUME LightningAssumption ==
    /\ OpenedInbound \subseteq Nat
    /\ MaxEvents \in Nat

VARIABLES lnPay,        \* the node's payment store (list_payments), by id
          inbound,      \* estimate_receivable_balance
          outbound,     \* total_lightning_balance_sats
          onchain,      \* total_onchain_balance_sats
          events,       \* PaymentReceived events the event task has not handled
          receiver      \* each task's receiver of the payment receipt flag

lightningVars == <<lnPay, inbound, outbound, onchain, events, receiver>>
nodeVars == <<lnPay, inbound, outbound, onchain>>

LnPayment == [dir: {"unused", "in", "out"},
              kind: {"Bolt11", "Bolt11Jit", "Bolt12", "OnChain"},
              amount: Nat,
              status: {"Pending", "Succeeded", "Failed"}]

UnusedPayment ==
    [dir |-> "unused", kind |-> "Bolt11", amount |-> 0, status |-> "Pending"]

LightningInit(in, out, chain) ==
    /\ lnPay = [l \in LnId |-> UnusedPayment]
    /\ inbound = in
    /\ outbound = out
    /\ onchain = chain
    /\ events = 0
    /\ receiver = [t \in Task |-> "none"]

LightningTypeOK ==
    /\ lnPay \in [LnId -> LnPayment]
    /\ inbound \in Nat /\ outbound \in Nat /\ onchain \in Nat
    /\ events \in Nat
    /\ receiver \in [Task -> {"none", "unchanged", "changed"}]

UnusedLnIds == {l \in LnId : lnPay[l].dir = "unused"}

-----------------------------------------------------------------------------
(* The adapter's calls.                                                    *)

\* get_bolt11_invoice for an amount: the payment store gains a pending inbound
\* payment, for a channel to be opened when the estimate does not cover it.
LnInvoice(l, amount) ==
    /\ lnPay[l].dir = "unused"
    /\ lnPay' = [lnPay EXCEPT ![l] =
                    [dir |-> "in",
                     kind |-> IF inbound >= amount THEN "Bolt11" ELSE "Bolt11Jit",
                     amount |-> amount, status |-> "Pending"]]
    /\ UNCHANGED <<inbound, outbound, onchain, events, receiver>>

\* pay: the node accepts an id it has not seen, or one whose payment failed. It
\* pays the given amount, which may be more than is asked for, never less.
LnPayable(l, kind, asked, amount) ==
    /\ \/ lnPay[l].dir = "unused"
       \/ lnPay[l].dir = "out" /\ lnPay[l].status = "Failed"
    /\ kind # "OnChain" => \A a \in asked : a <= amount
    /\ amount <= IF kind = "OnChain" THEN onchain ELSE outbound

LnSend(l, kind, asked, amount) ==
    /\ LnPayable(l, kind, asked, amount)
    /\ lnPay' = [lnPay EXCEPT ![l] =
                    [dir |-> "out", kind |-> kind,
                     amount |-> amount, status |-> "Pending"]]
    /\ IF kind = "OnChain"
       THEN onchain' = onchain - amount /\ UNCHANGED outbound
       ELSE outbound' = outbound - amount /\ UNCHANGED onchain
    /\ UNCHANGED <<inbound, events, receiver>>

\* The event task takes a PaymentReceived event and sends on the watch channel:
\* every receiver that exists has changed. Other events change nothing here.
HandleEvent ==
    /\ events > 0
    /\ events' = events - 1
    /\ receiver' = [t \in Task |->
                      IF receiver[t] = "none" THEN "none" ELSE "changed"]
    /\ UNCHANGED nodeVars

\* await_payment_receipt, up to its await: clone the receiver, mark_unchanged.
CloneReceiver(t) ==
    /\ receiver' = [receiver EXCEPT ![t] = "unchanged"]
    /\ UNCHANGED <<nodeVars, events>>

\* await_payment_receipt, after its await: changed() resolved, the clone is dropped.
ReceiptSeen(t) ==
    /\ receiver[t] = "changed"
    /\ receiver' = [receiver EXCEPT ![t] = "none"]
    /\ UNCHANGED <<nodeVars, events>>

-----------------------------------------------------------------------------
(* The node and the network.                                               *)

\* An inbound payment is claimed: the store has it Succeeded before the event
\* is out. A plain payment uses up inbound capacity; a JIT payment arrives over
\* a channel of its own, and the estimate is the largest channel's.
LnReceive(l) ==
    /\ lnPay[l].dir = "in"
    /\ lnPay[l].status = "Pending"
    /\ lnPay' = [lnPay EXCEPT ![l].status = "Succeeded"]
    /\ \/ /\ lnPay[l].kind = "Bolt11"
          /\ inbound' = IF inbound >= lnPay[l].amount
                        THEN inbound - lnPay[l].amount ELSE 0
       \/ /\ lnPay[l].kind = "Bolt11Jit"
          /\ \E opened \in OpenedInbound :
                inbound' = IF opened >= inbound THEN opened ELSE inbound
    /\ outbound' = outbound + lnPay[l].amount
    /\ events' = events + 1
    /\ UNCHANGED <<onchain, receiver>>

\* An inbound payment fails; ldk-node has no event for that.
LnReceiveFails(l) ==
    /\ lnPay[l].dir = "in"
    /\ lnPay[l].status = "Pending"
    /\ lnPay' = [lnPay EXCEPT ![l].status = "Failed"]
    /\ UNCHANGED <<inbound, outbound, onchain, events, receiver>>

\* A payment of ours is delivered: lightning capacity comes back as inbound.
LnSent(l) ==
    /\ lnPay[l].dir = "out"
    /\ lnPay[l].status = "Pending"
    /\ lnPay' = [lnPay EXCEPT ![l].status = "Succeeded"]
    /\ inbound' = IF lnPay[l].kind = "OnChain"
                  THEN inbound ELSE inbound + lnPay[l].amount
    /\ UNCHANGED <<outbound, onchain, events, receiver>>

\* A lightning payment of ours fails and its funds are back.
LnSendFails(l) ==
    /\ lnPay[l].dir = "out"
    /\ lnPay[l].status = "Pending"
    /\ lnPay[l].kind # "OnChain"
    /\ lnPay' = [lnPay EXCEPT ![l].status = "Failed"]
    /\ outbound' = outbound + lnPay[l].amount
    /\ UNCHANGED <<inbound, onchain, events, receiver>>

\* Some other lightning payment arrives: all the wallet sees of it is the event.
OtherReceipt ==
    /\ "receipts" \in Environment
    /\ events < MaxEvents
    /\ events' = events + 1
    /\ UNCHANGED <<nodeVars, receiver>>

=============================================================================
