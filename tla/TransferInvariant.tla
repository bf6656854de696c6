-------------------------- MODULE TransferInvariant --------------------------
(***************************************************************************)
(* The inductive invariant behind the records of transfers: which payment  *)
(* each rebalance is to be blamed on, and what is on record of a transfer  *)
(* while its task still writes.  It holds if no two calls of pay are given *)
(* the same invoice: ldk-node refuses to pay one twice unless the first    *)
(* payment failed, and then both calls record the payment of the one hash. *)
(***************************************************************************)
EXTENDS WalletInvariant

\* The invoices among the methods of a call.
InvoicesOf(p) ==
    {instructions[p][i].hash : i \in {j \in 1..Len(instructions[p]) :
                                         instructions[p][j].type = "Bolt11"}}

DistinctInvoices ==
    \A p, q \in Payer : p # q => InvoicesOf(p) \cap InvoicesOf(q) = {}

\* A payment belongs to one call, and is on record when the call has recorded it.
SentApart ==
    /\ \A p, q \in Payer : sent[p] \in PaymentId /\ sent[p] = sent[q] => p = q
    /\ \A p \in Payer :
          /\ sent[p] \in InvoiceHash => sent[p] \in InvoicesOf(p)
          /\ payPc[p] = "record" => ~Has(sent[p])

\* What the monitor has listed are deposits that were made, and what it has seen
\* of them are payments that nothing is blamed on.
CandidatesArePayments ==
    /\ \A c \in todo \cup new_txn \cup old_txn : transfer[c].dir = "in"
    /\ current # NoId => transfer[current].dir = "in"
    /\ pc[Monitor] \in {"scan", "insert", "decide"} =>
          \A c \in new_txn \cup old_txn : tx_metadata[c].ty = "Payment"

\* No two tasks blame the same payment: the monitor blames a deposit, and the
\* task of a call of pay the call's own payment.
TriggersApart ==
    /\ trigger[Monitor] \in DepositId \cup {NoId}
    /\ \A p \in Payer : pc[p] \in RebalancePc => trigger[p] = sent[p] /\ sent[p] \in LnId

\* A task finds its trigger a plain payment until it marks it ..
TriggerIsPayment ==
    \A t \in Task : pc[t] \in RebalancePc \ {"insertC", "insertL"} =>
       tx_metadata[trigger[t]].ty = "Payment"

\* .. and once it has, no entry blames it but the task's own first one.
TriggerMarked ==
    \A t \in Task : pc[t] \in {"insertC", "insertL"} =>
       /\ tx_metadata[trigger[t]].ty = "Trigger"
       /\ \A k \in PaymentId :
             /\ tx_metadata[k].ty = "Transfer"
             /\ tx_metadata[k].payment_triggering_transfer = trigger[t]
             => pc[t] = "insertL" /\ tx_metadata[k] = RebalanceMetadata(t)

\* Between its two entries a task has written the first.
FirstEntryWritten ==
    \A t \in Task : pc[t] = "insertL" => tx_metadata[rebalance[t]] = RebalanceMetadata(t)

\* An entry is about ids: a payment out of the custodial wallet to the lightning
\* payment, and the payment to blame.
EntriesAreTransfers ==
    \A k \in PaymentId : tx_metadata[k].ty = "Transfer" =>
       /\ tx_metadata[k].custodial_payment \in CustId \ DepositId
       /\ tx_metadata[k].lightning_payment \in LnId
       /\ tx_metadata[k].payment_triggering_transfer \in PaymentId
       /\ transfer[tx_metadata[k].custodial_payment].dir = "out"

\* The lightning payments that are on record as payments were sent.
PaymentsWereSent ==
    \A l \in LnId : tx_metadata[l].ty \in {"Payment", "Trigger"} => lnPay[l].dir = "out"

\* Both ends of a transfer tell the same end: what is received was delivered,
\* and what failed comes back; an id that is not used pays nobody.
EndsAgree ==
    /\ \A c \in CustId \ DepositId : transfer[c].dir # "out" => transfer[c].dest = NoId
    /\ \A c \in CustId : ToInvoice(c) =>
          /\ lnPay[transfer[c].dest].status = "Succeeded" <=> transfer[c].status = "Completed"
          /\ lnPay[transfer[c].dest].status = "Failed" =>
                transfer[c].status \in {"Returned", "Failed"}

\* Whatever holds of the records with SafetyInv, as one invariant.
TransferInv ==
    /\ SentApart
    /\ CandidatesArePayments
    /\ TriggersApart
    /\ TriggerIsPayment
    /\ TriggerMarked
    /\ FirstEntryWritten
    /\ EntriesAreTransfers
    /\ PaymentsWereSent
    /\ EndsAgree
    /\ TransferPaired
    /\ OneTransferPerTrigger

=============================================================================
