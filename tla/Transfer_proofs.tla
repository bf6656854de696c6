--------------------------- MODULE Transfer_proofs ---------------------------
(***************************************************************************)
(* TransferInv is inductive, for every instance in which no two calls of   *)
(* pay are given the same invoice; what it says of records, of transfers   *)
(* and of crashes.                                                         *)
(***************************************************************************)
EXTENDS TransferInvariant, WalletSafety_proofs, FiniteSetTheorems

\* What is known of every state.
RecordsInv == TypeOK /\ SafetyInv /\ TransferInv

-----------------------------------------------------------------------------
(* Facts the steps below use.                                              *)

LEMMA RebalancePcFacts ==
    RebalancePc = {"lock", "check", "invoice", "custpay", "poll", "subscribe",
                   "wait", "mark", "insertC", "insertL"}
  BY DEF RebalancePc

\* More of what the types say.
LEMMA MoreShapes ==
    ASSUME TypeOK
    PROVE  /\ trigger = [t \in Task |-> trigger[t]]
           /\ \A t \in Task : pc[t] \in RebalancePc => trigger[t] \in PaymentId
           /\ \A p \in Payer : sent[p] \in PaymentId \cup {NoId}
           /\ \A p \in Payer : payPc[p] \in {"record", "ok"} => sent[p] \in PaymentId
           /\ todo \cup new_txn \cup old_txn \subseteq DepositId
           /\ current \in DepositId \cup {NoId}
           /\ \A c \in CustId : transfer[c] \in Transfer
           /\ \A l \in LnId : lnPay[l] \in LnPayment
  BY DEF TypeOK, RebalanceTypeOK, PayTypeOK, MonitorTypeOK, SparkTypeOK, LightningTypeOK

\* An entry of a transfer is one the two backends know of.
LEMMA EntryIsKnown ==
    ASSUME TypeOK, SafetyInv, TransferInv,
           NEW k \in PaymentId, tx_metadata[k].ty = "Transfer"
    PROVE  LET e == tx_metadata[k] IN
           /\ e.custodial_payment \in CustId \ DepositId
           /\ e.lightning_payment \in LnId
           /\ e.payment_triggering_transfer \in PaymentId
           /\ ToInvoice(e.custodial_payment)
           /\ transfer[e.custodial_payment].dest = e.lightning_payment
           /\ lnPay[e.lightning_payment].dir = "in"
           /\ lnPay[e.lightning_payment].status = "Succeeded"
           /\ tx_metadata[e.custodial_payment] = e
  <1> DEFINE e == tx_metadata[k]
  <1>1. /\ e.custodial_payment \in CustId \ DepositId
        /\ e.lightning_payment \in LnId
        /\ e.payment_triggering_transfer \in PaymentId
        /\ transfer[e.custodial_payment].dir = "out"
    BY DEF TransferInv, EntriesAreTransfers
  <1>2. /\ transfer[e.custodial_payment].dest = e.lightning_payment
        /\ lnPay[e.lightning_payment].status = "Succeeded"
        /\ tx_metadata[e.custodial_payment] = e
    BY DEF TransferInv, TransferPaired
  <1>3. ToInvoice(e.custodial_payment)
    BY <1>1, <1>2, IdFacts DEF ToInvoice
  <1>4. lnPay[e.lightning_payment].dir = "in"
    BY <1>1, <1>2, <1>3 DEF SafetyInv, OneTransferPerInvoice
  <1> QED BY <1>1, <1>2, <1>3, <1>4

\* What a task with a transfer knows of it.
LEMMA LegIsKnown ==
    ASSUME TypeOK, SafetyInv, NEW t \in Task, pc[t] \in LegPc
    PROVE  /\ rebalance[t] \in CustId \ DepositId
           /\ invoice[t] \in LnId
           /\ trigger[t] \in PaymentId
           /\ ToInvoice(rebalance[t])
           /\ transfer[rebalance[t]].dest = invoice[t]
           /\ lnPay[invoice[t]].dir = "in"
           /\ ~Has(invoice[t])
           /\ mutex = t
           /\ \A u \in Task : pc[u] \in LockedPc => u = t
  <1>1. /\ rebalance[t] \in CustId \ DepositId
        /\ invoice[t] \in LnId /\ trigger[t] \in PaymentId
        /\ transfer[rebalance[t]].dir = "out"
        /\ transfer[rebalance[t]].dest = invoice[t]
        /\ ~Has(invoice[t])
    BY Shapes DEF SafetyInv, LegHeld
  <1>2. ToInvoice(rebalance[t])
    BY <1>1, IdFacts DEF ToInvoice
  <1>3. lnPay[invoice[t]].dir = "in"
    BY <1>1, <1>2 DEF SafetyInv, OneTransferPerInvoice
  <1>4. mutex = t /\ \A u \in Task : pc[u] \in LockedPc => u = t
    BY PcFacts DEF SafetyInv, MutexHeld
  <1> QED BY <1>1, <1>2, <1>3, <1>4

-----------------------------------------------------------------------------
LEMMA InitTransfer == Init => TransferInv
  <1> SUFFICES ASSUME Init PROVE TransferInv
    OBVIOUS
  <1> USE IdFacts, RebalancePcFacts DEF Init
  <1>1. \A t \in Task : pc[t] \in {"list", "none"} /\ trigger[t] = NoId
    BY DEF RebalanceInit
  <1>2. \A c \in CustId : transfer[c].dir = "unused" /\ transfer[c].dest = NoId
    BY DEF SparkInit, UnusedTransfer
  <1>3. \A k \in PaymentId : tx_metadata[k].ty = "None"
    BY DEF MetadataInit, Plain
  <1>4. \A p \in Payer : sent[p] = NoId /\ payPc[p] = "idle"
    BY DEF PayInit
  <1>5. SentApart
    BY <1>4 DEF SentApart
  <1>6. CandidatesArePayments
    BY <1>1 DEF CandidatesArePayments, MonitorInit
  <1>7. TriggersApart /\ TriggerIsPayment /\ TriggerMarked /\ FirstEntryWritten
    BY <1>1 DEF TriggersApart, TriggerIsPayment, TriggerMarked, FirstEntryWritten
  <1>8. EntriesAreTransfers /\ PaymentsWereSent /\ TransferPaired /\ OneTransferPerTrigger
    BY <1>3 DEF EntriesAreTransfers, PaymentsWereSent, TransferPaired, OneTransferPerTrigger
  <1>9. EndsAgree
    BY <1>2 DEF EndsAgree, ToInvoice
  <1> QED BY <1>5, <1>6, <1>7, <1>8, <1>9 DEF TransferInv

-----------------------------------------------------------------------------
(* The shape of most steps: nothing is written to the metadata.            *)

LEMMA UnrecordedStep ==
    ASSUME TypeOK, SafetyInv, TransferInv,
           UNCHANGED tx_metadata,
           orphaned \subseteq orphaned',
           trigger'[Monitor] \in DepositId \cup {NoId},
           \A t \in Task : pc'[t] \in {"insertC", "insertL"} =>
              /\ pc'[t] = pc[t]
              /\ trigger'[t] = trigger[t]
              /\ rebalance'[t] = rebalance[t]
              /\ invoice'[t] = invoice[t],
           \A t \in Task : pc[t] = "insertL" =>
              pc'[t] = "insertL" \/ \E leg \in orphaned' : leg.invoice = invoice[t],
           \A t \in Task : pc'[t] \in RebalancePc \ {"insertC", "insertL"} =>
              \/ pc[t] \in RebalancePc \ {"insertC", "insertL"} /\ trigger'[t] = trigger[t]
              \/ t = Monitor /\ tx_metadata[trigger'[t]].ty = "Payment",
           \A p \in Payer : pc'[p] \in RebalancePc => sent'[p] = sent[p],
           \A c \in CustId : ToInvoice(c) =>
              transfer'[c].dir = "out" /\ transfer'[c].dest = transfer[c].dest,
           \A l \in LnId : lnPay[l].dir = "in" /\ lnPay[l].status = "Succeeded" =>
              lnPay'[l].status = "Succeeded",
           \A l \in LnId : lnPay[l].dir = "out" => lnPay'[l].dir = "out",
           SentApart', CandidatesArePayments', EndsAgree'
    PROVE  TransferInv'
  <1> USE IdFacts, RebalancePcFacts DEF TransferInv
  <1>1. TriggersApart'
    BY DEF TriggersApart
  <1>2. TriggerIsPayment'
    BY DEF TriggerIsPayment
  <1>3. TriggerMarked' /\ FirstEntryWritten'
    BY DEF TriggerMarked, FirstEntryWritten, RebalanceMetadata
  <1>4. EntriesAreTransfers'
    BY EntryIsKnown DEF EntriesAreTransfers
  <1>5. PaymentsWereSent' /\ OneTransferPerTrigger'
    BY DEF PaymentsWereSent, OneTransferPerTrigger
  <1>6. TransferPaired'
    <2> SUFFICES ASSUME NEW k \in PaymentId, tx_metadata[k].ty = "Transfer"
                 PROVE  LET e == tx_metadata[k] IN
                        /\ k \in {e.custodial_payment, e.lightning_payment}
                        /\ transfer'[e.custodial_payment].dest = e.lightning_payment
                        /\ lnPay'[e.lightning_payment].status = "Succeeded"
                        /\ tx_metadata[e.custodial_payment] = e
                        /\ tx_metadata[e.payment_triggering_transfer].ty = "Trigger"
                        /\ \/ tx_metadata[e.lightning_payment] = e
                           \/ \E t \in Task : pc'[t] = "insertL" /\ invoice'[t] = e.lightning_payment
                           \/ \E leg \in orphaned' : leg.invoice = e.lightning_payment
      BY DEF TransferPaired
    <2> DEFINE e == tx_metadata[k]
    <2>1. /\ k \in {e.custodial_payment, e.lightning_payment}
          /\ tx_metadata[e.custodial_payment] = e
          /\ tx_metadata[e.payment_triggering_transfer].ty = "Trigger"
          /\ \/ tx_metadata[e.lightning_payment] = e
             \/ \E t \in Task : pc[t] = "insertL" /\ invoice[t] = e.lightning_payment
             \/ \E leg \in orphaned : leg.invoice = e.lightning_payment
      BY DEF TransferPaired
    <2>2. /\ transfer'[e.custodial_payment].dest = e.lightning_payment
          /\ lnPay'[e.lightning_payment].status = "Succeeded"
      BY EntryIsKnown
    <2>3. \/ tx_metadata[e.lightning_payment] = e
          \/ \E t \in Task : pc'[t] = "insertL" /\ invoice'[t] = e.lightning_payment
          \/ \E leg \in orphaned' : leg.invoice = e.lightning_payment
      BY <2>1
    <2> QED BY <2>1, <2>2, <2>3
  <1> QED BY <1>1, <1>2, <1>3, <1>4, <1>5, <1>6

LEMMA SentKept ==
    ASSUME TypeOK, TransferInv,
           UNCHANGED <<sent, tx_metadata>>,
           \A p \in Payer : payPc'[p] = "record" => payPc[p] = "record"
    PROVE  SentApart'
  BY DEF TransferInv, SentApart, Has

LEMMA CandidatesKept ==
    ASSUME TypeOK, TransferInv,
           UNCHANGED <<tx_metadata, todo, new_txn, old_txn, current>>,
           \A c \in DepositId : transfer[c].dir = "in" => transfer'[c].dir = "in",
           pc'[Monitor] \in {"scan", "insert", "decide"} =>
              pc[Monitor] \in {"scan", "insert", "decide"}
    PROVE  CandidatesArePayments'
  BY MoreShapes DEF TransferInv, CandidatesArePayments

LEMMA EndsKept ==
    ASSUME TransferInv, UNCHANGED <<transfer, lnPay>>
    PROVE  EndsAgree'
  BY DEF TransferInv, EndsAgree, ToInvoice

-----------------------------------------------------------------------------
(* The steps of a rebalance.                                               *)

\* Until it has marked its trigger a task neither writes nor changes what it
\* is about.
LEMMA BeforeMark ==
    ASSUME TypeOK, SafetyInv, TransferInv, NEW t \in Task, NEW s,
           UNCHANGED <<tx_metadata, orphaned, trigger>>,
           UNCHANGED <<monitorVars, payVars>>,
           pc[t] \in RebalancePc \ {"insertC", "insertL"},
           s \in (RebalancePc \ {"insertC", "insertL"}) \cup {"sync", "finished"},
           pc' = [pc EXCEPT ![t] = s],
           \A u \in Task \ {t} : rebalance'[u] = rebalance[u] /\ invoice'[u] = invoice[u],
           \A c \in CustId : ToInvoice(c) =>
              transfer'[c].dir = "out" /\ transfer'[c].dest = transfer[c].dest,
           \A c \in DepositId : transfer[c].dir = "in" => transfer'[c].dir = "in",
           \A l \in LnId : lnPay[l].dir # "unused" => lnPay'[l] = lnPay[l],
           EndsAgree'
    PROVE  TransferInv'
  <1> USE IdFacts, RebalancePcFacts, Shapes
  <1>1. /\ UNCHANGED <<todo, new_txn, old_txn, current>>
        /\ UNCHANGED <<sent, payPc>>
    BY DEF monitorVars, payVars
  <1>2. SentApart'
    BY <1>1, SentKept
  <1>3. \A u \in Task : pc'[u] = IF u = t THEN s ELSE pc[u]
    OBVIOUS
  <1>4. CandidatesArePayments'
    BY <1>1, <1>3, CandidatesKept
  <1>5. trigger'[Monitor] \in DepositId \cup {NoId}
    BY DEF TransferInv, TriggersApart
  <1>6. \A l \in LnId : /\ lnPay[l].dir = "in" => lnPay'[l] = lnPay[l]
                        /\ lnPay[l].dir = "out" => lnPay'[l] = lnPay[l]
    OBVIOUS
  <1> QED BY <1>1, <1>2, <1>3, <1>4, <1>5, <1>6, UnrecordedStep

LEMMA QuietRebalanceTransfer ==
    ASSUME TypeOK, SafetyInv, TransferInv, NEW t \in Task,
           \/ Lock(t) \/ Check(t) \/ GetInvoiceFails(t) \/ CustodialPayFails(t)
           \/ Poll(t) \/ Subscribe(t) \/ Wake(t),
           UNCHANGED <<monitorVars, payVars>>
    PROVE  TransferInv'
  <1>1. PICK s : /\ pc' = [pc EXCEPT ![t] = s]
                 /\ pc[t] \in {"lock", "check", "invoice", "custpay", "poll",
                               "subscribe", "wait"}
                 /\ s \in {"check", "invoice", "poll", "subscribe", "wait", "mark",
                           AfterRebalance(t)}
    BY DEF Lock, Check, GetInvoiceFails, CustodialPayFails, Poll, Subscribe, Wake, Goto, Return
  <1>2. UNCHANGED <<transfer, lnPay, tx_metadata, trigger, invoice, rebalance, orphaned>>
    BY DEF Lock, Check, GetInvoiceFails, CustodialPayFails, SparkPayFails, Poll, Subscribe,
           Wake, CloneReceiver, ReceiptSeen, walletVars, sparkVars, lightningVars, nodeVars,
           localVars
  <1>3. s \in (RebalancePc \ {"insertC", "insertL"}) \cup {"sync", "finished"}
    BY <1>1, RebalancePcFacts DEF AfterRebalance
  <1>4. pc[t] \in RebalancePc \ {"insertC", "insertL"}
    BY <1>1, RebalancePcFacts
  <1>5. EndsAgree'
    BY <1>2, EndsKept
  <1> QED BY <1>1, <1>2, <1>3, <1>4, <1>5, BeforeMark DEF ToInvoice

LEMMA GetInvoiceTransfer ==
    ASSUME TypeOK, SafetyInv, TransferInv, NEW t \in Task, GetInvoice(t),
           UNCHANGED <<monitorVars, payVars>>
    PROVE  TransferInv'
  <1>0. PICK l \in OwnInvoiceIds :
           LnInvoice(l, amount[t]) /\ invoice' = [invoice EXCEPT ![t] = l]
    BY DEF GetInvoice
  <1>1. /\ l \in LnId
        /\ lnPay[l].dir = "unused"
        /\ lnPay'[l].status = "Pending"
        /\ \A m \in LnId \ {l} : lnPay'[m] = lnPay[m]
        /\ \A u \in Task \ {t} : invoice'[u] = invoice[u]
    BY <1>0, Shapes DEF LnInvoice, OwnInvoiceIds, UnusedLnIds
  <1>2. /\ pc[t] = "invoice"
        /\ pc' = [pc EXCEPT ![t] = "custpay"]
        /\ UNCHANGED <<transfer, tx_metadata, trigger, rebalance, orphaned>>
    BY DEF GetInvoice, Goto, sparkVars
  <1>3. \A c \in CustId : ToInvoice(c) => transfer[c].dest \in LnId \ {l}
    BY <1>1, Shapes DEF ToInvoice, SafetyInv, OneTransferPerInvoice
  <1>4. EndsAgree'
    BY <1>1, <1>2, <1>3 DEF TransferInv, EndsAgree, ToInvoice
  <1> QED BY <1>1, <1>2, <1>4, RebalancePcFacts, BeforeMark DEF ToInvoice

LEMMA CustodialPayTransfer ==
    ASSUME TypeOK, SafetyInv, TransferInv, NEW t \in Task, CustodialPay(t),
           UNCHANGED <<monitorVars, payVars>>
    PROVE  TransferInv'
  <1>0. PICK c \in UnusedCustIds :
           /\ SparkPay(c, invoice[t], lnPay[invoice[t]].amount)
           /\ rebalance' = [rebalance EXCEPT ![t] = c]
    BY DEF CustodialPay
  <1>1. /\ c \in CustId \ DepositId
        /\ transfer[c].dir = "unused"
        /\ transfer'[c].dir = "out" /\ transfer'[c].dest = invoice[t]
        /\ transfer'[c].status = "Pending"
        /\ \A d \in CustId \ {c} : transfer'[d] = transfer[d]
        /\ \A u \in Task \ {t} : rebalance'[u] = rebalance[u]
    BY <1>0, Shapes DEF SparkPay, UnusedCustIds
  <1>2. /\ pc[t] = "custpay"
        /\ pc' = [pc EXCEPT ![t] = "poll"]
        /\ UNCHANGED <<lnPay, tx_metadata, trigger, invoice, orphaned>>
    BY DEF CustodialPay, Goto, lightningVars
  <1>3. lnPay[invoice[t]].status = "Pending"
    BY <1>2 DEF SafetyInv, InvoiceNotPaid
  <1>4. EndsAgree'
    BY <1>1, <1>2, <1>3 DEF TransferInv, EndsAgree, ToInvoice
  <1>5. \A d \in CustId : transfer[d].dir # "unused" => transfer'[d] = transfer[d]
    BY <1>1
  <1> QED BY <1>1, <1>2, <1>4, <1>5, IdFacts, RebalancePcFacts, BeforeMark DEF ToInvoice

LEMMA TriggersDiffer ==
    ASSUME TypeOK, TransferInv, NEW t \in Task, NEW u \in Task, t # u,
           pc[t] \in RebalancePc, pc[u] \in RebalancePc
    PROVE  trigger[t] # trigger[u]
  BY IdFacts, MoreShapes DEF TransferInv, TriggersApart, SentApart, Task

\* The trigger is told: it was a plain payment, and nobody else's.
LEMMA MarkTransfer ==
    ASSUME TypeOK, SafetyInv, TransferInv, NEW t \in Task, Mark(t),
           UNCHANGED <<monitorVars, payVars>>
    PROVE  TransferInv'
  <1>1. /\ pc[t] = "mark"
        /\ pc' = [pc EXCEPT ![t] = "insertC"]
        /\ UNCHANGED <<transfer, lnPay, trigger, invoice, rebalance, orphaned>>
    BY DEF Mark, Goto, sparkVars, lightningVars, localVars
  <1>2. /\ UNCHANGED <<todo, new_txn, old_txn, current>>
        /\ UNCHANGED <<sent, payPc>>
    BY DEF monitorVars, payVars
  <1>3. /\ trigger[t] \in PaymentId
        /\ tx_metadata[trigger[t]].ty = "Payment"
        /\ tx_metadata'[trigger[t]].ty = "Trigger"
        /\ \A k \in PaymentId \ {trigger[t]} : tx_metadata'[k] = tx_metadata[k]
    BY <1>1, PcFacts, Shapes DEF Mark, set_tx_caused_rebalance, do_set, Plain
  <1>4. \A k \in PaymentId :
           /\ Has(k)' = Has(k)
           /\ tx_metadata[k].ty = "Transfer" => tx_metadata'[k] = tx_metadata[k]
           /\ tx_metadata'[k].ty = "Transfer" => tx_metadata'[k] = tx_metadata[k]
           /\ tx_metadata[k].ty = "Trigger" => tx_metadata'[k].ty = "Trigger"
    BY <1>3 DEF Has
  <1> USE IdFacts, PcFacts, RebalancePcFacts, Shapes
  <1>5. \A u \in Task : pc[u] \in LockedPc => u = t
    BY <1>1, LegIsKnown
  <1>6. SentApart'
    <2>1. \A p \in Payer : payPc[p] = "record" => sent[p] \in PaymentId
      BY MoreShapes
    <2> QED BY <1>2, <1>4, <2>1 DEF TransferInv, SentApart
  <1>7. CandidatesArePayments'
    <2>1. pc[Monitor] \in {"scan", "insert", "decide"} => trigger[t] \notin DepositId
      BY <1>1 DEF TransferInv, TriggersApart, Task
    <2>2. pc'[Monitor] \in {"scan", "insert", "decide"} =>
             pc[Monitor] \in {"scan", "insert", "decide"}
      BY <1>1
    <2> QED BY <1>1, <1>2, <1>3, <2>1, <2>2, MoreShapes DEF TransferInv, CandidatesArePayments
  <1>8. TriggersApart'
    BY <1>1, <1>2 DEF TransferInv, TriggersApart
  <1>9. TriggerIsPayment'
    <2> SUFFICES ASSUME NEW u \in Task, pc'[u] \in RebalancePc \ {"insertC", "insertL"}
                 PROVE  tx_metadata'[trigger[u]].ty = "Payment"
      BY <1>1 DEF TriggerIsPayment
    <2>1. u # t /\ pc[u] \in RebalancePc \ {"insertC", "insertL"}
      BY <1>1
    <2>2. trigger[u] # trigger[t] /\ trigger[u] \in PaymentId
      BY <1>1, <2>1, TriggersDiffer, MoreShapes
    <2> QED BY <1>3, <2>1, <2>2 DEF TransferInv, TriggerIsPayment
  <1>10. TriggerMarked'
    <2>1. \A k \in PaymentId : tx_metadata[k].ty = "Transfer" =>
             tx_metadata[k].payment_triggering_transfer # trigger[t]
      BY <1>3 DEF TransferInv, TransferPaired
    <2>2. \A u \in Task : pc'[u] \in {"insertC", "insertL"} => u = t
      BY <1>1, <1>5
    <2> QED BY <1>1, <1>3, <1>4, <2>1, <2>2 DEF TriggerMarked
  <1>11. FirstEntryWritten'
    <2>1. \A u \in Task : pc'[u] # "insertL"
      BY <1>1, <1>5
    <2> QED BY <2>1 DEF FirstEntryWritten
  <1>12. EntriesAreTransfers' /\ OneTransferPerTrigger'
    BY <1>1, <1>4 DEF TransferInv, EntriesAreTransfers, OneTransferPerTrigger
  <1>13. PaymentsWereSent'
    BY <1>1, <1>3 DEF TransferInv, PaymentsWereSent
  <1>14. EndsAgree'
    BY <1>1, EndsKept
  <1>15. TransferPaired'
    <2>1. \A u \in Task : pc[u] # "insertL"
      BY <1>1, <1>5
    <2> SUFFICES ASSUME NEW k \in PaymentId, tx_metadata'[k].ty = "Transfer"
                 PROVE  LET e == tx_metadata'[k] IN
                        /\ k \in {e.custodial_payment, e.lightning_payment}
                        /\ transfer[e.custodial_payment].dest = e.lightning_payment
                        /\ lnPay[e.lightning_payment].status = "Succeeded"
                        /\ tx_metadata'[e.custodial_payment] = e
                        /\ tx_metadata'[e.payment_triggering_transfer].ty = "Trigger"
                        /\ \/ tx_metadata'[e.lightning_payment] = e
                           \/ \E leg \in orphaned : leg.invoice = e.lightning_payment
      BY <1>1 DEF TransferPaired
    <2> DEFINE e == tx_metadata[k]
    <2>2. e = tx_metadata'[k] /\ e.ty = "Transfer"
      BY <1>4
    <2>3. /\ e.custodial_payment \in PaymentId
          /\ e.lightning_payment \in PaymentId
          /\ e.payment_triggering_transfer \in PaymentId
      BY <2>2, EntryIsKnown
    <2>4. /\ k \in {e.custodial_payment, e.lightning_payment}
          /\ transfer[e.custodial_payment].dest = e.lightning_payment
          /\ lnPay[e.lightning_payment].status = "Succeeded"
          /\ tx_metadata[e.custodial_payment] = e
          /\ tx_metadata[e.payment_triggering_transfer].ty = "Trigger"
          /\ \/ tx_metadata[e.lightning_payment] = e
             \/ \E leg \in orphaned : leg.invoice = e.lightning_payment
      BY <2>1, <2>2 DEF TransferInv, TransferPaired
    <2> QED BY <1>4, <2>2, <2>3, <2>4
  <1> QED
    BY <1>6, <1>7, <1>8, <1>9, <1>10, <1>11, <1>12, <1>13, <1>14, <1>15 DEF TransferInv

\* It always is a plain payment.
LEMMA MarkNeverPanics ==
    ASSUME TypeOK, TransferInv, NEW t \in Task
    PROVE  ~MarkPanics(t)
  BY RebalancePcFacts
  DEF MarkPanics, set_tx_caused_rebalance_fails, TransferInv, TriggerIsPayment

\* The fields of what a task writes.
LEMMA EntryFields ==
    ASSUME NEW t
    PROVE  /\ RebalanceMetadata(t).ty = "Transfer"
           /\ RebalanceMetadata(t).custodial_payment = rebalance[t]
           /\ RebalanceMetadata(t).lightning_payment = invoice[t]
           /\ RebalanceMetadata(t).payment_triggering_transfer = trigger[t]
  BY DEF RebalanceMetadata, TransferToNonCustodial

\* The custodial side is recorded: nothing was there, and nothing blames the
\* trigger yet.
LEMMA InsertCustodialTransfer ==
    ASSUME TypeOK, SafetyInv, TransferInv, NEW t \in Task, InsertCustodial(t),
           UNCHANGED <<monitorVars, payVars>>
    PROVE  TransferInv'
  <1>1. /\ pc[t] = "insertC"
        /\ pc' = [pc EXCEPT ![t] = "insertL"]
        /\ UNCHANGED <<transfer, lnPay, trigger, invoice, rebalance, orphaned>>
    BY DEF InsertCustodial, Goto, sparkVars, lightningVars, localVars
  <1>2. /\ UNCHANGED <<todo, new_txn, old_txn, current>>
        /\ UNCHANGED <<sent, payPc>>
    BY DEF monitorVars, payVars
  <1> DEFINE e == RebalanceMetadata(t)
             c == rebalance[t]
  <1>3. /\ c \in CustId \ DepositId
        /\ invoice[t] \in LnId /\ trigger[t] \in PaymentId
        /\ ToInvoice(c) /\ transfer[c].dest = invoice[t]
        /\ lnPay[invoice[t]].status = "Succeeded"
        /\ ~Has(c)
        /\ \A u \in Task : pc[u] \in LockedPc => u = t
    BY <1>1, LegIsKnown, PcFacts DEF SafetyInv, LegHeld
  <1> USE IdFacts, PcFacts, RebalancePcFacts, Shapes
  <1>4. /\ tx_metadata'[c] = e
        /\ \A k \in PaymentId \ {c} : tx_metadata'[k] = tx_metadata[k]
        /\ c \in PaymentId /\ tx_metadata[c].ty = "None"
    BY <1>3 DEF InsertCustodial, do_set, Has
  <1>5. UNCHANGED e
    BY <1>1 DEF RebalanceMetadata
  <1> HIDE DEF e, c
  <1>6. /\ e.ty = "Transfer"
        /\ e.custodial_payment = c
        /\ e.lightning_payment = invoice[t]
        /\ e.payment_triggering_transfer = trigger[t]
    BY EntryFields DEF e, c
  <1>7. SentApart'
    <2>1. \A p \in Payer : payPc[p] = "record" => sent[p] \in PaymentId /\ sent[p] # c
      BY <1>3, MoreShapes DEF SafetyInv, SentHeld, ToInvoice
    <2> QED BY <1>2, <1>4, <2>1 DEF TransferInv, SentApart, Has
  <1>8. CandidatesArePayments'
    BY <1>1, <1>2, <1>3, <1>4, MoreShapes DEF TransferInv, CandidatesArePayments
  <1>9. TriggersApart'
    BY <1>1, <1>2 DEF TransferInv, TriggersApart
  <1>10. TriggerIsPayment'
    BY <1>1, <1>4, MoreShapes DEF TransferInv, TriggerIsPayment
  <1>11. TriggerMarked' /\ FirstEntryWritten'
    <2>1. \A k \in PaymentId : tx_metadata[k].ty = "Transfer" =>
             tx_metadata[k].payment_triggering_transfer # trigger[t]
      BY <1>1 DEF TransferInv, TriggerMarked
    <2>2. \A u \in Task : pc'[u] \in {"insertC", "insertL"} => u = t
      BY <1>1, <1>3
    <2>3. \A k \in PaymentId :
             /\ tx_metadata'[k].ty = "Transfer"
             /\ tx_metadata'[k].payment_triggering_transfer = trigger[t]
             => tx_metadata'[k] = e
      BY <1>4, <2>1
    <2>4. tx_metadata'[trigger[t]].ty = "Trigger"
      BY <1>1, <1>3, <1>4 DEF TransferInv, TriggerMarked
    <2>5. pc'[t] = "insertL" /\ RebalanceMetadata(t)' = e /\ rebalance'[t] = c
      BY <1>1, <1>5 DEF e, c
    <2> QED BY <1>1, <1>4, <2>2, <2>3, <2>4, <2>5 DEF TriggerMarked, FirstEntryWritten
  <1>12. EntriesAreTransfers'
    BY <1>1, <1>3, <1>4, <1>6 DEF TransferInv, EntriesAreTransfers, ToInvoice
  <1>13. PaymentsWereSent'
    BY <1>1, <1>3, <1>4 DEF TransferInv, PaymentsWereSent
  <1>14. EndsAgree'
    BY <1>1, EndsKept
  <1>15. OneTransferPerTrigger'
    <2>1. \A k \in PaymentId : tx_metadata[k].ty = "Transfer" =>
             tx_metadata[k].payment_triggering_transfer # trigger[t]
      BY <1>1 DEF TransferInv, TriggerMarked
    <2> QED BY <1>4, <1>6, <2>1 DEF TransferInv, OneTransferPerTrigger
  <1>16. TransferPaired'
    <2> SUFFICES ASSUME NEW k \in PaymentId, tx_metadata'[k].ty = "Transfer"
                 PROVE  LET f == tx_metadata'[k] IN
                        /\ k \in {f.custodial_payment, f.lightning_payment}
                        /\ transfer[f.custodial_payment].dest = f.lightning_payment
                        /\ lnPay[f.lightning_payment].status = "Succeeded"
                        /\ tx_metadata'[f.custodial_payment] = f
                        /\ tx_metadata'[f.payment_triggering_transfer].ty = "Trigger"
                        /\ \/ tx_metadata'[f.lightning_payment] = f
                           \/ \E u \in Task : pc'[u] = "insertL" /\ invoice[u] = f.lightning_payment
                           \/ \E leg \in orphaned : leg.invoice = f.lightning_payment
      BY <1>1 DEF TransferPaired
    <2>1. CASE k = c
      <3>1. tx_metadata'[trigger[t]].ty = "Trigger"
        BY <1>1, <1>3, <1>4 DEF TransferInv, TriggerMarked
      <3>2. pc'[t] = "insertL"
        BY <1>1
      <3> QED BY <1>3, <1>4, <1>6, <2>1, <3>1, <3>2 DEF c
    <2>2. CASE k # c
      <3> DEFINE f == tx_metadata[k]
      <3>1. f = tx_metadata'[k] /\ f.ty = "Transfer"
        BY <1>4, <2>2
      <3>2. /\ f.custodial_payment \in PaymentId
            /\ f.lightning_payment \in LnId
            /\ f.payment_triggering_transfer \in PaymentId
        BY <3>1, EntryIsKnown
      <3>3. /\ k \in {f.custodial_payment, f.lightning_payment}
            /\ transfer[f.custodial_payment].dest = f.lightning_payment
            /\ lnPay[f.lightning_payment].status = "Succeeded"
            /\ tx_metadata[f.custodial_payment] = f
            /\ tx_metadata[f.payment_triggering_transfer].ty = "Trigger"
            /\ \/ tx_metadata[f.lightning_payment] = f
               \/ \E u \in Task : pc[u] = "insertL" /\ invoice[u] = f.lightning_payment
               \/ \E leg \in orphaned : leg.invoice = f.lightning_payment
        BY <3>1 DEF TransferInv, TransferPaired
      <3>4. /\ f.custodial_payment # c
            /\ f.lightning_payment # c
            /\ f.payment_triggering_transfer # c
        BY <1>3, <1>4, <3>1, <3>2, <3>3
      <3>5. \A u \in Task : pc[u] # "insertL"
        BY <1>1, <1>3
      <3> HIDE DEF f
      <3>6. /\ tx_metadata'[f.custodial_payment] = f
            /\ tx_metadata'[f.payment_triggering_transfer].ty = "Trigger"
            /\ tx_metadata'[f.lightning_payment] = tx_metadata[f.lightning_payment]
        BY <1>4, <3>2, <3>3, <3>4
      <3> QED BY <3>1, <3>3, <3>5, <3>6
    <2> QED BY <2>1, <2>2
  <1> QED
    BY <1>7, <1>8, <1>9, <1>10, <1>11, <1>12, <1>13, <1>14, <1>15, <1>16 DEF TransferInv

\* The lightning side is recorded, with the same entry as the custodial one.
LEMMA InsertLightningTransfer ==
    ASSUME TypeOK, SafetyInv, TransferInv, NEW t \in Task, InsertLightning(t),
           UNCHANGED <<monitorVars, payVars>>
    PROVE  TransferInv'
  <1>1. /\ pc[t] = "insertL"
        /\ pc' = [pc EXCEPT ![t] = AfterRebalance(t)]
        /\ AfterRebalance(t) \in {"sync", "finished"}
        /\ UNCHANGED <<transfer, lnPay, trigger, invoice, rebalance, orphaned>>
    BY DEF InsertLightning, Goto, Return, AfterRebalance, sparkVars, lightningVars, localVars
  <1>2. /\ UNCHANGED <<todo, new_txn, old_txn, current>>
        /\ UNCHANGED <<sent, payPc>>
    BY DEF monitorVars, payVars
  <1> DEFINE e == RebalanceMetadata(t)
             l == invoice[t]
             c == rebalance[t]
  <1>3. /\ c \in CustId \ DepositId
        /\ l \in LnId /\ trigger[t] \in PaymentId
        /\ ToInvoice(c) /\ transfer[c].dest = l
        /\ lnPay[l].dir = "in" /\ lnPay[l].status = "Succeeded"
        /\ ~Has(l)
        /\ \A u \in Task : pc[u] \in LockedPc => u = t
    BY <1>1, LegIsKnown, PcFacts DEF SafetyInv, LegHeld
  <1> USE IdFacts, PcFacts, RebalancePcFacts, Shapes
  <1>4. /\ tx_metadata'[l] = e
        /\ \A k \in PaymentId \ {l} : tx_metadata'[k] = tx_metadata[k]
        /\ l \in PaymentId /\ tx_metadata[l].ty = "None"
    BY <1>3 DEF InsertLightning, do_set, Has
  <1>5. tx_metadata[c] = e
    BY <1>1 DEF TransferInv, FirstEntryWritten
  <1>6. \A k \in PaymentId :
           /\ tx_metadata[k].ty = "Transfer"
           /\ tx_metadata[k].payment_triggering_transfer = trigger[t]
           => tx_metadata[k] = e
    BY <1>1 DEF TransferInv, TriggerMarked
  <1>7. tx_metadata[trigger[t]].ty = "Trigger"
    BY <1>1 DEF TransferInv, TriggerMarked
  <1>8. /\ e.ty = "Transfer"
        /\ e.custodial_payment = c
        /\ e.lightning_payment = l
        /\ e.payment_triggering_transfer = trigger[t]
    BY EntryFields
  <1>9. \A u \in Task : pc'[u] = IF u = t THEN AfterRebalance(t) ELSE pc[u]
    BY <1>1
  <1> HIDE DEF e, c, l
  <1>10. \A u \in Task : pc'[u] \notin {"insertC", "insertL"}
    BY <1>1, <1>3, <1>9
  <1>11. SentApart'
    <2>1. \A p \in Payer : payPc[p] = "record" => sent[p] \in PaymentId /\ sent[p] # l
      BY <1>3, MoreShapes DEF SafetyInv, SentHeld
    <2> QED BY <1>2, <1>4, <2>1 DEF TransferInv, SentApart, Has
  <1>12. CandidatesArePayments'
    BY <1>1, <1>2, <1>3, <1>4, <1>9, MoreShapes DEF TransferInv, CandidatesArePayments
  <1>13. TriggersApart'
    BY <1>1, <1>2, <1>9 DEF TransferInv, TriggersApart
  <1>14. TriggerIsPayment'
    BY <1>1, <1>4, <1>9, MoreShapes DEF TransferInv, TriggerIsPayment
  <1>15. TriggerMarked' /\ FirstEntryWritten'
    BY <1>10 DEF TriggerMarked, FirstEntryWritten
  <1>16. EntriesAreTransfers'
    BY <1>1, <1>3, <1>4, <1>8 DEF TransferInv, EntriesAreTransfers, ToInvoice
  <1>17. PaymentsWereSent'
    BY <1>1, <1>4, <1>8 DEF TransferInv, PaymentsWereSent
  <1>18. EndsAgree'
    BY <1>1, EndsKept
  <1>19. OneTransferPerTrigger'
    BY <1>4, <1>6, <1>8 DEF TransferInv, OneTransferPerTrigger
  <1>20. TransferPaired'
    <2> SUFFICES ASSUME NEW k \in PaymentId, tx_metadata'[k].ty = "Transfer"
                 PROVE  LET f == tx_metadata'[k] IN
                        /\ k \in {f.custodial_payment, f.lightning_payment}
                        /\ transfer[f.custodial_payment].dest = f.lightning_payment
                        /\ lnPay[f.lightning_payment].status = "Succeeded"
                        /\ tx_metadata'[f.custodial_payment] = f
                        /\ tx_metadata'[f.payment_triggering_transfer].ty = "Trigger"
                        /\ \/ tx_metadata'[f.lightning_payment] = f
                           \/ \E leg \in orphaned : leg.invoice = f.lightning_payment
      BY <1>1 DEF TransferPaired
    <2>1. CASE k = l
      <3>1. tx_metadata'[c] = e /\ tx_metadata'[trigger[t]].ty = "Trigger"
        BY <1>3, <1>4, <1>5, <1>7
      <3> QED BY <1>3, <1>4, <1>8, <2>1, <3>1
    <2>2. CASE k # l
      <3> DEFINE f == tx_metadata[k]
      <3>1. f = tx_metadata'[k] /\ f.ty = "Transfer"
        BY <1>4, <2>2
      <3>2. /\ f.custodial_payment \in CustId
            /\ f.lightning_payment \in LnId
            /\ f.payment_triggering_transfer \in PaymentId
            /\ ToInvoice(f.custodial_payment)
        BY <3>1, EntryIsKnown
      <3>3. /\ k \in {f.custodial_payment, f.lightning_payment}
            /\ transfer[f.custodial_payment].dest = f.lightning_payment
            /\ lnPay[f.lightning_payment].status = "Succeeded"
            /\ tx_metadata[f.custodial_payment] = f
            /\ tx_metadata[f.payment_triggering_transfer].ty = "Trigger"
            /\ \/ tx_metadata[f.lightning_payment] = f
               \/ \E u \in Task : pc[u] = "insertL" /\ invoice[u] = f.lightning_payment
               \/ \E leg \in orphaned : leg.invoice = f.lightning_payment
        BY <3>1 DEF TransferInv, TransferPaired
      <3> HIDE DEF f
      <3>4. /\ tx_metadata'[f.custodial_payment] = f
            /\ tx_metadata'[f.payment_triggering_transfer].ty = "Trigger"
        BY <1>3, <1>4, <3>2, <3>3
      <3>5. f.lightning_payment # l =>
               \/ tx_metadata'[f.lightning_payment] = f
               \/ \E leg \in orphaned : leg.invoice = f.lightning_payment
        <4>1. \A u \in Task : pc[u] = "insertL" => u = t
          BY <1>3
        <4> QED BY <1>4, <3>2, <3>3, <4>1 DEF l
      <3>6. f.lightning_payment = l => f = e
        <4>1. f.lightning_payment = l => f.custodial_payment = c
          BY <1>3, <3>2, <3>3 DEF SafetyInv, OneTransferPerInvoice
        <4> QED BY <1>5, <3>3, <4>1
      <3> QED BY <1>4, <3>1, <3>3, <3>4, <3>5, <3>6
    <2> QED BY <2>1, <2>2
  <1> QED
    BY <1>11, <1>12, <1>13, <1>14, <1>15, <1>16, <1>17, <1>18, <1>19, <1>20 DEF TransferInv

LEMMA RebalanceTransfer ==
    ASSUME TypeOK, SafetyInv, TransferInv, NEW t \in Task, LockStep(t) \/ HoldingStep(t)
    PROVE  TransferInv'
  BY QuietRebalanceTransfer, GetInvoiceTransfer, CustodialPayTransfer, MarkTransfer,
     MarkNeverPanics, InsertCustodialTransfer, InsertLightningTransfer
  DEF LockStep, HoldingStep, Holding

-----------------------------------------------------------------------------
(* The steps of the monitor's loop and of a call of pay.                   *)

\* A payment that was not on record is recorded: nothing that is on record is
\* touched, and a task that this spawns blames the new record.
LEMMA PaymentRecorded ==
    ASSUME TypeOK, SafetyInv, TransferInv, NEW k \in PaymentId,
           ~Has(k), do_set(k, Plain("Payment")),
           UNCHANGED <<transfer, lnPay, rebalance, invoice, orphaned, sent>>,
           k \in LnId => lnPay[k].dir = "out",
           \A t \in Task :
              \/ pc'[t] = pc[t] /\ trigger'[t] = trigger[t]
              \/ pc[t] \notin RebalancePc /\ pc'[t] \notin RebalancePc /\ trigger'[t] = trigger[t]
              \/ /\ t \in Payer /\ pc[t] = "none" /\ pc'[t] = "lock"
                 /\ sent[t] = k /\ k \in LnId /\ trigger'[t] = k,
           SentApart', CandidatesArePayments'
    PROVE  TransferInv'
  <1> USE IdFacts, RebalancePcFacts, Shapes
  <1>1. /\ tx_metadata'[k].ty = "Payment"
        /\ tx_metadata[k].ty = "None"
        /\ \A j \in PaymentId \ {k} : tx_metadata'[j] = tx_metadata[j]
    BY DEF do_set, Plain, Has
  <1>2. \A j \in PaymentId :
           /\ Has(j) => tx_metadata'[j] = tx_metadata[j]
           /\ tx_metadata'[j].ty = "Transfer" => tx_metadata'[j] = tx_metadata[j]
    BY <1>1 DEF Has
  <1>3. \A t \in Task : pc'[t] \in {"insertC", "insertL"} \/ pc[t] \in {"insertC", "insertL"} =>
           pc'[t] = pc[t] /\ trigger'[t] = trigger[t]
    OBVIOUS
  <1>4. TriggersApart'
    BY DEF TransferInv, TriggersApart
  <1>5. TriggerIsPayment'
    BY <1>1, MoreShapes DEF TransferInv, TriggerIsPayment
  <1>6. TriggerMarked'
    <2> SUFFICES ASSUME NEW t \in Task, pc'[t] \in {"insertC", "insertL"}
                 PROVE  /\ tx_metadata'[trigger'[t]].ty = "Trigger"
                        /\ \A j \in PaymentId :
                              /\ tx_metadata'[j].ty = "Transfer"
                              /\ tx_metadata'[j].payment_triggering_transfer = trigger'[t]
                              => pc'[t] = "insertL" /\ tx_metadata'[j] = RebalanceMetadata(t)'
      BY DEF TriggerMarked
    <2>1. pc'[t] = pc[t] /\ trigger'[t] = trigger[t] /\ RebalanceMetadata(t)' = RebalanceMetadata(t)
      BY <1>3 DEF RebalanceMetadata
    <2>2. trigger[t] \in PaymentId
      BY <2>1, MoreShapes
    <2> QED BY <1>1, <1>2, <2>1, <2>2 DEF TransferInv, TriggerMarked
  <1>7. FirstEntryWritten'
    <2> SUFFICES ASSUME NEW t \in Task, pc'[t] = "insertL"
                 PROVE  tx_metadata'[rebalance[t]] = RebalanceMetadata(t)'
      BY DEF FirstEntryWritten
    <2>1. pc[t] = "insertL" /\ RebalanceMetadata(t)' = RebalanceMetadata(t)
      BY <1>3 DEF RebalanceMetadata
    <2>2. rebalance[t] \in PaymentId /\ tx_metadata[rebalance[t]] = RebalanceMetadata(t)
      BY <2>1, PcFacts DEF TransferInv, FirstEntryWritten
    <2>3. Has(rebalance[t])
      BY <2>2, EntryFields DEF Has
    <2> QED BY <1>2, <2>1, <2>2, <2>3
  <1>8. EntriesAreTransfers' /\ OneTransferPerTrigger'
    BY <1>2 DEF TransferInv, EntriesAreTransfers, OneTransferPerTrigger
  <1>9. PaymentsWereSent'
    BY <1>1 DEF TransferInv, PaymentsWereSent
  <1>10. EndsAgree'
    BY EndsKept
  <1>11. TransferPaired'
    <2> SUFFICES ASSUME NEW j \in PaymentId, tx_metadata'[j].ty = "Transfer"
                 PROVE  LET e == tx_metadata'[j] IN
                        /\ j \in {e.custodial_payment, e.lightning_payment}
                        /\ transfer[e.custodial_payment].dest = e.lightning_payment
                        /\ lnPay[e.lightning_payment].status = "Succeeded"
                        /\ tx_metadata'[e.custodial_payment] = e
                        /\ tx_metadata'[e.payment_triggering_transfer].ty = "Trigger"
                        /\ \/ tx_metadata'[e.lightning_payment] = e
                           \/ \E t \in Task : pc'[t] = "insertL" /\ invoice[t] = e.lightning_payment
                           \/ \E leg \in orphaned : leg.invoice = e.lightning_payment
      BY DEF TransferPaired
    <2> DEFINE e == tx_metadata[j]
    <2>1. e = tx_metadata'[j] /\ e.ty = "Transfer"
      BY <1>2
    <2>2. /\ e.custodial_payment \in PaymentId
          /\ e.lightning_payment \in PaymentId
          /\ e.payment_triggering_transfer \in PaymentId
      BY <2>1, EntryIsKnown
    <2>3. /\ j \in {e.custodial_payment, e.lightning_payment}
          /\ transfer[e.custodial_payment].dest = e.lightning_payment
          /\ lnPay[e.lightning_payment].status = "Succeeded"
          /\ tx_metadata[e.custodial_payment] = e
          /\ tx_metadata[e.payment_triggering_transfer].ty = "Trigger"
          /\ \/ tx_metadata[e.lightning_payment] = e
             \/ \E t \in Task : pc[t] = "insertL" /\ invoice[t] = e.lightning_payment
             \/ \E leg \in orphaned : leg.invoice = e.lightning_payment
      BY <2>1 DEF TransferInv, TransferPaired
    <2> HIDE DEF e
    <2>4. /\ tx_metadata'[e.custodial_payment] = e
          /\ tx_metadata'[e.payment_triggering_transfer].ty = "Trigger"
          /\ tx_metadata[e.lightning_payment] = e => tx_metadata'[e.lightning_payment] = e
      BY <1>2, <2>1, <2>2, <2>3 DEF Has
    <2>5. \/ tx_metadata'[e.lightning_payment] = e
          \/ \E t \in Task : pc'[t] = "insertL" /\ invoice[t] = e.lightning_payment
          \/ \E leg \in orphaned : leg.invoice = e.lightning_payment
      BY <1>3, <2>3, <2>4
    <2> QED BY <2>1, <2>3, <2>4, <2>5
  <1> QED
    BY <1>4, <1>5, <1>6, <1>7, <1>8, <1>9, <1>10, <1>11 DEF TransferInv

\* The list, the scan and the decision: the candidates to blame are payments.
LEMMA QuietMonitorTransfer ==
    ASSUME TypeOK, SafetyInv, TransferInv, UNCHANGED payVars,
           \/ List \/ ListFails \/ Scan \/ ScanDone
           \/ DecideNot \/ DecideRebalance \/ DecidePanics \/ SyncDone
    PROVE  TransferInv'
  <1>1. /\ UNCHANGED <<transfer, lnPay, tx_metadata, invoice, rebalance, orphaned>>
        /\ UNCHANGED <<payPc, sent>>
    BY DEF List, ListFails, Scan, ScanDone, DecideNot, DecideRebalance, DecidePanics,
           SyncDone, sparkVars, lightningVars, localVars, monitorRest, payVars
  <1> USE IdFacts, PcFacts, RebalancePcFacts, Shapes
  <1>2. /\ pc[Monitor] \in {"list", "scan", "decide", "sync"}
        /\ \A t \in Task \ {Monitor} : pc'[t] = pc[t] /\ trigger'[t] = trigger[t]
        /\ pc'[Monitor] \in {"scan", "insert", "sync", "decide", "lock", "panicked", "list"}
    BY MoreShapes
    DEF List, ListFails, Scan, ScanDone, DecideNot, DecideRebalance, DecidePanics,
        SyncDone, Goto
  <1>3. /\ trigger'[Monitor] \in DepositId \cup {NoId}
        /\ pc'[Monitor] = "lock" => tx_metadata[trigger'[Monitor]].ty = "Payment"
    <2>1. CASE DecideRebalance
      <3>1. PICK victim \in Victims : trigger' = [trigger EXCEPT ![Monitor] = victim]
        BY <2>1 DEF DecideRebalance
      <3>2. victim \in new_txn \cup old_txn
        BY DEF Victims
      <3>3. tx_metadata[victim].ty = "Payment" /\ victim \in DepositId
        BY <2>1, <3>2, MoreShapes DEF DecideRebalance, TransferInv, CandidatesArePayments
      <3> QED BY <3>1, <3>3, MoreShapes
    <2>2. CASE ~DecideRebalance
      <3>1. UNCHANGED trigger /\ pc'[Monitor] # "lock"
        BY <2>2 DEF List, ListFails, Scan, ScanDone, DecideNot, DecidePanics, SyncDone, Goto
      <3> QED BY <3>1 DEF TransferInv, TriggersApart
    <2> QED BY <2>1, <2>2
  <1>4. SentApart'
    BY <1>1, SentKept
  <1>5. EndsAgree'
    BY <1>1, EndsKept
  <1>6. CandidatesArePayments'
    <2>1. CASE List
      BY <2>1, <1>1 DEF List, ListedInbound, TransferInv, CandidatesArePayments
    <2>2. CASE Scan
      <3>1. PICK c \in todo :
               /\ todo' = todo \ {c}
               /\ \/ /\ old_txn' = old_txn \cup {d \in {c} : tx_metadata[d].ty = "Payment"}
                     /\ UNCHANGED current
                  \/ current' = c /\ UNCHANGED old_txn
        BY <2>2 DEF Scan
      <3>2. pc[Monitor] = "scan" /\ UNCHANGED new_txn
        BY <2>2 DEF Scan
      <3> QED BY <1>1, <3>1, <3>2 DEF TransferInv, CandidatesArePayments
    <2>3. CASE ~List /\ ~Scan
      <3>1. /\ UNCHANGED <<todo, new_txn, old_txn, current>>
            /\ pc'[Monitor] \in {"scan", "insert", "decide"} => pc[Monitor] = "scan"
        BY <2>3 DEF ListFails, ScanDone, DecideNot, DecideRebalance, DecidePanics,
                    SyncDone, Goto, monitorVars
      <3> QED BY <1>1, <3>1, CandidatesKept
    <2> QED BY <2>1, <2>2, <2>3
  <1>7. /\ \A t \in Task : pc'[t] \in {"insertC", "insertL"} =>
              pc'[t] = pc[t] /\ trigger'[t] = trigger[t]
        /\ \A t \in Task : pc[t] = "insertL" => pc'[t] = "insertL"
        /\ \A t \in Task : pc'[t] \in RebalancePc \ {"insertC", "insertL"} =>
              \/ pc[t] \in RebalancePc \ {"insertC", "insertL"} /\ trigger'[t] = trigger[t]
              \/ t = Monitor /\ tx_metadata[trigger'[t]].ty = "Payment"
    BY <1>2, <1>3
  <1> QED BY <1>1, <1>3, <1>4, <1>5, <1>6, <1>7, UnrecordedStep DEF ToInvoice

LEMMA InsertIncomingTransfer ==
    ASSUME TypeOK, SafetyInv, TransferInv, UNCHANGED payVars, InsertIncoming
    PROVE  TransferInv'
  <1>1. /\ pc[Monitor] = "insert"
        /\ pc' = [pc EXCEPT ![Monitor] = "scan"]
        /\ do_set(current, Plain("Payment"))
        /\ new_txn' = new_txn \cup {current}
        /\ current' = NoId
        /\ UNCHANGED <<transfer, lnPay, trigger, invoice, rebalance, orphaned, payPc, sent,
                       todo, old_txn>>
    BY DEF InsertIncoming, Goto, sparkVars, lightningVars, localVars, monitorRest, payVars
  <1>2. current \in DepositId /\ current \in PaymentId /\ ~Has(current)
    BY <1>1, IdFacts DEF TypeOK, MonitorTypeOK, SafetyInv, CurrentIsNew
  <1>3. /\ tx_metadata'[current].ty = "Payment"
        /\ \A j \in PaymentId \ {current} : tx_metadata'[j] = tx_metadata[j]
    BY <1>1, <1>2, Shapes DEF do_set, Plain
  <1>4. SentApart'
    <2>1. \A p \in Payer : payPc[p] = "record" => sent[p] \in PaymentId /\ sent[p] # current
      BY <1>2, IdFacts, MoreShapes DEF SafetyInv, SentHeld
    <2> QED BY <1>1, <1>3, <2>1 DEF TransferInv, SentApart, Has
  <1>5. CandidatesArePayments'
    BY <1>1, <1>2, <1>3, IdFacts, MoreShapes DEF TransferInv, CandidatesArePayments
  <1>6. \A t \in Task :
           \/ pc'[t] = pc[t] /\ trigger'[t] = trigger[t]
           \/ pc[t] \notin RebalancePc /\ pc'[t] \notin RebalancePc /\ trigger'[t] = trigger[t]
    BY <1>1, RebalancePcFacts, Shapes
  <1>7. current \notin LnId
    BY <1>2, IdFacts
  <1> QED BY <1>1, <1>2, <1>4, <1>5, <1>6, <1>7, PaymentRecorded

\* The services move on.
LEMMA SettlingTransfer ==
    ASSUME TypeOK, SafetyInv, TransferInv,
           UNCHANGED <<pc, trigger, invoice, rebalance, orphaned, tx_metadata>>,
           UNCHANGED <<payPc, sent, todo, new_txn, old_txn, current>>,
           \A c \in CustId : transfer[c].dir # "unused" \/ c \notin DepositId =>
              transfer'[c].dir = transfer[c].dir /\ transfer'[c].dest = transfer[c].dest,
           \A c \in CustId : ToInvoice(c)' => ToInvoice(c),
           \A l \in LnId : lnPay'[l].dir = lnPay[l].dir,
           \A l \in LnId : lnPay[l].dir = "in" /\ lnPay[l].status = "Succeeded" =>
              lnPay'[l].status = "Succeeded",
           \A c \in CustId : ToInvoice(c) =>
              /\ lnPay'[transfer[c].dest].status = "Succeeded" <=> transfer'[c].status = "Completed"
              /\ lnPay'[transfer[c].dest].status = "Failed" =>
                    transfer'[c].status \in {"Returned", "Failed"}
    PROVE  TransferInv'
  <1> USE IdFacts
  <1>1. SentApart'
    BY SentKept
  <1>2. CandidatesArePayments'
    BY CandidatesKept
  <1>3. \A c \in CustId : ToInvoice(c) =>
           transfer'[c].dir = "out" /\ transfer'[c].dest = transfer[c].dest
    BY DEF ToInvoice
  <1>4. EndsAgree'
    <2>1. \A c \in CustId : ToInvoice(c)' =>
             /\ lnPay'[transfer'[c].dest].status = "Succeeded" <=> transfer'[c].status = "Completed"
             /\ lnPay'[transfer'[c].dest].status = "Failed" =>
                   transfer'[c].status \in {"Returned", "Failed"}
      BY <1>3
    <2>2. \A c \in CustId \ DepositId : transfer'[c].dir # "out" => transfer'[c].dest = NoId
      BY DEF TransferInv, EndsAgree
    <2> QED BY <2>1, <2>2 DEF EndsAgree
  <1>5. trigger[Monitor] \in DepositId \cup {NoId}
    BY DEF TransferInv, TriggersApart
  <1> QED BY <1>1, <1>2, <1>3, <1>4, <1>5, UnrecordedStep

LEMMA SyncClaimTransfer ==
    ASSUME TypeOK, SafetyInv, TransferInv, UNCHANGED payVars, SyncClaim
    PROVE  TransferInv'
  <1>1. PICK c \in CustId : SparkClaim(c)
    BY DEF SyncClaim
  <1>2. /\ UNCHANGED <<pc, trigger, invoice, rebalance, orphaned, tx_metadata>>
        /\ UNCHANGED <<payPc, sent, todo, new_txn, old_txn, current>>
        /\ UNCHANGED lnPay
    BY DEF SyncClaim, lightningVars, localVars, monitorVars, monitorRest, payVars
  <1>3. /\ \A d \in CustId : /\ transfer'[d].dir = transfer[d].dir
                             /\ transfer'[d].dest = transfer[d].dest
        /\ \A d \in CustId \ {c} : transfer'[d] = transfer[d]
    BY <1>1, Shapes DEF SparkClaim
  <1>4. ToInvoice(c) => transfer[c].status = "Returned" /\ transfer'[c].status = "Failed"
    <2>1. transfer[c] \in Transfer
      BY MoreShapes
    <2>2. \A s : [transfer[c] EXCEPT !.status = s].status = s
      BY <2>1 DEF Transfer
    <2> QED BY <1>1, <2>2, Shapes DEF SparkClaim, Claimable, ToInvoice
  <1>5. \A d \in CustId : ToInvoice(d) =>
           /\ lnPay'[transfer[d].dest].status = "Succeeded" <=> transfer'[d].status = "Completed"
           /\ lnPay'[transfer[d].dest].status = "Failed" =>
                 transfer'[d].status \in {"Returned", "Failed"}
    BY <1>2, <1>3, <1>4 DEF TransferInv, EndsAgree
  <1> QED BY <1>2, <1>3, <1>5, SettlingTransfer DEF ToInvoice

LEMMA MonitorTransfer ==
    ASSUME TypeOK, SafetyInv, TransferInv, MonitorLoop
    PROVE  TransferInv'
  BY QuietMonitorTransfer, InsertIncomingTransfer, SyncClaimTransfer DEF MonitorLoop, MonitorStep

LEMMA QuietPayTransfer ==
    ASSUME TypeOK, SafetyInv, TransferInv, NEW p \in Payer, UNCHANGED monitorVars,
           PayStart(p) \/ PaySkip(p) \/ PayEstimate(p) \/ PaySendFails(p) \/ PayGivesUp(p)
    PROVE  TransferInv'
  <1>1. /\ UNCHANGED <<pc, trigger, invoice, rebalance, orphaned, tx_metadata>>
        /\ UNCHANGED <<transfer, lnPay, sent, todo, new_txn, old_txn, current>>
    BY DEF PayStart, PaySkip, PayEstimate, PaySendFails, SparkPayFails, PayGivesUp,
           walletVars, sparkVars, lightningVars, localVars, payRest, monitorVars
  <1>2. \A q \in Payer : payPc'[q] = "record" => payPc[q] = "record"
    BY Shapes DEF PayStart, PaySkip, PayEstimate, PaySendFails, PayGivesUp, PayGoto
  <1>3. SentApart'
    BY <1>1, <1>2, SentKept
  <1>4. CandidatesArePayments'
    BY <1>1, CandidatesKept
  <1>5. EndsAgree'
    BY <1>1, EndsKept
  <1>6. trigger[Monitor] \in DepositId \cup {NoId}
    BY DEF TransferInv, TriggersApart
  <1> QED BY <1>1, <1>3, <1>4, <1>5, <1>6, UnrecordedStep DEF ToInvoice

LEMMA PaySendCustodialTransfer ==
    ASSUME TypeOK, SafetyInv, TransferInv, NEW p \in Payer, UNCHANGED monitorVars,
           PaySendCustodial(p)
    PROVE  TransferInv'
  <1>0. PICK c \in UnusedCustIds, s \in MethodOf(p).amount :
           SparkPay(c, NoId, s) /\ sent' = [sent EXCEPT ![p] = c]
    BY DEF PaySendCustodial
  <1>1. /\ c \in CustId \ DepositId
        /\ transfer[c].dir = "unused"
        /\ transfer'[c].dir = "out" /\ transfer'[c].dest = NoId
        /\ \A d \in CustId \ {c} : transfer'[d] = transfer[d]
    BY <1>0, Shapes DEF SparkPay, UnusedCustIds
  <1>2. /\ payPc[p] = "send"
        /\ payPc' = [payPc EXCEPT ![p] = "record"]
        /\ UNCHANGED <<pc, trigger, lnPay, tx_metadata, invoice, rebalance, orphaned>>
        /\ UNCHANGED <<todo, new_txn, old_txn, current>>
    BY DEF PaySendCustodial, PayGoto, lightningVars, localVars, payRest, monitorVars
  <1> USE IdFacts, Shapes
  <1>3. ~Has(c) /\ \A q \in Payer : sent[q] # c
    BY <1>1 DEF SafetyInv, UnusedIdsHaveNoMetadata, SentHeld
  <1>4. \A q \in Payer : /\ sent'[q] = IF q = p THEN c ELSE sent[q]
                         /\ payPc'[q] = IF q = p THEN "record" ELSE payPc[q]
    BY <1>0, <1>2
  <1>5. SentApart'
    BY <1>1, <1>2, <1>3, <1>4 DEF TransferInv, SentApart, Has
  <1>6. CandidatesArePayments'
    BY <1>1, <1>2, CandidatesKept
  <1>7. \A d \in CustId : transfer[d].dir # "unused" => transfer'[d] = transfer[d]
    BY <1>1
  <1>8. EndsAgree'
    BY <1>1, <1>2 DEF TransferInv, EndsAgree, ToInvoice
  <1>9. trigger[Monitor] \in DepositId \cup {NoId}
    BY DEF TransferInv, TriggersApart
  <1>10. \A q \in Payer : pc[q] \in RebalancePc => sent'[q] = sent[q]
    <2>1. pc[p] = "none"
      BY <1>2 DEF SafetyInv, SpawnedByOk
    <2> QED BY <1>4, <2>1, RebalancePcFacts
  <1> QED BY <1>2, <1>5, <1>6, <1>7, <1>8, <1>9, <1>10, UnrecordedStep DEF ToInvoice

\* The invoice a call pays is one of its own methods', and another call would
\* have to have sent it for the node to know it.
LEMMA SentIsNew ==
    ASSUME TypeOK, SafetyInv, TransferInv, PaysAtMostOnce, DistinctInvoices,
           NEW p \in Payer, payPc[p] = "send",
           NEW l \in LnIdsOf(MethodOf(p)), NEW kind, NEW s, NEW a,
           LnPayable(l, kind, s, a)
    PROVE  /\ l \in LnId
           /\ lnPay[l].dir = "unused"
           /\ l \in InvoiceHash => l \in InvoicesOf(p)
  <1>1. MethodOf(p) \in Method
    BY MethodInRange DEF TypeOK
  <1>2. CASE MethodOf(p).type # "Bolt11"
    BY <1>2 DEF LnIdsOf, OwnInvoiceIds, UnusedLnIds
  <1>3. CASE MethodOf(p).type = "Bolt11"
    <2>1. l = MethodOf(p).hash /\ l \in InvoiceHash /\ l \in LnId
      BY <1>1, <1>3, IdFacts DEF LnIdsOf, Method
    <2>2. idx[p] \in 1..Len(instructions[p])
      BY MethodLengths DEF TypeOK, PayTypeOK
    <2>3. l \in InvoicesOf(p)
      BY <1>3, <2>1, <2>2 DEF InvoicesOf, MethodOf
    <2>4. ASSUME lnPay[l].dir = "out"
          PROVE  FALSE
      <3>1. PICK q \in Payer : sent[q] = l /\ payPc[q] \in {"record", "ok", "lost"}
        BY <2>1, <2>4 DEF PaysAtMostOnce
      <3>2. q # p /\ l \in InvoicesOf(q)
        BY <2>1, <3>1 DEF TransferInv, SentApart
      <3> QED BY <2>3, <3>2 DEF DistinctInvoices
    <2> QED BY <2>1, <2>3, <2>4 DEF LnPayable
  <1> QED BY <1>2, <1>3

LEMMA PaySendLightningTransfer ==
    ASSUME TypeOK, SafetyInv, TransferInv, PaysAtMostOnce, DistinctInvoices,
           NEW p \in Payer, UNCHANGED monitorVars, PaySendLightning(p)
    PROVE  TransferInv'
  <1>0. PICK l \in LnIdsOf(MethodOf(p)) :
           /\ LnSend(l, MethodOf(p).type, MethodOf(p).amount, pay_amount[p])
           /\ sent' = [sent EXCEPT ![p] = l]
    BY DEF PaySendLightning
  <1>1. /\ payPc[p] = "send"
        /\ payPc' = [payPc EXCEPT ![p] = "record"]
        /\ UNCHANGED <<pc, trigger, transfer, tx_metadata, invoice, rebalance, orphaned>>
        /\ UNCHANGED <<todo, new_txn, old_txn, current>>
    BY DEF PaySendLightning, PayGoto, sparkVars, localVars, payRest, monitorVars
  <1>2. /\ l \in LnId
        /\ lnPay[l].dir = "unused"
        /\ l \in InvoiceHash => l \in InvoicesOf(p)
    BY <1>0, <1>1, SentIsNew DEF LnSend
  <1>3. \A m \in LnId \ {l} : lnPay'[m] = lnPay[m]
    BY <1>0, <1>2, Shapes DEF LnSend
  <1> USE IdFacts, Shapes
  <1>4. ~Has(l) /\ \A q \in Payer : sent[q] # l
    BY <1>2 DEF SafetyInv, UnusedIdsHaveNoMetadata, SentHeld
  <1>5. \A q \in Payer : /\ sent'[q] = IF q = p THEN l ELSE sent[q]
                         /\ payPc'[q] = IF q = p THEN "record" ELSE payPc[q]
    BY <1>0, <1>1
  <1>6. SentApart'
    BY <1>1, <1>2, <1>4, <1>5 DEF TransferInv, SentApart, Has
  <1>7. CandidatesArePayments'
    BY <1>1, CandidatesKept
  <1>8. \A c \in CustId : ToInvoice(c) => transfer[c].dest \in LnId \ {l}
    BY <1>2 DEF ToInvoice, SafetyInv, OneTransferPerInvoice
  <1>9. EndsAgree'
    BY <1>1, <1>3, <1>8 DEF TransferInv, EndsAgree, ToInvoice
  <1>10. trigger[Monitor] \in DepositId \cup {NoId}
    BY DEF TransferInv, TriggersApart
  <1>11. \A q \in Payer : pc[q] \in RebalancePc => sent'[q] = sent[q]
    <2>1. pc[p] = "none"
      BY <1>1 DEF SafetyInv, SpawnedByOk
    <2> QED BY <1>5, <2>1, RebalancePcFacts
  <1>12. \A m \in LnId : lnPay[m].dir # "unused" => lnPay'[m] = lnPay[m]
    BY <1>2, <1>3
  <1>13. /\ \A m \in LnId : lnPay[m].dir = "in" /\ lnPay[m].status = "Succeeded" =>
               lnPay'[m].status = "Succeeded"
         /\ \A m \in LnId : lnPay[m].dir = "out" => lnPay'[m].dir = "out"
    BY <1>12
  <1> QED BY <1>1, <1>6, <1>7, <1>9, <1>10, <1>11, <1>13, UnrecordedStep DEF ToInvoice

\* The record of a payment is a new one, and the task that is spawned blames it.
LEMMA PayRecordTransfer ==
    ASSUME TypeOK, SafetyInv, TransferInv, NEW p \in Payer, UNCHANGED monitorVars,
           PayRecordCustodial(p) \/ PayRecordLightning(p)
    PROVE  TransferInv'
  <1>1. /\ payPc[p] = "record"
        /\ payPc' = [payPc EXCEPT ![p] = "ok"]
        /\ do_set(sent[p], Plain("Payment"))
        /\ UNCHANGED <<transfer, lnPay, invoice, rebalance, orphaned, sent>>
        /\ UNCHANGED <<todo, new_txn, old_txn, current>>
    BY DEF PayRecordCustodial, PayRecordLightning, PayGoto, sparkVars, lightningVars,
           localVars, payRest, monitorVars
  <1> USE IdFacts, RebalancePcFacts, Shapes
  <1>2. sent[p] \in PaymentId /\ ~Has(sent[p]) /\ pc[p] = "none"
    BY <1>1, MoreShapes DEF SafetyInv, SpawnedByOk, TransferInv, SentApart
  <1>3. sent[p] \in LnId => lnPay[sent[p]].dir = "out"
    BY DEF SafetyInv, SentHeld
  <1>4. \A t \in Task :
           \/ pc'[t] = pc[t] /\ trigger'[t] = trigger[t]
           \/ /\ t \in Payer /\ pc[t] = "none" /\ pc'[t] = "lock"
              /\ sent[t] = sent[p] /\ sent[p] \in LnId /\ trigger'[t] = sent[p]
    <2>1. CASE PayRecordCustodial(p)
      BY <2>1 DEF PayRecordCustodial, payRest
    <2>2. CASE PayRecordLightning(p)
      BY <1>2, <2>2, MoreShapes DEF PayRecordLightning, Goto
    <2> QED BY <2>1, <2>2
  <1>5. \A j \in PaymentId \ {sent[p]} : tx_metadata'[j] = tx_metadata[j]
    BY <1>1, <1>2 DEF do_set
  <1>6. SentApart'
    <2>1. \A q \in Payer : payPc'[q] = "record" => /\ payPc[q] = "record"
                                                   /\ sent[q] \in PaymentId
                                                   /\ sent[q] # sent[p]
      BY <1>1, <1>2, MoreShapes DEF TransferInv, SentApart
    <2> QED BY <1>1, <1>5, <2>1 DEF TransferInv, SentApart, Has
  <1>7. CandidatesArePayments'
    <2>1. /\ sent[p] \notin DepositId
          /\ pc'[Monitor] = pc[Monitor]
      BY <1>4 DEF SafetyInv, SentHeld
    <2> QED BY <1>1, <1>5, <2>1, MoreShapes DEF TransferInv, CandidatesArePayments
  <1> QED BY <1>1, <1>2, <1>3, <1>4, <1>6, <1>7, PaymentRecorded

LEMMA PayTransfer ==
    ASSUME TypeOK, SafetyInv, TransferInv, PaysAtMostOnce, DistinctInvoices,
           NEW p \in Payer, PayStep(p)
    PROVE  TransferInv'
  BY QuietPayTransfer, PaySendCustodialTransfer, PaySendLightningTransfer, PayRecordTransfer
  DEF PayStep, Pay

-----------------------------------------------------------------------------
(* The steps of the world around the wallet.                               *)

\* A transfer that is settled, with the invoice it is for.
LEMMA SettledTransfer ==
    ASSUME TypeOK, SafetyInv, TransferInv, NEW c \in CustId,
           NEW s \in {"Completed", "Returned"}, SparkSettle(c, s)
    PROVE  /\ transfer'[c].status = s
           /\ \A d \in CustId : ToInvoice(d) /\ d # c =>
                 transfer'[d].status = transfer[d].status
           /\ \A d \in CustId : /\ transfer'[d].dir = transfer[d].dir
                                /\ transfer'[d].dest = transfer[d].dest
           /\ ToInvoice(c) =>
                 /\ transfer[c].dest \in LnId
                 /\ lnPay[transfer[c].dest].status = "Pending"
                 /\ \A d \in CustId : ToInvoice(d) /\ d # c => transfer[d].dest # transfer[c].dest
  <1>1. transfer[c] \in Transfer
    BY MoreShapes
  <1>2. [transfer[c] EXCEPT !.status = s].status = s
    BY <1>1 DEF Transfer
  <1>3. transfer'[c].status = s
    BY <1>2, Shapes DEF SparkSettle
  <1>4. ToInvoice(c) =>
           /\ transfer[c].dest \in LnId
           /\ lnPay[transfer[c].dest].status = "Pending"
           /\ \A d \in CustId : ToInvoice(d) /\ d # c => transfer[d].dest # transfer[c].dest
    BY SettleShape, Shapes DEF SafetyInv, OneTransferPerInvoice, ToInvoice
  <1> QED BY <1>3, <1>4, SettleShape

LEMMA EnvironmentTransfer ==
    ASSUME TypeOK, SafetyInv, TransferInv, EventTask \/ Network
    PROVE  TransferInv'
  <1>1. /\ UNCHANGED <<pc, trigger, invoice, rebalance, orphaned, tx_metadata>>
        /\ UNCHANGED <<payPc, sent, todo, new_txn, old_txn, current>>
    BY DEF EventTask, Network, Deposit, Delivered, Undelivered, LightningSent,
           LightningSendFails, OtherLightningReceipt, taskVars, rebalanceVars,
           localVars, monitorVars, payVars
  <1>2. \A c \in CustId : ToInvoice(c) =>
           /\ lnPay[transfer[c].dest].status = "Succeeded" <=> transfer[c].status = "Completed"
           /\ lnPay[transfer[c].dest].status = "Failed" => transfer[c].status \in {"Returned", "Failed"}
    BY DEF TransferInv, EndsAgree
  <1>3. CASE UNCHANGED <<transfer, lnPay>>
    BY <1>1, <1>2, <1>3, SettlingTransfer DEF ToInvoice
  <1>4. CASE EventTask \/ OtherLightningReceipt
    BY <1>3, <1>4 DEF EventTask, OtherLightningReceipt, HandleEvent, OtherReceipt,
                      sparkVars, nodeVars
  <1>5. CASE Deposit
    <2>1. PICK c \in DepositId :
             /\ transfer[c].dir = "unused"
             /\ transfer'[c].dir = "in"
             /\ \A d \in CustId \ {c} : transfer'[d] = transfer[d]
      BY <1>5, IdFacts, Shapes DEF Deposit, SparkDeposit
    <2>2. UNCHANGED lnPay
      BY <1>5 DEF Deposit, lightningVars
    <2>3. \A d \in CustId : /\ ToInvoice(d) \/ ToInvoice(d)' => d # c
                            /\ ToInvoice(d)' => ToInvoice(d)
      BY <2>1 DEF ToInvoice
    <2>4. \A d \in CustId : transfer[d].dir # "unused" \/ d \notin DepositId =>
             transfer'[d] = transfer[d]
      BY <2>1
    <2>5. \A d \in CustId : ToInvoice(d) =>
             /\ lnPay'[transfer[d].dest].status = "Succeeded" <=> transfer'[d].status = "Completed"
             /\ lnPay'[transfer[d].dest].status = "Failed" =>
                   transfer'[d].status \in {"Returned", "Failed"}
      BY <1>2, <2>1, <2>2, <2>3
    <2> QED BY <1>1, <2>2, <2>3, <2>4, <2>5, SettlingTransfer
  <1>6. ASSUME NEW c \in CustId, NEW s \in {"Completed", "Returned"}, SparkSettle(c, s),
               NEW r \in {"Succeeded", "Failed"},
               s = "Completed" => r = "Succeeded", s = "Returned" => r = "Failed",
               \/ UNCHANGED lnPay /\ (s = "Returned" \/ transfer[c].dest = NoId)
               \/ /\ transfer[c].dest # NoId
                  /\ lnPay' = [lnPay EXCEPT ![transfer[c].dest].status = r]
        PROVE  TransferInv'
    <2>1. ToInvoice(c) <=> transfer[c].dest # NoId
      BY <1>6 DEF SparkSettle, ToInvoice
    <2>2. CASE UNCHANGED lnPay
      <3>1. \A d \in CustId : ToInvoice(d) =>
               /\ lnPay'[transfer[d].dest].status = "Succeeded" <=> transfer'[d].status = "Completed"
               /\ lnPay'[transfer[d].dest].status = "Failed" =>
                     transfer'[d].status \in {"Returned", "Failed"}
        <4>1. ToInvoice(c) => s = "Returned" /\ lnPay'[transfer[c].dest].status = "Pending"
          <5> SUFFICES ASSUME ToInvoice(c)
                       PROVE  s = "Returned" /\ lnPay[transfer[c].dest].status = "Pending"
            BY <2>2
          <5> DEFINE l == transfer[c].dest
          <5>1. l \in LnId /\ lnPay[l].status = "Pending" /\ l # NoId
            BY <1>6, <2>1, SettledTransfer
          <5>2. [lnPay[l] EXCEPT !.status = r].status = r
            <6>1. lnPay[l] \in LnPayment
              BY <5>1, MoreShapes
            <6> QED BY <6>1 DEF LnPayment
          <5>3. lnPay' # [lnPay EXCEPT ![l].status = r]
            BY <1>6, <2>2, <5>1, <5>2, Shapes
          <5> QED BY <1>6, <5>1, <5>3
        <4>2. transfer'[c].status = s
          BY <1>6, SettledTransfer
        <4>3. \A d \in CustId : ToInvoice(d) /\ d # c => transfer'[d].status = transfer[d].status
          BY <1>6, SettledTransfer
        <4> QED BY <1>2, <2>2, <4>1, <4>2, <4>3
      <3> QED BY <1>1, <1>6, <2>2, <3>1, SettledTransfer, SettlingTransfer DEF ToInvoice
    <2>3. CASE ~UNCHANGED lnPay
      <3> DEFINE l == transfer[c].dest
      <3>1. ToInvoice(c) /\ l \in LnId /\ lnPay[l].status = "Pending"
            /\ lnPay' = [lnPay EXCEPT ![l].status = r]
        BY <1>6, <2>1, <2>3, SettledTransfer
      <3>2. /\ \A m \in LnId : lnPay'[m].dir = lnPay[m].dir
            /\ \A m \in LnId \ {l} : lnPay'[m].status = lnPay[m].status
        BY <3>1, LnStatus
      <3>3. \A d \in CustId : ToInvoice(d) =>
               /\ lnPay'[transfer[d].dest].status = "Succeeded" <=> transfer'[d].status = "Completed"
               /\ lnPay'[transfer[d].dest].status = "Failed" =>
                     transfer'[d].status \in {"Returned", "Failed"}
        <4>1. lnPay'[l].status = r
          <5>1. lnPay[l] \in LnPayment
            BY <3>1, MoreShapes
          <5>2. [lnPay[l] EXCEPT !.status = r].status = r
            BY <5>1 DEF LnPayment
          <5> QED BY <3>1, <5>2, Shapes
        <4>2. \A d \in CustId : ToInvoice(d) /\ d # c =>
                 transfer[d].dest \in LnId \ {l} /\ transfer'[d].status = transfer[d].status
          BY <1>6, <3>1, SettledTransfer, Shapes DEF ToInvoice
        <4>3. transfer'[c].status = s
          BY <1>6, SettledTransfer
        <4> QED BY <1>2, <1>6, <3>2, <4>1, <4>2, <4>3
      <3>4. \A m \in LnId : lnPay[m].dir = "in" /\ lnPay[m].status = "Succeeded" =>
               lnPay'[m].status = "Succeeded"
        BY <3>1, <3>2
      <3> QED BY <1>1, <1>6, <3>2, <3>3, <3>4, SettledTransfer, SettlingTransfer DEF ToInvoice
    <2> QED BY <2>2, <2>3
  <1>7. ASSUME NEW c \in CustId, Delivered(c)
        PROVE  TransferInv'
    BY <1>6, <1>7 DEF Delivered, LnReceive, lightningVars
  <1>8. ASSUME NEW c \in CustId, Undelivered(c)
        PROVE  TransferInv'
    BY <1>6, <1>8 DEF Undelivered, LnReceiveFails, lightningVars
  <1>9. ASSUME NEW l \in LnId, LightningSent(l) \/ LightningSendFails(l)
        PROVE  TransferInv'
    <2>1. /\ UNCHANGED transfer
          /\ lnPay[l].dir = "out"
          /\ \E s : lnPay' = [lnPay EXCEPT ![l].status = s]
      BY <1>9 DEF LightningSent, LightningSendFails, LnSent, LnSendFails, sparkVars
    <2>2. /\ \A m \in LnId : lnPay'[m].dir = lnPay[m].dir
          /\ \A m \in LnId \ {l} : lnPay'[m].status = lnPay[m].status
      BY <2>1, LnStatus
    <2>3. \A d \in CustId : ToInvoice(d) => transfer[d].dest \in LnId \ {l}
      BY <2>1, Shapes DEF SafetyInv, OneTransferPerInvoice, ToInvoice
    <2>4. \A m \in LnId : lnPay[m].dir = "in" => lnPay'[m].status = lnPay[m].status
      BY <2>1, <2>2
    <2> QED BY <1>1, <1>2, <2>1, <2>2, <2>3, <2>4, SettlingTransfer DEF ToInvoice
  <1> QED BY <1>4, <1>5, <1>7, <1>8, <1>9 DEF Network

\* A crash between the two entries of a transfer leaves the first.
LEMMA CrashTransfer ==
    ASSUME TypeOK, SafetyInv, TransferInv, CrashAndRestart
    PROVE  TransferInv'
  <1>1. /\ orphaned' = orphaned \cup {LegOf(t) : t \in {u \in Task : pc[u] \in LegPc}}
        /\ pc' = [t \in Task |-> IF t = Monitor THEN "list"
                                 ELSE IF pc[t] = "none" THEN "none" ELSE "finished"]
        /\ payPc' = [p \in Payer |->
              IF payPc[p] \in {"attempt", "send", "record"} THEN "lost" ELSE payPc[p]]
        /\ new_txn' = {} /\ old_txn' = {} /\ todo' = {} /\ current' = NoId
        /\ UNCHANGED <<transfer, lnPay, tx_metadata, trigger, invoice, rebalance, sent>>
    BY DEF CrashAndRestart, sparkVars, nodeVars, localVars
  <1> USE IdFacts, PcFacts, RebalancePcFacts, Shapes
  <1>2. \A t \in Task : pc'[t] \in {"list", "none", "finished"}
    BY <1>1
  <1>3. \A p \in Payer : payPc'[p] # "record"
    BY <1>1
  <1>4. SentApart'
    BY <1>1, <1>3, SentKept
  <1>5. CandidatesArePayments'
    BY <1>1 DEF CandidatesArePayments
  <1>6. EndsAgree'
    BY <1>1, EndsKept
  <1>7. \A t \in Task : pc[t] = "insertL" => \E leg \in orphaned' : leg.invoice = invoice[t]
    <2> SUFFICES ASSUME NEW t \in Task, pc[t] = "insertL"
                 PROVE  \E leg \in orphaned' : leg.invoice = invoice[t]
      OBVIOUS
    <2>1. LegOf(t) \in orphaned'
      BY <1>1
    <2>2. LegOf(t).invoice = invoice[t]
      BY DEF LegOf
    <2> QED BY <2>1, <2>2
  <1>8. trigger[Monitor] \in DepositId \cup {NoId}
    BY DEF TransferInv, TriggersApart
  <1> QED BY <1>1, <1>2, <1>4, <1>5, <1>6, <1>7, <1>8, UnrecordedStep DEF ToInvoice

-----------------------------------------------------------------------------
LEMMA StepTransfer ==
    ASSUME DistinctInvoices, TypeOK, SafetyInv, PaysAtMostOnce, TransferInv, [Next]_vars
    PROVE  TransferInv'
  <1>1. CASE UNCHANGED vars
    <2>1. /\ UNCHANGED <<transfer, lnPay, tx_metadata, pc, trigger, invoice, rebalance, orphaned>>
          /\ UNCHANGED <<payPc, sent, todo, new_txn, old_txn, current>>
      BY <1>1 DEF vars, taskVars, rebalanceVars, localVars, monitorVars, payVars,
                  sparkVars, lightningVars
    <2> QED BY <2>1, SettlingTransfer DEF ToInvoice, TransferInv, EndsAgree
  <1>2. CASE Next
    BY <1>2, RebalanceTransfer, MonitorTransfer, PayTransfer, EnvironmentTransfer, CrashTransfer
    DEF Next
  <1> QED BY <1>1, <1>2

\* The inductive invariant of the records, for every instance in which no two
\* calls of pay are given the same invoice.
THEOREM WalletTransfers ==
    ASSUME DistinctInvoices
    PROVE  Spec => [](TypeOK /\ SafetyInv /\ TransferInv)
  <1>1. Init => TransferInv
    BY InitTransfer
  <1>2. TypeOK /\ SafetyInv /\ PaysAtMostOnce /\ TransferInv /\ [Next]_vars => TransferInv'
    BY StepTransfer
  <1> QED BY <1>1, <1>2, WalletSafety, WalletPaysAtMostOnce, PTL DEF Spec

-----------------------------------------------------------------------------
(* What follows of the records.                                            *)

\* Every entry of a finished rebalance names the custodial payment to the
\* wallet's received invoice, the custodial side has it whenever the lightning
\* side does, and the payment that is to blame says so: the three writes agree,
\* each of which takes the metadata lock by itself.
THEOREM WalletTransferPaired ==
    ASSUME DistinctInvoices
    PROVE  Spec => []TransferPaired
  <1>1. TransferInv => TransferPaired
    BY DEF TransferInv
  <1> QED BY <1>1, WalletTransfers, PTL

\* No payment is blamed for two transfers, whoever rebalances at the same time.
THEOREM WalletOneTransferPerTrigger ==
    ASSUME DistinctInvoices
    PROVE  Spec => []OneTransferPerTrigger
  <1>1. TransferInv => OneTransferPerTrigger
    BY DEF TransferInv
  <1> QED BY <1>1, WalletTransfers, PTL

\* set_tx_caused_rebalance, called in do_custodial_rebalance, finds a plain
\* payment: its expect(..) does not panic, "race-y" or not.
THEOREM WalletMarkSucceeds ==
    ASSUME DistinctInvoices
    PROVE  Spec => []MarkSucceeds
  <1>1. TransferInv => MarkSucceeds
    BY RebalancePcFacts DEF TransferInv, TriggerIsPayment, MarkSucceeds
  <1> QED BY <1>1, WalletTransfers, PTL

\* A record that is there is not written again but to make a payment a trigger.
LEMMA RecordsFinal ==
    ASSUME TypeOK, SafetyInv, TransferInv, Next
    PROVE  \A k \in PaymentId : Has(k) =>
              \/ tx_metadata'[k] = tx_metadata[k]
              \/ tx_metadata[k].ty = "Payment" /\ tx_metadata'[k].ty = "Trigger"
  <1> DEFINE Final ==
        \A k \in PaymentId : Has(k) =>
           \/ tx_metadata'[k] = tx_metadata[k]
           \/ tx_metadata[k].ty = "Payment" /\ tx_metadata'[k].ty = "Trigger"
  <1>1. ASSUME NEW j, NEW v, do_set(j, v), ~Has(j)
        PROVE  Final
    BY <1>1, Shapes DEF do_set, Has
  <1>2. CASE UNCHANGED tx_metadata
    BY <1>2
  <1>3. ASSUME NEW t \in Task, LockStep(t) \/ HoldingStep(t)
        PROVE  Final
    <2>1. CASE Mark(t)
      BY <2>1, Shapes DEF Mark, set_tx_caused_rebalance, do_set, Plain
    <2>2. CASE InsertCustodial(t)
      <3>1. ~Has(rebalance[t]) /\ do_set(rebalance[t], RebalanceMetadata(t))
        BY <2>2, PcFacts DEF InsertCustodial, SafetyInv, LegHeld
      <3> QED BY <1>1, <3>1
    <2>3. CASE InsertLightning(t)
      <3>1. ~Has(invoice[t]) /\ do_set(invoice[t], RebalanceMetadata(t))
        BY <2>3, PcFacts DEF InsertLightning, SafetyInv, LegHeld
      <3> QED BY <1>1, <3>1
    <2>4. CASE ~(Mark(t) \/ InsertCustodial(t) \/ InsertLightning(t))
      BY <1>2, <1>3, <2>4
      DEF LockStep, HoldingStep, Holding, Lock, Check, GetInvoice, GetInvoiceFails,
          CustodialPay, CustodialPayFails, Poll, Subscribe, Wake, MarkPanics,
          set_tx_caused_rebalance_fails, walletVars
    <2> QED BY <2>1, <2>2, <2>3, <2>4
  <1>4. CASE MonitorLoop
    <2>1. CASE InsertIncoming
      <3>1. ~Has(current) /\ do_set(current, Plain("Payment"))
        BY <2>1 DEF InsertIncoming, SafetyInv, CurrentIsNew
      <3> QED BY <1>1, <3>1
    <2>2. CASE ~InsertIncoming
      BY <1>2, <1>4, <2>2
      DEF MonitorLoop, MonitorStep, List, ListFails, Scan, ScanDone, DecideNot,
          DecideRebalance, DecidePanics, SyncClaim, SyncDone
    <2> QED BY <2>1, <2>2
  <1>5. ASSUME NEW p \in Payer, PayStep(p)
        PROVE  Final
    <2>1. CASE PayRecordCustodial(p) \/ PayRecordLightning(p)
      <3>1. ~Has(sent[p]) /\ do_set(sent[p], Plain("Payment"))
        BY <2>1 DEF PayRecordCustodial, PayRecordLightning, TransferInv, SentApart
      <3> QED BY <1>1, <3>1
    <2>2. CASE ~(PayRecordCustodial(p) \/ PayRecordLightning(p))
      BY <1>2, <1>5, <2>2
      DEF PayStep, Pay, PayStart, PaySkip, PayEstimate, PaySendCustodial,
          PaySendLightning, PaySendFails, PayGivesUp, walletVars
    <2> QED BY <2>1, <2>2
  <1>6. CASE EventTask \/ Network \/ CrashAndRestart
    BY <1>2, <1>6
    DEF EventTask, Network, Deposit, Delivered, Undelivered, LightningSent,
        LightningSendFails, OtherLightningReceipt, CrashAndRestart, taskVars
  <1> QED BY <1>3, <1>4, <1>5, <1>6 DEF Next

-----------------------------------------------------------------------------
(* What a crash loses.                                                     *)

\* Nobody but a crash leaves a transfer without its record.
LEMMA OrphansKept ==
    ASSUME TypeOK, TransferInv, Next, ~CrashAndRestart
    PROVE  UNCHANGED <<orphaned, crashes>>
  <1>1. ASSUME NEW t \in Task, LockStep(t) \/ HoldingStep(t)
        PROVE  UNCHANGED <<orphaned, crashes>>
    BY <1>1, MarkNeverPanics
    DEF LockStep, HoldingStep, Holding, Lock, Check, GetInvoice, GetInvoiceFails,
        CustodialPay, CustodialPayFails, Poll, Subscribe, Wake, Mark, InsertCustodial,
        InsertLightning
  <1>2. CASE MonitorLoop
    BY <1>2
    DEF MonitorLoop, MonitorStep, List, ListFails, Scan, InsertIncoming, ScanDone,
        DecideNot, DecideRebalance, DecidePanics, SyncClaim, SyncDone, monitorRest
  <1>3. ASSUME NEW p \in Payer, PayStep(p)
        PROVE  UNCHANGED <<orphaned, crashes>>
    BY <1>3
    DEF PayStep, Pay, PayStart, PaySkip, PayEstimate, PaySendCustodial, PaySendLightning,
        PayRecordCustodial, PayRecordLightning, PaySendFails, PayGivesUp, payRest
  <1>4. CASE EventTask \/ Network
    BY <1>4
    DEF EventTask, Network, Deposit, Delivered, Undelivered, LightningSent,
        LightningSendFails, OtherLightningReceipt, taskVars, rebalanceVars
  <1> QED BY <1>1, <1>2, <1>3, <1>4 DEF Next

\* A crash leaves no more than the transfer of the mutex's holder.
LEMMA CrashOrphansOne ==
    ASSUME TypeOK, SafetyInv, CrashAndRestart
    PROVE  \E leg : orphaned' \subseteq orphaned \cup {leg}
  <1>1. orphaned' = orphaned \cup {LegOf(t) : t \in {u \in Task : pc[u] \in LegPc}}
    BY DEF CrashAndRestart
  <1>2. \A u \in Task : pc[u] \in LegPc => u = mutex
    BY LegIsKnown
  <1>3. orphaned' \subseteq orphaned \cup {LegOf(mutex)}
    BY <1>1, <1>2
  <1> QED BY <1>3

\* However many rebalances wait, a crash leaves at most one transfer without its
\* record, and nothing else ever does: there are no more of them than crashes.
THEOREM WalletCrashLosesAtMostOne ==
    ASSUME DistinctInvoices
    PROVE  Spec => []CrashLosesAtMostOne
  <1> DEFINE Inv == IsFiniteSet(orphaned) /\ Cardinality(orphaned) <= crashes
  <1>1. Init => Inv
    BY FS_EmptySet DEF Init, RebalanceInit
  <1>2. ASSUME TypeOK, SafetyInv, TransferInv, Inv, [Next]_vars
        PROVE  Inv'
    <2>1. CASE UNCHANGED <<orphaned, crashes>>
      BY <1>2, <2>1
    <2>2. CASE CrashAndRestart
      <3>1. PICK leg : orphaned' \subseteq orphaned \cup {leg}
        BY <1>2, <2>2, CrashOrphansOne
      <3>2. /\ IsFiniteSet(orphaned \cup {leg})
            /\ Cardinality(orphaned \cup {leg}) \in {Cardinality(orphaned), Cardinality(orphaned) + 1}
        BY <1>2, FS_AddElement
      <3>3. IsFiniteSet(orphaned') /\ Cardinality(orphaned') <= Cardinality(orphaned \cup {leg})
        BY <3>1, <3>2, FS_Subset
      <3>4. Cardinality(orphaned) \in Nat /\ Cardinality(orphaned') \in Nat
        BY <1>2, <3>3, FS_CardinalityType
      <3>5. crashes' = crashes + 1 /\ crashes \in Nat
        BY <1>2, <2>2 DEF CrashAndRestart, TypeOK
      <3> HIDE DEF Inv
      <3>6. Cardinality(orphaned') <= crashes'
        BY <1>2, <3>2, <3>3, <3>4, <3>5 DEF Inv
      <3> QED BY <3>3, <3>6 DEF Inv
    <2>3. UNCHANGED vars => UNCHANGED <<orphaned, crashes>>
      BY DEF vars, taskVars, rebalanceVars
    <2> QED BY <1>2, <2>1, <2>2, <2>3, OrphansKept
  <1>3. Inv => CrashLosesAtMostOne
    BY DEF CrashLosesAtMostOne
  <1> HIDE DEF Inv
  <1>4. TypeOK /\ SafetyInv /\ TransferInv /\ Inv /\ [Next]_vars => Inv'
    BY <1>2
  <1> QED BY <1>1, <1>3, <1>4, WalletTransfers, PTL DEF Spec

=============================================================================
