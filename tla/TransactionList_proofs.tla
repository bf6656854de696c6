------------------------ MODULE TransactionList_proofs ------------------------
(***************************************************************************)
(* list_transactions reads two lists and the metadata at three moments of  *)
(* a wallet at work: what its result says nevertheless, and that it adds up*)
(* to the balances, for every instance in which no two calls of pay are    *)
(* given the same invoice.  And for every instance at all, that the wallet *)
(* keeps its money.                                                        *)
(***************************************************************************)
EXTENDS TransactionList, Transfer_proofs, FiniteSetTheorems, WellFoundedInduction

-----------------------------------------------------------------------------
(* What a step of the wallet leaves of what was listed.                    *)

\* The backends forget no payment, and not that one was received or sent.
LEMMA BackendsRemember ==
    ASSUME TypeOK, SafetyInv, Next
    PROVE  /\ \A c \in CustId : transfer[c].dir # "unused" => transfer'[c].dir = transfer[c].dir
           /\ \A l \in LnId : lnPay[l].dir # "unused" => lnPay'[l].dir = lnPay[l].dir
           /\ \A l \in LnId : lnPay[l].dir # "unused" /\ lnPay[l].status = "Succeeded" =>
                 lnPay'[l].status = "Succeeded"
  <1> DEFINE Remember ==
        /\ \A c \in CustId : transfer[c].dir # "unused" => transfer'[c].dir = transfer[c].dir
        /\ \A l \in LnId : lnPay[l].dir # "unused" => lnPay'[l].dir = lnPay[l].dir
        /\ \A l \in LnId : lnPay[l].dir # "unused" /\ lnPay[l].status = "Succeeded" =>
              lnPay'[l].status = "Succeeded"
  <1> USE Shapes, IdFacts
  <1>1. CASE UNCHANGED <<transfer, lnPay>>
    BY <1>1
  <1>2. ASSUME NEW c, transfer[c].dir = "unused",
               \A d \in CustId \ {c} : transfer'[d] = transfer[d], UNCHANGED lnPay
        PROVE  Remember
    BY <1>2
  <1>3. ASSUME NEW l, lnPay[l].dir = "unused" \/ lnPay[l].status # "Succeeded",
               lnPay[l].dir = "unused" \/ lnPay'[l].dir = lnPay[l].dir,
               \A m \in LnId \ {l} : lnPay'[m].dir = lnPay[m].dir /\ lnPay'[m].status = lnPay[m].status,
               \A c \in CustId : transfer'[c].dir = transfer[c].dir
        PROVE  Remember
    BY <1>3
  <1>4. ASSUME NEW t \in Task, LockStep(t) \/ HoldingStep(t)
        PROVE  Remember
    <2>1. CASE GetInvoice(t)
      <3>1. PICK l \in OwnInvoiceIds : LnInvoice(l, amount[t])
        BY <2>1 DEF GetInvoice
      <3>2. /\ lnPay[l].dir = "unused"
            /\ \A m \in LnId \ {l} : lnPay'[m] = lnPay[m]
            /\ UNCHANGED transfer
        BY <2>1, <3>1 DEF GetInvoice, LnInvoice, OwnInvoiceIds, UnusedLnIds, sparkVars
      <3> QED BY <1>3, <3>2
    <2>2. CASE CustodialPay(t)
      <3>1. PICK c \in UnusedCustIds : SparkPay(c, invoice[t], lnPay[invoice[t]].amount)
        BY <2>2 DEF CustodialPay
      <3> QED BY <1>2, <2>2, <3>1 DEF CustodialPay, SparkPay, UnusedCustIds, lightningVars
    <2>3. CASE ~GetInvoice(t) /\ ~CustodialPay(t)
      <3>1. UNCHANGED <<transfer, lnPay>>
        BY <1>4, <2>3
        DEF LockStep, HoldingStep, Holding, Lock, Check, GetInvoiceFails, CustodialPayFails,
            SparkPayFails, Poll, Subscribe, CloneReceiver, Wake, ReceiptSeen, Mark, MarkPanics,
            InsertCustodial, InsertLightning, walletVars, sparkVars, lightningVars, nodeVars
      <3> QED BY <1>1, <3>1
    <2> QED BY <2>1, <2>2, <2>3
  <1>5. CASE MonitorLoop
    <2>1. UNCHANGED lnPay
      BY <1>5 DEF MonitorLoop, MonitorStep, List, ListFails, Scan, InsertIncoming, ScanDone,
                  DecideNot, DecideRebalance, DecidePanics, SyncClaim, SyncDone, monitorRest,
                  lightningVars
    <2>2. CASE SyncClaim
      <3>1. PICK c \in CustId : SparkClaim(c)
        BY <2>2 DEF SyncClaim
      <3>2. \A d \in CustId : transfer'[d].dir = transfer[d].dir
        BY <3>1 DEF SparkClaim
      <3> QED BY <2>1, <3>2
    <2>3. CASE ~SyncClaim
      <3>1. UNCHANGED transfer
        BY <1>5, <2>3
        DEF MonitorLoop, MonitorStep, List, ListFails, Scan, InsertIncoming, ScanDone,
            DecideNot, DecideRebalance, DecidePanics, SyncDone, sparkVars
      <3> QED BY <1>1, <2>1, <3>1
    <2> QED BY <2>2, <2>3
  <1>6. ASSUME NEW p \in Payer, PayStep(p)
        PROVE  Remember
    <2>1. CASE PaySendCustodial(p)
      <3>1. PICK c \in UnusedCustIds, s \in MethodOf(p).amount : SparkPay(c, NoId, s)
        BY <2>1 DEF PaySendCustodial
      <3> QED BY <1>2, <2>1, <3>1 DEF PaySendCustodial, SparkPay, UnusedCustIds, lightningVars
    <2>2. CASE PaySendLightning(p)
      <3>1. PICK l \in LnIdsOf(MethodOf(p)) :
               LnSend(l, MethodOf(p).type, MethodOf(p).amount, pay_amount[p])
        BY <2>2 DEF PaySendLightning
      <3>2. /\ \A m \in LnId \ {l} : lnPay'[m] = lnPay[m]
            /\ l \in LnId => lnPay'[l].dir = "out"
        BY <3>1 DEF LnSend
      <3>3. \/ lnPay[l].dir = "unused"
            \/ lnPay[l].dir = "out" /\ lnPay[l].status = "Failed"
        BY <3>1 DEF LnSend, LnPayable
      <3>4. UNCHANGED transfer
        BY <2>2 DEF PaySendLightning, sparkVars
      <3> QED BY <3>2, <3>3, <3>4
    <2>3. CASE ~PaySendCustodial(p) /\ ~PaySendLightning(p)
      <3>1. UNCHANGED <<transfer, lnPay>>
        BY <1>6, <2>3
        DEF PayStep, Pay, PayStart, PaySkip, PayEstimate, PayRecordCustodial,
            PayRecordLightning, PaySendFails, SparkPayFails, PayGivesUp, walletVars,
            sparkVars, lightningVars
      <3> QED BY <1>1, <3>1
    <2> QED BY <2>1, <2>2, <2>3
  <1>7. CASE Deposit
    <2>1. PICK c \in DepositId, a \in DepositAmounts : SparkDeposit(c, a)
      BY <1>7 DEF Deposit
    <2> QED BY <1>2, <1>7, <2>1 DEF Deposit, SparkDeposit, lightningVars
  <1>8. ASSUME NEW l \in LnId, lnPay[l].status = "Pending",
               NEW s, lnPay' = [lnPay EXCEPT ![l].status = s],
               \A c \in CustId : transfer'[c].dir = transfer[c].dir
        PROVE  Remember
    BY <1>3, <1>8, LnStatus
  <1>9. ASSUME NEW c \in CustId, Delivered(c) \/ Undelivered(c)
        PROVE  Remember
    <2>1. \A d \in CustId : transfer'[d].dir = transfer[d].dir
      BY <1>9, SettleShape DEF Delivered, Undelivered
    <2>2. CASE UNCHANGED lnPay
      BY <2>1, <2>2
    <2>3. CASE transfer[c].dest \in LnId /\ lnPay[transfer[c].dest].status = "Pending"
               /\ \E s : lnPay' = [lnPay EXCEPT ![transfer[c].dest].status = s]
      BY <1>8, <2>1, <2>3
    <2> QED BY <1>9, <2>2, <2>3 DEF Delivered, Undelivered, LnReceive, LnReceiveFails, lightningVars
  <1>10. ASSUME NEW l \in LnId, LightningSent(l) \/ LightningSendFails(l)
        PROVE  Remember
    BY <1>8, <1>10 DEF LightningSent, LightningSendFails, LnSent, LnSendFails, sparkVars
  <1>11. CASE EventTask \/ OtherLightningReceipt \/ CrashAndRestart
    <2>1. UNCHANGED <<transfer, lnPay>>
      BY <1>11 DEF EventTask, HandleEvent, OtherLightningReceipt, OtherReceipt,
                   CrashAndRestart, nodeVars, sparkVars
    <2> QED BY <1>1, <2>1
  <1> QED BY <1>4, <1>5, <1>6, <1>7, <1>9, <1>10, <1>11 DEF Next, Network

\* A payment that was sent gets no record but a payment's.
LEMMA SentIsRecordedAsPayment ==
    ASSUME TypeOK, SafetyInv, TransferInv, Next,
           NEW l \in LnId, lnPay[l].dir = "out", ~Has(l)
    PROVE  tx_metadata'[l].ty \in {"None", "Payment"}
  <1> USE Shapes, IdFacts
  <1>1. tx_metadata[l].ty = "None"
    BY DEF Has
  <1>2. ASSUME NEW t \in Task, LockStep(t) \/ HoldingStep(t)
        PROVE  tx_metadata'[l] = tx_metadata[l]
    <2>1. CASE Mark(t)
      BY <1>1, <2>1 DEF Mark, set_tx_caused_rebalance, do_set
    <2>2. CASE InsertCustodial(t) \/ InsertLightning(t)
      <3>1. pc[t] \in LegPc
        BY <2>2, PcFacts DEF InsertCustodial, InsertLightning
      <3>2. rebalance[t] # l /\ invoice[t] # l
        BY <3>1, LegIsKnown
      <3> QED BY <2>2, <3>2 DEF InsertCustodial, InsertLightning, do_set
    <2>3. CASE ~(Mark(t) \/ InsertCustodial(t) \/ InsertLightning(t))
      BY <1>2, <2>3
      DEF LockStep, HoldingStep, Holding, Lock, Check, GetInvoice, GetInvoiceFails,
          CustodialPay, CustodialPayFails, Poll, Subscribe, Wake, MarkPanics,
          set_tx_caused_rebalance_fails, walletVars
    <2> QED BY <2>1, <2>2, <2>3
  <1>3. ASSUME NEW k, do_set(k, Plain("Payment"))
        PROVE  tx_metadata'[l].ty \in {"None", "Payment"}
    BY <1>1, <1>3 DEF do_set, Plain
  <1>4. CASE MonitorLoop \/ \E p \in Payer : PayStep(p)
    <2>1. CASE InsertIncoming \/ \E p \in Payer : PayRecordCustodial(p) \/ PayRecordLightning(p)
      BY <1>3, <2>1 DEF InsertIncoming, PayRecordCustodial, PayRecordLightning
    <2>2. CASE ~(InsertIncoming \/ \E p \in Payer : PayRecordCustodial(p) \/ PayRecordLightning(p))
      <3>1. MonitorLoop => UNCHANGED tx_metadata
        BY <2>2 DEF MonitorLoop, MonitorStep, List, ListFails, Scan, ScanDone, DecideNot,
                    DecideRebalance, DecidePanics, SyncClaim, SyncDone
      <3>2. \A p \in Payer : PayStep(p) => UNCHANGED tx_metadata
        BY <2>2 DEF PayStep, Pay, PayStart, PaySkip, PayEstimate, PaySendCustodial,
                    PaySendLightning, PaySendFails, PayGivesUp, walletVars
      <3> QED BY <1>1, <1>4, <3>1, <3>2
    <2> QED BY <2>1, <2>2
  <1>5. CASE EventTask \/ Network \/ CrashAndRestart
    BY <1>1, <1>5
    DEF EventTask, Network, Deposit, Delivered, Undelivered, LightningSent,
        LightningSendFails, OtherLightningReceipt, CrashAndRestart, taskVars
  <1> QED BY <1>1, <1>2, <1>4, <1>5 DEF Next

\* A custodial record of a transfer is written by the task that made it, and
\* blames what the task does.
LEMMA WhoseTransfer ==
    ASSUME TypeOK, SafetyInv, TransferInv, Next,
           NEW c \in CustId, tx_metadata'[c].ty = "Transfer"
    PROVE  \/ tx_metadata'[c] = tx_metadata[c]
           \/ \E t \in Task :
                 /\ pc[t] \in LegPc
                 /\ rebalance[t] = c
                 /\ tx_metadata'[c].payment_triggering_transfer = trigger[t]
  <1> USE Shapes, IdFacts
  <1>1. ASSUME NEW t \in Task, LockStep(t) \/ HoldingStep(t), tx_metadata'[c] # tx_metadata[c]
        PROVE  /\ pc[t] \in LegPc
               /\ rebalance[t] = c
               /\ tx_metadata'[c].payment_triggering_transfer = trigger[t]
    <2>1. CASE Mark(t)
      BY <1>1, <2>1 DEF Mark, set_tx_caused_rebalance, do_set, Plain
    <2>2. CASE InsertCustodial(t)
      BY <1>1, <2>2, EntryFields, PcFacts DEF InsertCustodial, do_set
    <2>3. CASE InsertLightning(t)
      <3>1. invoice[t] \in LnId
        BY <2>3, PcFacts DEF InsertLightning
      <3> QED BY <1>1, <2>3, <3>1 DEF InsertLightning, do_set
    <2>4. CASE ~(Mark(t) \/ InsertCustodial(t) \/ InsertLightning(t))
      BY <1>1, <2>4
      DEF LockStep, HoldingStep, Holding, Lock, Check, GetInvoice, GetInvoiceFails,
          CustodialPay, CustodialPayFails, Poll, Subscribe, Wake, MarkPanics,
          set_tx_caused_rebalance_fails, walletVars
    <2> QED BY <2>1, <2>2, <2>3, <2>4
  <1>2. ASSUME NEW k, do_set(k, Plain("Payment"))
        PROVE  tx_metadata'[c] = tx_metadata[c]
    BY <1>2 DEF do_set, Plain
  <1>3. CASE MonitorLoop \/ \E p \in Payer : PayStep(p)
    <2>1. CASE InsertIncoming \/ \E p \in Payer : PayRecordCustodial(p) \/ PayRecordLightning(p)
      BY <1>2, <2>1 DEF InsertIncoming, PayRecordCustodial, PayRecordLightning
    <2>2. CASE ~(InsertIncoming \/ \E p \in Payer : PayRecordCustodial(p) \/ PayRecordLightning(p))
      <3>1. MonitorLoop => UNCHANGED tx_metadata
        BY <2>2 DEF MonitorLoop, MonitorStep, List, ListFails, Scan, ScanDone, DecideNot,
                    DecideRebalance, DecidePanics, SyncClaim, SyncDone
      <3>2. \A p \in Payer : PayStep(p) => UNCHANGED tx_metadata
        BY <2>2 DEF PayStep, Pay, PayStart, PaySkip, PayEstimate, PaySendCustodial,
                    PaySendLightning, PaySendFails, PayGivesUp, walletVars
      <3> QED BY <1>3, <3>1, <3>2
    <2> QED BY <2>1, <2>2
  <1>4. CASE EventTask \/ Network \/ CrashAndRestart
    BY <1>4
    DEF EventTask, Network, Deposit, Delivered, Undelivered, LightningSent,
        LightningSendFails, OtherLightningReceipt, CrashAndRestart, taskVars
  <1> QED BY <1>1, <1>3, <1>4 DEF Next

\* Who has a transfer had it before, and blames the same, or has just paid it.
LEMMA LegsKept ==
    ASSUME TypeOK, Next, NEW t \in Task, pc'[t] \in LegPc
    PROVE  /\ trigger'[t] = trigger[t]
           /\ \/ pc[t] \in LegPc /\ rebalance'[t] = rebalance[t]
              \/ transfer[rebalance'[t]].dir = "unused"
  <1> USE Shapes, MoreShapes, IdFacts, PcFacts, RebalancePcFacts
  <1>1. ASSUME NEW u \in Task, LockStep(u) \/ HoldingStep(u)
        PROVE  /\ trigger'[t] = trigger[t]
               /\ \/ pc[t] \in LegPc /\ rebalance'[t] = rebalance[t]
                  \/ transfer[rebalance'[t]].dir = "unused"
    <2>1. CASE CustodialPay(u)
      <3>1. PICK c \in UnusedCustIds : rebalance' = [rebalance EXCEPT ![u] = c]
        BY <2>1 DEF CustodialPay
      <3> QED BY <2>1, <3>1 DEF CustodialPay, Goto, UnusedCustIds
    <2>2. CASE ~CustodialPay(u)
      <3>1. UNCHANGED <<trigger, rebalance>>
        BY <1>1, <2>2
        DEF LockStep, HoldingStep, Holding, Lock, Check, GetInvoice, GetInvoiceFails,
            CustodialPayFails, Poll, Subscribe, Wake, Mark, MarkPanics, InsertCustodial,
            InsertLightning, localVars
      <3>2. pc[t] \in LegPc
        BY <1>1, <2>2
        DEF LockStep, HoldingStep, Holding, Lock, Check, GetInvoice, GetInvoiceFails,
            CustodialPayFails, Poll, Subscribe, Wake, Mark, MarkPanics, InsertCustodial,
            InsertLightning, Goto, Return, AfterRebalance
      <3> QED BY <3>1, <3>2
    <2> QED BY <2>1, <2>2
  <1>2. CASE MonitorLoop
    <2>1. t # Monitor /\ pc'[t] = pc[t] /\ trigger'[t] = trigger[t]
      BY <1>2 DEF MonitorLoop, MonitorStep, List, ListFails, Scan, InsertIncoming, ScanDone,
                  DecideNot, DecideRebalance, DecidePanics, SyncClaim, SyncDone, Goto
    <2>2. UNCHANGED rebalance
      BY <1>2 DEF MonitorLoop, MonitorStep, List, ListFails, Scan, InsertIncoming, ScanDone,
                  DecideNot, DecideRebalance, DecidePanics, SyncClaim, SyncDone,
                  monitorRest, localVars
    <2> QED BY <2>1, <2>2
  <1>3. ASSUME NEW p \in Payer, PayStep(p)
        PROVE  pc'[t] = pc[t] /\ trigger'[t] = trigger[t] /\ rebalance'[t] = rebalance[t]
    <2>1. CASE PayRecordLightning(p)
      BY <2>1 DEF PayRecordLightning, Goto, localVars
    <2>2. CASE ~PayRecordLightning(p)
      BY <1>3, <2>2 DEF PayStep, Pay, PayStart, PaySkip, PayEstimate, PaySendCustodial,
                        PaySendLightning, PayRecordCustodial, PaySendFails, PayGivesUp,
                        payRest, localVars
    <2> QED BY <2>1, <2>2
  <1>4. CASE EventTask \/ Network
    <2>1. UNCHANGED <<pc, trigger, rebalance>>
      BY <1>4 DEF EventTask, Network, Deposit, Delivered, Undelivered, LightningSent,
                  LightningSendFails, OtherLightningReceipt, taskVars, rebalanceVars, localVars
    <2> QED BY <2>1
  <1>5. ~CrashAndRestart
    BY DEF CrashAndRestart
  <1> QED BY <1>1, <1>2, <1>3, <1>4, <1>5 DEF Next

-----------------------------------------------------------------------------
(* What is known while a call is under way.                                *)

\* What the monitor has recorded of the deposits are deposits that were made.
DepositsMade == \A c \in DepositId : Has(c) => transfer[c].dir = "in"

\* What is on the lists is known to the backends, and what is listed as
\* complete is complete.
ListsAreKnown ==
    /\ listPc \in {"idle", "lightning", "fold"}
    /\ listPc # "idle" =>
          \A c \in custodial_payments : c \in CustId /\ transfer[c].dir # "unused"
    /\ listPc = "fold" =>
          \A l \in DOMAIN lightning_payments :
             /\ l \in LnId
             /\ lnPay[l].dir # "unused"
             /\ lightning_payments[l] => lnPay[l].status = "Succeeded"

\* A payment is listed, or will be.
Listed(k) ==
    \/ k \in custodial_payments
    \/ IF listPc = "lightning" THEN k \in LnId /\ lnPay[k].dir # "unused"
       ELSE k \in DOMAIN lightning_payments

\* What the transfers on the list are blamed on is listed, and so is what the
\* tasks that have not recorded theirs are going to blame.
BlameListed ==
    listPc # "idle" =>
       \A c \in custodial_payments :
          /\ tx_metadata[c].ty = "Transfer" =>
                Listed(tx_metadata[c].payment_triggering_transfer)
          /\ \A t \in Task : pc[t] \in LegPc /\ rebalance[t] = c => Listed(trigger[t])

ListInv == DepositsMade /\ ListsAreKnown /\ BlameListed

\* What is on record was used.
LEMMA RecordedIsUsed ==
    ASSUME TypeOK, SafetyInv, DepositsMade, NEW k \in PaymentId, Has(k)
    PROVE  /\ k \in CustId => transfer[k].dir # "unused"
           /\ k \in LnId => lnPay[k].dir # "unused"
  BY DEF DepositsMade, SafetyInv, UnusedIdsHaveNoMetadata

LEMMA DepositsStep ==
    ASSUME RecordsInv, DepositsMade, Next
    PROVE  DepositsMade'
  <1> USE IdFacts, PcFacts, Shapes DEF RecordsInv
  <1> SUFFICES ASSUME NEW c \in DepositId, Has(c)'
               PROVE  transfer'[c].dir = "in"
    BY DEF DepositsMade
  <1>1. CASE Has(c)
    BY <1>1, BackendsRemember DEF RecordsInv, DepositsMade
  <1>2. CASE ~Has(c) /\ InsertIncoming
    <2>1. c = current
      BY <1>2 DEF InsertIncoming, do_set, Has
    <2>2. transfer[c].dir = "in"
      BY <2>1 DEF RecordsInv, TransferInv, CandidatesArePayments
    <2> QED BY <2>2, BackendsRemember DEF RecordsInv
  <1>3. CASE ~Has(c) /\ ~InsertIncoming
    <2>1. ASSUME NEW t \in Task, LockStep(t) \/ HoldingStep(t)
          PROVE  tx_metadata'[c] = tx_metadata[c]
      <3>1. CASE InsertCustodial(t) \/ InsertLightning(t)
        <4>1. rebalance[t] # c /\ invoice[t] # c
          BY <3>1, LegIsKnown DEF RecordsInv, InsertCustodial, InsertLightning
        <4> QED BY <3>1, <4>1 DEF InsertCustodial, InsertLightning, do_set
      <3>2. CASE Mark(t)
        BY <1>3, <3>2 DEF Mark, set_tx_caused_rebalance, do_set, Has
      <3>3. CASE ~(Mark(t) \/ InsertCustodial(t) \/ InsertLightning(t))
        BY <2>1, <3>3
        DEF LockStep, HoldingStep, Holding, Lock, Check, GetInvoice, GetInvoiceFails,
            CustodialPay, CustodialPayFails, Poll, Subscribe, Wake, MarkPanics,
            set_tx_caused_rebalance_fails, walletVars
      <3> QED BY <3>1, <3>2, <3>3
    <2>2. MonitorLoop => tx_metadata'[c] = tx_metadata[c]
      BY <1>3 DEF MonitorLoop, MonitorStep, List, ListFails, Scan, ScanDone, DecideNot,
                  DecideRebalance, DecidePanics, SyncClaim, SyncDone
    <2>3. ASSUME NEW p \in Payer, PayStep(p)
          PROVE  tx_metadata'[c] = tx_metadata[c]
      <3>1. CASE PayRecordCustodial(p) \/ PayRecordLightning(p)
        <4>1. sent[p] # c
          BY <3>1 DEF PayRecordCustodial, PayRecordLightning, RecordsInv, SafetyInv, SentHeld
        <4> QED BY <3>1, <4>1 DEF PayRecordCustodial, PayRecordLightning, do_set
      <3>2. CASE ~(PayRecordCustodial(p) \/ PayRecordLightning(p))
        BY <2>3, <3>2
        DEF PayStep, Pay, PayStart, PaySkip, PayEstimate, PaySendCustodial,
            PaySendLightning, PaySendFails, PayGivesUp, walletVars
      <3> QED BY <3>1, <3>2
    <2>4. EventTask \/ Network \/ CrashAndRestart => tx_metadata'[c] = tx_metadata[c]
      BY DEF EventTask, Network, Deposit, Delivered, Undelivered, LightningSent,
             LightningSendFails, OtherLightningReceipt, CrashAndRestart, taskVars
    <2>5. tx_metadata'[c] = tx_metadata[c]
      BY <2>1, <2>2, <2>3, <2>4 DEF Next
    <2> QED BY <1>3, <2>5 DEF Has
  <1> QED BY <1>1, <1>2, <1>3

\* The wallet moves on between two moments of the call.
LEMMA WalletStepList ==
    ASSUME RecordsInv, ListInv, Next, UNCHANGED listVars
    PROVE  ListInv'
  <1> USE IdFacts, PcFacts, Shapes DEF RecordsInv
  <1>1. UNCHANGED <<listPc, custodial_payments, lightning_payments>>
    BY DEF listVars
  <1>2. DepositsMade'
    BY DepositsStep DEF ListInv
  <1>3. ListsAreKnown'
    BY <1>1, BackendsRemember DEF ListInv, ListsAreKnown
  <1>4. \A k : Listed(k) => Listed(k)'
    BY <1>1, BackendsRemember DEF Listed
  <1>5. BlameListed'
    <2> SUFFICES ASSUME listPc # "idle", NEW c \in custodial_payments
                 PROVE  /\ tx_metadata'[c].ty = "Transfer" =>
                              Listed(tx_metadata[c].payment_triggering_transfer)'
                        /\ \A t \in Task : pc'[t] \in LegPc /\ rebalance'[t] = c =>
                              Listed(trigger[t])'
      BY <1>1 DEF BlameListed
    <2>1. c \in CustId /\ transfer[c].dir # "unused"
      BY DEF ListInv, ListsAreKnown
    <2>2. /\ tx_metadata[c].ty = "Transfer" =>
                Listed(tx_metadata[c].payment_triggering_transfer)
          /\ \A t \in Task : pc[t] \in LegPc /\ rebalance[t] = c => Listed(trigger[t])
      BY DEF ListInv, BlameListed
    <2>3. ASSUME tx_metadata'[c].ty = "Transfer"
          PROVE  Listed(tx_metadata[c].payment_triggering_transfer)'
      <3>1. PICK k : k = tx_metadata'[c].payment_triggering_transfer
        OBVIOUS
      <3>2. Listed(k)
        BY <2>1, <2>2, <2>3, <3>1, WhoseTransfer
      <3>3. Listed(k)'
        BY <1>4, <3>2
      <3> QED BY <3>1, <3>3 DEF Listed
    <2>4. ASSUME NEW t \in Task, pc'[t] \in LegPc, rebalance'[t] = c
          PROVE  Listed(trigger[t])'
      <3>1. PICK k : k = trigger[t]
        OBVIOUS
      <3>2. k = trigger'[t] /\ pc[t] \in LegPc /\ rebalance[t] = c
        BY <2>1, <2>4, <3>1, LegsKept
      <3>3. Listed(k)'
        BY <1>4, <2>2, <3>1, <3>2
      <3> QED BY <3>2, <3>3 DEF Listed
    <2> QED BY <2>3, <2>4
  <1> QED BY <1>2, <1>3, <1>5 DEF ListInv

\* What is there when the custodial list is read has its blame on a payment
\* that is there as well.
LEMMA ListCustodialStep ==
    ASSUME RecordsInv, ListInv, ListCustodial, UNCHANGED vars
    PROVE  ListInv'
  <1> USE IdFacts, PcFacts, Shapes DEF RecordsInv
  <1>1. /\ UNCHANGED <<transfer, lnPay, tx_metadata, pc, trigger, rebalance>>
        /\ listPc' = "lightning"
        /\ custodial_payments' = {c \in CustId : transfer[c].dir # "unused"}
    BY DEF ListCustodial, CustodialAnswer, vars, taskVars, rebalanceVars, localVars,
           sparkVars, lightningVars
  <1>2. DepositsMade'
    BY <1>1 DEF ListInv, DepositsMade, Has
  <1>3. ListsAreKnown'
    BY <1>1 DEF ListsAreKnown
  <1>4. ASSUME NEW k \in PaymentId, Has(k)
        PROVE  Listed(k)'
    <2>1. /\ k \in CustId => transfer[k].dir # "unused"
          /\ k \in LnId => lnPay[k].dir # "unused"
      BY <1>4, RecordedIsUsed DEF ListInv
    <2>2. k \in CustId \/ k \in LnId
      BY DEF PaymentId
    <2> QED BY <1>1, <2>1, <2>2 DEF Listed
  <1>5. \A c \in CustId : tx_metadata[c].ty = "Transfer" =>
           /\ tx_metadata[c].payment_triggering_transfer \in PaymentId
           /\ Has(tx_metadata[c].payment_triggering_transfer)
    BY EntryIsKnown DEF TransferInv, TransferPaired, Has
  <1>6. \A t \in Task : pc[t] \in LegPc => trigger[t] \in PaymentId /\ Has(trigger[t])
    BY RebalancePcFacts DEF TransferInv, TriggerIsPayment, TriggerMarked, Has
  <1>7. BlameListed'
    <2>1. ASSUME NEW c \in CustId, tx_metadata[c].ty = "Transfer"
          PROVE  Listed(tx_metadata[c].payment_triggering_transfer)'
      <3>1. PICK k \in PaymentId : k = tx_metadata[c].payment_triggering_transfer /\ Has(k)
        BY <1>5, <2>1
      <3>2. Listed(k)'
        BY <1>4, <3>1
      <3> QED BY <1>1, <3>1, <3>2 DEF Listed
    <2>2. ASSUME NEW t \in Task, pc[t] \in LegPc
          PROVE  Listed(trigger[t])'
      <3>1. PICK k \in PaymentId : k = trigger[t] /\ Has(k)
        BY <1>6, <2>2
      <3>2. Listed(k)'
        BY <1>4, <3>1
      <3> QED BY <1>1, <3>1, <3>2 DEF Listed
    <2> QED BY <1>1, <2>1, <2>2 DEF BlameListed
  <1> QED BY <1>2, <1>3, <1>7 DEF ListInv

LEMMA ListLightningStep ==
    ASSUME RecordsInv, ListInv, ListLightning, UNCHANGED vars
    PROVE  ListInv'
  <1> USE IdFacts DEF RecordsInv
  <1>1. /\ UNCHANGED <<transfer, lnPay, tx_metadata, pc, trigger, rebalance, custodial_payments>>
        /\ listPc = "lightning" /\ listPc' = "fold"
        /\ DOMAIN lightning_payments' = {k \in LnId : lnPay[k].dir # "unused"}
        /\ \A l \in DOMAIN lightning_payments' :
              lightning_payments'[l] = (lnPay[l].status = "Succeeded")
    BY DEF ListLightning, LightningAnswer, vars, taskVars, rebalanceVars, localVars,
           sparkVars, lightningVars
  <1>2. DepositsMade'
    BY <1>1 DEF ListInv, DepositsMade, Has
  <1>3. ListsAreKnown'
    BY <1>1 DEF ListInv, ListsAreKnown
  <1>4. \A k : Listed(k) => Listed(k)'
    BY <1>1 DEF Listed
  <1>5. BlameListed'
    <2>1. ASSUME NEW c \in custodial_payments, tx_metadata[c].ty = "Transfer"
          PROVE  Listed(tx_metadata[c].payment_triggering_transfer)'
      <3>1. PICK k : k = tx_metadata[c].payment_triggering_transfer
        OBVIOUS
      <3>2. Listed(k)'
        BY <1>1, <1>4, <2>1, <3>1 DEF ListInv, BlameListed
      <3> QED BY <1>1, <3>1, <3>2 DEF Listed
    <2>2. ASSUME NEW t \in Task, pc[t] \in LegPc, rebalance[t] \in custodial_payments
          PROVE  Listed(trigger[t])'
      <3>1. PICK k : k = trigger[t]
        OBVIOUS
      <3>2. Listed(k)'
        BY <1>1, <1>4, <2>2, <3>1 DEF ListInv, BlameListed
      <3> QED BY <1>1, <3>1, <3>2 DEF Listed
    <2> QED BY <1>1, <2>1, <2>2 DEF BlameListed
  <1> QED BY <1>2, <1>3, <1>5 DEF ListInv

LEMMA StepListInv ==
    ASSUME RecordsInv, ListInv, [ListNext]_<<vars, listVars>>
    PROVE  ListInv'
  <1>1. ASSUME Drop, DepositsMade'
        PROVE  ListInv'
    BY <1>1 DEF Drop, ListInv, ListsAreKnown, BlameListed
  <1>2. CASE Next
    <2>1. CASE UNCHANGED listVars
      BY <1>2, <2>1, WalletStepList
    <2>2. CASE Drop
      BY <1>1, <1>2, <2>2, DepositsStep DEF ListInv
    <2>3. CASE ~UNCHANGED listVars /\ ~Drop
      <3>1. listPc' # listPc \/ custodial_payments' # custodial_payments
            \/ lightning_payments' # lightning_payments
        BY <2>3 DEF listVars
      <3>2. ListTransactions /\ UNCHANGED vars
        BY <2>3 DEF ListNext, listVars
      <3>3. ListCustodial \/ ListLightning
        BY <2>3, <3>2 DEF ListTransactions, ListCustodialFails, Fold
      <3> QED BY <3>2, <3>3, ListCustodialStep, ListLightningStep
    <2> QED BY <2>1, <2>2, <2>3
  <1>3. ASSUME UNCHANGED vars
        PROVE  DepositsMade' <=> DepositsMade
    BY <1>3 DEF DepositsMade, Has, vars, taskVars, sparkVars
  <1>4. CASE ListTransactions /\ UNCHANGED vars
    <2>1. CASE ListCustodial \/ ListLightning
      BY <1>4, <2>1, ListCustodialStep, ListLightningStep
    <2>2. CASE Fold
      BY <1>1, <1>3, <1>4, <2>2 DEF Fold, ListInv
    <2>3. CASE UNCHANGED listVars
      <3>1. UNCHANGED <<listPc, custodial_payments, lightning_payments, transfer, lnPay,
                        tx_metadata, pc, trigger, rebalance>>
        BY <1>4, <2>3 DEF vars, listVars, taskVars, rebalanceVars, localVars, sparkVars, lightningVars
      <3> QED BY <3>1 DEF ListInv, DepositsMade, ListsAreKnown, BlameListed, Listed, Has
    <2> QED BY <1>4, <2>1, <2>2, <2>3 DEF ListTransactions, ListCustodialFails
  <1>5. CASE UNCHANGED <<vars, listVars>>
    <2>1. UNCHANGED <<listPc, custodial_payments, lightning_payments, transfer, lnPay,
                      tx_metadata, pc, trigger, rebalance>>
      BY <1>5 DEF vars, listVars, taskVars, rebalanceVars, localVars, sparkVars, lightningVars
    <2> QED BY <2>1 DEF ListInv, DepositsMade, ListsAreKnown, BlameListed, Listed, Has
  <1> QED BY <1>2, <1>4, <1>5 DEF ListNext

-----------------------------------------------------------------------------
(* What the result says.                                                   *)

\* The wallet is at work while it is listed.
LEMMA ListRunsWallet == ListSpec => Spec
  <1>1. [ListNext]_<<vars, listVars>> => [Next]_vars
    BY DEF ListNext
  <1> QED BY <1>1, PTL DEF ListSpec, Spec

LEMMA ListInvHolds ==
    ASSUME DistinctInvoices
    PROVE  ListSpec => [](RecordsInv /\ ListInv)
  <1>1. Init /\ ListInit => ListInv
    BY IdFacts DEF Init, ListInit, MetadataInit, Plain, ListInv, DepositsMade, Has,
                   ListsAreKnown, BlameListed
  <1>2. RecordsInv /\ ListInv /\ [ListNext]_<<vars, listVars>> => ListInv'
    BY StepListInv
  <1>3. ListSpec => []RecordsInv
    BY ListRunsWallet, WalletTransfers, PTL DEF RecordsInv
  <1> QED BY <1>1, <1>2, <1>3, PTL DEF ListSpec

LEMMA FeesCharged == RecordsInv /\ ListInv => TransferFeesCharged
  <1> SUFFICES ASSUME RecordsInv, ListInv, listPc = "fold",
                      NEW c \in custodial_payments, tx_metadata[c].ty = "Transfer"
               PROVE  \E t \in Transactions(custodial_payments, lightning_payments) :
                         c \in t.fees
    BY DEF TransferFeesCharged, OfType
  <1> DEFINE ids == custodial_payments \cup DOMAIN lightning_payments
             trig == tx_metadata[c].payment_triggering_transfer
  <1>1. c \in PaymentId
    BY IdFacts DEF ListInv, ListsAreKnown
  <1>2. tx_metadata[trig].ty = "Trigger"
    BY <1>1 DEF RecordsInv, TransferInv, TransferPaired
  <1>3. trig \in ids
    BY DEF ListInv, BlameListed, Listed
  <1>4. c \in TransferFees(ids, trig)
    BY DEF TransferFees, OfType
  <1>5. [id |-> trig, fees |-> TransferFees(ids, trig)] \in WithTransferFees(ids)
    BY <1>2, <1>3 DEF WithTransferFees, OfType
  <1>6. WithTransferFees(ids) \subseteq Transactions(custodial_payments, lightning_payments)
    BY DEF Transactions
  <1> QED BY <1>4, <1>5, <1>6

\* The ids of a result, by what is on record of them.
LEMMA ListedIds ==
    ASSUME NEW custodial, NEW lightning
    PROVE  {t.id : t \in Transactions(custodial, lightning)} =
              {k \in custodial \cup DOMAIN lightning :
                  tx_metadata[k].ty \in {"Payment", "Trigger"}}
              \cup {l \in DOMAIN lightning : tx_metadata[l].ty = "None" /\ lightning[l]}
  <1> DEFINE ids == custodial \cup DOMAIN lightning
             unrecorded == {l \in OfType(DOMAIN lightning, "None") : lightning[l]}
  <1>1. \A S : {t.id : t \in Plainly(S)} = S
    <2> SUFFICES ASSUME NEW S PROVE {t.id : t \in Plainly(S)} = S
      OBVIOUS
    <2>1. \A k \in S : [id |-> k, fees |-> {}] \in Plainly(S)
      BY DEF Plainly
    <2>2. \A k : [id |-> k, fees |-> {}].id = k
      OBVIOUS
    <2>3. \A t \in Plainly(S) : t.id \in S
      BY DEF Plainly
    <2> QED BY <2>1, <2>2, <2>3
  <1>2. {t.id : t \in WithTransferFees(ids)} = OfType(ids, "Trigger")
    <2> DEFINE line(k) == [id |-> k, fees |-> TransferFees(ids, k)]
    <2>1. WithTransferFees(ids) = {line(k) : k \in OfType(ids, "Trigger")}
      BY DEF WithTransferFees
    <2>2. \A k : line(k).id = k
      OBVIOUS
    <2> HIDE DEF line, ids
    <2>3. \A k \in OfType(ids, "Trigger") : line(k) \in WithTransferFees(ids)
      BY <2>1
    <2>4. \A t \in WithTransferFees(ids) : t.id \in OfType(ids, "Trigger")
      BY <2>1, <2>2
    <2> QED BY <2>2, <2>3, <2>4
  <1>3. {t.id : t \in Transactions(custodial, lightning)} =
           {t.id : t \in Plainly(OfType(ids, "Payment"))} \cup {t.id : t \in WithTransferFees(ids)}
              \cup {t.id : t \in Plainly(unrecorded)}
    BY DEF Transactions
  <1>4. {t.id : t \in Transactions(custodial, lightning)} =
           OfType(ids, "Payment") \cup OfType(ids, "Trigger") \cup unrecorded
    BY <1>1, <1>2, <1>3
  <1> QED BY <1>4 DEF OfType

LEMMA NotIncome == RecordsInv /\ ListInv => TransfersAreNotIncome
  <1> SUFFICES ASSUME RecordsInv, ListInv, listPc = "fold",
                      NEW t \in Transactions(custodial_payments, lightning_payments),
                      t.id \in LnId, lnPay[t.id].dir = "in"
               PROVE  \/ \E u \in Task : pc[u] \in LegPc /\ invoice[u] = t.id
                      \/ \E leg \in orphaned : leg.invoice = t.id
    BY DEF TransfersAreNotIncome
  <1> DEFINE l == t.id
  <1>1. tx_metadata[l].ty \notin {"Payment", "Trigger"}
    BY DEF RecordsInv, TransferInv, PaymentsWereSent
  <1>2. l \in {s.id : s \in Transactions(custodial_payments, lightning_payments)}
    OBVIOUS
  <1>3. l \in DOMAIN lightning_payments /\ tx_metadata[l].ty = "None" /\ lightning_payments[l]
    <2>1. \/ l \in {k \in custodial_payments \cup DOMAIN lightning_payments :
                      tx_metadata[k].ty \in {"Payment", "Trigger"}}
          \/ l \in {m \in DOMAIN lightning_payments :
                      tx_metadata[m].ty = "None" /\ lightning_payments[m]}
      <3>1. {s.id : s \in Transactions(custodial_payments, lightning_payments)} =
               {k \in custodial_payments \cup DOMAIN lightning_payments :
                   tx_metadata[k].ty \in {"Payment", "Trigger"}}
               \cup {m \in DOMAIN lightning_payments :
                       tx_metadata[m].ty = "None" /\ lightning_payments[m]}
        BY ListedIds
      <3> HIDE DEF l
      <3> QED BY <1>2, <3>1
    <2> HIDE DEF l
    <2> QED BY <1>1, <2>1
  <1>4. lnPay[l].status = "Succeeded"
    BY <1>3 DEF ListInv, ListsAreKnown
  <1> QED BY <1>3, <1>4 DEF RecordsInv, SafetyInv, ReceivedTransfersAccounted

\* When list_transactions folds what it has read, the fee of each transfer that
\* it finds is on a line of the result, however long ago either list was read.
THEOREM ListChargesTransferFees ==
    ASSUME DistinctInvoices
    PROVE  ListSpec => []TransferFeesCharged
  BY ListInvHolds, FeesCharged, PTL

\* No transfer that is on record is shown as income, and none at all but those
\* that a task is still to record or died before it had.
THEOREM ListTransfersAreNotIncome ==
    ASSUME DistinctInvoices
    PROVE  ListSpec => []TransfersAreNotIncome
  BY ListInvHolds, NotIncome, PTL

\* What a call would show is what has a record as a payment, and what was sent
\* and arrived.
ShownTold ==
    Shown = {c \in CustId : /\ transfer[c].dir # "unused"
                            /\ tx_metadata[c].ty \in {"Payment", "Trigger"}}
            \cup
            {l \in LnId : /\ lnPay[l].dir = "out"
                          /\ \/ tx_metadata[l].ty \in {"Payment", "Trigger"}
                             \/ tx_metadata[l].ty = "None" /\ lnPay[l].status = "Succeeded"}

LEMMA ShownIsTold == ShownTold
  <1> DEFINE ids == {t.id : t \in Transactions(CustodialAnswer, LightningAnswer)}
  <1>1. Shown = {j \in ids : j \in CustId \/ lnPay[j].dir = "out"}
    BY DEF Shown, Now
  <1>2. /\ DOMAIN LightningAnswer = {j \in LnId : lnPay[j].dir # "unused"}
        /\ \A j \in DOMAIN LightningAnswer : LightningAnswer[j] = (lnPay[j].status = "Succeeded")
    BY DEF LightningAnswer
  <1>3. ids = {j \in CustodialAnswer \cup DOMAIN LightningAnswer :
                  tx_metadata[j].ty \in {"Payment", "Trigger"}}
              \cup {l \in DOMAIN LightningAnswer : tx_metadata[l].ty = "None" /\ LightningAnswer[l]}
    BY ListedIds
  <1> HIDE DEF ids
  <1> QED BY <1>1, <1>2, <1>3, IdFacts DEF CustodialAnswer, ShownTold

LEMMA ShownStep ==
    ASSUME RecordsInv, Next
    PROVE  Shown \subseteq Shown'
  <1> USE IdFacts DEF RecordsInv
  <1>0. ShownTold /\ ShownTold'
    BY ShownIsTold, PTL
  <1>1. ASSUME NEW c \in CustId, transfer[c].dir # "unused",
               tx_metadata[c].ty \in {"Payment", "Trigger"}
        PROVE  c \in Shown'
    <2>1. transfer'[c].dir # "unused"
      BY <1>1, BackendsRemember
    <2>2. tx_metadata'[c].ty \in {"Payment", "Trigger"}
      BY <1>1, RecordsFinal DEF Has
    <2> QED BY <1>0, <2>1, <2>2 DEF ShownTold
  <1>2. ASSUME NEW l \in LnId, lnPay[l].dir = "out",
               \/ tx_metadata[l].ty \in {"Payment", "Trigger"}
               \/ tx_metadata[l].ty = "None" /\ lnPay[l].status = "Succeeded"
        PROVE  l \in Shown'
    <2>1. lnPay'[l].dir = "out"
      BY <1>2, BackendsRemember
    <2>2. CASE tx_metadata[l].ty \in {"Payment", "Trigger"}
      <3>1. tx_metadata'[l].ty \in {"Payment", "Trigger"}
        BY <2>2, RecordsFinal DEF Has
      <3> QED BY <1>0, <2>1, <3>1 DEF ShownTold
    <2>3. CASE tx_metadata[l].ty = "None" /\ lnPay[l].status = "Succeeded"
      <3>1. lnPay'[l].status = "Succeeded"
        BY <1>2, <2>3, BackendsRemember
      <3>2. tx_metadata'[l].ty \in {"None", "Payment"}
        BY <1>2, <2>3, SentIsRecordedAsPayment DEF Has
      <3> QED BY <1>0, <2>1, <3>1, <3>2 DEF ShownTold
    <2> QED BY <1>2, <2>2, <2>3
  <1> QED BY <1>0, <1>1, <1>2 DEF ShownTold

\* What the user could see once stays on the list, whatever is recorded or
\* blamed later: neither its record nor its payment is ever lost again.
THEOREM ListShownStays ==
    ASSUME DistinctInvoices
    PROVE  ListSpec => ShownStays
  <1>1. ASSUME RecordsInv, [ListNext]_<<vars, listVars>>
        PROVE  [listPc = "idle" => Shown \subseteq Shown']_<<vars, listVars>>
    <2>1. CASE Next
      BY <1>1, <2>1, ShownStep
    <2>2. CASE UNCHANGED vars
      <3>1. UNCHANGED Shown
        <4>1. UNCHANGED <<transfer, lnPay, tx_metadata>>
          BY <2>2 DEF vars, taskVars, sparkVars, lightningVars
        <4>2. ShownTold /\ ShownTold'
          BY ShownIsTold, PTL
        <4> QED BY <4>1, <4>2 DEF ShownTold
      <3> QED BY <3>1
    <2> QED BY <1>1, <2>1, <2>2 DEF ListNext
  <1>2. RecordsInv /\ [ListNext]_<<vars, listVars>> =>
           [listPc = "idle" => Shown \subseteq Shown']_<<vars, listVars>>
    BY <1>1
  <1>3. ListSpec => []RecordsInv
    BY ListRunsWallet, WalletTransfers, PTL DEF RecordsInv
  <1> QED BY <1>2, <1>3, PTL DEF ListSpec, ShownStays

-----------------------------------------------------------------------------
(* Sums over finite sets. *)

\* Induction on a set of numbers: a least number outside it has a predecessor in it.
LEMMA CountUp ==
    ASSUME NEW M, 0 \in M, \A n \in Nat : n \in M => n + 1 \in M
    PROVE  \A n \in Nat : n \in M
  <1> DEFINE S == {n \in Nat : n \notin M}
  <1> SUFFICES ASSUME S # {} PROVE FALSE
    OBVIOUS
  <1>1. PICK a \in S : \A b \in S : ~(<<b, a>> \in OpToRel(<, Nat))
    BY NatLessThanWellFounded, WFMin
  <1>2. a - 1 \in Nat /\ a - 1 < a
    OBVIOUS
  <1>3. a - 1 \in M
    BY <1>1, <1>2 DEF OpToRel
  <1> QED BY <1>2, <1>3

Any(s) == CHOOSE x \in s : TRUE

\* The sums over the subsets of S, from small to large.
IsTally(h, f, subsets) ==
    h = [s \in subsets |-> IF s = {} THEN 0 ELSE f[Any(s)] + h[s \ {Any(s)}]]

Tally(f, S) == CHOOSE h : IsTally(h, f, SUBSET S)

LEMMA TotalIsTally ==
    ASSUME NEW f, NEW S
    PROVE  SumFunctionOnSet(f, S) = Tally(f, S)[S]
  BY DEF SumFunctionOnSet, FoldFunctionOnSet, MapThenFoldSet, Tally, IsTally, Any

LEMMA SmallerByOne ==
    ASSUME NEW s, IsFiniteSet(s), s # {}, NEW x \in s
    PROVE  /\ IsFiniteSet(s \ {x})
           /\ Cardinality(s) \in Nat
           /\ Cardinality(s \ {x}) \in Nat
           /\ Cardinality(s) = Cardinality(s \ {x}) + 1
  <1>1. IsFiniteSet(s \ {x}) /\ Cardinality(s \ {x}) = Cardinality(s) - 1
    BY FS_RemoveElement
  <1>2. Cardinality(s) \in Nat /\ Cardinality(s \ {x}) \in Nat
    BY <1>1, FS_CardinalityType
  <1> QED BY <1>1, <1>2

LEMMA AnyIsElement == \A s : s # {} => Any(s) \in s
  BY DEF Any

\* The recursion of a sum over a finite set has a solution ..
LEMMA TallyExists ==
    ASSUME NEW f, NEW S, IsFiniteSet(S)
    PROVE  IsTally(Tally(f, S), f, SUBSET S)
  <1> DEFINE upTo(n) == {s \in SUBSET S : Cardinality(s) <= n}
             M == {n \in Nat : \E h : IsTally(h, f, upTo(n))}
  <1>1. \A s \in SUBSET S : IsFiniteSet(s) /\ Cardinality(s) \in Nat
                            /\ (Cardinality(s) = 0 <=> s = {})
    BY FS_Subset, FS_CardinalityType, FS_EmptySet
  <1>2. 0 \in M
    <2>1. \A s \in upTo(0) : s = {}
      BY <1>1
    <2>2. IsTally([s \in upTo(0) |-> 0], f, upTo(0))
      BY <2>1 DEF IsTally
    <2> QED BY <2>2
  <1>3. ASSUME NEW n \in Nat, n \in M
        PROVE  n + 1 \in M
    <2>1. PICK h : IsTally(h, f, upTo(n))
      BY <1>3
    <2> DEFINE next(g, s) == IF s = {} THEN 0 ELSE f[Any(s)] + g[s \ {Any(s)}]
               g == [s \in upTo(n + 1) |-> next(h, s)]
    <2>2. \A s \in upTo(n) : h[s] = next(h, s)
      BY <2>1 DEF IsTally
    <2>3. ASSUME NEW s \in upTo(n + 1), s # {}
          PROVE  g[s \ {Any(s)}] = h[s \ {Any(s)}]
      <3>1. s \ {Any(s)} \in upTo(n) /\ s \ {Any(s)} \in upTo(n + 1)
        BY <1>1, <2>3, SmallerByOne, AnyIsElement
      <3> HIDE DEF upTo, next
      <3> QED BY <2>2, <3>1
    <2>4. \A s \in upTo(n + 1) : g[s] = next(g, s)
      <3> HIDE DEF upTo
      <3> QED BY <2>3
    <2>5. IsTally(g, f, upTo(n + 1))
      <3> HIDE DEF upTo
      <3> QED BY <2>4 DEF IsTally
    <2> HIDE DEF g, upTo
    <2> QED BY <2>5
  <1>4. \A n \in Nat : n \in M
    <2> HIDE DEF M
    <2> QED BY <1>2, <1>3, CountUp
  <1>5. Cardinality(S) \in M
    BY <1>1, <1>4
  <1>6. upTo(Cardinality(S)) = SUBSET S
    BY <1>1, FS_Subset
  <1> QED BY <1>5, <1>6 DEF Tally

LEMMA TallyStep ==
    ASSUME NEW f, NEW S, IsFiniteSet(S), NEW s \in SUBSET S
    PROVE  Tally(f, S)[s] =
              IF s = {} THEN 0 ELSE f[Any(s)] + Tally(f, S)[s \ {Any(s)}]
  <1> DEFINE h == Tally(f, S)
  <1>1. IsTally(h, f, SUBSET S)
    BY TallyExists
  <1> HIDE DEF h
  <1>2. h[s] = IF s = {} THEN 0 ELSE f[Any(s)] + h[s \ {Any(s)}]
    BY <1>1 DEF IsTally
  <1> QED BY <1>2 DEF h

\* .. which does not depend on the set they are subsets of.
LEMMA TallyIsTotal ==
    ASSUME NEW f, NEW S, IsFiniteSet(S), NEW T \in SUBSET S
    PROVE  Tally(f, S)[T] = SumFunctionOnSet(f, T)
  <1> DEFINE M == {n \in Nat : \A s \in SUBSET T :
                                  Cardinality(s) = n => Tally(f, S)[s] = Tally(f, T)[s]}
  <1>1. \A s \in SUBSET T : IsFiniteSet(s) /\ Cardinality(s) \in Nat
                            /\ (Cardinality(s) = 0 <=> s = {})
    BY FS_Subset, FS_CardinalityType, FS_EmptySet
  <1>2. 0 \in M
    BY <1>1, TallyStep
  <1>3. ASSUME NEW n \in Nat, n \in M
        PROVE  n + 1 \in M
    <2> SUFFICES ASSUME NEW s \in SUBSET T, Cardinality(s) = n + 1
                 PROVE  Tally(f, S)[s] = Tally(f, T)[s]
      OBVIOUS
    <2> DEFINE r == s \ {Any(s)}
    <2>1. s # {}
      BY <1>1
    <2>2. r \in SUBSET T /\ Cardinality(r) = n
      BY <1>1, <2>1, SmallerByOne, AnyIsElement
    <2>3. Tally(f, S)[r] = Tally(f, T)[r]
      BY <1>3, <2>2
    <2>4. IsFiniteSet(T) /\ s \in SUBSET S
      BY <1>1
    <2> QED BY <2>1, <2>3, <2>4, TallyStep
  <1>4. \A n \in Nat : n \in M
    <2> HIDE DEF M
    <2> QED BY <1>2, <1>3, CountUp
  <1>5. Tally(f, S)[T] = Tally(f, T)[T]
    BY <1>1, <1>4
  <1> QED BY <1>5, TotalIsTally

LEMMA TotalOfNone == \A f : SumFunctionOnSet(f, {}) = 0
  BY TallyStep, TotalIsTally, FS_EmptySet

LEMMA TotalStep ==
    ASSUME NEW f, NEW S, IsFiniteSet(S), S # {}
    PROVE  SumFunctionOnSet(f, S) = f[Any(S)] + SumFunctionOnSet(f, S \ {Any(S)})
  <1>1. S \in SUBSET S /\ S \ {Any(S)} \in SUBSET S
    OBVIOUS
  <1>2. Tally(f, S)[S] = f[Any(S)] + Tally(f, S)[S \ {Any(S)}]
    BY <1>1, TallyStep
  <1>3. Tally(f, S)[S \ {Any(S)}] = SumFunctionOnSet(f, S \ {Any(S)})
    BY <1>1, TallyIsTotal
  <1> QED BY <1>2, <1>3, TotalIsTally

LEMMA TotalType ==
    ASSUME NEW f, NEW S, IsFiniteSet(S), \A x \in S : f[x] \in Int
    PROVE  SumFunctionOnSet(f, S) \in Int
  <1> DEFINE M == {n \in Nat : \A s \in SUBSET S :
                                  Cardinality(s) = n => SumFunctionOnSet(f, s) \in Int}
  <1>1. \A s \in SUBSET S : IsFiniteSet(s) /\ Cardinality(s) \in Nat
                            /\ (Cardinality(s) = 0 <=> s = {})
    BY FS_Subset, FS_CardinalityType, FS_EmptySet
  <1>2. 0 \in M
    BY <1>1, TotalOfNone
  <1>3. ASSUME NEW n \in Nat, n \in M
        PROVE  n + 1 \in M
    <2> SUFFICES ASSUME NEW s \in SUBSET S, Cardinality(s) = n + 1
                 PROVE  SumFunctionOnSet(f, s) \in Int
      OBVIOUS
    <2> DEFINE r == s \ {Any(s)}
    <2>1. s # {}
      BY <1>1
    <2>2. r \in SUBSET S /\ Cardinality(r) = n /\ Any(s) \in S
      BY <1>1, <2>1, SmallerByOne, AnyIsElement
    <2>3. SumFunctionOnSet(f, r) \in Int
      BY <1>3, <2>2
    <2> QED BY <1>1, <2>1, <2>2, <2>3, TotalStep
  <1>4. \A n \in Nat : n \in M
    <2> HIDE DEF M
    <2> QED BY <1>2, <1>3, CountUp
  <1> QED BY <1>1, <1>4

\* Whichever element is taken out first.
LEMMA TotalWithout ==
    ASSUME NEW f, NEW S, IsFiniteSet(S), \A x \in S : f[x] \in Int, NEW e \in S
    PROVE  SumFunctionOnSet(f, S) = SumFunctionOnSet(f, S \ {e}) + f[e]
  <1> DEFINE total(s) == SumFunctionOnSet(f, s)
             M == {n \in Nat : \A s \in SUBSET S : Cardinality(s) = n =>
                                  \A x \in s : total(s) = total(s \ {x}) + f[x]}
  <1>1. \A s \in SUBSET S : IsFiniteSet(s) /\ Cardinality(s) \in Nat
                            /\ (Cardinality(s) = 0 <=> s = {})
    BY FS_Subset, FS_CardinalityType, FS_EmptySet
  <1>2. 0 \in M
    BY <1>1
  <1>3. \A s \in SUBSET S : total(s) \in Int
    BY <1>1, TotalType
  <1>4. \A s \in SUBSET S : s # {} => total(s) = total(s \ {Any(s)}) + f[Any(s)]
    BY <1>1, <1>3, TotalStep, AnyIsElement
  <1> HIDE DEF total
  <1>5. ASSUME NEW n \in Nat, n \in M
        PROVE  n + 1 \in M
    <2> SUFFICES ASSUME NEW s \in SUBSET S, Cardinality(s) = n + 1, NEW x \in s
                 PROVE  total(s) = total(s \ {x}) + f[x]
      OBVIOUS
    <2> DEFINE a == Any(s)
    <2>1. a \in s /\ total(s) = total(s \ {a}) + f[a]
      BY <1>4, AnyIsElement
    <2> HIDE DEF a
    <2>2. CASE x = a
      BY <2>1, <2>2
    <2>3. CASE x # a
      <3>1. Cardinality(s \ {a}) = n /\ Cardinality(s \ {x}) = n
        BY <1>1, <2>1, SmallerByOne
      <3>2. total(s \ {a}) = total((s \ {a}) \ {x}) + f[x]
        BY <1>5, <2>1, <2>3, <3>1
      <3>3. (s \ {a}) \ {x} = (s \ {x}) \ {a}
        OBVIOUS
      <3>4. total(s \ {x}) = total((s \ {a}) \ {x}) + f[a]
        BY <1>5, <2>1, <2>3, <3>1, <3>3
      <3>5. total((s \ {a}) \ {x}) \in Int /\ f[x] \in Int /\ f[a] \in Int
        BY <1>3, <2>1
      <3> QED BY <2>1, <3>2, <3>4, <3>5
    <2> QED BY <2>2, <2>3
  <1>6. \A n \in Nat : n \in M
    <2> HIDE DEF M
    <2> QED BY <1>2, <1>5, CountUp
  <1>7. total(S) = total(S \ {e}) + f[e]
    BY <1>1, <1>6
  <1> QED BY <1>7 DEF total

\* What is worth nothing can be left out.
LEMMA TotalOfPart ==
    ASSUME NEW f, NEW g, NEW S, IsFiniteSet(S), NEW T \in SUBSET S,
           \A x \in T : f[x] = g[x] /\ f[x] \in Int,
           \A x \in S \ T : f[x] = 0
    PROVE  SumFunctionOnSet(f, S) = SumFunctionOnSet(g, T)
  <1> DEFINE M == {n \in Nat : \A s \in SUBSET S : Cardinality(s) = n =>
                      SumFunctionOnSet(f, s) = SumFunctionOnSet(g, s \cap T)}
  <1>1. \A s \in SUBSET S : IsFiniteSet(s) /\ Cardinality(s) \in Nat
                            /\ (Cardinality(s) = 0 <=> s = {})
    BY FS_Subset, FS_CardinalityType, FS_EmptySet
  <1>2. 0 \in M
    <2>1. {} \cap T = {}
      OBVIOUS
    <2> QED BY <1>1, <2>1, TotalOfNone
  <1>3. ASSUME NEW n \in Nat, n \in M
        PROVE  n + 1 \in M
    <2> SUFFICES ASSUME NEW s \in SUBSET S, Cardinality(s) = n + 1
                 PROVE  SumFunctionOnSet(f, s) = SumFunctionOnSet(g, s \cap T)
      OBVIOUS
    <2> DEFINE a == Any(s)
               r == s \ {a}
    <2>1. a \in s
      BY <1>1, AnyIsElement
    <2> HIDE DEF a
    <2>2. r \in SUBSET S /\ Cardinality(r) = n
      BY <1>1, <2>1, SmallerByOne
    <2>3. SumFunctionOnSet(f, r) = SumFunctionOnSet(g, r \cap T)
      BY <1>3, <2>2
    <2>4. SumFunctionOnSet(f, s) = SumFunctionOnSet(f, r) + f[a]
      BY <1>1, <2>1, TotalWithout
    <2>5. SumFunctionOnSet(f, r) \in Int
      BY <1>1, <2>2, TotalType
    <2>6. CASE a \in T
      <3>1. (s \cap T) \ {a} = r \cap T /\ a \in s \cap T
        BY <2>1, <2>6
      <3>2. IsFiniteSet(s \cap T) /\ \A x \in s \cap T : g[x] \in Int
        BY <1>1
      <3>3. SumFunctionOnSet(g, s \cap T) = SumFunctionOnSet(g, r \cap T) + g[a]
        BY <3>1, <3>2, TotalWithout
      <3> QED BY <2>3, <2>4, <2>6, <3>3
    <2>7. CASE a \notin T
      <3>1. s \cap T = r \cap T
        BY <2>7
      <3>2. f[a] = 0
        BY <2>1, <2>7
      <3>3. SumFunctionOnSet(f, s) = SumFunctionOnSet(f, r)
        <4> HIDE DEF r
        <4> QED BY <2>4, <2>5, <3>2
      <3> QED BY <2>3, <3>1, <3>3
    <2> QED BY <2>6, <2>7
  <1>4. \A n \in Nat : n \in M
    <2> HIDE DEF M
    <2> QED BY <1>2, <1>3, CountUp
  <1>5. S \cap T = T
    OBVIOUS
  <1> QED BY <1>1, <1>4, <1>5

\* One payment changes, or is new: the rest of the sum stays.
LEMMA TotalOfChange ==
    ASSUME NEW f, NEW g, NEW S, IsFiniteSet(S), NEW e,
           \A x \in S : f[x] \in Int,
           \A x \in S \ {e} : g[x] = f[x],
           g[e] \in Int
    PROVE  SumFunctionOnSet(g, S \cup {e})
              = SumFunctionOnSet(f, S) + g[e] - (IF e \in S THEN f[e] ELSE 0)
  <1> DEFINE R == S \ {e}
  <1>1. IsFiniteSet(R) /\ IsFiniteSet(S \cup {e}) /\ (S \cup {e}) \ {e} = R
    BY FS_RemoveElement, FS_AddElement
  <1>2. SumFunctionOnSet(g, S \cup {e}) = SumFunctionOnSet(g, R) + g[e]
    <2>1. \A x \in S \cup {e} : g[x] \in Int
      OBVIOUS
    <2> QED BY <1>1, <2>1, TotalWithout
  <1>3. SumFunctionOnSet(f, R) = SumFunctionOnSet(g, R)
    BY <1>1, TotalOfPart
  <1>4. SumFunctionOnSet(f, R) \in Int
    BY <1>1, TotalType
  <1>5. SumFunctionOnSet(f, S) = SumFunctionOnSet(f, R) + (IF e \in S THEN f[e] ELSE 0)
    <2>1. CASE e \in S
      BY <2>1, TotalWithout
    <2>2. CASE e \notin S
      <3>1. R = S
        BY <2>2
      <3> HIDE DEF R
      <3> QED BY <1>4, <2>2, <3>1
    <2> QED BY <2>1, <2>2
  <1>6. (IF e \in S THEN f[e] ELSE 0) \in Int
    OBVIOUS
  <1> HIDE DEF R
  <1> QED BY <1>2, <1>3, <1>4, <1>5, <1>6

-----------------------------------------------------------------------------
(* The money of the wallet: what each step does to the balances and to the *)
(* payments that account for them.                                         *)

Funds == balance + outbound + onchain

LEMMA FundsTypes ==
    ASSUME TypeOK
    PROVE  /\ balance \in Nat /\ outbound \in Nat /\ onchain \in Nat
           /\ InitialFunds.outbound \in Nat /\ InitialFunds.onchain \in Nat
           /\ \A c \in CustId : transfer[c] \in Transfer
           /\ \A l \in LnId : lnPay[l] \in LnPayment
  BY WalletAssumption DEF TypeOK, SparkTypeOK, LightningTypeOK

\* Whole numbers, and none for an id nobody has used.
EffectsWhole ==
    \A k \in PaymentId :
       /\ Effect(k) \in Int
       /\ k \notin UsedIds => Effect(k) = 0

LEMMA EffectType == TypeOK => EffectsWhole
  <1> SUFFICES ASSUME TypeOK, NEW k \in PaymentId
               PROVE  Effect(k) \in Int /\ (k \notin UsedIds => Effect(k) = 0)
    BY DEF EffectsWhole
  <1>1. Stored(k).amount \in Nat
    BY FundsTypes DEF Stored, PaymentId, Transfer, LnPayment
  <1>2. Worth(k) \in Int
    BY <1>1 DEF Worth
  <1>3. k \notin UsedIds => Worth(k) = 0
    BY DEF UsedIds, Worth
  <1> QED BY <1>2, <1>3 DEF Effect

\* A step that leaves every effect as it is leaves the money.
LEMMA NoEffectChanges ==
    ASSUME FundsInv, Funds' = Funds,
           \A k \in PaymentId : /\ (Stored(k).dir)' = "unused" <=> Stored(k).dir = "unused"
                                /\ Effect(k)' = Effect(k)
    PROVE  (IsFiniteSet(UsedIds) /\ MoneyKept)'
  <1>1. UsedIds' = UsedIds
    BY DEF UsedIds
  <1>2. Effects' = Effects
    BY <1>1 DEF Effects, UsedIds
  <1> QED BY <1>1, <1>2 DEF FundsInv, MoneyKept, Funds

\* A step that changes or begins one payment has to change the balances by as
\* much as the payment's effect.
LEMMA OneEffectChanges ==
    ASSUME TypeOK, TypeOK', FundsInv, NEW e \in PaymentId,
           (Stored(e).dir)' # "unused",
           \A k \in PaymentId \ {e} :
              /\ (Stored(k).dir)' = "unused" <=> Stored(k).dir = "unused"
              /\ Effect(k)' = Effect(k),
           Funds' = Funds + Effect(e)' - Effect(e)
    PROVE  (IsFiniteSet(UsedIds) /\ MoneyKept)'
  <1>1. UsedIds' = UsedIds \cup {e}
    BY DEF UsedIds
  <1>2. IsFiniteSet(UsedIds) /\ IsFiniteSet(UsedIds')
    BY <1>1, FS_AddElement DEF FundsInv
  <1>3. /\ \A k \in UsedIds : Effects[k] \in Int
        /\ \A k \in UsedIds \ {e} : Effects'[k] = Effects[k]
        /\ Effects'[e] = Effect(e)'
        /\ Effects'[e] \in Int
    <2>1. \A k \in PaymentId : Effect(k) \in Int
      BY EffectType DEF EffectsWhole
    <2>2. EffectsWhole'
      BY EffectType, PTL
    <2>3. Effect(e)' \in Int
      BY <2>2 DEF EffectsWhole
    <2>4. /\ \A k \in UsedIds' : Effects'[k] = Effect(k)'
          /\ \A k \in UsedIds : Effects[k] = Effect(k)
      BY DEF Effects
    <2>5. UsedIds \subseteq PaymentId
      BY DEF UsedIds
    <2> QED BY <1>1, <2>1, <2>3, <2>4, <2>5
  <1>4. (IF e \in UsedIds THEN Effects[e] ELSE 0) = Effect(e)
    <2>1. e \in UsedIds => Effects[e] = Effect(e)
      BY DEF Effects
    <2>2. e \notin UsedIds => Effect(e) = 0
      BY EffectType DEF EffectsWhole
    <2> QED BY <2>1, <2>2
  <1>5. DOMAIN Effects = UsedIds /\ DOMAIN Effects' = UsedIds'
    BY DEF Effects
  <1>6. SumFunction(Effects') = SumFunction(Effects) + Effect(e)' - Effect(e)
    BY <1>1, <1>2, <1>3, <1>4, <1>5, TotalOfChange DEF SumFunction
  <1>7. SumFunction(Effects) \in Int
    BY <1>2, <1>3, <1>5, TotalType DEF SumFunction
  <1>8. Effect(e) \in Int /\ Effect(e)' \in Int
    <2>1. Effect(e) \in Int
      BY EffectType DEF EffectsWhole
    <2>2. Effect(e)' \in Int
      BY <1>3
    <2> QED BY <2>1, <2>2
  <1>9. Funds \in Int /\ InitialFunds.outbound + InitialFunds.onchain \in Int
    BY FundsTypes DEF Funds
  <1>10. Funds = InitialFunds.outbound + InitialFunds.onchain + SumFunction(Effects)
    BY DEF FundsInv, MoneyKept, Funds
  <1>11. Funds' = InitialFunds.outbound + InitialFunds.onchain + SumFunction(Effects')
    BY <1>6, <1>7, <1>8, <1>9, <1>10
  <1> QED BY <1>2, <1>11 DEF MoneyKept, Funds

\* One transfer changes, and none of the node's payments but receipts.
LEMMA TransferChanges ==
    ASSUME TypeOK, TypeOK', FundsInv, NEW c \in CustId,
           transfer'[c].dir # "unused",
           \A d \in CustId \ {c} : transfer'[d] = transfer[d],
           \A l \in LnId : \/ lnPay'[l] = lnPay[l]
                           \/ lnPay[l].dir = "in" /\ lnPay'[l].dir = "in",
           Funds' = Funds + Effect(c)' - Effect(c)
    PROVE  (IsFiniteSet(UsedIds) /\ MoneyKept)'
  <1> USE IdFacts
  <1>1. ASSUME NEW k \in PaymentId \ {c}
        PROVE  /\ (Stored(k).dir)' = "unused" <=> Stored(k).dir = "unused"
               /\ Effect(k)' = Effect(k)
    <2>1. CASE k \in CustId
      BY <1>1, <2>1 DEF Stored, Effect, Worth, ToInvoice
    <2>2. CASE k \in LnId /\ lnPay'[k] = lnPay[k]
      BY <2>2 DEF Stored, Effect, Worth
    <2>3. CASE k \in LnId /\ lnPay[k].dir = "in" /\ lnPay'[k].dir = "in"
      BY <2>3 DEF Stored, Effect
    <2> QED BY <2>1, <2>2, <2>3 DEF PaymentId
  <1>2. (Stored(c).dir)' # "unused"
    BY DEF Stored
  <1> QED BY <1>1, <1>2, OneEffectChanges

\* One of the node's payments changes, and no transfer.
LEMMA PaymentChanges ==
    ASSUME TypeOK, TypeOK', FundsInv, NEW l \in LnId,
           lnPay'[l].dir # "unused",
           \A m \in LnId \ {l} : lnPay'[m] = lnPay[m],
           UNCHANGED transfer,
           Funds' = Funds + Effect(l)' - Effect(l)
    PROVE  (IsFiniteSet(UsedIds) /\ MoneyKept)'
  <1> USE IdFacts
  <1>1. ASSUME NEW k \in PaymentId \ {l}
        PROVE  /\ (Stored(k).dir)' = "unused" <=> Stored(k).dir = "unused"
               /\ Effect(k)' = Effect(k)
    <2>1. CASE k \in CustId
      BY <2>1 DEF Stored, Effect, Worth, ToInvoice
    <2>2. CASE k \in LnId
      BY <1>1, <2>2 DEF Stored, Effect, Worth
    <2> QED BY <2>1, <2>2 DEF PaymentId
  <1>2. (Stored(l).dir)' # "unused"
    BY DEF Stored
  <1> QED BY <1>1, <1>2, OneEffectChanges

\* A step that touches neither.
LEMMA NoPaymentChanges ==
    ASSUME FundsInv, UNCHANGED <<transfer, lnPay, balance, outbound, onchain>>
    PROVE  (IsFiniteSet(UsedIds) /\ MoneyKept)'
  <1>1. \A k \in PaymentId : /\ (Stored(k).dir)' = "unused" <=> Stored(k).dir = "unused"
                             /\ Effect(k)' = Effect(k)
    BY DEF Stored, Effect, Worth, ToInvoice
  <1> QED BY <1>1, NoEffectChanges DEF Funds

\* What is paid with the amount of its invoice stays so.
LEMMA AmountsKept ==
    ASSUME SafetyInv, FundsInv, TypeOK,
           \A l \in LnId : lnPay[l].dir = "in" => lnPay'[l].amount = lnPay[l].amount,
           \A c \in CustId : ToInvoice(c)' =>
              \/ /\ ToInvoice(c)
                 /\ transfer'[c].dest = transfer[c].dest
                 /\ transfer'[c].amount = transfer[c].amount
              \/ \E t \in Task : /\ pc[t] = "custpay"
                                 /\ transfer'[c].dest = invoice[t]
                                 /\ transfer'[c].amount = lnPay[invoice[t]].amount
    PROVE  AmountsAgree'
  <1>1. \A t \in Task : pc[t] = "custpay" =>
           /\ invoice[t] \in LnId
           /\ lnPay'[invoice[t]].amount = lnPay[invoice[t]].amount
    BY Shapes DEF SafetyInv, InvoiceNotPaid
  <1>2. \A c \in CustId : ToInvoice(c) =>
           transfer[c].amount = lnPay'[transfer[c].dest].amount
    BY Shapes DEF SafetyInv, OneTransferPerInvoice, ToInvoice, FundsInv, AmountsAgree
  <1>3. \A c \in CustId : ToInvoice(c)' =>
           transfer'[c].amount = lnPay'[transfer'[c].dest].amount
    BY <1>1, <1>2
  <1> QED BY <1>3 DEF AmountsAgree

\* What SparkClaim and SparkSettle change of a transfer, and the node of a payment.
LEMMA TransferStatus ==
    ASSUME TypeOK, NEW c \in CustId, NEW s, transfer' = [transfer EXCEPT ![c].status = s]
    PROVE  /\ \A d \in CustId : /\ transfer'[d].dir = transfer[d].dir
                                /\ transfer'[d].dest = transfer[d].dest
                                /\ transfer'[d].amount = transfer[d].amount
           /\ \A d \in CustId \ {c} : transfer'[d] = transfer[d]
           /\ transfer'[c].status = s
  <1>1. transfer[c] \in Transfer
    BY FundsTypes
  <1>2. LET r == [transfer[c] EXCEPT !.status = s]
        IN  /\ r.dir = transfer[c].dir /\ r.dest = transfer[c].dest
            /\ r.amount = transfer[c].amount /\ r.status = s
    BY <1>1 DEF Transfer
  <1> QED BY <1>2, Shapes

LEMMA PaymentStatus ==
    ASSUME TypeOK, NEW l \in LnId, NEW s, lnPay' = [lnPay EXCEPT ![l].status = s]
    PROVE  /\ \A m \in LnId : /\ lnPay'[m].dir = lnPay[m].dir
                              /\ lnPay'[m].amount = lnPay[m].amount
           /\ \A m \in LnId \ {l} : lnPay'[m] = lnPay[m]
           /\ lnPay'[l].status = s
  <1>1. lnPay[l] \in LnPayment
    BY FundsTypes
  <1>2. LET r == [lnPay[l] EXCEPT !.status = s]
        IN  r.dir = lnPay[l].dir /\ r.amount = lnPay[l].amount /\ r.status = s
    BY <1>1 DEF LnPayment
  <1> QED BY <1>2, Shapes

-----------------------------------------------------------------------------
(* The services: what they take, hold and give back.                       *)

\* A payment out takes its amount from the balance.
LEMMA SparkPayFunds ==
    ASSUME TypeOK, TypeOK', FundsInv, NEW c \in UnusedCustIds, NEW dest, NEW a \in Nat,
           SparkPay(c, dest, a), UNCHANGED lightningVars
    PROVE  (IsFiniteSet(UsedIds) /\ MoneyKept)'
  <1>1. c \in CustId /\ c \in PaymentId /\ transfer[c].dir = "unused"
    BY IdFacts DEF UnusedCustIds
  <1>2. /\ transfer'[c].dir = "out" /\ transfer'[c].amount = a
        /\ transfer'[c].status = "Pending"
        /\ \A d \in CustId \ {c} : transfer'[d] = transfer[d]
        /\ balance' = balance - a
    BY <1>1, Shapes DEF SparkPay
  <1>3. UNCHANGED <<lnPay, outbound, onchain>>
    BY DEF lightningVars
  <1>4. Effect(c) = 0 /\ Effect(c)' = -a
    BY <1>1, <1>2 DEF Effect, Worth, Stored, ToInvoice
  <1>5. Funds' = Funds + Effect(c)' - Effect(c)
    BY <1>2, <1>3, <1>4, FundsTypes DEF Funds
  <1> QED BY <1>1, <1>2, <1>3, <1>5, TransferChanges

\* A claim makes a deposit, or a payment that came back, part of the balance.
LEMMA SparkClaimFunds ==
    ASSUME TypeOK, TypeOK', FundsInv, NEW c \in CustId, SparkClaim(c), UNCHANGED lightningVars
    PROVE  (IsFiniteSet(UsedIds) /\ MoneyKept)'
  <1> DEFINE s == IF transfer[c].status = "Pending" THEN "Completed" ELSE "Failed"
             a == transfer[c].amount
  <1>1. /\ transfer' = [transfer EXCEPT ![c].status = s]
        /\ balance' = balance + a
        /\ \/ transfer[c].dir = "in" /\ transfer[c].status = "Pending"
           \/ transfer[c].dir = "out" /\ transfer[c].status = "Returned"
    BY DEF SparkClaim, Claimable
  <1>2. /\ transfer'[c].dir = transfer[c].dir
        /\ transfer'[c].dest = transfer[c].dest
        /\ transfer'[c].amount = a
        /\ transfer'[c].status = s
        /\ \A d \in CustId \ {c} : transfer'[d] = transfer[d]
    <2> HIDE DEF s
    <2> QED BY <1>1, TransferStatus
  <1>3. UNCHANGED <<lnPay, outbound, onchain>>
    BY DEF lightningVars
  <1>4. a \in Nat
    BY FundsTypes DEF Transfer
  <1> HIDE DEF a
  <1>5. Effect(c)' = Effect(c) + a
    <2>1. CASE transfer[c].dir = "in" /\ transfer[c].status = "Pending"
      <3>1. Effect(c) = 0 /\ Effect(c)' = a
        BY <1>2, <2>1 DEF Effect, Worth, Stored, ToInvoice
      <3> QED BY <1>4, <3>1
    <2>2. CASE transfer[c].dir = "out" /\ transfer[c].status = "Returned"
      <3>1. Effect(c) = -a /\ Effect(c)' = 0
        BY <1>2, <2>2 DEF Effect, Worth, Stored, ToInvoice, a
      <3> QED BY <1>4, <3>1
    <2> QED BY <1>1, <2>1, <2>2
  <1>6. Effect(c) \in Int
    BY IdFacts, EffectType DEF EffectsWhole
  <1>7. Funds' = Funds + Effect(c)' - Effect(c)
    BY <1>1, <1>3, <1>4, <1>5, <1>6, FundsTypes DEF Funds
  <1>8. transfer'[c].dir # "unused"
    BY <1>1, <1>2
  <1> QED BY <1>2, <1>3, <1>7, <1>8, TransferChanges

\* A deposit waits to be claimed.
LEMMA SparkDepositFunds ==
    ASSUME TypeOK, TypeOK', FundsInv, NEW c \in DepositId, NEW a, SparkDeposit(c, a),
           UNCHANGED lightningVars
    PROVE  (IsFiniteSet(UsedIds) /\ MoneyKept)'
  <1>1. c \in CustId /\ transfer[c].dir = "unused"
    BY IdFacts DEF SparkDeposit
  <1>2. /\ transfer'[c].dir = "in" /\ transfer'[c].status = "Pending"
        /\ \A d \in CustId \ {c} : transfer'[d] = transfer[d]
        /\ UNCHANGED <<balance, lnPay, outbound, onchain>>
    BY <1>1, Shapes DEF SparkDeposit, lightningVars
  <1>3. Effect(c) = 0 /\ Effect(c)' = 0
    BY <1>1, <1>2 DEF Effect, Worth, Stored, ToInvoice
  <1>4. Funds' = Funds + Effect(c)' - Effect(c)
    BY <1>2, <1>3, FundsTypes DEF Funds
  <1> QED BY <1>1, <1>2, <1>4, TransferChanges

\* A payment that is delivered is paid for, unless it is a transfer: then its
\* amount, which is the invoice's, is on the other side.
LEMMA DeliveredFunds ==
    ASSUME TypeOK, TypeOK', FundsInv, NEW c \in CustId, Delivered(c)
    PROVE  (IsFiniteSet(UsedIds) /\ MoneyKept)'
  <1> DEFINE l == transfer[c].dest
             a == transfer[c].amount
  <1>1. /\ transfer' = [transfer EXCEPT ![c].status = "Completed"]
        /\ transfer[c].dir = "out" /\ transfer[c].status = "Pending"
        /\ balance' = balance
    BY DEF Delivered, SparkSettle
  <1>2. /\ transfer'[c].dir = "out" /\ transfer'[c].dest = l
        /\ transfer'[c].amount = a /\ transfer'[c].status = "Completed"
        /\ \A d \in CustId \ {c} : transfer'[d] = transfer[d]
    BY <1>1, TransferStatus
  <1>3. a \in Nat /\ Effect(c) \in Int
    BY FundsTypes, IdFacts, EffectType DEF Transfer, EffectsWhole
  <1>4. CASE l = NoId /\ UNCHANGED lightningVars
    <2>1. UNCHANGED <<lnPay, outbound, onchain>>
      BY <1>4 DEF lightningVars
    <2>2. Effect(c)' = Effect(c)
      BY <1>1, <1>2, <1>4 DEF Effect, Worth, Stored, ToInvoice
    <2>3. Funds' = Funds + Effect(c)' - Effect(c)
      BY <1>1, <1>3, <2>1, <2>2, FundsTypes DEF Funds
    <2> QED BY <1>2, <2>1, <2>3, TransferChanges
  <1>5. CASE l # NoId /\ LnReceive(l)
    <2>1. /\ l \in LnId /\ lnPay[l].dir = "in"
          /\ lnPay' = [lnPay EXCEPT ![l].status = "Succeeded"]
          /\ outbound' = outbound + lnPay[l].amount /\ onchain' = onchain
      BY <1>5, Shapes DEF LnReceive
    <2>2. \A m \in LnId : lnPay'[m] = lnPay[m] \/ (lnPay[m].dir = "in" /\ lnPay'[m].dir = "in")
      BY <2>1, PaymentStatus
    <2>3. lnPay[l].amount = a
      BY <1>1, <1>5 DEF FundsInv, AmountsAgree, ToInvoice
    <2>4. Effect(c) = -a /\ Effect(c)' = 0
      BY <1>1, <1>2, <1>5 DEF Effect, Worth, Stored, ToInvoice
    <2>5. Funds' = Funds + Effect(c)' - Effect(c)
      <3> HIDE DEF a
      <3> QED BY <1>1, <1>3, <2>1, <2>3, <2>4, FundsTypes DEF Funds
    <2> QED BY <1>2, <2>2, <2>5, TransferChanges
  <1> QED BY <1>4, <1>5 DEF Delivered

\* What comes back is not back before it is claimed.
LEMMA UndeliveredFunds ==
    ASSUME TypeOK, TypeOK', FundsInv, NEW c \in CustId, Undelivered(c)
    PROVE  (IsFiniteSet(UsedIds) /\ MoneyKept)'
  <1> DEFINE l == transfer[c].dest
  <1>1. /\ transfer' = [transfer EXCEPT ![c].status = "Returned"]
        /\ transfer[c].dir = "out" /\ transfer[c].status = "Pending"
        /\ balance' = balance
    BY DEF Undelivered, SparkSettle
  <1>2. /\ transfer'[c].dir = "out" /\ transfer'[c].dest = l
        /\ transfer'[c].amount = transfer[c].amount /\ transfer'[c].status = "Returned"
        /\ \A d \in CustId \ {c} : transfer'[d] = transfer[d]
    BY <1>1, TransferStatus
  <1>3. Effect(c)' = Effect(c) /\ Effect(c) \in Int
    BY <1>1, <1>2, IdFacts, EffectType DEF Effect, Worth, Stored, ToInvoice, EffectsWhole
  <1>4. /\ UNCHANGED <<outbound, onchain>>
        /\ \A m \in LnId : lnPay'[m] = lnPay[m] \/ (lnPay[m].dir = "in" /\ lnPay'[m].dir = "in")
    <2>1. CASE UNCHANGED lightningVars
      BY <2>1 DEF lightningVars
    <2>2. CASE l # NoId /\ LnReceiveFails(l)
      <3>1. /\ l \in LnId /\ lnPay[l].dir = "in"
            /\ lnPay' = [lnPay EXCEPT ![l].status = "Failed"]
            /\ UNCHANGED <<outbound, onchain>>
        BY <2>2, Shapes DEF LnReceiveFails
      <3> QED BY <3>1, PaymentStatus
    <2> QED BY <2>1, <2>2 DEF Undelivered
  <1>5. Funds' = Funds + Effect(c)' - Effect(c)
    BY <1>1, <1>3, <1>4, FundsTypes DEF Funds
  <1> QED BY <1>2, <1>4, <1>5, TransferChanges

\* The node takes the amount of a payment when it is sent, for an id that is new
\* or whose payment has failed and been given back.
LEMMA LnSendFunds ==
    ASSUME TypeOK, TypeOK', FundsInv, NEW l \in LnId, NEW kind, NEW s, NEW a \in Nat,
           LnSend(l, kind, s, a), UNCHANGED sparkVars
    PROVE  (IsFiniteSet(UsedIds) /\ MoneyKept)'
  <1>1. \/ lnPay[l].dir = "unused"
        \/ lnPay[l].dir = "out" /\ lnPay[l].status = "Failed"
    BY DEF LnSend, LnPayable
  <1>2. /\ lnPay'[l].dir = "out" /\ lnPay'[l].amount = a /\ lnPay'[l].status = "Pending"
        /\ \A m \in LnId \ {l} : lnPay'[m] = lnPay[m]
    BY Shapes DEF LnSend
  <1>3. l \notin CustId
    BY IdFacts
  <1>4. Effect(l) = 0 /\ Effect(l)' = -a
    BY <1>1, <1>2, <1>3 DEF Effect, Worth, Stored
  <1>5. UNCHANGED <<transfer, balance>>
    BY DEF sparkVars
  <1>6. outbound' + onchain' = outbound + onchain - a
    BY FundsTypes DEF LnSend
  <1>7. Funds' = Funds + Effect(l)' - Effect(l)
    <2>1. outbound' \in Nat /\ onchain' \in Nat
      BY DEF TypeOK, LightningTypeOK
    <2> QED BY <1>4, <1>5, <1>6, <2>1, FundsTypes DEF Funds
  <1> QED BY <1>2, <1>5, <1>7, PaymentChanges

\* .. keeps it when it is delivered, and gives it back when it fails; an invoice
\* of the wallet takes nothing.
LEMMA LnSentFunds ==
    ASSUME TypeOK, TypeOK', FundsInv, NEW l \in LnId, LnSent(l), UNCHANGED sparkVars
    PROVE  (IsFiniteSet(UsedIds) /\ MoneyKept)'
  <1>1. /\ lnPay[l].dir = "out" /\ lnPay[l].status = "Pending"
        /\ lnPay' = [lnPay EXCEPT ![l].status = "Succeeded"]
        /\ UNCHANGED <<transfer, balance, outbound, onchain>>
    BY DEF LnSent, sparkVars
  <1>2. /\ lnPay'[l].dir = "out" /\ lnPay'[l].amount = lnPay[l].amount
        /\ lnPay'[l].status = "Succeeded"
        /\ \A m \in LnId \ {l} : lnPay'[m] = lnPay[m]
    BY <1>1, PaymentStatus
  <1>3. Effect(l)' = Effect(l) /\ Effect(l) \in Int
    BY <1>1, <1>2, IdFacts, EffectType DEF Effect, Worth, Stored, EffectsWhole
  <1>4. Funds' = Funds + Effect(l)' - Effect(l)
    BY <1>1, <1>3, FundsTypes DEF Funds
  <1> QED BY <1>1, <1>2, <1>4, PaymentChanges

LEMMA LnSendFailsFunds ==
    ASSUME TypeOK, TypeOK', FundsInv, NEW l \in LnId, LnSendFails(l), UNCHANGED sparkVars
    PROVE  (IsFiniteSet(UsedIds) /\ MoneyKept)'
  <1> DEFINE a == lnPay[l].amount
  <1>1. /\ lnPay[l].dir = "out" /\ lnPay[l].status = "Pending"
        /\ lnPay' = [lnPay EXCEPT ![l].status = "Failed"]
        /\ outbound' = outbound + a
        /\ UNCHANGED <<transfer, balance, onchain>>
    BY DEF LnSendFails, sparkVars
  <1>2. /\ lnPay'[l].dir = "out" /\ lnPay'[l].status = "Failed"
        /\ \A m \in LnId \ {l} : lnPay'[m] = lnPay[m]
    BY <1>1, PaymentStatus
  <1>3. l \notin CustId /\ a \in Nat
    BY IdFacts, FundsTypes DEF LnPayment
  <1>4. Effect(l) = -a /\ Effect(l)' = 0
    BY <1>1, <1>2, <1>3 DEF Effect, Worth, Stored
  <1> HIDE DEF a
  <1>5. Funds' = Funds + Effect(l)' - Effect(l)
    BY <1>1, <1>3, <1>4, FundsTypes DEF Funds
  <1> QED BY <1>1, <1>2, <1>5, PaymentChanges

LEMMA LnInvoiceFunds ==
    ASSUME TypeOK, TypeOK', FundsInv, NEW l \in LnId, NEW a, LnInvoice(l, a), UNCHANGED sparkVars
    PROVE  (IsFiniteSet(UsedIds) /\ MoneyKept)'
  <1>1. /\ lnPay[l].dir = "unused"
        /\ lnPay'[l].dir = "in"
        /\ \A m \in LnId \ {l} : lnPay'[m] = lnPay[m]
        /\ UNCHANGED <<transfer, balance, outbound, onchain>>
    BY Shapes DEF LnInvoice, sparkVars
  <1>2. Effect(l) = 0 /\ Effect(l)' = 0
    BY <1>1, IdFacts DEF Effect, Worth, Stored
  <1>3. Funds' = Funds + Effect(l)' - Effect(l)
    BY <1>1, <1>2, FundsTypes DEF Funds
  <1> QED BY <1>1, <1>3, PaymentChanges

-----------------------------------------------------------------------------
(* The steps of the wallet.                                                *)

LEMMA RebalanceFunds ==
    ASSUME TypeOK, TypeOK', SafetyInv, FundsInv, NEW t \in Task, LockStep(t) \/ HoldingStep(t)
    PROVE  FundsInv'
  <1> USE Shapes, IdFacts
  <1>1. CASE GetInvoice(t)
    <2>1. PICK l \in OwnInvoiceIds : LnInvoice(l, amount[t]) /\ invoice' = [invoice EXCEPT ![t] = l]
      BY <1>1 DEF GetInvoice
    <2>2. l \in LnId
      BY DEF OwnInvoiceIds, UnusedLnIds
    <2>3. UNCHANGED sparkVars /\ UNCHANGED transfer
      BY <1>1 DEF GetInvoice, sparkVars
    <2>4. /\ lnPay[l].dir = "unused"
          /\ \A m \in LnId \ {l} : lnPay'[m] = lnPay[m]
      BY <2>1, <2>2 DEF LnInvoice
    <2>5. AmountsAgree'
      BY <2>3, <2>4, AmountsKept DEF ToInvoice
    <2>6. (IsFiniteSet(UsedIds) /\ MoneyKept)'
      BY <2>1, <2>2, <2>3, LnInvoiceFunds
    <2> QED BY <2>5, <2>6 DEF FundsInv
  <1>2. CASE CustodialPay(t)
    <2>1. PICK c \in UnusedCustIds : SparkPay(c, invoice[t], lnPay[invoice[t]].amount)
      BY <1>2 DEF CustodialPay
    <2>2. /\ c \in CustId /\ pc[t] = "custpay"
          /\ invoice[t] \in LnId /\ lnPay[invoice[t]].amount \in Nat
      BY <1>2, FundsTypes DEF CustodialPay, UnusedCustIds, LnPayment
    <2>3. UNCHANGED lightningVars /\ UNCHANGED lnPay
      BY <1>2 DEF CustodialPay, lightningVars
    <2>4. /\ transfer'[c].dest = invoice[t]
          /\ transfer'[c].amount = lnPay[invoice[t]].amount
          /\ \A d \in CustId \ {c} : transfer'[d] = transfer[d]
      BY <2>1, <2>2 DEF SparkPay
    <2>5. AmountsAgree'
      BY <2>2, <2>3, <2>4, AmountsKept DEF ToInvoice
    <2>6. (IsFiniteSet(UsedIds) /\ MoneyKept)'
      BY <2>1, <2>2, <2>3, SparkPayFunds
    <2> QED BY <2>5, <2>6 DEF FundsInv
  <1>3. CASE ~GetInvoice(t) /\ ~CustodialPay(t)
    <2>1. UNCHANGED <<transfer, lnPay, balance, outbound, onchain>>
      BY <1>3
      DEF LockStep, HoldingStep, Holding, Lock, Check, GetInvoiceFails, CustodialPayFails,
          SparkPayFails, Poll, Subscribe, CloneReceiver, Wake, ReceiptSeen, Mark, MarkPanics,
          InsertCustodial, InsertLightning, walletVars, sparkVars, lightningVars, nodeVars
    <2>2. AmountsAgree'
      BY <2>1, AmountsKept DEF ToInvoice
    <2>3. (IsFiniteSet(UsedIds) /\ MoneyKept)'
      BY <2>1, NoPaymentChanges
    <2> QED BY <2>2, <2>3 DEF FundsInv
  <1> QED BY <1>1, <1>2, <1>3

\* Steps that leave the amounts and the destinations alone.
LEMMA AmountsStay ==
    ASSUME TypeOK, SafetyInv, FundsInv,
           \A l \in LnId : lnPay[l].dir = "in" => lnPay'[l].amount = lnPay[l].amount,
           \A c \in CustId : ToInvoice(c)' =>
              /\ ToInvoice(c)
              /\ transfer'[c].dest = transfer[c].dest
              /\ transfer'[c].amount = transfer[c].amount
    PROVE  AmountsAgree'
  BY AmountsKept

LEMMA MonitorFunds ==
    ASSUME TypeOK, TypeOK', SafetyInv, FundsInv, MonitorLoop
    PROVE  FundsInv'
  <1> USE Shapes, IdFacts
  <1>1. UNCHANGED lightningVars /\ UNCHANGED <<lnPay, outbound, onchain>>
    BY DEF MonitorLoop, MonitorStep, List, ListFails, Scan, InsertIncoming, ScanDone,
           DecideNot, DecideRebalance, DecidePanics, SyncClaim, SyncDone, lightningVars,
           monitorRest
  <1>2. CASE SyncClaim
    <2>1. PICK c \in CustId : SparkClaim(c)
      BY <1>2 DEF SyncClaim
    <2>2. PICK s : transfer' = [transfer EXCEPT ![c].status = s]
      BY <2>1 DEF SparkClaim
    <2>3. AmountsAgree'
      BY <1>1, <2>2, TransferStatus, AmountsStay DEF ToInvoice
    <2> QED BY <1>1, <2>1, <2>3, SparkClaimFunds DEF FundsInv
  <1>3. CASE ~SyncClaim
    <2>1. UNCHANGED <<transfer, balance>>
      BY <1>3
      DEF MonitorLoop, MonitorStep, List, ListFails, Scan, InsertIncoming, ScanDone,
          DecideNot, DecideRebalance, DecidePanics, SyncDone, sparkVars
    <2>2. AmountsAgree'
      BY <1>1, <2>1, AmountsStay DEF ToInvoice
    <2> QED BY <1>1, <2>1, <2>2, NoPaymentChanges DEF FundsInv
  <1> QED BY <1>2, <1>3

LEMMA PayFunds ==
    ASSUME TypeOK, TypeOK', SafetyInv, FundsInv, NEW p \in Payer, PayStep(p)
    PROVE  FundsInv'
  <1> USE Shapes, IdFacts
  <1>0. pay_amount[p] \in Nat /\ MethodOf(p) \in Method
    BY PayAssumption, MethodInRange DEF TypeOK
  <1>1. CASE PaySendCustodial(p)
    <2>1. PICK c \in UnusedCustIds, s \in MethodOf(p).amount : SparkPay(c, NoId, s)
      BY <1>1 DEF PaySendCustodial
    <2>2. UNCHANGED lightningVars /\ UNCHANGED lnPay
      BY <1>1 DEF PaySendCustodial, lightningVars
    <2>3. /\ c \in CustId /\ transfer'[c].dest = NoId
          /\ \A d \in CustId \ {c} : transfer'[d] = transfer[d]
      BY <2>1 DEF SparkPay, UnusedCustIds
    <2>4. AmountsAgree'
      BY <2>2, <2>3, AmountsStay DEF ToInvoice
    <2>5. s \in Nat
      BY <1>0 DEF Method, Asked
    <2> QED BY <2>1, <2>2, <2>4, <2>5, SparkPayFunds DEF FundsInv
  <1>2. CASE PaySendLightning(p)
    <2>1. PICK l \in LnIdsOf(MethodOf(p)) :
             LnSend(l, MethodOf(p).type, MethodOf(p).amount, pay_amount[p])
      BY <1>2 DEF PaySendLightning
    <2>2. l \in LnId
      BY <1>0 DEF LnIdsOf, OwnInvoiceIds, UnusedLnIds, Method
    <2>3. UNCHANGED sparkVars /\ UNCHANGED transfer
      BY <1>2 DEF PaySendLightning, sparkVars
    <2>4. /\ lnPay[l].dir # "in"
          /\ \A m \in LnId \ {l} : lnPay'[m] = lnPay[m]
      BY <2>1, <2>2 DEF LnSend, LnPayable
    <2>5. AmountsAgree'
      BY <2>3, <2>4, AmountsStay DEF ToInvoice
    <2> QED BY <1>0, <2>1, <2>2, <2>3, <2>5, LnSendFunds DEF FundsInv
  <1>3. CASE ~PaySendCustodial(p) /\ ~PaySendLightning(p)
    <2>1. UNCHANGED <<transfer, lnPay, balance, outbound, onchain>>
      BY <1>3
      DEF PayStep, Pay, PayStart, PaySkip, PayEstimate, PayRecordCustodial,
          PayRecordLightning, PaySendFails, SparkPayFails, PayGivesUp, walletVars,
          sparkVars, lightningVars
    <2>2. AmountsAgree'
      BY <2>1, AmountsStay DEF ToInvoice
    <2> QED BY <2>1, <2>2, NoPaymentChanges DEF FundsInv
  <1> QED BY <1>1, <1>2, <1>3

LEMMA EnvironmentFunds ==
    ASSUME TypeOK, TypeOK', SafetyInv, FundsInv, EventTask \/ Network
    PROVE  FundsInv'
  <1> USE Shapes, IdFacts
  <1>1. CASE EventTask \/ OtherLightningReceipt
    <2>1. UNCHANGED <<transfer, lnPay, balance, outbound, onchain>>
      BY <1>1 DEF EventTask, OtherLightningReceipt, HandleEvent, OtherReceipt, sparkVars, nodeVars
    <2>2. AmountsAgree'
      BY <2>1, AmountsStay DEF ToInvoice
    <2> QED BY <2>1, <2>2, NoPaymentChanges DEF FundsInv
  <1>2. CASE Deposit
    <2>1. PICK c \in DepositId, a \in DepositAmounts : SparkDeposit(c, a)
      BY <1>2 DEF Deposit
    <2>2. UNCHANGED lightningVars /\ UNCHANGED lnPay
      BY <1>2 DEF Deposit, lightningVars
    <2>3. /\ transfer'[c].dest = NoId
          /\ \A d \in CustId \ {c} : transfer'[d] = transfer[d]
      BY <2>1 DEF SparkDeposit
    <2>4. AmountsAgree'
      BY <2>2, <2>3, AmountsStay DEF ToInvoice
    <2> QED BY <2>1, <2>2, <2>4, SparkDepositFunds DEF FundsInv
  <1>3. ASSUME NEW c \in CustId, Delivered(c) \/ Undelivered(c)
        PROVE  FundsInv'
    <2>1. PICK s : transfer' = [transfer EXCEPT ![c].status = s]
      BY <1>3 DEF Delivered, Undelivered, SparkSettle
    <2>2. \A l \in LnId : lnPay'[l].amount = lnPay[l].amount
      <3>1. CASE UNCHANGED lightningVars
        BY <3>1 DEF lightningVars
      <3>2. CASE ~UNCHANGED lightningVars
        <4>1. transfer[c].dest \in LnId
              /\ \E r : lnPay' = [lnPay EXCEPT ![transfer[c].dest].status = r]
          BY <1>3, <3>2 DEF Delivered, Undelivered, LnReceive, LnReceiveFails
        <4> QED BY <4>1, PaymentStatus
      <3> QED BY <3>1, <3>2
    <2>3. AmountsAgree'
      BY <2>1, <2>2, TransferStatus, AmountsStay DEF ToInvoice
    <2>4. (IsFiniteSet(UsedIds) /\ MoneyKept)'
      BY <1>3, DeliveredFunds, UndeliveredFunds
    <2> QED BY <2>3, <2>4 DEF FundsInv
  <1>4. ASSUME NEW l \in LnId, LightningSent(l) \/ LightningSendFails(l)
        PROVE  FundsInv'
    <2>1. UNCHANGED sparkVars /\ UNCHANGED transfer
      BY <1>4 DEF LightningSent, LightningSendFails, sparkVars
    <2>2. PICK s : lnPay' = [lnPay EXCEPT ![l].status = s]
      BY <1>4 DEF LightningSent, LightningSendFails, LnSent, LnSendFails
    <2>3. \A m \in LnId : lnPay'[m].amount = lnPay[m].amount
      BY <2>2, PaymentStatus
    <2>4. AmountsAgree'
      BY <2>1, <2>3, AmountsStay DEF ToInvoice
    <2>5. (IsFiniteSet(UsedIds) /\ MoneyKept)'
      BY <1>4, <2>1, LnSentFunds, LnSendFailsFunds DEF LightningSent, LightningSendFails
    <2> QED BY <2>4, <2>5 DEF FundsInv
  <1> QED BY <1>1, <1>2, <1>3, <1>4 DEF Network

LEMMA StepFunds == TypeOK /\ TypeOK' /\ SafetyInv /\ FundsInv /\ [Next]_vars => FundsInv'
  <1> SUFFICES ASSUME TypeOK, TypeOK', SafetyInv, FundsInv, [Next]_vars PROVE FundsInv'
    OBVIOUS
  <1>1. CASE UNCHANGED vars \/ CrashAndRestart
    <2>1. UNCHANGED <<transfer, lnPay, balance, outbound, onchain>>
      BY <1>1 DEF vars, CrashAndRestart, sparkVars, lightningVars, nodeVars
    <2>2. AmountsAgree'
      BY <2>1, AmountsStay DEF ToInvoice
    <2> QED BY <2>1, <2>2, NoPaymentChanges DEF FundsInv
  <1>2. CASE Next /\ ~CrashAndRestart
    BY <1>2, RebalanceFunds, MonitorFunds, PayFunds, EnvironmentFunds DEF Next
  <1> QED BY <1>1, <1>2

LEMMA InitFunds == Init => FundsInv
  <1> SUFFICES ASSUME Init PROVE FundsInv
    OBVIOUS
  <1>1. UsedIds = {}
    BY IdFacts DEF Init, SparkInit, UnusedTransfer, LightningInit, UnusedPayment, UsedIds,
                   Stored, PaymentId
  <1>2. SumFunction(Effects) = 0
    BY <1>1, TotalOfNone DEF SumFunction, Effects
  <1>3. balance = 0 /\ outbound = InitialFunds.outbound /\ onchain = InitialFunds.onchain
    BY DEF Init, SparkInit, LightningInit
  <1>4. MoneyKept
    BY <1>2, <1>3, WalletAssumption DEF MoneyKept
  <1>5. AmountsAgree
    BY DEF AmountsAgree, Init, SparkInit, UnusedTransfer, ToInvoice
  <1> QED BY <1>1, <1>4, <1>5, FS_EmptySet DEF FundsInv

LEMMA FundsInvHolds == Spec => []FundsInv
  BY InitFunds, StepFunds, WalletSafety, PTL DEF Spec

-----------------------------------------------------------------------------
(* With nothing under way, what is listed adds up to the balances.         *)

\* The ids of a list that is read now.
ListedNow ==
    {k \in UsedIds : tx_metadata[k].ty \in {"Payment", "Trigger"}}
       \cup {l \in LnId : /\ lnPay[l].dir # "unused" /\ lnPay[l].status = "Succeeded"
                          /\ tx_metadata[l].ty = "None"}

LEMMA NowIsListed == {t.id : t \in Now} = ListedNow
  <1> DEFINE ids == {t.id : t \in Transactions(CustodialAnswer, LightningAnswer)}
  <1>1. /\ DOMAIN LightningAnswer = {j \in LnId : lnPay[j].dir # "unused"}
        /\ \A j \in DOMAIN LightningAnswer : LightningAnswer[j] = (lnPay[j].status = "Succeeded")
    BY DEF LightningAnswer
  <1>2. ids = {j \in CustodialAnswer \cup DOMAIN LightningAnswer :
                  tx_metadata[j].ty \in {"Payment", "Trigger"}}
              \cup {l \in DOMAIN LightningAnswer : tx_metadata[l].ty = "None" /\ LightningAnswer[l]}
    BY ListedIds
  <1>3. UsedIds = CustodialAnswer \cup DOMAIN LightningAnswer
    BY <1>1, IdFacts DEF UsedIds, Stored, PaymentId, CustodialAnswer
  <1>4. {t.id : t \in Now} = ids
    BY DEF Now
  <1> HIDE DEF ids
  <1> QED BY <1>1, <1>2, <1>3, <1>4 DEF ListedNow

\* A transfer that arrived is on record by then, its custodial side too: its
\* invoice is paid for by no other.
LEMMA ArrivedIsRecorded ==
    ASSUME RecordsInv, Settled, NEW c \in CustId, ToInvoice(c), transfer[c].status = "Completed"
    PROVE  tx_metadata[c].ty = "Transfer"
  <1> USE IdFacts DEF RecordsInv
  <1> DEFINE l == transfer[c].dest
             e == tx_metadata[l]
  <1>1. l \in LnId /\ lnPay[l].dir = "in"
    BY Shapes DEF ToInvoice, SafetyInv, OneTransferPerInvoice
  <1>2. lnPay[l].status = "Succeeded"
    BY DEF TransferInv, EndsAgree
  <1>3. e.ty = "Transfer"
    BY <1>1, <1>2 DEF SafetyInv, ReceivedTransfersAccounted, Settled
  <1>4. /\ e.custodial_payment \in CustId
        /\ ToInvoice(e.custodial_payment)
        /\ transfer[e.custodial_payment].dest = e.lightning_payment
        /\ tx_metadata[e.custodial_payment] = e
    BY <1>1, <1>3, EntryIsKnown
  <1>5. l = e.lightning_payment
    BY <1>1, <1>3, <1>4 DEF TransferInv, TransferPaired
  <1>6. e.custodial_payment = c
    BY <1>4, <1>5 DEF SafetyInv, OneTransferPerInvoice
  <1> QED BY <1>3, <1>4, <1>6

\* What is on record as a transfer is one.
LEMMA RecordedIsTransfer ==
    ASSUME RecordsInv, NEW k \in PaymentId, tx_metadata[k].ty = "Transfer"
    PROVE  /\ k \in CustId => ToInvoice(k)
           /\ k \in LnId => lnPay[k].dir = "in"
  <1>1. k \in {tx_metadata[k].custodial_payment, tx_metadata[k].lightning_payment}
    BY DEF RecordsInv, TransferInv, TransferPaired
  <1> QED BY <1>1, EntryIsKnown, IdFacts DEF RecordsInv

\* A listed payment counts for all it is worth: no side of a transfer is listed.
LEMMA ListedCounts ==
    ASSUME RecordsInv, Settled, NEW k \in ListedNow
    PROVE  k \in UsedIds /\ Effect(k) = Worth(k)
  <1> USE IdFacts DEF RecordsInv
  <1>1. k \in UsedIds
    BY DEF ListedNow, UsedIds, Stored, PaymentId
  <1>2. CASE k \in CustId
    <2>1. tx_metadata[k].ty # "Transfer"
      BY <1>2 DEF ListedNow
    <2> QED BY <1>1, <1>2, <2>1, ArrivedIsRecorded DEF Effect
  <1>3. CASE k \in LnId
    <2>1. lnPay[k].dir # "in"
      BY <1>3 DEF ListedNow, TransferInv, PaymentsWereSent, SafetyInv,
                  ReceivedTransfersAccounted, Settled
    <2> QED BY <1>1, <1>3, <2>1 DEF Effect
  <1> QED BY <1>1, <1>2, <1>3 DEF UsedIds, PaymentId

\* What was sent and has not failed is on record by then, and not as a transfer.
LEMMA SentIsRecorded ==
    ASSUME RecordsInv, PaysAtMostOnce, Settled, NEW k \in PaymentId, Stored(k).dir = "out",
           k \in CustId => transfer[k].dest = NoId
    PROVE  tx_metadata[k].ty \in {"Payment", "Trigger"}
  <1> USE IdFacts DEF RecordsInv
  <1>1. PICK p \in Payer : sent[p] = k /\ payPc[p] \in {"record", "ok", "lost"}
    BY DEF Stored, PaysAtMostOnce, PaymentId
  <1>2. payPc[p] = "ok"
    BY <1>1 DEF Settled
  <1>3. Has(k)
    BY <1>1, <1>2 DEF PaysAtMostOnce
  <1>4. tx_metadata[k].ty # "Transfer"
    BY RecordedIsTransfer DEF Stored, ToInvoice, PaymentId
  <1>5. tx_metadata[k] \in TxMetadata
    BY DEF TypeOK, MetadataTypeOK
  <1> QED BY <1>3, <1>4, <1>5 DEF Has, TxMetadata

\* What is not listed counts for nothing.
LEMMA UnlistedIsNothing ==
    ASSUME RecordsInv, PaysAtMostOnce, Settled, NEW k \in UsedIds, k \notin ListedNow
    PROVE  Effect(k) = 0
  <1> USE IdFacts DEF RecordsInv
  <1>1. k \in PaymentId /\ Stored(k).dir \in {"in", "out"}
    BY MoreShapes DEF UsedIds, Stored, PaymentId, Transfer, LnPayment
  <1>2. tx_metadata[k].ty \notin {"Payment", "Trigger"}
    BY DEF ListedNow
  <1>3. CASE k \in CustId /\ transfer[k].dir = "in"
    <2>1. tx_metadata[k].ty # "Transfer"
      BY <1>1, <1>3, RecordedIsTransfer DEF ToInvoice
    <2>2. ~Has(k)
      <3>1. tx_metadata[k] \in TxMetadata
        BY <1>1 DEF TypeOK, MetadataTypeOK
      <3> QED BY <1>2, <2>1, <3>1 DEF Has, TxMetadata
    <2>3. transfer[k].status # "Completed" /\ transfer[k].status # "Succeeded"
      BY <1>3, <2>2, MoreShapes DEF Settled, Transfer
    <2> QED BY <1>3, <2>3 DEF Effect, Worth, Stored
  <1>4. CASE k \in CustId /\ ToInvoice(k)
    <2>1. transfer[k].status \notin {"Pending", "Returned"}
      BY <1>4 DEF Settled, SafetyInv, OneInFlight, ToInvoice
    <2>2. transfer[k].status \in {"Completed", "Failed"}
      BY <1>4, <2>1, MoreShapes DEF Transfer
    <2> QED BY <1>4, <2>2 DEF Effect, Worth, Stored, ToInvoice
  <1>5. CASE k \in LnId /\ lnPay[k].dir = "in"
    BY <1>5 DEF Effect
  <1>6. CASE Stored(k).dir = "out" /\ (k \in CustId => transfer[k].dest = NoId)
    BY <1>1, <1>2, <1>6, SentIsRecorded
  <1> QED BY <1>1, <1>3, <1>4, <1>5, <1>6 DEF Stored, ToInvoice, PaymentId

LEMMA AddsUp == RecordsInv /\ FundsInv /\ PaysAtMostOnce => ListAddsUp
  <1> SUFFICES ASSUME RecordsInv, FundsInv, PaysAtMostOnce, Settled
               PROVE  balance + outbound + onchain
                         = InitialFunds.outbound + InitialFunds.onchain
                              + SumFunction([k \in {t.id : t \in Now} |-> Worth(k)])
    BY DEF ListAddsUp
  <1> DEFINE worth == [k \in ListedNow |-> Worth(k)]
  <1>1. /\ ListedNow \in SUBSET UsedIds
        /\ \A k \in ListedNow : Effect(k) = Worth(k)
        /\ \A k \in UsedIds \ ListedNow : Effect(k) = 0
    BY ListedCounts, UnlistedIsNothing
  <1>2. \A k \in UsedIds : Effect(k) \in Int
    BY EffectType DEF RecordsInv, EffectsWhole, UsedIds
  <1>3. SumFunctionOnSet(Effects, UsedIds) = SumFunctionOnSet(worth, ListedNow)
    <2>1. IsFiniteSet(UsedIds)
      BY DEF FundsInv
    <2>2. /\ \A k \in ListedNow : Effects[k] = worth[k] /\ Effects[k] \in Int
          /\ \A k \in UsedIds \ ListedNow : Effects[k] = 0
      BY <1>1, <1>2 DEF Effects
    <2> HIDE DEF worth
    <2> QED BY <1>1, <2>1, <2>2, TotalOfPart
  <1>4. SumFunction(Effects) = SumFunction(worth)
    BY <1>3 DEF SumFunction, Effects
  <1>5. [k \in {t.id : t \in Now} |-> Worth(k)] = worth
    BY NowIsListed
  <1> HIDE DEF worth
  <1> QED BY <1>4, <1>5 DEF FundsInv, MoneyKept

\* With nothing under way the lines of list_transactions account for both
\* balances: transfers that arrived are left out on both sides, and whatever
\* else was received or sent and has not failed is a line.
THEOREM ListAddsUpAlways ==
    ASSUME DistinctInvoices
    PROVE  ListSpec => []ListAddsUp
  <1>1. ListSpec => []RecordsInv
    BY ListRunsWallet, WalletTransfers, PTL DEF RecordsInv
  <1>2. ListSpec => [](FundsInv /\ PaysAtMostOnce)
    BY ListRunsWallet, FundsInvHolds, WalletPaysAtMostOnce, PTL
  <1> QED BY <1>1, <1>2, AddsUp, PTL

=============================================================================
