------------------------ MODULE WalletSafety_proofs ------------------------
(***************************************************************************)
(* What holds of the wallet for every set of ids, every set of calls and   *)
(* methods, every amount, and every environment: its types, and SafetyInv, *)
(* which is inductive, with the safety properties it carries.              *)
(***************************************************************************)
EXTENDS WalletInvariant, TLAPS

-----------------------------------------------------------------------------
(* Facts about the constants and the operators.                            *)

LEMMA IdFacts ==
    /\ DepositId \subseteq CustId
    /\ CustId \subseteq PaymentId /\ LnId \subseteq PaymentId
    /\ CustId \cap LnId = {}
    /\ InvoiceHash \subseteq LnId
    /\ NoId \notin PaymentId
    /\ Monitor \in Task /\ Payer \subseteq Task /\ Monitor \notin Payer
    /\ NoTask \notin Task
  BY IdsAssumption, DepositAssumption, InvoiceAssumption DEF PaymentId, Task

\* What a rebalance moves is an amount.
LEMMA BalanceAmountType ==
    ASSUME NEW r \in Nat, NEW c \in Nat
    PROVE  get_balance_amt(r, c) \in Nat
  BY TunablesAssumption
  DEF get_balance_amt, LightningReceivable, Lesser, saturating_sub, None

\* The method a call of pay looks at is one.
LEMMA MethodLengths ==
    ASSUME NEW p \in Payer
    PROVE  /\ instructions[p] \in Seq(Method)
           /\ Len(instructions[p]) \in Nat \ {0}
  <1>1. instructions[p] \in Seq(Method) /\ Len(instructions[p]) > 0
    BY PayAssumption
  <1> QED BY <1>1

LEMMA MethodInRange ==
    ASSUME PayTypeOK, NEW p \in Payer
    PROVE  MethodOf(p) \in Method
  <1>1. idx[p] \in 1..Len(instructions[p])
    BY MethodLengths DEF PayTypeOK
  <1> QED BY <1>1, MethodLengths DEF MethodOf

-----------------------------------------------------------------------------
(* Type correctness, one lemma for each group of actions.                  *)

LEMMA InitType == Init => TypeOK
  <1> SUFFICES ASSUME Init PROVE TypeOK
    OBVIOUS
  <1> USE IdFacts DEF Init
  <1>1. SparkTypeOK
    BY DEF SparkInit, SparkTypeOK, Transfer, UnusedTransfer
  <1>2. LightningTypeOK
    BY WalletAssumption DEF LightningInit, LightningTypeOK, LnPayment, UnusedPayment
  <1>3. MetadataTypeOK
    BY DEF MetadataInit, MetadataTypeOK, TxMetadata, Plain
  <1>4. RebalanceTypeOK
    BY DEF RebalanceInit, RebalanceTypeOK, RebalancePc, LegPc, LockedPc
  <1>5. MonitorTypeOK
    BY DEF MonitorInit, MonitorTypeOK
  <1>6. PayTypeOK
    BY MethodLengths DEF PayInit, PayTypeOK, PayPc
  <1>7. pc \in [Task -> MonitorPc \cup RebalancePc \cup {"none", "finished", "panicked"}]
    BY DEF MonitorPc
  <1> QED BY <1>1, <1>2, <1>3, <1>4, <1>5, <1>6, <1>7 DEF TypeOK

\* What the services do keeps their own types.
LEMMA SparkPayType ==
    ASSUME SparkTypeOK, NEW c \in CustId, NEW d \in LnId \cup {NoId}, NEW a \in Nat,
           SparkPay(c, d, a)
    PROVE  SparkTypeOK'
  BY DEF SparkTypeOK, SparkPay, Transfer

LEMMA ClaimType ==
    ASSUME SparkTypeOK, NEW c \in CustId, SparkClaim(c)
    PROVE  SparkTypeOK'
  <1>1. transfer[c] \in Transfer
    BY DEF SparkTypeOK
  <1>2. PICK s \in {"Completed", "Failed"} :
           transfer' = [transfer EXCEPT ![c] = [transfer[c] EXCEPT !.status = s]]
    BY DEF SparkClaim
  <1>3. [transfer[c] EXCEPT !.status = s] \in Transfer
    BY <1>1 DEF Transfer
  <1>4. balance' \in Nat
    BY <1>1 DEF SparkClaim, SparkTypeOK, Transfer
  <1> QED BY <1>2, <1>3, <1>4 DEF SparkTypeOK

LEMMA SettleType ==
    ASSUME SparkTypeOK, NEW c \in CustId, NEW s \in {"Completed", "Returned"},
           SparkSettle(c, s)
    PROVE  SparkTypeOK' /\ transfer[c].dest \in LnId \cup {NoId}
  <1>1. transfer[c] \in Transfer
    BY DEF SparkTypeOK
  <1>2. [transfer[c] EXCEPT !.status = s] \in Transfer
    BY <1>1 DEF Transfer
  <1>3. transfer[c].dest \in LnId \cup {NoId}
    BY <1>1 DEF Transfer
  <1> QED BY <1>2, <1>3 DEF SparkTypeOK, SparkSettle

LEMMA LnSettleType ==
    ASSUME LightningTypeOK, NEW l \in LnId, NEW s \in {"Succeeded", "Failed"},
           lnPay' = [lnPay EXCEPT ![l].status = s]
    PROVE  lnPay' \in [LnId -> LnPayment] /\ lnPay[l].amount \in Nat
  <1>1. lnPay[l] \in LnPayment
    BY DEF LightningTypeOK
  <1>2. [lnPay[l] EXCEPT !.status = s] \in LnPayment
    BY <1>1 DEF LnPayment
  <1>3. lnPay[l].amount \in Nat
    BY <1>1 DEF LnPayment
  <1> QED BY <1>2, <1>3 DEF LightningTypeOK

LEMMA LnSendType ==
    ASSUME LightningTypeOK, NEW l \in LnId,
           NEW k \in {"Bolt11", "Bolt12", "OnChain"}, NEW s, NEW a \in Nat,
           LnSend(l, k, s, a)
    PROVE  LightningTypeOK'
  <1>1. lnPay' \in [LnId -> LnPayment]
    BY DEF LnSend, LightningTypeOK, LnPayment
  <1>2. outbound' \in Nat /\ onchain' \in Nat
    BY DEF LnSend, LnPayable, LightningTypeOK
  <1> QED BY <1>1, <1>2 DEF LnSend, LightningTypeOK

LEMMA LnReceiveType ==
    ASSUME LightningTypeOK, NEW l \in LnId, LnReceive(l)
    PROVE  LightningTypeOK'
  <1>1. lnPay' \in [LnId -> LnPayment] /\ lnPay[l].amount \in Nat
    BY LnSettleType DEF LnReceive
  <1>2. inbound' \in Nat
    BY <1>1, LightningAssumption DEF LnReceive, LightningTypeOK
  <1> QED BY <1>1, <1>2 DEF LnReceive, LightningTypeOK

LEMMA LnReceiveFailsType ==
    ASSUME LightningTypeOK, NEW l \in LnId, LnReceiveFails(l)
    PROVE  LightningTypeOK'
  <1>1. lnPay' \in [LnId -> LnPayment]
    BY LnSettleType DEF LnReceiveFails
  <1> QED BY <1>1 DEF LnReceiveFails, LightningTypeOK

LEMMA LnSentType ==
    ASSUME LightningTypeOK, NEW l \in LnId, LnSent(l)
    PROVE  LightningTypeOK'
  <1>1. lnPay' \in [LnId -> LnPayment] /\ lnPay[l].amount \in Nat
    BY LnSettleType DEF LnSent
  <1> QED BY <1>1 DEF LnSent, LightningTypeOK

LEMMA LnSendFailsType ==
    ASSUME LightningTypeOK, NEW l \in LnId, LnSendFails(l)
    PROVE  LightningTypeOK'
  <1>1. lnPay' \in [LnId -> LnPayment] /\ lnPay[l].amount \in Nat
    BY LnSettleType DEF LnSendFails
  <1> QED BY <1>1 DEF LnSendFails, LightningTypeOK

\* The next method is one of the methods.
LEMMA NextMethodType ==
    ASSUME PayTypeOK, NEW p \in Payer, loop[p] <= 4, NextMethod(p)
    PROVE  /\ loop' \in [Payer -> 1..5]
           /\ idx' \in [Payer -> Nat \ {0}]
           /\ \A q \in Payer : idx'[q] <= Len(instructions[q])
           /\ \A q \in Payer \ {p} : loop'[q] = loop[q]
  <1>1. /\ Len(instructions[p]) \in Nat \ {0}
        /\ idx[p] \in Nat \ {0} /\ loop[p] \in 1..5
    BY MethodLengths DEF PayTypeOK
  <1>2. /\ idx \in [Payer -> Nat \ {0}] /\ loop \in [Payer -> 1..5]
        /\ \A q \in Payer : idx[q] <= Len(instructions[q])
    BY DEF PayTypeOK
  <1>3. PICK i \in 1..Len(instructions[p]), k \in 1..5 :
           idx' = [idx EXCEPT ![p] = i] /\ loop' = [loop EXCEPT ![p] = k]
    <2>1. CASE idx[p] < Len(instructions[p])
      <3>1. idx[p] + 1 \in 1..Len(instructions[p])
        BY <1>1, <2>1
      <3>2. loop' = [loop EXCEPT ![p] = loop[p]]
        BY <1>2, <2>1 DEF NextMethod
      <3> QED BY <1>1, <2>1, <3>1, <3>2 DEF NextMethod
    <2>2. CASE ~(idx[p] < Len(instructions[p]))
      <3>1. loop[p] + 1 \in 1..5 /\ 1 \in 1..Len(instructions[p])
        BY <1>1
      <3> QED BY <2>2, <3>1 DEF NextMethod
    <2> QED BY <2>1, <2>2
  <1>4. i \in Nat \ {0} /\ i <= Len(instructions[p])
    BY <1>1
  <1>5. idx' \in [Payer -> Nat \ {0}] /\ loop' \in [Payer -> 1..5]
    BY <1>2, <1>3, <1>4
  <1>6. \A q \in Payer : idx'[q] <= Len(instructions[q])
    BY <1>2, <1>3, <1>4
  <1> QED BY <1>2, <1>3, <1>5, <1>6

\* A call of pay that leaves the tasks, the node and the metadata alone.
LEMMA PayFrame ==
    ASSUME TypeOK, SparkTypeOK', PayTypeOK',
           UNCHANGED <<lightningVars, tx_metadata, payRest>>,
           UNCHANGED <<monitorVars, crashes>>
    PROVE  TypeOK'
  BY DEF TypeOK, LightningTypeOK, MetadataTypeOK, RebalanceTypeOK, MonitorTypeOK,
         lightningVars, payRest, localVars, monitorVars

\* The steps of a rebalance.
LEMMA RebalanceType ==
    ASSUME TypeOK, NEW t \in Task, LockStep(t) \/ HoldingStep(t)
    PROVE  TypeOK'
  <1>0. UNCHANGED <<monitorVars, payVars, crashes>>
    BY DEF LockStep, HoldingStep
  <1>1. CASE Check(t)
    <2>1. get_balance_amt(inbound, balance) \in Nat
      BY BalanceAmountType DEF TypeOK, SparkTypeOK, LightningTypeOK
    <2>2. /\ pc[t] = "check"
          /\ \E s \in {"invoice", AfterRebalance(t)} : pc' = [pc EXCEPT ![t] = s]
          /\ mutex' \in {mutex, NoTask}
          /\ \E n \in Nat : amount' \in {amount, [amount EXCEPT ![t] = n]}
          /\ UNCHANGED <<walletVars, trigger, invoice, rebalance, orphaned>>
      BY <1>1, <2>1 DEF Check, Goto, Return
    <2>3. UNCHANGED <<sparkVars, lightningVars, tx_metadata>>
      BY <2>2 DEF walletVars
    <2>4. SparkTypeOK' /\ LightningTypeOK' /\ MetadataTypeOK' /\ PayTypeOK' /\ crashes' \in Nat
      BY <1>0, <2>3 DEF TypeOK, SparkTypeOK, LightningTypeOK, MetadataTypeOK,
                        PayTypeOK, sparkVars, lightningVars, payVars
    <2>5. pc' \in [Task -> MonitorPc \cup RebalancePc \cup {"none", "finished", "panicked"}]
      BY <2>2 DEF TypeOK, MonitorPc, RebalancePc, AfterRebalance
    <2>6. RebalanceTypeOK'
      BY <2>2, IdFacts
      DEF TypeOK, RebalanceTypeOK, AfterRebalance, RebalancePc, LockedPc, LegPc
    <2>7. MonitorTypeOK'
      BY <1>0, <2>2, IdFacts DEF TypeOK, MonitorTypeOK, AfterRebalance, monitorVars
    <2> QED BY <2>4, <2>5, <2>6, <2>7 DEF TypeOK
  <1>2. CASE Poll(t)
    <2>1. /\ pc[t] = "poll"
          /\ \E s \in {"mark", "subscribe", AfterRebalance(t)} : pc' = [pc EXCEPT ![t] = s]
          /\ mutex' \in {mutex, NoTask}
          /\ UNCHANGED <<walletVars, trigger, localVars, orphaned>>
      BY <1>2 DEF Poll, Goto, Return
    <2>2. SparkTypeOK' /\ LightningTypeOK' /\ MetadataTypeOK' /\ PayTypeOK' /\ crashes' \in Nat
      BY <1>0, <2>1 DEF TypeOK, SparkTypeOK, LightningTypeOK, MetadataTypeOK,
                        PayTypeOK, walletVars, sparkVars, lightningVars, payVars
    <2>3. pc' \in [Task -> MonitorPc \cup RebalancePc \cup {"none", "finished", "panicked"}]
      BY <2>1 DEF TypeOK, MonitorPc, RebalancePc, AfterRebalance
    <2>4. RebalanceTypeOK'
      BY <2>1, IdFacts
      DEF TypeOK, RebalanceTypeOK, AfterRebalance, RebalancePc, LockedPc, LegPc, localVars
    <2>5. MonitorTypeOK'
      BY <1>0, <2>1, IdFacts DEF TypeOK, MonitorTypeOK, AfterRebalance, monitorVars
    <2> QED BY <2>2, <2>3, <2>4, <2>5 DEF TypeOK
  <1>3. CASE MarkPanics(t)
    <2>1. LegOf(t) \in Leg
      BY <1>3 DEF MarkPanics, LegOf, Leg, TypeOK, RebalanceTypeOK,
                  RebalancePc, LockedPc, LegPc
    <2>2. /\ pc' = [pc EXCEPT ![t] = "panicked"]
          /\ mutex' = NoTask
          /\ orphaned' = orphaned \cup {LegOf(t)}
          /\ UNCHANGED <<sparkVars, lightningVars, tx_metadata, trigger, localVars>>
      BY <1>3 DEF MarkPanics, Goto, set_tx_caused_rebalance_fails
    <2>3. SparkTypeOK' /\ LightningTypeOK' /\ MetadataTypeOK' /\ PayTypeOK' /\ crashes' \in Nat
      BY <1>0, <2>2 DEF TypeOK, SparkTypeOK, LightningTypeOK, MetadataTypeOK,
                        PayTypeOK, sparkVars, lightningVars, payVars
    <2>4. pc' \in [Task -> MonitorPc \cup RebalancePc \cup {"none", "finished", "panicked"}]
      BY <2>2 DEF TypeOK
    <2>5. RebalanceTypeOK'
      BY <2>1, <2>2, IdFacts
      DEF TypeOK, RebalanceTypeOK, RebalancePc, LockedPc, LegPc, localVars
    <2>6. MonitorTypeOK'
      BY <1>0, <2>2 DEF TypeOK, MonitorTypeOK, monitorVars
    <2> QED BY <2>3, <2>4, <2>5, <2>6 DEF TypeOK
  <1> USE <1>0, IdFacts
      DEF TypeOK, SparkTypeOK, LightningTypeOK, MetadataTypeOK,
          RebalanceTypeOK, MonitorTypeOK, PayTypeOK,
          RebalancePc, LockedPc, LegPc, MonitorPc,
          sparkVars, lightningVars, nodeVars, walletVars, localVars,
          monitorVars, payVars, Goto
  <1>4. CASE Lock(t)
    BY <1>4 DEF Lock
  <1>5. CASE GetInvoice(t)
    BY <1>5 DEF GetInvoice, OwnInvoiceIds, UnusedLnIds, LnInvoice, LnPayment
  <1>6. CASE GetInvoiceFails(t)
    BY <1>6 DEF GetInvoiceFails, Return, AfterRebalance
  <1>7. CASE CustodialPay(t)
    <2>1. invoice[t] \in LnId /\ lnPay[invoice[t]].amount \in Nat
      BY <1>7 DEF CustodialPay, LnPayment
    <2>2. PICK c \in UnusedCustIds :
             /\ SparkPay(c, invoice[t], lnPay[invoice[t]].amount)
             /\ rebalance' = [rebalance EXCEPT ![t] = c]
      BY <1>7 DEF CustodialPay
    <2>3. c \in CustId
      BY DEF UnusedCustIds
    <2>4. SparkTypeOK'
      BY <2>1, <2>2, <2>3, SparkPayType
    <2> QED BY <1>7, <2>2, <2>3, <2>4 DEF CustodialPay
  <1>8. CASE CustodialPayFails(t)
    BY <1>8 DEF CustodialPayFails, SparkPayFails, Return, AfterRebalance
  <1>9. CASE Subscribe(t)
    BY <1>9 DEF Subscribe, CloneReceiver
  <1>10. CASE Wake(t)
    BY <1>10 DEF Wake, ReceiptSeen
  <1>11. CASE Mark(t)
    BY <1>11 DEF Mark, set_tx_caused_rebalance, do_set, Plain, TxMetadata
  <1>12. CASE InsertCustodial(t)
    BY <1>12 DEF InsertCustodial, RebalanceMetadata, TransferToNonCustodial,
                 do_set, TxMetadata
  <1>13. CASE InsertLightning(t)
    BY <1>13 DEF InsertLightning, RebalanceMetadata, TransferToNonCustodial,
                 do_set, TxMetadata, Return, AfterRebalance
  <1> QED
    BY <1>1, <1>2, <1>3, <1>4, <1>5, <1>6, <1>7, <1>8, <1>9, <1>10, <1>11,
       <1>12, <1>13 DEF LockStep, HoldingStep, Holding

\* The steps of the monitor's loop.
LEMMA MonitorType ==
    ASSUME TypeOK, MonitorLoop
    PROVE  TypeOK'
  <1>0. UNCHANGED <<payVars, crashes>>
    BY DEF MonitorLoop
  <1>1. CASE Scan
    <2>1. PICK c \in todo :
             /\ todo' = todo \ {c}
             /\ \/ /\ old_txn' \subseteq old_txn \cup {c}
                   /\ UNCHANGED <<pc, current>>
                \/ /\ current' = c
                   /\ pc' = [pc EXCEPT ![Monitor] = "insert"]
                   /\ UNCHANGED old_txn
      BY <1>1 DEF Scan, Goto
    <2>2. UNCHANGED <<sparkVars, lightningVars, tx_metadata, mutex, trigger,
                      localVars, orphaned, new_txn>>
      BY <1>1 DEF Scan, monitorRest
    <2>3. SparkTypeOK' /\ LightningTypeOK' /\ MetadataTypeOK' /\ PayTypeOK' /\ crashes' \in Nat
      BY <1>0, <2>2 DEF TypeOK, SparkTypeOK, LightningTypeOK, MetadataTypeOK,
                        PayTypeOK, sparkVars, lightningVars, payVars
    <2>4. pc' \in [Task -> MonitorPc \cup RebalancePc \cup {"none", "finished", "panicked"}]
      BY <2>1 DEF TypeOK, MonitorPc
    <2>5. RebalanceTypeOK'
      BY <2>1, <2>2 DEF TypeOK, RebalanceTypeOK, RebalancePc, LockedPc, LegPc, localVars
    <2>6. MonitorTypeOK'
      BY <2>1, <2>2, IdFacts DEF TypeOK, MonitorTypeOK
    <2> QED BY <2>3, <2>4, <2>5, <2>6 DEF TypeOK
  <1>2. CASE SyncClaim
    <2>1. PICK c \in CustId : SparkClaim(c)
      BY <1>2 DEF SyncClaim
    <2>2. SparkTypeOK'
      BY <2>1, ClaimType DEF TypeOK
    <2>3. UNCHANGED <<lightningVars, tx_metadata, pc, mutex, trigger, localVars,
                      orphaned, monitorVars>>
      BY <1>2 DEF SyncClaim, monitorRest
    <2> QED
      BY <1>0, <2>2, <2>3
      DEF TypeOK, LightningTypeOK, MetadataTypeOK, RebalanceTypeOK, MonitorTypeOK,
          PayTypeOK, lightningVars, localVars, monitorVars, payVars
  <1> USE <1>0, IdFacts
      DEF TypeOK, SparkTypeOK, LightningTypeOK, MetadataTypeOK,
          RebalanceTypeOK, MonitorTypeOK, PayTypeOK,
          RebalancePc, LockedPc, LegPc, MonitorPc,
          sparkVars, lightningVars, nodeVars, walletVars, localVars,
          monitorVars, payVars, monitorRest, Goto
  <1>3. CASE List
    BY <1>3 DEF List, ListedInbound
  <1>4. CASE ListFails
    BY <1>4 DEF ListFails
  <1>5. CASE InsertIncoming
    BY <1>5 DEF InsertIncoming, do_set, Plain, TxMetadata
  <1>6. CASE ScanDone
    BY <1>6 DEF ScanDone
  <1>7. CASE DecideNot
    BY <1>7 DEF DecideNot
  <1>8. CASE DecideRebalance
    BY <1>8 DEF DecideRebalance, Victims
  <1>9. CASE DecidePanics
    BY <1>9 DEF DecidePanics
  <1>10. CASE SyncDone
    BY <1>10 DEF SyncDone
  <1> QED
    BY <1>1, <1>2, <1>3, <1>4, <1>5, <1>6, <1>7, <1>8, <1>9, <1>10
    DEF MonitorLoop, MonitorStep

\* The steps of a call of pay.
LEMMA PayType ==
    ASSUME TypeOK, NEW p \in Payer, PayStep(p)
    PROVE  TypeOK'
  <1>0. UNCHANGED <<monitorVars, crashes>>
    BY DEF PayStep
  <1>1. CASE PaySkip(p)
    <2>1. /\ loop[p] <= 4 /\ NextMethod(p)
          /\ payPc[p] = "attempt"
          /\ UNCHANGED <<payPc, snapshot, sent>>
          /\ UNCHANGED <<sparkVars, lightningVars, tx_metadata, payRest>>
      BY <1>1 DEF PaySkip, walletVars
    <2>2. PayTypeOK'
      BY <2>1, NextMethodType DEF TypeOK, PayTypeOK
    <2> QED BY <1>0, <2>1, <2>2, PayFrame DEF TypeOK, SparkTypeOK, sparkVars
  <1>2. CASE PaySendCustodial(p)
    <2>1. PICK c \in UnusedCustIds, s \in MethodOf(p).amount :
             /\ SparkPay(c, NoId, s)
             /\ sent' = [sent EXCEPT ![p] = c]
      BY <1>2 DEF PaySendCustodial
    <2>2. /\ payPc' = [payPc EXCEPT ![p] = "record"]
          /\ UNCHANGED <<snapshot, loop, idx>>
          /\ UNCHANGED <<lightningVars, tx_metadata, payRest>>
      BY <1>2 DEF PaySendCustodial, PayGoto
    <2>3. c \in CustId /\ c \in PaymentId
      BY IdFacts DEF UnusedCustIds
    <2>4. s \in Nat
      <3>1. MethodOf(p) \in Method
        BY MethodInRange DEF TypeOK
      <3> QED BY <3>1 DEF Method, Asked
    <2>5. SparkTypeOK'
      BY <2>1, <2>3, <2>4, SparkPayType DEF TypeOK
    <2>6. PayTypeOK'
      BY <2>1, <2>2, <2>3 DEF TypeOK, PayTypeOK, PayPc
    <2> QED BY <1>0, <2>2, <2>5, <2>6, PayFrame
  <1>3. CASE PaySendLightning(p)
    <2>1. PICK l \in LnIdsOf(MethodOf(p)) :
             /\ LnSend(l, MethodOf(p).type, MethodOf(p).amount, pay_amount[p])
             /\ sent' = [sent EXCEPT ![p] = l]
      BY <1>3 DEF PaySendLightning
    <2>2. /\ payPc' = [payPc EXCEPT ![p] = "record"]
          /\ UNCHANGED <<snapshot, loop, idx>>
          /\ UNCHANGED <<sparkVars, tx_metadata, payRest>>
      BY <1>3 DEF PaySendLightning, PayGoto
    <2>3. MethodOf(p) \in Method
      BY MethodInRange DEF TypeOK
    <2>4. l \in LnId
      BY <2>3, IdFacts DEF LnIdsOf, OwnInvoiceIds, UnusedLnIds, Method
    <2>5. MethodOf(p).type \in {"Bolt11", "Bolt12", "OnChain"}
      BY <2>3 DEF Method
    <2>6. LightningTypeOK'
      BY <2>1, <2>4, <2>5, LnSendType, PayAssumption DEF TypeOK
    <2>7. PayTypeOK'
      BY <2>1, <2>2, <2>4, IdFacts DEF TypeOK, PayTypeOK, PayPc
    <2>8. SparkTypeOK'
      BY <2>2 DEF TypeOK, SparkTypeOK, sparkVars
    <2> QED
      BY <1>0, <2>2, <2>6, <2>7, <2>8
      DEF TypeOK, MetadataTypeOK, RebalanceTypeOK, MonitorTypeOK, payRest,
          localVars, monitorVars
  <1>4. CASE PaySendFails(p)
    <2>1. /\ payPc[p] = "send"
          /\ payPc' = [payPc EXCEPT ![p] = "attempt"]
          /\ NextMethod(p)
          /\ UNCHANGED <<snapshot, sent>>
          /\ UNCHANGED <<sparkVars, lightningVars, tx_metadata, payRest>>
      BY <1>4 DEF PaySendFails, SparkPayFails, PayGoto
    <2>2. loop[p] <= 4
      BY <2>1 DEF TypeOK, PayTypeOK
    <2>3. PayTypeOK'
      BY <2>1, <2>2, NextMethodType DEF TypeOK, PayTypeOK, PayPc
    <2> QED BY <1>0, <2>1, <2>3, PayFrame DEF TypeOK, SparkTypeOK, sparkVars
  <1> USE <1>0, IdFacts
      DEF TypeOK, SparkTypeOK, LightningTypeOK, MetadataTypeOK,
          RebalanceTypeOK, MonitorTypeOK, PayTypeOK,
          RebalancePc, LockedPc, LegPc, MonitorPc, PayPc,
          sparkVars, lightningVars, nodeVars, walletVars, localVars,
          monitorVars, payVars, payRest, Goto, PayGoto
  <1>5. CASE PayStart(p)
    BY <1>5 DEF PayStart
  <1>6. CASE PayEstimate(p)
    BY <1>6 DEF PayEstimate
  <1>7. CASE PayRecordCustodial(p)
    BY <1>7 DEF PayRecordCustodial, do_set, Plain, TxMetadata
  <1>8. CASE PayRecordLightning(p)
    BY <1>8 DEF PayRecordLightning, do_set, Plain, TxMetadata
  <1>9. CASE PayGivesUp(p)
    BY <1>9 DEF PayGivesUp
  <1> QED
    BY <1>1, <1>2, <1>3, <1>4, <1>5, <1>6, <1>7, <1>8, <1>9 DEF PayStep, Pay

\* The steps of the world around the wallet.
LEMMA EnvironmentType ==
    ASSUME TypeOK, EventTask \/ Network \/ CrashAndRestart
    PROVE  TypeOK'
  <1>1. ASSUME SparkTypeOK', LightningTypeOK', UNCHANGED taskVars
        PROVE  TypeOK'
    BY <1>1 DEF TypeOK, MetadataTypeOK, RebalanceTypeOK, MonitorTypeOK, PayTypeOK,
                taskVars, rebalanceVars, localVars, monitorVars, payVars
  <1>2. ASSUME UNCHANGED sparkVars
        PROVE  SparkTypeOK'
    BY <1>2 DEF TypeOK, SparkTypeOK, sparkVars
  <1>3. ASSUME UNCHANGED lightningVars
        PROVE  LightningTypeOK'
    BY <1>3 DEF TypeOK, LightningTypeOK, lightningVars
  <1>4. CASE EventTask
    <2>1. LightningTypeOK'
      BY <1>4 DEF EventTask, HandleEvent, TypeOK, LightningTypeOK, nodeVars
    <2> QED BY <1>1, <1>2, <1>4, <2>1 DEF EventTask
  <1>5. CASE Deposit
    <2>1. SparkTypeOK'
      BY <1>5, WalletAssumption, IdFacts
      DEF Deposit, SparkDeposit, Transfer, TypeOK, SparkTypeOK
    <2> QED BY <1>1, <1>3, <1>5, <2>1 DEF Deposit
  <1>6. ASSUME NEW c \in CustId, Delivered(c)
        PROVE  TypeOK'
    <2>1. SparkTypeOK' /\ transfer[c].dest \in LnId \cup {NoId}
      BY <1>6, SettleType DEF Delivered, TypeOK
    <2>2. CASE transfer[c].dest = NoId
      BY <1>1, <1>3, <1>6, <2>1, <2>2 DEF Delivered
    <2>3. CASE transfer[c].dest # NoId
      <3>1. LightningTypeOK'
        BY <1>6, <2>1, <2>3, LnReceiveType DEF Delivered, TypeOK
      <3> QED BY <1>1, <1>6, <2>1, <3>1 DEF Delivered
    <2> QED BY <2>2, <2>3
  <1>7. ASSUME NEW c \in CustId, Undelivered(c)
        PROVE  TypeOK'
    <2>1. SparkTypeOK' /\ transfer[c].dest \in LnId \cup {NoId}
      BY <1>7, SettleType DEF Undelivered, TypeOK
    <2>2. CASE UNCHANGED lightningVars
      BY <1>1, <1>3, <1>7, <2>1, <2>2 DEF Undelivered
    <2>3. CASE transfer[c].dest # NoId /\ LnReceiveFails(transfer[c].dest)
      <3>1. LightningTypeOK'
        BY <2>1, <2>3, LnReceiveFailsType DEF TypeOK
      <3> QED BY <1>1, <1>7, <2>1, <3>1 DEF Undelivered
    <2> QED BY <1>7, <2>2, <2>3 DEF Undelivered
  <1>8. ASSUME NEW l \in LnId, LightningSent(l)
        PROVE  TypeOK'
    BY <1>1, <1>2, <1>8, LnSentType DEF LightningSent, TypeOK
  <1>9. ASSUME NEW l \in LnId, LightningSendFails(l)
        PROVE  TypeOK'
    BY <1>1, <1>2, <1>9, LnSendFailsType DEF LightningSendFails, TypeOK
  <1>10. CASE OtherLightningReceipt
    <2>1. LightningTypeOK'
      BY <1>10 DEF OtherLightningReceipt, OtherReceipt, TypeOK, LightningTypeOK, nodeVars
    <2> QED BY <1>1, <1>2, <1>10, <2>1 DEF OtherLightningReceipt
  <1>11. CASE CrashAndRestart
    BY <1>11, IdFacts
    DEF CrashAndRestart, LegOf, Leg, TypeOK, SparkTypeOK, LightningTypeOK,
        MetadataTypeOK, RebalanceTypeOK, MonitorTypeOK, PayTypeOK,
        RebalancePc, LockedPc, LegPc, MonitorPc, PayPc, sparkVars, nodeVars, localVars
  <1> QED
    BY <1>4, <1>5, <1>6, <1>7, <1>8, <1>9, <1>10, <1>11 DEF Network

LEMMA StepType == TypeOK /\ [Next]_vars => TypeOK'
  <1> SUFFICES ASSUME TypeOK, [Next]_vars PROVE TypeOK'
    OBVIOUS
  <1>1. CASE UNCHANGED vars
    BY <1>1 DEF vars, taskVars, rebalanceVars, localVars, monitorVars, payVars,
                sparkVars, lightningVars, TypeOK, SparkTypeOK, LightningTypeOK,
                MetadataTypeOK, RebalanceTypeOK, MonitorTypeOK, PayTypeOK
  <1>2. CASE Next
    BY <1>2, RebalanceType, MonitorType, PayType, EnvironmentType DEF Next
  <1> QED BY <1>1, <1>2

\* TypeOK, for every instance: in particular no task is ever at a line whose
\* trigger, invoice or payment id it has not got (Rebalance), the monitor never
\* inserts metadata for nothing (MonitorTask), and the loops of pay stay within
\* the methods (PayCall).
THEOREM WalletTypeOK == Spec => []TypeOK
  BY InitType, StepType, PTL DEF Spec

-----------------------------------------------------------------------------
(* The inductive invariant.                                                *)

LEMMA PcFacts ==
    /\ LockedPc = {"check", "invoice", "custpay", "poll", "subscribe", "wait",
                   "mark", "insertC", "insertL"}
    /\ LegPc = {"poll", "subscribe", "wait", "mark", "insertC", "insertL"}
  BY DEF RebalancePc, LockedPc, LegPc

\* What the types say that the steps below use.
LEMMA Shapes ==
    ASSUME TypeOK
    PROVE  /\ \A t \in Task : pc[t] \in LegPc \cup {"custpay"} => invoice[t] \in LnId
           /\ \A t \in Task : pc[t] \in LegPc => rebalance[t] \in CustId
           /\ \A t \in Task : pc[t] \in LegPc =>
                 trigger[t] \in PaymentId
           /\ \A c \in CustId : transfer[c].dest \in LnId \cup {NoId}
           /\ pc \in [Task -> MonitorPc \cup RebalancePc \cup {"none", "finished", "panicked"}]
           /\ tx_metadata = [k \in PaymentId |-> tx_metadata[k]]
           /\ transfer = [c \in CustId |-> transfer[c]]
           /\ lnPay = [l \in LnId |-> lnPay[l]]
           /\ invoice = [t \in Task |-> invoice[t]]
           /\ rebalance = [t \in Task |-> rebalance[t]]
           /\ sent = [p \in Payer |-> sent[p]]
           /\ payPc = [p \in Payer |-> payPc[p]]
  <1>1. \A t \in Task : /\ pc[t] \in LegPc \cup {"custpay"} => invoice[t] \in LnId
                        /\ pc[t] \in LegPc => rebalance[t] \in CustId
                        /\ pc[t] \in LegPc => trigger[t] \in PaymentId
    BY DEF TypeOK, RebalanceTypeOK, LegPc, LockedPc
  <1>2. \A c \in CustId : transfer[c] \in Transfer
    BY DEF TypeOK, SparkTypeOK
  <1>3. \A c \in CustId : transfer[c].dest \in LnId \cup {NoId}
    BY <1>2 DEF Transfer
  <1> QED
    BY <1>1, <1>3 DEF TypeOK, SparkTypeOK, LightningTypeOK, MetadataTypeOK,
                      RebalanceTypeOK, PayTypeOK

LEMMA InitSafety == Init => SafetyInv
  <1> SUFFICES ASSUME Init PROVE SafetyInv
    OBVIOUS
  <1> USE IdFacts, PcFacts DEF Init
  <1>1. \A t \in Task : pc[t] \in {"list", "none"}
    OBVIOUS
  <1>2. \A c \in CustId : transfer[c].dir = "unused"
    BY DEF SparkInit, UnusedTransfer
  <1>3. \A l \in LnId : lnPay[l].dir = "unused"
    BY DEF LightningInit, UnusedPayment
  <1>4. \A k \in PaymentId : ~Has(k)
    BY DEF MetadataInit, Plain, Has
  <1>5. \A p \in Payer : sent[p] = NoId
    BY DEF PayInit
  <1>6. MutexHeld /\ InvoiceNotPaid /\ LegHeld /\ CurrentIsNew
    BY <1>1 DEF MutexHeld, InvoiceNotPaid, LegHeld, CurrentIsNew
  <1>7. SpawnedByOk
    BY DEF SpawnedByOk
  <1>8. UnusedIdsHaveNoMetadata
    BY <1>4 DEF UnusedIdsHaveNoMetadata
  <1>9. OneTransferPerInvoice
    BY <1>2 DEF OneTransferPerInvoice, ToInvoice
  <1>10. SentHeld
    BY <1>5 DEF SentHeld
  <1>11. OneInFlight /\ ReceivedTransfersAccounted
    BY <1>2, <1>3 DEF OneInFlight, ReceivedTransfersAccounted
  <1> QED
    BY <1>6, <1>7, <1>8, <1>9, <1>10, <1>11 DEF SafetyInv

-----------------------------------------------------------------------------
(* Two shapes of steps that most actions have.                             *)

\* A task moves without taking, paying or ending a transfer: nothing that
\* SafetyInv relates changes, but for the place the task is at and the mutex.
LEMMA QuietStep ==
    ASSUME TypeOK, SafetyInv, NEW t \in Task, NEW s,
           UNCHANGED <<transfer, lnPay, tx_metadata, invoice, rebalance, orphaned, sent>>,
           pc' = [pc EXCEPT ![t] = s],
           \/ pc[t] \notin LegPc /\ s \notin LegPc \cup {"custpay"}
           \/ pc[t] \in {"poll", "subscribe", "wait"} /\ s \in {"poll", "subscribe", "wait"},
           \/ mutex' = mutex /\ (s \in LockedPc => pc[t] \in LockedPc)
           \/ mutex = NoTask /\ mutex' = t
           \/ pc[t] \in LockedPc /\ s \notin LockedPc /\ mutex' = NoTask,
           \A p \in Payer : payPc'[p] = "record" => payPc[p] = "record",
           SpawnedByOk', CurrentIsNew'
    PROVE  SafetyInv'
  <1> USE IdFacts, PcFacts, Shapes DEF SafetyInv
  <1>1. MutexHeld'
    BY DEF MutexHeld
  <1>2. UnusedIdsHaveNoMetadata' /\ OneTransferPerInvoice'
    BY DEF UnusedIdsHaveNoMetadata, OneTransferPerInvoice, ToInvoice, Has
  <1>3. InvoiceNotPaid'
    BY DEF InvoiceNotPaid, ToInvoice, Has
  <1>4. LegHeld'
    BY DEF LegHeld, Has
  <1>5. SentHeld'
    BY DEF SentHeld, Has
  <1>6. OneInFlight'
    BY DEF OneInFlight, MutexHeld
  <1>7. ReceivedTransfersAccounted'
    BY DEF ReceivedTransfersAccounted
  <1> QED BY <1>1, <1>2, <1>3, <1>4, <1>5, <1>6, <1>7

\* The services move on: custodial transfers keep their directions and
\* destinations, and an inbound lightning payment only changes its status with
\* the transfer that pays for it.
LEMMA SettlingStep ==
    ASSUME TypeOK, SafetyInv,
           UNCHANGED <<pc, mutex, invoice, rebalance, orphaned, tx_metadata, current>>,
           UNCHANGED <<payPc, sent>>,
           \A c \in CustId \ DepositId :
              transfer'[c].dir = transfer[c].dir /\ transfer'[c].dest = transfer[c].dest,
           \A c \in CustId : ToInvoice(c)' =>
              /\ ToInvoice(c)
              /\ transfer'[c].dest = transfer[c].dest
              /\ transfer'[c].status = "Pending" => transfer[c].status = "Pending",
           \A l \in LnId : lnPay'[l].dir = lnPay[l].dir,
           \A l \in LnId : lnPay[l].dir = "in" =>
              \/ lnPay'[l].status = lnPay[l].status
              \/ /\ lnPay[l].status = "Pending"
                 /\ \E c \in CustId : /\ ToInvoice(c) /\ transfer[c].dest = l
                                      /\ transfer[c].status = "Pending"
                                      /\ transfer'[c].status # "Pending"
    PROVE  SafetyInv'
  <1> USE IdFacts, PcFacts, Shapes DEF SafetyInv
  <1>1. MutexHeld' /\ SpawnedByOk' /\ CurrentIsNew'
    BY DEF MutexHeld, SpawnedByOk, CurrentIsNew, Has
  <1>2. UnusedIdsHaveNoMetadata'
    BY DEF UnusedIdsHaveNoMetadata, Has
  <1>3. OneTransferPerInvoice'
    <2>1. \A c \in CustId : ToInvoice(c) => transfer[c].dest \in LnId
      BY DEF ToInvoice
    <2>2. ASSUME NEW c \in CustId, ToInvoice(c)'
          PROVE  /\ lnPay'[transfer'[c].dest].dir = "in"
                 /\ transfer'[c].status = "Pending" => lnPay'[transfer'[c].dest].status = "Pending"
      BY <2>1, <2>2 DEF OneTransferPerInvoice
    <2> QED BY <2>2 DEF OneTransferPerInvoice
  <1>4. InvoiceNotPaid'
    <2> SUFFICES ASSUME NEW t \in Task, pc[t] = "custpay"
                 PROVE  /\ lnPay'[invoice[t]].dir = "in"
                        /\ lnPay'[invoice[t]].status = "Pending"
                        /\ ~Has(invoice[t])'
                        /\ \A c \in CustId : ToInvoice(c)' => transfer'[c].dest # invoice[t]
      BY DEF InvoiceNotPaid
    <2> QED BY DEF InvoiceNotPaid, Has
  <1>5. LegHeld'
    <2> SUFFICES ASSUME NEW t \in Task, pc[t] \in LegPc
                 PROVE  /\ rebalance[t] \notin DepositId
                        /\ transfer'[rebalance[t]].dir = "out"
                        /\ transfer'[rebalance[t]].dest = invoice[t]
                        /\ ~Has(invoice[t])'
                        /\ pc[t] # "insertL" => ~Has(rebalance[t])'
                        /\ pc[t] \in {"mark", "insertC", "insertL"} =>
                              lnPay'[invoice[t]].status = "Succeeded"
      BY DEF LegHeld
    <2>1. /\ rebalance[t] \in CustId \ DepositId /\ invoice[t] \in LnId
          /\ ToInvoice(rebalance[t]) /\ transfer[rebalance[t]].dest = invoice[t]
      BY DEF LegHeld, ToInvoice
    <2>2. lnPay[invoice[t]].dir = "in"
      BY <2>1 DEF OneTransferPerInvoice
    <2> QED BY <2>1, <2>2 DEF LegHeld, Has
  <1>6. SentHeld'
    BY DEF SentHeld, Has
  <1>7. OneInFlight'
    BY DEF OneInFlight, ToInvoice
  <1>8. ReceivedTransfersAccounted'
    <2> SUFFICES ASSUME NEW l \in LnId, lnPay[l].dir = "in", lnPay'[l].status = "Succeeded"
                 PROVE  \/ tx_metadata[l].ty = "Transfer"
                        \/ \E t \in Task : pc[t] \in LegPc /\ invoice[t] = l
                        \/ \E leg \in orphaned : leg.invoice = l
      BY DEF ReceivedTransfersAccounted
    <2>1. CASE lnPay[l].status = "Succeeded"
      BY <2>1 DEF ReceivedTransfersAccounted
    <2>2. CASE lnPay[l].status # "Succeeded"
      BY <2>2 DEF OneInFlight, ToInvoice
    <2> QED BY <2>1, <2>2
  <1> QED BY <1>1, <1>2, <1>3, <1>4, <1>5, <1>6, <1>7, <1>8

-----------------------------------------------------------------------------
(* The steps of a rebalance.                                               *)

LEMMA QuietRebalance ==
    ASSUME TypeOK, SafetyInv, NEW t \in Task,
           \/ Lock(t) \/ Check(t) \/ GetInvoiceFails(t) \/ CustodialPayFails(t)
           \/ Subscribe(t) \/ Wake(t),
           UNCHANGED <<monitorVars, payVars>>
    PROVE  SafetyInv'
  <1>1. PICK s : /\ pc' = [pc EXCEPT ![t] = s]
                 /\ \/ pc[t] = "lock" /\ s = "check" /\ mutex = NoTask /\ mutex' = t
                    \/ /\ pc[t] = "check" /\ s = "invoice"
                       /\ mutex' = mutex
                    \/ /\ pc[t] \in {"check", "invoice", "custpay"}
                       /\ s = AfterRebalance(t) /\ mutex' = NoTask
                    \/ /\ pc[t] \in {"poll", "subscribe", "wait"}
                       /\ s \in {"poll", "subscribe", "wait"}
                       /\ mutex' = mutex
    BY DEF Lock, Check, GetInvoiceFails, CustodialPayFails, Subscribe, Wake, Goto, Return
  <1>2. UNCHANGED <<transfer, lnPay, tx_metadata, invoice, rebalance, orphaned, sent,
                    payPc, current>>
    BY DEF Lock, Check, GetInvoiceFails, CustodialPayFails, SparkPayFails, Subscribe, Wake,
           CloneReceiver, ReceiptSeen, walletVars, sparkVars, lightningVars, nodeVars,
           localVars, payVars, monitorVars
  <1>3. pc[t] # "none" /\ s # "insert"
    BY <1>1 DEF AfterRebalance
  <1>4. SpawnedByOk'
    BY <1>1, <1>2, <1>3, IdFacts, Shapes DEF SafetyInv, SpawnedByOk
  <1>5. CurrentIsNew'
    BY <1>1, <1>2, <1>3, IdFacts, Shapes DEF SafetyInv, CurrentIsNew, Has
  <1>6. s \notin LegPc \cup {"custpay"} \/ s \in {"poll", "subscribe", "wait"}
    BY <1>1, PcFacts DEF AfterRebalance
  <1>7. s = AfterRebalance(t) => s \notin LockedPc
    BY PcFacts DEF AfterRebalance
  <1> QED
    BY <1>1, <1>2, <1>4, <1>5, <1>6, <1>7, PcFacts, QuietStep

\* An invoice nobody has used.
LEMMA GetInvoiceSafety ==
    ASSUME TypeOK, SafetyInv, NEW t \in Task, GetInvoice(t),
           UNCHANGED <<monitorVars, payVars>>
    PROVE  SafetyInv'
  <1>0. PICK l \in OwnInvoiceIds :
           LnInvoice(l, amount[t]) /\ invoice' = [invoice EXCEPT ![t] = l]
    BY DEF GetInvoice
  <1>1. /\ l \in LnId
        /\ lnPay[l].dir = "unused"
        /\ invoice' = [invoice EXCEPT ![t] = l]
        /\ lnPay'[l].dir = "in" /\ lnPay'[l].status = "Pending"
        /\ \A m \in LnId \ {l} : lnPay'[m] = lnPay[m]
    BY <1>0, Shapes DEF LnInvoice, OwnInvoiceIds, UnusedLnIds
  <1>2. /\ pc[t] = "invoice"
        /\ pc' = [pc EXCEPT ![t] = "custpay"]
        /\ UNCHANGED <<transfer, tx_metadata, mutex, rebalance, orphaned, payPc, sent, current>>
    BY DEF GetInvoice, Goto, sparkVars, payVars, monitorVars
  <1> USE <1>2, IdFacts, PcFacts, Shapes DEF SafetyInv
  <1>3. ~Has(l) /\ \A c \in CustId : ToInvoice(c) => transfer[c].dest # l
    BY <1>1 DEF UnusedIdsHaveNoMetadata, OneTransferPerInvoice
  <1>4. MutexHeld' /\ SpawnedByOk' /\ CurrentIsNew'
    BY DEF MutexHeld, SpawnedByOk, CurrentIsNew, Has
  <1>5. UnusedIdsHaveNoMetadata'
    BY <1>1 DEF UnusedIdsHaveNoMetadata, Has
  <1>6. OneTransferPerInvoice'
    BY <1>1, <1>3 DEF OneTransferPerInvoice, ToInvoice
  <1>7. InvoiceNotPaid'
    BY <1>1, <1>3 DEF InvoiceNotPaid, MutexHeld, ToInvoice, Has
  <1>8. LegHeld'
    BY <1>1 DEF LegHeld, MutexHeld, Has
  <1>9. SentHeld'
    BY <1>1 DEF SentHeld, Has
  <1>10. OneInFlight'
    BY <1>1 DEF OneInFlight
  <1>11. ReceivedTransfersAccounted'
    BY <1>1 DEF ReceivedTransfersAccounted
  <1> QED BY <1>4, <1>5, <1>6, <1>7, <1>8, <1>9, <1>10, <1>11

\* The transfer begins, in the hands of the task that holds the mutex.
LEMMA CustodialPaySafety ==
    ASSUME TypeOK, SafetyInv, NEW t \in Task, CustodialPay(t),
           UNCHANGED <<monitorVars, payVars>>
    PROVE  SafetyInv'
  <1>0. PICK c \in UnusedCustIds :
           /\ SparkPay(c, invoice[t], lnPay[invoice[t]].amount)
           /\ rebalance' = [rebalance EXCEPT ![t] = c]
    BY DEF CustodialPay
  <1>1. /\ c \in CustId \ DepositId
        /\ transfer[c].dir = "unused"
        /\ rebalance' = [rebalance EXCEPT ![t] = c]
        /\ transfer'[c].dir = "out" /\ transfer'[c].dest = invoice[t]
        /\ transfer'[c].status = "Pending"
        /\ \A d \in CustId \ {c} : transfer'[d] = transfer[d]
    BY <1>0, Shapes DEF SparkPay, UnusedCustIds
  <1>2. /\ pc[t] = "custpay"
        /\ pc' = [pc EXCEPT ![t] = "poll"]
        /\ UNCHANGED <<lnPay, tx_metadata, mutex, invoice, orphaned, payPc, sent, current>>
    BY DEF CustodialPay, Goto, lightningVars, payVars, monitorVars
  <1> USE <1>1, <1>2, IdFacts, PcFacts, Shapes DEF SafetyInv
  <1>3. /\ invoice[t] \in LnId /\ ~Has(invoice[t]) /\ ~Has(c) /\ mutex = t
        /\ lnPay[invoice[t]].dir = "in" /\ lnPay[invoice[t]].status = "Pending"
        /\ \A d \in CustId : ToInvoice(d) => transfer[d].dest # invoice[t]
    BY DEF InvoiceNotPaid, UnusedIdsHaveNoMetadata, MutexHeld
  <1>4. MutexHeld' /\ SpawnedByOk' /\ CurrentIsNew'
    BY DEF MutexHeld, SpawnedByOk, CurrentIsNew, Has
  <1>5. UnusedIdsHaveNoMetadata'
    BY DEF UnusedIdsHaveNoMetadata, Has
  <1>6. OneTransferPerInvoice'
    BY <1>3 DEF OneTransferPerInvoice, ToInvoice
  <1>7. InvoiceNotPaid'
    BY DEF InvoiceNotPaid, MutexHeld
  <1>8. LegHeld'
    BY <1>3 DEF LegHeld, MutexHeld, Has
  <1>9. SentHeld'
    BY DEF SentHeld, Has
  <1>10. OneInFlight'
    BY <1>3 DEF OneInFlight
  <1>11. ReceivedTransfersAccounted'
    BY DEF ReceivedTransfersAccounted
  <1> QED BY <1>4, <1>5, <1>6, <1>7, <1>8, <1>9, <1>10, <1>11

\* The task goes on once the transfer is received and gives up once it cannot
\* be: either way the transfer is not pending any more.
LEMMA PollSafety ==
    ASSUME TypeOK, SafetyInv, NEW t \in Task, Poll(t),
           UNCHANGED <<monitorVars, payVars>>
    PROVE  SafetyInv'
  <1>1. UNCHANGED <<transfer, lnPay, tx_metadata, invoice, rebalance, orphaned, sent,
                    payPc, current>>
    BY DEF Poll, walletVars, sparkVars, lightningVars, localVars, payVars, monitorVars
  <1>2. pc[t] = "poll"
    BY DEF Poll
  <1> USE <1>1, <1>2, IdFacts, PcFacts, Shapes DEF SafetyInv
  <1>3. /\ invoice[t] \in LnId /\ rebalance[t] \in CustId /\ mutex = t
        /\ ToInvoice(rebalance[t]) /\ transfer[rebalance[t]].dest = invoice[t]
        /\ lnPay[invoice[t]].dir = "in"
    BY DEF LegHeld, MutexHeld, ToInvoice, OneTransferPerInvoice
  <1>4. UnusedIdsHaveNoMetadata' /\ OneTransferPerInvoice' /\ SentHeld'
    BY DEF UnusedIdsHaveNoMetadata, OneTransferPerInvoice, SentHeld, ToInvoice, Has
  <1>5. CASE ReceivedStatus(t) = "Succeeded"
    <2>1. /\ pc' = [pc EXCEPT ![t] = "mark"] /\ mutex' = mutex
          /\ lnPay[invoice[t]].status = "Succeeded"
      BY <1>5 DEF Poll, Goto, ReceivedStatus
    <2>2. MutexHeld' /\ SpawnedByOk' /\ CurrentIsNew' /\ InvoiceNotPaid'
      BY <2>1 DEF MutexHeld, SpawnedByOk, CurrentIsNew, InvoiceNotPaid, ToInvoice, Has
    <2>3. LegHeld'
      BY <2>1 DEF LegHeld, Has
    <2>4. OneInFlight'
      BY <2>1 DEF OneInFlight
    <2>5. ReceivedTransfersAccounted'
      BY <2>1 DEF ReceivedTransfersAccounted
    <2> QED BY <1>4, <2>2, <2>3, <2>4, <2>5
  <1>6. CASE ReceivedStatus(t) = "Failed"
    <2>1. /\ pc' = [pc EXCEPT ![t] = AfterRebalance(t)] /\ mutex' = NoTask
          /\ lnPay[invoice[t]].status = "Failed"
      BY <1>6 DEF Poll, Goto, Return, ReceivedStatus
    <2>2. AfterRebalance(t) \notin RebalancePc \cup {"none", "insert"}
      BY DEF AfterRebalance, RebalancePc
    <2>3. \A u \in Task : pc[u] \in LegPc => u = t
      BY <1>3 DEF MutexHeld
    <2>4. MutexHeld' /\ SpawnedByOk' /\ CurrentIsNew' /\ InvoiceNotPaid'
      BY <2>1, <2>2, <1>3 DEF MutexHeld, SpawnedByOk, CurrentIsNew, InvoiceNotPaid,
                               ToInvoice, Has, RebalancePc
    <2>5. LegHeld'
      BY <2>1, <2>2, <2>3 DEF LegHeld, Has, RebalancePc
    <2>6. \A c \in CustId : ToInvoice(c) /\ transfer[c].dest = invoice[t] =>
             transfer[c].status # "Pending"
      BY <2>1 DEF OneTransferPerInvoice
    <2>7. OneInFlight'
      BY <2>1, <2>3, <2>6 DEF OneInFlight, ToInvoice
    <2>8. ReceivedTransfersAccounted'
      BY <2>1, <2>3 DEF ReceivedTransfersAccounted
    <2> QED BY <1>4, <2>4, <2>5, <2>7, <2>8
  <1>7. CASE ReceivedStatus(t) = "Pending"
    <2>1. pc' = [pc EXCEPT ![t] = "subscribe"] /\ mutex' = mutex
      BY <1>7 DEF Poll, Goto
    <2>2. SpawnedByOk' /\ CurrentIsNew'
      BY <2>1 DEF SpawnedByOk, CurrentIsNew, Has
    <2> QED BY <2>1, <2>2, QuietStep
  <1> QED BY <1>5, <1>6, <1>7 DEF Poll

\* The trigger is told.
LEMMA MarkSafety ==
    ASSUME TypeOK, SafetyInv, NEW t \in Task, Mark(t),
           UNCHANGED <<monitorVars, payVars>>
    PROVE  SafetyInv'
  <1>1. /\ pc[t] = "mark"
        /\ pc' = [pc EXCEPT ![t] = "insertC"]
        /\ UNCHANGED <<transfer, lnPay, mutex, invoice, rebalance, orphaned, payPc, sent, current>>
    BY DEF Mark, Goto, sparkVars, lightningVars, localVars, payVars, monitorVars
  <1>2. \A k \in PaymentId : /\ Has(k)' => Has(k)
                             /\ tx_metadata[k].ty = "Transfer" => tx_metadata'[k] = tx_metadata[k]
    BY Shapes DEF Mark, set_tx_caused_rebalance, do_set, Plain, Has
  <1> USE <1>1, <1>2, IdFacts, PcFacts, Shapes DEF SafetyInv
  <1>3. MutexHeld' /\ SpawnedByOk' /\ CurrentIsNew' /\ UnusedIdsHaveNoMetadata'
    <2>1. pc[Monitor] = "insert" => current \in PaymentId
      BY DEF TypeOK, MonitorTypeOK
    <2> QED BY <2>1 DEF MutexHeld, SpawnedByOk, CurrentIsNew, UnusedIdsHaveNoMetadata
  <1>4. OneTransferPerInvoice' /\ InvoiceNotPaid'
    BY DEF OneTransferPerInvoice, InvoiceNotPaid, ToInvoice
  <1>5. LegHeld'
    BY DEF LegHeld
  <1>6. SentHeld'
    BY DEF SentHeld
  <1>7. OneInFlight' /\ ReceivedTransfersAccounted'
    BY DEF OneInFlight, ReceivedTransfersAccounted
  <1> QED BY <1>3, <1>4, <1>5, <1>6, <1>7

\* The task dies, and the transfer with it.
LEMMA MarkPanicsSafety ==
    ASSUME TypeOK, SafetyInv, NEW t \in Task, MarkPanics(t),
           UNCHANGED <<monitorVars, payVars>>
    PROVE  SafetyInv'
  <1>1. /\ pc[t] = "mark"
        /\ pc' = [pc EXCEPT ![t] = "panicked"]
        /\ mutex' = NoTask
        /\ orphaned' = orphaned \cup {LegOf(t)}
        /\ UNCHANGED <<transfer, lnPay, tx_metadata, invoice, rebalance, payPc, sent, current>>
    BY DEF MarkPanics, Goto, set_tx_caused_rebalance_fails, sparkVars, lightningVars,
           localVars, payVars, monitorVars
  <1> USE <1>1, IdFacts, PcFacts, Shapes DEF SafetyInv
  <1>2. LegOf(t).invoice = invoice[t] /\ \A u \in Task : pc[u] \in LockedPc => u = t
    BY DEF LegOf, MutexHeld
  <1>3. MutexHeld' /\ SpawnedByOk' /\ CurrentIsNew'
    BY <1>2 DEF MutexHeld, SpawnedByOk, CurrentIsNew, Has
  <1>4. /\ UnusedIdsHaveNoMetadata' /\ OneTransferPerInvoice' /\ InvoiceNotPaid'
        /\ LegHeld' /\ SentHeld'
    BY <1>2 DEF UnusedIdsHaveNoMetadata, OneTransferPerInvoice, InvoiceNotPaid, LegHeld,
                SentHeld, ToInvoice, Has
  <1>5. OneInFlight'
    BY <1>2 DEF OneInFlight
  <1>6. ReceivedTransfersAccounted'
    BY <1>2 DEF ReceivedTransfersAccounted
  <1> QED BY <1>3, <1>4, <1>5, <1>6

\* The custodial side is recorded ..
LEMMA InsertCustodialSafety ==
    ASSUME TypeOK, SafetyInv, NEW t \in Task, InsertCustodial(t),
           UNCHANGED <<monitorVars, payVars>>
    PROVE  SafetyInv'
  <1>1. /\ pc[t] = "insertC"
        /\ pc' = [pc EXCEPT ![t] = "insertL"]
        /\ UNCHANGED <<transfer, lnPay, mutex, invoice, rebalance, orphaned, payPc, sent, current>>
    BY DEF InsertCustodial, Goto, sparkVars, lightningVars, localVars, payVars, monitorVars
  <1>2. \A k \in PaymentId \ {rebalance[t]} : tx_metadata'[k] = tx_metadata[k]
    BY Shapes DEF InsertCustodial, do_set
  <1> USE <1>1, <1>2, IdFacts, PcFacts, Shapes DEF SafetyInv
  <1>3. /\ rebalance[t] \in CustId \ DepositId /\ invoice[t] \in LnId
        /\ transfer[rebalance[t]].dir = "out" /\ transfer[rebalance[t]].dest # NoId
        /\ \A u \in Task : pc[u] \in LockedPc => u = t
    BY DEF LegHeld, MutexHeld
  <1>4. MutexHeld' /\ SpawnedByOk'
    BY DEF MutexHeld, SpawnedByOk
  <1>5. CurrentIsNew'
    BY <1>3 DEF CurrentIsNew, Has, TypeOK, MonitorTypeOK
  <1>6. UnusedIdsHaveNoMetadata'
    BY <1>3 DEF UnusedIdsHaveNoMetadata, Has
  <1>7. OneTransferPerInvoice' /\ InvoiceNotPaid'
    BY <1>3 DEF OneTransferPerInvoice, InvoiceNotPaid, ToInvoice
  <1>8. LegHeld'
    BY <1>3 DEF LegHeld, Has
  <1>9. SentHeld'
    BY <1>3 DEF SentHeld, Has
  <1>10. OneInFlight' /\ ReceivedTransfersAccounted'
    BY <1>3 DEF OneInFlight, ReceivedTransfersAccounted
  <1> QED BY <1>4, <1>5, <1>6, <1>7, <1>8, <1>9, <1>10

\* .. and the lightning side, which ends the rebalance.
LEMMA InsertLightningSafety ==
    ASSUME TypeOK, SafetyInv, NEW t \in Task, InsertLightning(t),
           UNCHANGED <<monitorVars, payVars>>
    PROVE  SafetyInv'
  <1>1. /\ pc[t] = "insertL"
        /\ pc' = [pc EXCEPT ![t] = AfterRebalance(t)]
        /\ mutex' = NoTask
        /\ UNCHANGED <<transfer, lnPay, invoice, rebalance, orphaned, payPc, sent, current>>
    BY DEF InsertLightning, Goto, Return, sparkVars, lightningVars, localVars, payVars,
           monitorVars
  <1>2. AfterRebalance(t) \notin RebalancePc \cup {"none", "insert"}
    BY DEF AfterRebalance, RebalancePc
  <1> USE <1>1, <1>2, IdFacts, PcFacts, Shapes DEF SafetyInv
  <1>3. /\ \A k \in PaymentId \ {invoice[t]} : tx_metadata'[k] = tx_metadata[k]
        /\ tx_metadata'[invoice[t]].ty = "Transfer"
    BY DEF InsertLightning, do_set, RebalanceMetadata, TransferToNonCustodial
  <1>4. /\ rebalance[t] \in CustId \ DepositId /\ invoice[t] \in LnId
        /\ lnPay[invoice[t]].dir = "in" /\ lnPay[invoice[t]].status = "Succeeded"
        /\ \A u \in Task : pc[u] \in LockedPc => u = t
    <2>1. rebalance[t] \in CustId \ DepositId /\ invoice[t] \in LnId
      BY DEF LegHeld
    <2>2. ToInvoice(rebalance[t]) /\ transfer[rebalance[t]].dest = invoice[t]
      BY <2>1 DEF LegHeld, ToInvoice
    <2> QED BY <2>1, <2>2 DEF LegHeld, MutexHeld, OneTransferPerInvoice
  <1>5. AfterRebalance(t) \notin LockedPc
    BY DEF LockedPc
  <1>6. MutexHeld' /\ SpawnedByOk'
    BY <1>4, <1>5 DEF MutexHeld, SpawnedByOk
  <1>7. CurrentIsNew'
    BY <1>3, <1>4 DEF CurrentIsNew, Has, TypeOK, MonitorTypeOK
  <1>8. UnusedIdsHaveNoMetadata'
    BY <1>3, <1>4 DEF UnusedIdsHaveNoMetadata, Has
  <1>9. OneTransferPerInvoice' /\ InvoiceNotPaid' /\ LegHeld'
    BY <1>4, <1>5 DEF OneTransferPerInvoice, InvoiceNotPaid, LegHeld, ToInvoice
  <1>10. SentHeld'
    BY <1>3, <1>4 DEF SentHeld, Has
  <1>11. OneInFlight'
    <2>1. \A c \in CustId : ToInvoice(c) /\ transfer[c].dest = invoice[t] =>
             transfer[c].status # "Pending"
      BY <1>4 DEF OneTransferPerInvoice
    <2> QED BY <1>4, <2>1 DEF OneInFlight, ToInvoice
  <1>12. ReceivedTransfersAccounted'
    BY <1>3, <1>4 DEF ReceivedTransfersAccounted
  <1> QED BY <1>6, <1>7, <1>8, <1>9, <1>10, <1>11, <1>12

LEMMA RebalanceSafety ==
    ASSUME TypeOK, SafetyInv, NEW t \in Task, LockStep(t) \/ HoldingStep(t)
    PROVE  SafetyInv'
  BY QuietRebalance, GetInvoiceSafety, CustodialPaySafety, PollSafety, MarkSafety,
     MarkPanicsSafety, InsertCustodialSafety, InsertLightningSafety
  DEF LockStep, HoldingStep, Holding

-----------------------------------------------------------------------------
(* The steps of the monitor's loop.                                        *)

\* The list, the scan and the decision change nothing but the monitor's place.
LEMMA QuietMonitor ==
    ASSUME TypeOK, SafetyInv, UNCHANGED payVars,
           \/ List \/ ListFails \/ Scan \/ ScanDone
           \/ DecideNot \/ DecideRebalance \/ DecidePanics \/ SyncDone
    PROVE  SafetyInv'
  <1>1. /\ UNCHANGED <<transfer, lnPay, tx_metadata, invoice, rebalance, orphaned, mutex>>
        /\ UNCHANGED <<payPc, sent>>
    BY DEF List, ListFails, Scan, ScanDone, DecideNot, DecideRebalance, DecidePanics,
           SyncDone, sparkVars, lightningVars, localVars, monitorRest, payVars
  <1>2. PICK s \in {"scan", "insert", "sync", "decide", "lock", "panicked", "list"} :
           /\ pc' = [pc EXCEPT ![Monitor] = s]
           /\ pc[Monitor] \in {"list", "scan", "decide", "sync"}
           /\ s = "insert" => ~Has(current')
    <2>1. CASE Scan
      <3>1. pc[Monitor] = "scan" /\ pc = [pc EXCEPT ![Monitor] = "scan"]
        BY <2>1, IdFacts, Shapes DEF Scan
      <3> QED BY <2>1, <3>1 DEF Scan, Goto
    <2>2. CASE ~Scan
      BY <2>2 DEF List, ListFails, ScanDone, DecideNot, DecideRebalance, DecidePanics,
                  SyncDone, Goto
    <2> QED BY <2>1, <2>2
  <1>3. SpawnedByOk'
    BY <1>1, <1>2, IdFacts, Shapes DEF SafetyInv, SpawnedByOk
  <1>4. CurrentIsNew'
    BY <1>1, <1>2, IdFacts, Shapes DEF CurrentIsNew, Has
  <1>5. pc[Monitor] \notin LegPc /\ s \notin LegPc \cup {"custpay"} /\ s \notin LockedPc
    BY <1>2, PcFacts
  <1> QED BY <1>1, <1>2, <1>3, <1>4, <1>5, IdFacts, QuietStep

LEMMA InsertIncomingSafety ==
    ASSUME TypeOK, SafetyInv, UNCHANGED payVars, InsertIncoming
    PROVE  SafetyInv'
  <1>1. /\ pc[Monitor] = "insert"
        /\ pc' = [pc EXCEPT ![Monitor] = "scan"]
        /\ UNCHANGED <<transfer, lnPay, mutex, invoice, rebalance, orphaned, payPc, sent>>
    BY DEF InsertIncoming, Goto, sparkVars, lightningVars, localVars, monitorRest, payVars
  <1>2. current \in DepositId
    BY <1>1 DEF TypeOK, MonitorTypeOK
  <1>3. \A k \in PaymentId \ {current} : tx_metadata'[k] = tx_metadata[k]
    BY Shapes DEF InsertIncoming, do_set
  <1> USE <1>1, <1>2, <1>3, IdFacts, PcFacts, Shapes DEF SafetyInv
  <1>4. MutexHeld' /\ SpawnedByOk' /\ CurrentIsNew'
    BY DEF MutexHeld, SpawnedByOk, CurrentIsNew
  <1>5. UnusedIdsHaveNoMetadata'
    BY DEF UnusedIdsHaveNoMetadata, Has
  <1>6. OneTransferPerInvoice' /\ InvoiceNotPaid'
    BY DEF OneTransferPerInvoice, InvoiceNotPaid, ToInvoice, Has
  <1>7. LegHeld'
    BY DEF LegHeld, Has
  <1>8. SentHeld'
    BY DEF SentHeld, Has
  <1>9. OneInFlight' /\ ReceivedTransfersAccounted'
    BY DEF OneInFlight, ReceivedTransfersAccounted
  <1> QED BY <1>4, <1>5, <1>6, <1>7, <1>8, <1>9

LEMMA SyncClaimSafety ==
    ASSUME TypeOK, SafetyInv, UNCHANGED payVars, SyncClaim
    PROVE  SafetyInv'
  <1>1. PICK c \in CustId : SparkClaim(c)
    BY DEF SyncClaim
  <1>2. /\ UNCHANGED <<pc, mutex, invoice, rebalance, orphaned, tx_metadata, current>>
        /\ UNCHANGED <<payPc, sent>>
        /\ UNCHANGED lnPay
    BY DEF SyncClaim, lightningVars, localVars, monitorVars, monitorRest, payVars
  <1>3. /\ \A d \in CustId : /\ transfer'[d].dir = transfer[d].dir
                             /\ transfer'[d].dest = transfer[d].dest
        /\ \A d \in CustId \ {c} : transfer'[d] = transfer[d]
    BY <1>1, Shapes DEF SparkClaim
  <1>4. ToInvoice(c) => transfer'[c].status # "Pending"
    BY <1>1, Shapes DEF SparkClaim, Claimable, ToInvoice
  <1> QED BY <1>2, <1>3, <1>4, SettlingStep DEF ToInvoice

LEMMA MonitorSafety ==
    ASSUME TypeOK, SafetyInv, MonitorLoop
    PROVE  SafetyInv'
  BY QuietMonitor, InsertIncomingSafety, SyncClaimSafety DEF MonitorLoop, MonitorStep

-----------------------------------------------------------------------------
(* The steps of a call of pay.                                             *)

\* What comes before a payment, or instead of it.
LEMMA QuietPay ==
    ASSUME TypeOK, SafetyInv, NEW p \in Payer, UNCHANGED monitorVars,
           PayStart(p) \/ PaySkip(p) \/ PayEstimate(p) \/ PaySendFails(p) \/ PayGivesUp(p)
    PROVE  SafetyInv'
  <1>1. /\ UNCHANGED <<transfer, lnPay, tx_metadata, invoice, rebalance, orphaned, sent>>
        /\ UNCHANGED <<pc, mutex, current>>
    BY DEF PayStart, PaySkip, PayEstimate, PaySendFails, SparkPayFails, PayGivesUp,
           walletVars, sparkVars, lightningVars, localVars, payRest, monitorVars
  <1>2. PICK s \in {"attempt", "send", "err"} : payPc' = [payPc EXCEPT ![p] = s]
    <2>1. CASE PaySkip(p)
      <3>1. payPc' = [payPc EXCEPT ![p] = "attempt"]
        BY <2>1, Shapes DEF PaySkip
      <3> QED BY <3>1
    <2>2. CASE ~PaySkip(p)
      BY <2>2 DEF PayStart, PayEstimate, PaySendFails, PayGivesUp, PayGoto
    <2> QED BY <2>1, <2>2
  <1>3. payPc[p] # "ok"
    BY DEF PayStart, PaySkip, PayEstimate, PaySendFails, PayGivesUp
  <1>4. /\ \A q \in Payer : payPc'[q] = "record" => payPc[q] = "record"
        /\ \A q \in Payer : payPc'[q] # "ok" => payPc[q] # "ok"
    BY <1>2, <1>3, Shapes
  <1>5. SpawnedByOk'
    BY <1>1, <1>4 DEF SafetyInv, SpawnedByOk
  <1>6. CurrentIsNew'
    BY <1>1 DEF SafetyInv, CurrentIsNew, Has
  <1> USE <1>1, <1>4, IdFacts, Shapes DEF SafetyInv
  <1>7. MutexHeld' /\ UnusedIdsHaveNoMetadata' /\ OneTransferPerInvoice' /\ InvoiceNotPaid'
    BY DEF MutexHeld, UnusedIdsHaveNoMetadata, OneTransferPerInvoice, InvoiceNotPaid,
           ToInvoice, Has
  <1>8. LegHeld' /\ SentHeld'
    BY DEF LegHeld, SentHeld, Has
  <1>9. OneInFlight' /\ ReceivedTransfersAccounted'
    BY DEF OneInFlight, ReceivedTransfersAccounted
  <1> QED BY <1>5, <1>6, <1>7, <1>8, <1>9

LEMMA PaySendCustodialSafety ==
    ASSUME TypeOK, SafetyInv, NEW p \in Payer, UNCHANGED monitorVars, PaySendCustodial(p)
    PROVE  SafetyInv'
  <1>0. PICK c \in UnusedCustIds, s \in MethodOf(p).amount :
           SparkPay(c, NoId, s) /\ sent' = [sent EXCEPT ![p] = c]
    BY DEF PaySendCustodial
  <1>1. /\ c \in CustId \ DepositId
        /\ transfer[c].dir = "unused"
        /\ transfer'[c].dir = "out" /\ transfer'[c].dest = NoId
        /\ \A d \in CustId \ {c} : transfer'[d] = transfer[d]
    BY <1>0, Shapes DEF SparkPay, UnusedCustIds
  <1>2. /\ payPc[p] = "send"
        /\ payPc' = [payPc EXCEPT ![p] = "record"]
        /\ UNCHANGED <<pc, mutex, lnPay, tx_metadata, invoice, rebalance, orphaned, current>>
    BY DEF PaySendCustodial, PayGoto, lightningVars, localVars, payRest, monitorVars
  <1> USE <1>0, <1>1, <1>2, IdFacts, PcFacts, Shapes DEF SafetyInv
  <1>3. ~Has(c) /\ \A q \in Payer : sent[q] # c
    BY DEF UnusedIdsHaveNoMetadata, SentHeld
  <1>4. MutexHeld' /\ SpawnedByOk' /\ CurrentIsNew'
    BY DEF MutexHeld, SpawnedByOk, CurrentIsNew, Has
  <1>5. UnusedIdsHaveNoMetadata'
    BY DEF UnusedIdsHaveNoMetadata, Has
  <1>6. OneTransferPerInvoice'
    BY DEF OneTransferPerInvoice, ToInvoice
  <1>7. InvoiceNotPaid'
    BY DEF InvoiceNotPaid, ToInvoice, Has
  <1>8. LegHeld'
    BY DEF LegHeld, Has
  <1>9. SentHeld'
    BY <1>3 DEF SentHeld, Has
  <1>10. OneInFlight' /\ ReceivedTransfersAccounted'
    BY DEF OneInFlight, ReceivedTransfersAccounted
  <1> QED BY <1>4, <1>5, <1>6, <1>7, <1>8, <1>9, <1>10

LEMMA PaySendLightningSafety ==
    ASSUME TypeOK, SafetyInv, NEW p \in Payer, UNCHANGED monitorVars, PaySendLightning(p)
    PROVE  SafetyInv'
  <1>0. PICK l \in LnIdsOf(MethodOf(p)) :
           /\ LnSend(l, MethodOf(p).type, MethodOf(p).amount, pay_amount[p])
           /\ sent' = [sent EXCEPT ![p] = l]
    BY DEF PaySendLightning
  <1>1. l \in LnId
    <2>1. MethodOf(p) \in Method
      BY MethodInRange DEF TypeOK
    <2> QED BY <2>1, IdFacts DEF LnIdsOf, OwnInvoiceIds, UnusedLnIds, Method
  <1>2. /\ lnPay[l].dir \in {"unused", "out"}
        /\ lnPay'[l].dir = "out"
        /\ \A m \in LnId \ {l} : lnPay'[m] = lnPay[m]
    BY <1>0, <1>1, Shapes DEF LnSend, LnPayable
  <1>3. /\ payPc[p] = "send"
        /\ payPc' = [payPc EXCEPT ![p] = "record"]
        /\ UNCHANGED <<pc, mutex, transfer, tx_metadata, invoice, rebalance, orphaned, current>>
    BY DEF PaySendLightning, PayGoto, sparkVars, localVars, payRest, monitorVars
  <1> USE <1>1, <1>2, <1>3, IdFacts, PcFacts, Shapes DEF SafetyInv
  <1>4. MutexHeld' /\ SpawnedByOk' /\ CurrentIsNew'
    BY DEF MutexHeld, SpawnedByOk, CurrentIsNew, Has
  <1>5. UnusedIdsHaveNoMetadata'
    BY DEF UnusedIdsHaveNoMetadata, Has
  <1>6. OneTransferPerInvoice'
    BY DEF OneTransferPerInvoice, ToInvoice
  <1>7. InvoiceNotPaid'
    BY DEF InvoiceNotPaid, ToInvoice, Has
  <1>8. LegHeld'
    <2>1. \A t \in Task : pc[t] \in LegPc =>
             ToInvoice(rebalance[t]) /\ transfer[rebalance[t]].dest = invoice[t]
      BY DEF LegHeld, ToInvoice
    <2>2. \A t \in Task : pc[t] \in LegPc => invoice[t] # l
      BY <2>1 DEF OneTransferPerInvoice
    <2> QED BY <2>2 DEF LegHeld, Has
  <1>9. SentHeld'
    <2>1. \A q \in Payer : sent'[q] = IF q = p THEN l ELSE sent[q]
      BY <1>0
    <2> QED BY <2>1 DEF SentHeld, Has
  <1>10. OneInFlight' /\ ReceivedTransfersAccounted'
    BY DEF OneInFlight, ReceivedTransfersAccounted
  <1> QED BY <1>4, <1>5, <1>6, <1>7, <1>8, <1>9, <1>10

\* The payment is recorded, and for a lightning one the rebalance is spawned.
LEMMA PayRecordSafety ==
    ASSUME TypeOK, SafetyInv, NEW p \in Payer, UNCHANGED monitorVars,
           PayRecordCustodial(p) \/ PayRecordLightning(p)
    PROVE  SafetyInv'
  <1>1. /\ payPc[p] = "record"
        /\ payPc' = [payPc EXCEPT ![p] = "ok"]
        /\ UNCHANGED <<mutex, transfer, lnPay, invoice, rebalance, orphaned, sent, current>>
    BY DEF PayRecordCustodial, PayRecordLightning, PayGoto, sparkVars, lightningVars,
           localVars, payRest, monitorVars
  <1>2. /\ sent[p] \in CustId \cup LnId
        /\ \A k \in PaymentId \ {sent[p]} : tx_metadata'[k] = tx_metadata[k]
    BY Shapes DEF PayRecordCustodial, PayRecordLightning, do_set
  <1>3. pc[p] = "none"
    BY <1>1 DEF SafetyInv, SpawnedByOk
  <1>4. pc' = [pc EXCEPT ![p] = "lock"] \/ pc' = pc
    BY DEF PayRecordCustodial, PayRecordLightning, Goto, payRest
  <1>5. \A t \in Task : pc'[t] = pc[t] \/ (t = p /\ pc'[t] = "lock")
    BY <1>4, IdFacts, Shapes
  <1> USE <1>1, <1>2, <1>3, <1>5, IdFacts, PcFacts, Shapes DEF SafetyInv
  <1>6. /\ sent[p] \in CustId => /\ sent[p] \notin DepositId
                                 /\ transfer[sent[p]].dir = "out"
                                 /\ transfer[sent[p]].dest = NoId
                                 /\ \A q \in Payer \ {p} : sent[q] # sent[p]
        /\ sent[p] \in LnId => lnPay[sent[p]].dir = "out"
    BY DEF SentHeld
  <1>7. \A t \in Task : pc[t] \in LegPc =>
           /\ rebalance[t] # sent[p] /\ invoice[t] # sent[p]
    <2>1. \A t \in Task : pc[t] \in LegPc =>
             /\ rebalance[t] \in CustId /\ invoice[t] \in LnId
             /\ ToInvoice(rebalance[t]) /\ transfer[rebalance[t]].dest = invoice[t]
      BY DEF LegHeld, ToInvoice
    <2>2. \A t \in Task : pc[t] \in LegPc => lnPay[invoice[t]].dir = "in"
      BY <2>1 DEF OneTransferPerInvoice
    <2> QED BY <1>6, <2>1, <2>2 DEF ToInvoice
  <1>8. MutexHeld' /\ SpawnedByOk'
    BY DEF MutexHeld, SpawnedByOk
  <1>9. CurrentIsNew'
    BY <1>6 DEF CurrentIsNew, Has, TypeOK, MonitorTypeOK
  <1>10. UnusedIdsHaveNoMetadata'
    BY <1>6 DEF UnusedIdsHaveNoMetadata, Has
  <1>11. OneTransferPerInvoice'
    BY DEF OneTransferPerInvoice, ToInvoice
  <1>12. InvoiceNotPaid'
    BY <1>6 DEF InvoiceNotPaid, ToInvoice, Has
  <1>13. LegHeld'
    BY <1>7 DEF LegHeld, Has
  <1>14. SentHeld'
    BY <1>6 DEF SentHeld, Has
  <1>15. OneInFlight'
    BY DEF OneInFlight
  <1>16. ReceivedTransfersAccounted'
    BY <1>6 DEF ReceivedTransfersAccounted
  <1> QED
    BY <1>8, <1>9, <1>10, <1>11, <1>12, <1>13, <1>14, <1>15, <1>16

LEMMA PaySafety ==
    ASSUME TypeOK, SafetyInv, NEW p \in Payer, PayStep(p)
    PROVE  SafetyInv'
  BY QuietPay, PaySendCustodialSafety, PaySendLightningSafety, PayRecordSafety
  DEF PayStep, Pay

-----------------------------------------------------------------------------
(* The steps of the world around the wallet.                               *)

\* A status of the node's payments.
LEMMA LnStatus ==
    ASSUME TypeOK, NEW l \in LnId, NEW s, lnPay' = [lnPay EXCEPT ![l].status = s]
    PROVE  /\ \A m \in LnId : lnPay'[m].dir = lnPay[m].dir
           /\ \A m \in LnId \ {l} : lnPay'[m].status = lnPay[m].status
  <1>1. lnPay[l] \in LnPayment
    BY DEF TypeOK, LightningTypeOK
  <1>2. [lnPay[l] EXCEPT !.status = s].dir = lnPay[l].dir
    BY <1>1 DEF LnPayment
  <1> QED BY <1>2, Shapes

\* A status of the service's transfers.
LEMMA SettleShape ==
    ASSUME TypeOK, NEW c \in CustId, NEW s \in {"Completed", "Returned"}, SparkSettle(c, s)
    PROVE  /\ \A d \in CustId : /\ transfer'[d].dir = transfer[d].dir
                                /\ transfer'[d].dest = transfer[d].dest
           /\ \A d \in CustId \ {c} : transfer'[d].status = transfer[d].status
           /\ transfer[c].status = "Pending" /\ transfer'[c].status # "Pending"
           /\ transfer[c].dir = "out"
  <1>1. transfer[c] \in Transfer
    BY DEF TypeOK, SparkTypeOK
  <1>2. LET r == [transfer[c] EXCEPT !.status = s]
        IN  r.dir = transfer[c].dir /\ r.dest = transfer[c].dest /\ r.status = s
    BY <1>1 DEF Transfer
  <1> QED BY <1>2, Shapes DEF SparkSettle

LEMMA EnvironmentSafety ==
    ASSUME TypeOK, SafetyInv, EventTask \/ Network
    PROVE  SafetyInv'
  <1>1. /\ UNCHANGED <<pc, mutex, invoice, rebalance, orphaned, tx_metadata, current>>
        /\ UNCHANGED <<payPc, sent>>
    BY DEF EventTask, Network, Deposit, Delivered, Undelivered, LightningSent,
           LightningSendFails, OtherLightningReceipt, taskVars, rebalanceVars,
           localVars, monitorVars, payVars
  <1>2. CASE UNCHANGED <<transfer, lnPay>>
    BY <1>1, <1>2, SettlingStep DEF ToInvoice
  <1>3. CASE EventTask \/ OtherLightningReceipt
    BY <1>2, <1>3 DEF EventTask, OtherLightningReceipt, HandleEvent, OtherReceipt,
                      sparkVars, nodeVars
  <1>4. CASE Deposit
    <2>1. PICK c \in DepositId :
             /\ transfer'[c].dir = "in"
             /\ \A d \in CustId \ {c} : transfer'[d] = transfer[d]
      BY <1>4, IdFacts, Shapes DEF Deposit, SparkDeposit
    <2>2. UNCHANGED lnPay
      BY <1>4 DEF Deposit, lightningVars
    <2>3. \A d \in CustId : ToInvoice(d)' => d # c
      BY <2>1 DEF ToInvoice
    <2> QED BY <1>1, <2>1, <2>2, <2>3, IdFacts, SettlingStep DEF ToInvoice
  <1>5. ASSUME NEW c \in CustId, Delivered(c)
        PROVE  SafetyInv'
    <2>1. SparkSettle(c, "Completed")
      BY <1>5 DEF Delivered
    <2>2. CASE transfer[c].dest = NoId /\ UNCHANGED lightningVars
      <3>1. UNCHANGED lnPay
        BY <2>2 DEF lightningVars
      <3> QED BY <1>1, <2>1, <3>1, SettleShape, SettlingStep DEF ToInvoice
    <2>3. CASE transfer[c].dest # NoId /\ LnReceive(transfer[c].dest)
      <3> DEFINE l == transfer[c].dest
      <3>1. l \in LnId /\ lnPay[l].status = "Pending"
            /\ lnPay' = [lnPay EXCEPT ![l].status = "Succeeded"]
        BY <2>3, Shapes DEF LnReceive
      <3>2. /\ \A m \in LnId : lnPay'[m].dir = lnPay[m].dir
            /\ \A m \in LnId \ {l} : lnPay'[m].status = lnPay[m].status
        BY <3>1, LnStatus
      <3>3. ToInvoice(c)
        BY <2>1, <2>3, SettleShape DEF ToInvoice
      <3> QED BY <1>1, <2>1, <3>1, <3>2, <3>3, SettleShape, SettlingStep DEF ToInvoice
    <2> QED BY <1>5, <2>2, <2>3 DEF Delivered
  <1>6. ASSUME NEW c \in CustId, Undelivered(c)
        PROVE  SafetyInv'
    <2>1. SparkSettle(c, "Returned")
      BY <1>6 DEF Undelivered
    <2>2. CASE UNCHANGED lightningVars
      <3>1. UNCHANGED lnPay
        BY <2>2 DEF lightningVars
      <3> QED BY <1>1, <2>1, <3>1, SettleShape, SettlingStep DEF ToInvoice
    <2>3. CASE transfer[c].dest # NoId /\ LnReceiveFails(transfer[c].dest)
      <3> DEFINE l == transfer[c].dest
      <3>1. l \in LnId /\ lnPay[l].status = "Pending"
            /\ lnPay' = [lnPay EXCEPT ![l].status = "Failed"]
        BY <2>3, Shapes DEF LnReceiveFails
      <3>2. /\ \A m \in LnId : lnPay'[m].dir = lnPay[m].dir
            /\ \A m \in LnId \ {l} : lnPay'[m].status = lnPay[m].status
        BY <3>1, LnStatus
      <3>3. ToInvoice(c)
        BY <2>1, <2>3, SettleShape DEF ToInvoice
      <3> QED BY <1>1, <2>1, <3>1, <3>2, <3>3, SettleShape, SettlingStep DEF ToInvoice
    <2> QED BY <1>6, <2>2, <2>3 DEF Undelivered
  <1>7. ASSUME NEW l \in LnId, LightningSent(l) \/ LightningSendFails(l)
        PROVE  SafetyInv'
    <2>1. /\ UNCHANGED transfer
          /\ lnPay[l].dir = "out"
          /\ \E s : lnPay' = [lnPay EXCEPT ![l].status = s]
      BY <1>7 DEF LightningSent, LightningSendFails, LnSent, LnSendFails, sparkVars
    <2>2. /\ \A m \in LnId : lnPay'[m].dir = lnPay[m].dir
          /\ \A m \in LnId \ {l} : lnPay'[m].status = lnPay[m].status
      BY <2>1, LnStatus
    <2> QED BY <1>1, <2>1, <2>2, SettlingStep DEF ToInvoice
  <1> QED BY <1>3, <1>4, <1>5, <1>6, <1>7 DEF Network

\* Every transfer a task was at work on is left to nobody, and so recorded.
LEMMA CrashSafety ==
    ASSUME TypeOK, SafetyInv, CrashAndRestart
    PROVE  SafetyInv'
  <1>1. /\ orphaned' = orphaned \cup {LegOf(t) : t \in {u \in Task : pc[u] \in LegPc}}
        /\ pc' = [t \in Task |-> IF t = Monitor THEN "list"
                                 ELSE IF pc[t] = "none" THEN "none" ELSE "finished"]
        /\ payPc' = [p \in Payer |->
              IF payPc[p] \in {"attempt", "send", "record"} THEN "lost" ELSE payPc[p]]
        /\ UNCHANGED <<transfer, lnPay, tx_metadata, invoice, rebalance, sent>>
    BY DEF CrashAndRestart, sparkVars, nodeVars, localVars
  <1> USE <1>1, IdFacts, PcFacts, Shapes DEF SafetyInv
  <1>2. \A t \in Task : pc'[t] \in {"list", "none", "finished"}
    OBVIOUS
  <1>3. MutexHeld' /\ InvoiceNotPaid' /\ LegHeld' /\ CurrentIsNew'
    BY <1>2 DEF MutexHeld, InvoiceNotPaid, LegHeld, CurrentIsNew
  <1>4. SpawnedByOk'
    BY DEF SpawnedByOk
  <1>5. UnusedIdsHaveNoMetadata' /\ OneTransferPerInvoice'
    BY DEF UnusedIdsHaveNoMetadata, OneTransferPerInvoice, ToInvoice, Has
  <1>6. SentHeld'
    BY DEF SentHeld, Has
  <1>7. \A t \in Task : pc[t] \in LegPc => \E leg \in orphaned' : leg.invoice = invoice[t]
    <2> SUFFICES ASSUME NEW t \in Task, pc[t] \in LegPc
                 PROVE  \E leg \in orphaned' : leg.invoice = invoice[t]
      OBVIOUS
    <2>1. LegOf(t) \in orphaned'
      OBVIOUS
    <2>2. LegOf(t).invoice = invoice[t]
      BY DEF LegOf
    <2> QED BY <2>1, <2>2
  <1>8. OneInFlight'
    BY <1>7 DEF OneInFlight
  <1>9. ReceivedTransfersAccounted'
    BY <1>7 DEF ReceivedTransfersAccounted
  <1> QED BY <1>3, <1>4, <1>5, <1>6, <1>8, <1>9

-----------------------------------------------------------------------------
LEMMA StepSafety == TypeOK /\ SafetyInv /\ [Next]_vars => SafetyInv'
  <1> SUFFICES ASSUME TypeOK, SafetyInv, [Next]_vars PROVE SafetyInv'
    OBVIOUS
  <1>1. CASE UNCHANGED vars
    <2>1. UNCHANGED <<transfer, lnPay, tx_metadata, pc, mutex, invoice, rebalance,
                      orphaned, current, payPc, sent>>
      BY <1>1 DEF vars, taskVars, rebalanceVars, localVars, monitorVars, payVars,
                  sparkVars, lightningVars
    <2>2. UNCHANGED <<pc, mutex, invoice, rebalance, orphaned, tx_metadata, current>>
          /\ UNCHANGED <<payPc, sent>>
      BY <2>1
    <2> QED BY <2>1, <2>2, SettlingStep DEF ToInvoice
  <1>2. CASE Next
    BY <1>2, RebalanceSafety, MonitorSafety, PaySafety, EnvironmentSafety, CrashSafety
    DEF Next
  <1> QED BY <1>1, <1>2

\* The inductive invariant, for every instance.
THEOREM WalletSafety == Spec => [](TypeOK /\ SafetyInv)
  BY InitType, StepType, InitSafety, StepSafety, PTL DEF Spec

\* However many rebalances there are and wherever a crash or a panic hits them,
\* a transfer under way belongs to the holder of balance_mutex or to a dead task.
THEOREM WalletOneInFlight == Spec => []OneInFlight
  <1>1. TypeOK /\ SafetyInv => OneInFlight
    BY DEF SafetyInv
  <1> QED BY <1>1, WalletSafety, PTL

\* No task gives up a transfer that is or may yet be received: what arrives is
\* on record, about to be, or its task is dead.
THEOREM WalletReceivedTransfersAccounted == Spec => []ReceivedTransfersAccounted
  <1>1. TypeOK /\ SafetyInv => ReceivedTransfersAccounted
    BY DEF SafetyInv
  <1> QED BY <1>1, WalletSafety, PTL

\* TxMetadataStore::insert never finds a value under its key.
THEOREM WalletInsertsAreNew == Spec => []InsertsAreNew
  <1>1. TypeOK /\ SafetyInv => InsertsAreNew
    BY PcFacts DEF SafetyInv, InsertsAreNew, CurrentIsNew, LegHeld, SentHeld
  <1> QED BY <1>1, WalletSafety, PTL

-----------------------------------------------------------------------------
(* PaysAtMostOnce: it is inductive once records are known to stay.         *)

\* Nothing the wallet does removes a record.
LEMMA RecordsStay ==
    ASSUME TypeOK, Next
    PROVE  \A k \in PaymentId : Has(k) => Has(k)'
  <1>1. ASSUME NEW j, NEW v, v.ty # "None", do_set(j, v)
        PROVE  \A k \in PaymentId : Has(k) => Has(k)'
    BY <1>1, Shapes DEF do_set, Has
  <1>2. CASE UNCHANGED tx_metadata
    BY <1>2 DEF Has
  <1>3. ASSUME NEW t \in Task, LockStep(t) \/ HoldingStep(t)
        PROVE  \A k \in PaymentId : Has(k) => Has(k)'
    <2>1. CASE Mark(t)
      <3>1. Plain("Trigger").ty # "None"
        BY DEF Plain
      <3> QED BY <1>1, <2>1, <3>1 DEF Mark, set_tx_caused_rebalance
    <2>2. CASE InsertCustodial(t) \/ InsertLightning(t)
      <3>1. RebalanceMetadata(t).ty # "None"
        BY DEF RebalanceMetadata, TransferToNonCustodial
      <3> QED BY <1>1, <2>2, <3>1 DEF InsertCustodial, InsertLightning
    <2>3. CASE ~(Mark(t) \/ InsertCustodial(t) \/ InsertLightning(t))
      BY <1>2, <1>3, <2>3
      DEF LockStep, HoldingStep, Holding, Lock, Check, GetInvoice, GetInvoiceFails,
          CustodialPay, CustodialPayFails, Poll, Subscribe, Wake, MarkPanics,
          set_tx_caused_rebalance_fails, walletVars
    <2> QED BY <2>1, <2>2, <2>3
  <1>4. CASE MonitorLoop
    <2>1. CASE InsertIncoming
      <3>1. Plain("Payment").ty # "None"
        BY DEF Plain
      <3> QED BY <1>1, <2>1, <3>1 DEF InsertIncoming
    <2>2. CASE ~InsertIncoming
      BY <1>2, <1>4, <2>2
      DEF MonitorLoop, MonitorStep, List, ListFails, Scan, ScanDone, DecideNot,
          DecideRebalance, DecidePanics, SyncClaim, SyncDone
    <2> QED BY <2>1, <2>2
  <1>5. ASSUME NEW p \in Payer, PayStep(p)
        PROVE  \A k \in PaymentId : Has(k) => Has(k)'
    <2>1. CASE PayRecordCustodial(p) \/ PayRecordLightning(p)
      <3>1. Plain("Payment").ty # "None"
        BY DEF Plain
      <3> QED BY <1>1, <2>1, <3>1 DEF PayRecordCustodial, PayRecordLightning
    <2>2. CASE ~(PayRecordCustodial(p) \/ PayRecordLightning(p))
      BY <1>2, <1>5, <2>2
      DEF PayStep, Pay, PayStart, PaySkip, PayEstimate, PaySendCustodial,
          PaySendLightning, PaySendFails, PayGivesUp, walletVars
    <2> QED BY <2>1, <2>2
  <1>6. CASE EventTask \/ Network \/ CrashAndRestart
    BY <1>2, <1>6
    DEF EventTask, Network, Deposit, Delivered, Undelivered, LightningSent,
        LightningSendFails, OtherLightningReceipt, CrashAndRestart, taskVars
  <1> QED BY <1>3, <1>4, <1>5, <1>6 DEF Next

-----------------------------------------------------------------------------
\* The call of pay has sent what is in sent, and does not try again.
HasPaid(p) == payPc[p] \in {"record", "ok", "lost"}

\* The shape of a step that keeps PaysAtMostOnce: a payment that appears is some
\* call's, and a call that has paid keeps its payment.
LEMMA OwnedStep ==
    ASSUME PaysAtMostOnce,
           \A c \in CustId : transfer'[c].dir = "out" /\ transfer'[c].dest = NoId =>
              \/ transfer[c].dir = "out" /\ transfer[c].dest = NoId
              \/ \E p \in Payer : sent'[p] = c /\ HasPaid(p)',
           \A l \in LnId : lnPay'[l].dir = "out" =>
              \/ lnPay[l].dir = "out"
              \/ \E p \in Payer : sent'[p] = l /\ HasPaid(p)',
           \A p \in Payer : HasPaid(p) => sent'[p] = sent[p] /\ HasPaid(p)',
           \A p \in Payer : payPc'[p] = "ok" => Has(sent[p])'
    PROVE  PaysAtMostOnce'
  BY DEF PaysAtMostOnce, HasPaid

\* No step but those of pay ends a call, and none but those of pay pays.
LEMMA OthersPayNothing ==
    ASSUME TypeOK, PaysAtMostOnce, Next,
           UNCHANGED sent,
           \A p \in Payer : payPc'[p] = payPc[p] \/ (payPc'[p] = "lost" /\ payPc[p] # "ok"),
           \A c \in CustId : transfer'[c].dir = "out" /\ transfer'[c].dest = NoId =>
              transfer[c].dir = "out" /\ transfer[c].dest = NoId,
           \A l \in LnId : lnPay'[l].dir = "out" => lnPay[l].dir = "out"
    PROVE  PaysAtMostOnce'
  <1>1. \A p \in Payer : HasPaid(p) => HasPaid(p)'
    BY DEF HasPaid
  <1>2. \A p \in Payer : payPc'[p] = "ok" => Has(sent[p])'
    <2>1. \A p \in Payer : payPc[p] = "ok" => sent[p] \in PaymentId /\ Has(sent[p])
      BY DEF TypeOK, PayTypeOK, PaysAtMostOnce
    <2> QED BY <2>1, RecordsStay
  <1> QED BY <1>1, <1>2, OwnedStep

LEMMA RebalancePaysNothing ==
    ASSUME TypeOK, PaysAtMostOnce, Next, NEW t \in Task, LockStep(t) \/ HoldingStep(t)
    PROVE  PaysAtMostOnce'
  <1>1. UNCHANGED <<sent, payPc>>
    BY DEF LockStep, HoldingStep, payVars
  <1>2. \A c \in CustId : transfer'[c].dir = "out" /\ transfer'[c].dest = NoId =>
           transfer[c].dir = "out" /\ transfer[c].dest = NoId
    <2>1. CASE CustodialPay(t)
      <3>1. PICK c \in UnusedCustIds : SparkPay(c, invoice[t], lnPay[invoice[t]].amount)
        BY <2>1 DEF CustodialPay
      <3>2. invoice[t] # NoId
        BY <2>1, Shapes, IdFacts DEF CustodialPay
      <3>3. c \in CustId
        BY DEF UnusedCustIds
      <3>4. /\ transfer'[c].dest # NoId
            /\ \A d \in CustId \ {c} : transfer'[d] = transfer[d]
        BY <3>1, <3>2, <3>3, Shapes DEF SparkPay
      <3> QED BY <3>4
    <2>2. CASE ~CustodialPay(t)
      <3>1. UNCHANGED transfer
        BY <2>2
        DEF LockStep, HoldingStep, Holding, Lock, Check, GetInvoice, GetInvoiceFails,
            CustodialPayFails, SparkPayFails, Poll, Subscribe, Wake, Mark, MarkPanics,
            InsertCustodial, InsertLightning, walletVars, sparkVars
      <3> QED BY <3>1
    <2> QED BY <2>1, <2>2
  <1>3. \A l \in LnId : lnPay'[l].dir = "out" => lnPay[l].dir = "out"
    <2>1. CASE GetInvoice(t)
      <3>1. PICK l \in OwnInvoiceIds : LnInvoice(l, amount[t])
        BY <2>1 DEF GetInvoice
      <3>2. l \in LnId
        BY DEF OwnInvoiceIds, UnusedLnIds
      <3>3. /\ lnPay'[l].dir = "in"
            /\ \A m \in LnId \ {l} : lnPay'[m] = lnPay[m]
        BY <3>1, <3>2, Shapes DEF LnInvoice
      <3> QED BY <3>3
    <2>2. CASE ~GetInvoice(t)
      <3>1. UNCHANGED lnPay
        BY <2>2
        DEF LockStep, HoldingStep, Holding, Lock, Check, CustodialPay, GetInvoiceFails,
            CustodialPayFails, SparkPayFails, Poll, Subscribe, CloneReceiver, Wake,
            ReceiptSeen, Mark, MarkPanics, InsertCustodial, InsertLightning, walletVars,
            lightningVars, nodeVars
      <3> QED BY <3>1
    <2> QED BY <2>1, <2>2
  <1> QED BY <1>1, <1>2, <1>3, OthersPayNothing

LEMMA MonitorPaysNothing ==
    ASSUME TypeOK, PaysAtMostOnce, Next, MonitorLoop
    PROVE  PaysAtMostOnce'
  <1>1. UNCHANGED <<sent, payPc, lnPay>>
    BY DEF MonitorLoop, MonitorStep, List, ListFails, Scan, InsertIncoming, ScanDone,
           DecideNot, DecideRebalance, DecidePanics, SyncClaim, SyncDone, monitorRest,
           lightningVars, payVars
  <1>2. \A c \in CustId : /\ transfer'[c].dir = transfer[c].dir
                          /\ transfer'[c].dest = transfer[c].dest
    <2>1. CASE SyncClaim
      <3>1. PICK c \in CustId : SparkClaim(c)
        BY <2>1 DEF SyncClaim
      <3>2. PICK s : transfer' = [transfer EXCEPT ![c] = [transfer[c] EXCEPT !.status = s]]
        BY <3>1 DEF SparkClaim
      <3>3. transfer[c] \in Transfer
        BY DEF TypeOK, SparkTypeOK
      <3>4. LET r == [transfer[c] EXCEPT !.status = s]
            IN  r.dir = transfer[c].dir /\ r.dest = transfer[c].dest
        BY <3>3 DEF Transfer
      <3> QED BY <3>2, <3>4, Shapes
    <2>2. CASE ~SyncClaim
      BY <2>2 DEF MonitorLoop, MonitorStep, List, ListFails, Scan, InsertIncoming,
                  ScanDone, DecideNot, DecideRebalance, DecidePanics, SyncDone, sparkVars
    <2> QED BY <2>1, <2>2
  <1> QED BY <1>1, <1>2, OthersPayNothing

LEMMA EnvironmentPaysNothing ==
    ASSUME TypeOK, PaysAtMostOnce, Next, EventTask \/ Network \/ CrashAndRestart
    PROVE  PaysAtMostOnce'
  <1>1. /\ UNCHANGED sent
        /\ \A p \in Payer : payPc'[p] = payPc[p] \/ (payPc'[p] = "lost" /\ payPc[p] # "ok")
    <2>1. CASE CrashAndRestart
      BY <2>1 DEF CrashAndRestart
    <2>2. CASE EventTask \/ Network
      <3>1. UNCHANGED <<sent, payPc>>
        BY <2>2 DEF EventTask, Network, Deposit, Delivered, Undelivered, LightningSent,
                    LightningSendFails, OtherLightningReceipt, taskVars, payVars
      <3> QED BY <3>1
    <2> QED BY <2>1, <2>2
  <1>2. \A c \in CustId : transfer'[c].dir = "out" /\ transfer'[c].dest = NoId =>
           transfer[c].dir = "out" /\ transfer[c].dest = NoId
    <2>1. CASE Deposit
      BY <2>1, IdFacts, Shapes DEF Deposit, SparkDeposit
    <2>2. ASSUME NEW c \in CustId, Delivered(c) \/ Undelivered(c)
          PROVE  \A d \in CustId : /\ transfer'[d].dir = transfer[d].dir
                                   /\ transfer'[d].dest = transfer[d].dest
      BY <2>2, SettleShape DEF Delivered, Undelivered
    <2>3. CASE UNCHANGED transfer
      BY <2>3
    <2> QED
      BY <2>1, <2>2, <2>3 DEF EventTask, Network, LightningSent, LightningSendFails,
                              OtherLightningReceipt, CrashAndRestart, sparkVars
  <1>3. \A l \in LnId : lnPay'[l].dir = "out" => lnPay[l].dir = "out"
    <2>1. ASSUME NEW l \in LnId, NEW s, lnPay' = [lnPay EXCEPT ![l].status = s]
          PROVE  \A m \in LnId : lnPay'[m].dir = lnPay[m].dir
      BY <2>1, LnStatus
    <2>2. CASE UNCHANGED lnPay
      BY <2>2
    <2>3. ASSUME NEW c \in CustId, Delivered(c) \/ Undelivered(c)
          PROVE  \/ UNCHANGED lnPay
                 \/ \E l \in LnId, s \in {"Succeeded", "Failed"} :
                       lnPay' = [lnPay EXCEPT ![l].status = s]
      BY <2>3, Shapes DEF Delivered, Undelivered, LnReceive, LnReceiveFails, lightningVars
    <2>4. ASSUME NEW l \in LnId, LightningSent(l) \/ LightningSendFails(l)
          PROVE  \E s \in {"Succeeded", "Failed"} : lnPay' = [lnPay EXCEPT ![l].status = s]
      BY <2>4 DEF LightningSent, LightningSendFails, LnSent, LnSendFails
    <2>5. CASE EventTask \/ Deposit \/ OtherLightningReceipt \/ CrashAndRestart
      BY <2>2, <2>5 DEF EventTask, HandleEvent, Deposit, OtherLightningReceipt,
                        OtherReceipt, CrashAndRestart, nodeVars, lightningVars
    <2> QED BY <2>1, <2>2, <2>3, <2>4, <2>5 DEF Network
  <1> QED BY <1>1, <1>2, <1>3, OthersPayNothing

LEMMA PayPaysOnce ==
    ASSUME TypeOK, PaysAtMostOnce, Next, NEW p \in Payer, PayStep(p)
    PROVE  PaysAtMostOnce'
  <1>1. ASSUME NEW q \in Payer, payPc[q] = "ok"
        PROVE  tx_metadata'[sent[q]].ty # "None"
    <2>1. sent[q] \in PaymentId /\ Has(sent[q])
      BY <1>1 DEF TypeOK, PayTypeOK, PaysAtMostOnce
    <2> QED BY <2>1, RecordsStay DEF Has
  <1>2. CASE PaySendCustodial(p)
    <2>1. PICK c \in UnusedCustIds, s \in MethodOf(p).amount :
             SparkPay(c, NoId, s) /\ sent' = [sent EXCEPT ![p] = c]
      BY <1>2 DEF PaySendCustodial
    <2>2. /\ payPc[p] = "send" /\ payPc' = [payPc EXCEPT ![p] = "record"]
          /\ UNCHANGED lnPay
      BY <1>2 DEF PaySendCustodial, PayGoto, lightningVars
    <2>3. \A d \in CustId \ {c} : transfer'[d] = transfer[d]
      BY <2>1, Shapes DEF SparkPay
    <2>4. sent'[p] = c /\ HasPaid(p)'
      BY <2>1, <2>2, Shapes DEF HasPaid
    <2>5. \A q \in Payer \ {p} : sent'[q] = sent[q] /\ payPc'[q] = payPc[q]
      BY <2>1, <2>2, Shapes
    <2>6. \A q \in Payer : HasPaid(q) => sent'[q] = sent[q] /\ HasPaid(q)'
      BY <2>2, <2>5 DEF HasPaid
    <2>7. \A q \in Payer : payPc'[q] = "ok" => Has(sent[q])'
      <3>1. payPc'[p] = "record"
        BY <2>2, Shapes
      <3>2. \A q \in Payer : payPc'[q] = "ok" => q # p /\ payPc[q] = "ok" /\ sent'[q] = sent[q]
        BY <2>5, <3>1
      <3> QED BY <1>1, <3>2 DEF Has
    <2> QED BY <2>2, <2>3, <2>4, <2>6, <2>7, OwnedStep
  <1>3. CASE PaySendLightning(p)
    <2>1. PICK l \in LnIdsOf(MethodOf(p)) :
             /\ LnSend(l, MethodOf(p).type, MethodOf(p).amount, pay_amount[p])
             /\ sent' = [sent EXCEPT ![p] = l]
      BY <1>3 DEF PaySendLightning
    <2>2. /\ payPc[p] = "send" /\ payPc' = [payPc EXCEPT ![p] = "record"]
          /\ UNCHANGED transfer
      BY <1>3 DEF PaySendLightning, PayGoto, sparkVars
    <2>3. \A m \in LnId \ {l} : lnPay'[m] = lnPay[m]
      BY <2>1, Shapes DEF LnSend
    <2>4. sent'[p] = l /\ HasPaid(p)'
      BY <2>1, <2>2, Shapes DEF HasPaid
    <2>5. \A q \in Payer \ {p} : sent'[q] = sent[q] /\ payPc'[q] = payPc[q]
      BY <2>1, <2>2, Shapes
    <2>6. \A q \in Payer : HasPaid(q) => sent'[q] = sent[q] /\ HasPaid(q)'
      BY <2>2, <2>5 DEF HasPaid
    <2>7. \A q \in Payer : payPc'[q] = "ok" => Has(sent[q])'
      <3>1. payPc'[p] = "record"
        BY <2>2, Shapes
      <3>2. \A q \in Payer : payPc'[q] = "ok" => q # p /\ payPc[q] = "ok" /\ sent'[q] = sent[q]
        BY <2>5, <3>1
      <3> QED BY <1>1, <3>2 DEF Has
    <2> QED BY <2>2, <2>3, <2>4, <2>6, <2>7, OwnedStep
  <1>4. CASE PayRecordCustodial(p) \/ PayRecordLightning(p)
    <2>1. /\ payPc[p] = "record" /\ payPc' = [payPc EXCEPT ![p] = "ok"]
          /\ UNCHANGED <<transfer, lnPay, sent>>
      BY <1>4 DEF PayRecordCustodial, PayRecordLightning, PayGoto, sparkVars, lightningVars
    <2>2. sent[p] \in PaymentId /\ Has(sent[p])'
      BY <1>4, IdFacts, Shapes
      DEF PayRecordCustodial, PayRecordLightning, do_set, Plain, Has
    <2>3. \A q \in Payer : HasPaid(q) => sent'[q] = sent[q] /\ HasPaid(q)'
      BY <2>1, Shapes DEF HasPaid
    <2>4. \A q \in Payer : payPc'[q] = "ok" => Has(sent[q])'
      <3>1. \A q \in Payer : payPc'[q] = "ok" => q = p \/ payPc[q] = "ok"
        BY <2>1, Shapes
      <3> QED BY <1>1, <2>1, <2>2, <3>1 DEF Has
    <2> QED BY <2>1, <2>3, <2>4, OwnedStep
  <1>5. CASE PayStart(p) \/ PaySkip(p) \/ PayEstimate(p) \/ PaySendFails(p) \/ PayGivesUp(p)
    <2>1. /\ payPc[p] \notin {"record", "ok", "lost"}
          /\ UNCHANGED <<transfer, lnPay, sent>>
          /\ payPc' = payPc \/ \E s \in {"attempt", "send", "err"} :
                                  payPc' = [payPc EXCEPT ![p] = s]
      BY <1>5 DEF PayStart, PaySkip, PayEstimate, PaySendFails, SparkPayFails, PayGivesUp,
                  PayGoto, walletVars, sparkVars, lightningVars
    <2>2. \A q \in Payer : /\ HasPaid(q) => HasPaid(q)'
                           /\ payPc'[q] = "ok" => payPc[q] = "ok"
      BY <2>1, Shapes DEF HasPaid
    <2>3. \A q \in Payer : payPc'[q] = "ok" => Has(sent[q])'
      BY <1>1, <2>1, <2>2 DEF Has
    <2> QED BY <2>1, <2>2, <2>3, OwnedStep
  <1> QED BY <1>2, <1>3, <1>4, <1>5 DEF PayStep, Pay

\* A call of pay pays at most once: every payment out of either side is the one
\* some call sent last and will not follow by another; Ok means it is on record.
THEOREM WalletPaysAtMostOnce == Spec => []PaysAtMostOnce
  <1>1. Init => PaysAtMostOnce
    <2>1. Init => /\ \A c \in CustId : transfer[c].dir = "unused"
                  /\ \A l \in LnId : lnPay[l].dir = "unused"
                  /\ \A p \in Payer : payPc[p] = "idle"
      BY DEF Init, SparkInit, UnusedTransfer, LightningInit, UnusedPayment, PayInit
    <2> QED BY <2>1 DEF PaysAtMostOnce
  <1>2. TypeOK /\ PaysAtMostOnce /\ [Next]_vars => PaysAtMostOnce'
    <2> SUFFICES ASSUME TypeOK, PaysAtMostOnce, [Next]_vars PROVE PaysAtMostOnce'
      OBVIOUS
    <2>1. CASE UNCHANGED vars
      <3>1. UNCHANGED <<transfer, lnPay, tx_metadata, payPc, sent>>
        BY <2>1 DEF vars, sparkVars, lightningVars, taskVars, payVars
      <3> QED BY <3>1 DEF PaysAtMostOnce, Has
    <2>2. CASE Next
      BY <2>2, RebalancePaysNothing, MonitorPaysNothing, EnvironmentPaysNothing,
         PayPaysOnce DEF Next
    <2> QED BY <2>1, <2>2
  <1> QED BY <1>1, <1>2, WalletTypeOK, PTL DEF Spec

\* However rebalances fail, return, panic or die, balance_mutex is free or held
\* by a task that is past the lock: what is left of RebalancesEnd is that the
\* receipt which the holder may be waiting for comes.
THEOREM WalletHolderAtWork == Spec => []HolderAtWork
  <1>1. Init => HolderAtWork
    BY DEF Init, RebalanceInit, HolderAtWork
  <1>2. TypeOK /\ SafetyInv /\ HolderAtWork /\ [Next]_vars => HolderAtWork'
    <2> SUFFICES ASSUME TypeOK, SafetyInv, HolderAtWork, [Next]_vars PROVE HolderAtWork'
      OBVIOUS
    <2> USE IdFacts, PcFacts, Shapes DEF HolderAtWork
    <2>1. mutex \in Task \cup {NoTask}
      BY DEF TypeOK, RebalanceTypeOK
    <2>2. ASSUME NEW t \in Task, LockStep(t) \/ HoldingStep(t)
          PROVE  HolderAtWork'
      <3>1. \E s : /\ pc' = [pc EXCEPT ![t] = s]
                   /\ \/ mutex' = NoTask
                      \/ mutex' = t /\ s \in LockedPc
                      \/ mutex' = mutex /\ s \in LockedPc
        BY <2>2
        DEF LockStep, HoldingStep, Holding, Lock, Check, GetInvoice, GetInvoiceFails,
            CustodialPay, CustodialPayFails, Poll, Subscribe, CloneReceiver, Wake,
            ReceiptSeen, Mark, MarkPanics, InsertCustodial, InsertLightning, Goto, Return
      <3> QED BY <2>1, <3>1
    <2>3. CASE MonitorLoop
      <3>1. pc[Monitor] \notin LockedPc /\ mutex' = mutex
        BY <2>3 DEF MonitorLoop, MonitorStep, List, ListFails, Scan, InsertIncoming, ScanDone,
                    DecideNot, DecideRebalance, DecidePanics, SyncClaim, SyncDone, monitorRest
      <3>2. \A t \in Task \ {Monitor} : pc'[t] = pc[t]
        BY <2>3 DEF MonitorLoop, MonitorStep, List, ListFails, Scan, InsertIncoming, ScanDone,
                    DecideNot, DecideRebalance, DecidePanics, SyncClaim, SyncDone, Goto
      <3> QED BY <2>1, <3>1, <3>2
    <2>4. ASSUME NEW p \in Payer, PayStep(p)
          PROVE  HolderAtWork'
      <3>1. CASE PayRecordLightning(p)
        <4>1. pc[p] \notin LockedPc
          BY <3>1 DEF PayRecordLightning, SafetyInv, SpawnedByOk
        <4>2. mutex' = mutex /\ \A t \in Task \ {p} : pc'[t] = pc[t]
          BY <3>1 DEF PayRecordLightning, Goto
        <4> QED BY <2>1, <4>1, <4>2
      <3>2. CASE ~PayRecordLightning(p)
        BY <2>4, <3>2 DEF PayStep, Pay, PayStart, PaySkip, PayEstimate, PaySendCustodial,
                          PaySendLightning, PayRecordCustodial, PaySendFails, PayGivesUp, payRest
      <3> QED BY <3>1, <3>2
    <2>5. CASE EventTask \/ Network \/ UNCHANGED vars
      BY <2>5 DEF EventTask, Network, Deposit, Delivered, Undelivered, LightningSent,
                  LightningSendFails, OtherLightningReceipt, taskVars, rebalanceVars, vars
    <2>6. CASE CrashAndRestart
      BY <2>6 DEF CrashAndRestart
    <2> QED BY <2>2, <2>3, <2>4, <2>5, <2>6 DEF Next
  <1> QED BY <1>1, <1>2, WalletSafety, PTL DEF Spec

-----------------------------------------------------------------------------
(* Which records are written over.                                         *)

\* What a write to the metadata may be: a new record, the custodial wallet's or
\* that of a received transfer; a payment made a trigger; or a call's upsert.
WritesRecord(k, v) ==
    \/ k \in CustId /\ ~Has(k)
    \/ /\ k \in LnId /\ ~Has(k)
       /\ lnPay[k].dir = "in" /\ v.ty = "Transfer"
    \/ tx_metadata[k].ty = "Payment" /\ v = Plain("Trigger")
    \/ /\ v = Plain("Payment")
       /\ \E p \in Payer :
             /\ k = sent[p] /\ sent'[p] = k /\ k \in LnId
             /\ payPc[p] = "record" /\ payPc'[p] = "ok"

LEMMA RecordWrites ==
    ASSUME TypeOK, SafetyInv, Next
    PROVE  \/ UNCHANGED tx_metadata
           \/ \E k \in PaymentId : \E v : do_set(k, v) /\ WritesRecord(k, v)
  <1> USE IdFacts, PcFacts, Shapes DEF SafetyInv, WritesRecord
  <1> DEFINE Goal == \/ UNCHANGED tx_metadata
                     \/ \E k \in PaymentId : \E v : do_set(k, v) /\ WritesRecord(k, v)
  <1> SUFFICES Goal
    OBVIOUS
  <1>1. ASSUME NEW k \in PaymentId, NEW v, do_set(k, v), WritesRecord(k, v)
        PROVE  Goal
    BY <1>1
  <1>2. CASE UNCHANGED tx_metadata
    BY <1>2
  <1> HIDE DEF Goal
  <1>3. ASSUME NEW t \in Task, LockStep(t) \/ HoldingStep(t)
        PROVE  Goal
    <2>1. CASE Mark(t)
      <3>1. trigger[t] \in PaymentId
        BY <2>1 DEF Mark, TypeOK, RebalanceTypeOK, RebalancePc
      <3> QED BY <1>1, <2>1, <3>1 DEF Mark, set_tx_caused_rebalance
    <2>2. CASE InsertCustodial(t)
      <3>1. /\ rebalance[t] \in CustId /\ ~Has(rebalance[t])
            /\ do_set(rebalance[t], RebalanceMetadata(t))
        BY <2>2 DEF InsertCustodial, LegHeld
      <3> QED BY <1>1, <3>1
    <2>3. CASE InsertLightning(t)
      <3>1. /\ invoice[t] \in LnId /\ ~Has(invoice[t])
            /\ transfer[rebalance[t]].dest = invoice[t]
            /\ transfer[rebalance[t]].dir = "out" /\ rebalance[t] \in CustId
            /\ do_set(invoice[t], RebalanceMetadata(t))
        BY <2>3 DEF InsertLightning, LegHeld
      <3>2. lnPay[invoice[t]].dir = "in"
        BY <3>1 DEF OneTransferPerInvoice, ToInvoice
      <3>3. RebalanceMetadata(t).ty = "Transfer"
        BY DEF RebalanceMetadata, TransferToNonCustodial
      <3> QED BY <1>1, <3>1, <3>2, <3>3
    <2>4. CASE ~(Mark(t) \/ InsertCustodial(t) \/ InsertLightning(t))
      <3>1. UNCHANGED tx_metadata
        BY <1>3, <2>4
        DEF LockStep, HoldingStep, Holding, Lock, Check, GetInvoice, GetInvoiceFails,
            CustodialPay, CustodialPayFails, Poll, Subscribe, Wake, MarkPanics,
            set_tx_caused_rebalance_fails, walletVars
      <3> QED BY <1>2, <3>1
    <2> QED BY <2>1, <2>2, <2>3, <2>4
  <1>4. CASE MonitorLoop
    <2>1. CASE InsertIncoming
      <3>1. current \in CustId /\ ~Has(current) /\ do_set(current, Plain("Payment"))
        BY <2>1 DEF InsertIncoming, CurrentIsNew, TypeOK, MonitorTypeOK
      <3> QED BY <1>1, <3>1
    <2>2. CASE ~InsertIncoming
      BY <1>2, <1>4, <2>2
      DEF MonitorLoop, MonitorStep, List, ListFails, Scan, ScanDone, DecideNot,
          DecideRebalance, DecidePanics, SyncClaim, SyncDone
    <2> QED BY <2>1, <2>2
  <1>5. ASSUME NEW p \in Payer, PayStep(p)
        PROVE  Goal
    <2>1. CASE PayRecordCustodial(p)
      <3>1. sent[p] \in CustId /\ ~Has(sent[p]) /\ do_set(sent[p], Plain("Payment"))
        BY <2>1 DEF PayRecordCustodial, SentHeld
      <3> QED BY <1>1, <3>1
    <2>2. CASE PayRecordLightning(p)
      <3>1. /\ sent[p] \in LnId /\ do_set(sent[p], Plain("Payment"))
            /\ payPc[p] = "record" /\ payPc'[p] = "ok"
            /\ sent'[p] = sent[p]
        BY <2>2 DEF PayRecordLightning, PayGoto
      <3>2. sent[p] \in PaymentId /\ WritesRecord(sent[p], Plain("Payment"))
        BY <3>1
      <3> HIDE DEF WritesRecord
      <3> QED BY <1>1, <3>1, <3>2
    <2>3. CASE ~(PayRecordCustodial(p) \/ PayRecordLightning(p))
      BY <1>2, <1>5, <2>3
      DEF PayStep, Pay, PayStart, PaySkip, PayEstimate, PaySendCustodial,
          PaySendLightning, PaySendFails, PayGivesUp, walletVars
    <2> QED BY <2>1, <2>2, <2>3
  <1>6. CASE EventTask \/ Network \/ CrashAndRestart
    BY <1>2, <1>6
    DEF EventTask, Network, Deposit, Delivered, Undelivered, LightningSent,
        LightningSendFails, OtherLightningReceipt, CrashAndRestart, taskVars
  <1>7. Goal
    BY <1>3, <1>4, <1>5, <1>6 DEF Next
  <1> QED BY <1>7 DEF Goal

\* An invoice of the wallet stays one, and a call that returned stays returned.
LEMMA OwnersStay ==
    ASSUME TypeOK, SafetyInv, Next
    PROVE  /\ \A l \in LnId : lnPay[l].dir = "in" => lnPay'[l].dir = "in"
           /\ \A q \in Payer : payPc[q] = "ok" => payPc'[q] = "ok" /\ sent'[q] = sent[q]
  <1> USE IdFacts, Shapes
  <1> DEFINE InvoicesStay == \A l \in LnId : lnPay[l].dir = "in" => lnPay'[l].dir = "in"
             CallsStay == \A q \in Payer : payPc[q] = "ok" => payPc'[q] = "ok" /\ sent'[q] = sent[q]
  <1>1. ASSUME NEW t \in Task, LockStep(t) \/ HoldingStep(t)
        PROVE  InvoicesStay /\ CallsStay
    <2>1. UNCHANGED <<payPc, sent>>
      BY <1>1 DEF LockStep, HoldingStep, payVars
    <2>2. CASE GetInvoice(t)
      BY <2>1, <2>2 DEF GetInvoice, LnInvoice
    <2>3. CASE ~GetInvoice(t)
      <3>1. UNCHANGED lnPay
        BY <1>1, <2>3
        DEF LockStep, HoldingStep, Holding, Lock, Check, GetInvoiceFails, CustodialPay,
            CustodialPayFails, Poll, Subscribe, CloneReceiver, Wake, ReceiptSeen, Mark,
            MarkPanics, InsertCustodial, InsertLightning, walletVars, lightningVars, nodeVars
      <3> QED BY <2>1, <3>1
    <2> QED BY <2>2, <2>3
  <1>2. CASE MonitorLoop
    <2>1. UNCHANGED <<lnPay, payPc, sent>>
      <3>1. UNCHANGED <<payPc, sent>>
        BY <1>2 DEF MonitorLoop, payVars
      <3>2. List \/ ListFails => UNCHANGED lnPay
        BY DEF List, ListFails, monitorRest, walletVars, lightningVars
      <3>3. Scan \/ InsertIncoming \/ ScanDone => UNCHANGED lnPay
        BY DEF Scan, InsertIncoming, ScanDone, monitorRest, walletVars, lightningVars
      <3>4. DecideNot => UNCHANGED lnPay
        BY DEF DecideNot, monitorRest, walletVars, lightningVars
      <3>5. DecideRebalance => UNCHANGED lnPay
        BY DEF DecideRebalance, monitorRest, walletVars, lightningVars
      <3>6. DecidePanics => UNCHANGED lnPay
        BY DEF DecidePanics, monitorRest, walletVars, lightningVars
      <3>7. SyncClaim \/ SyncDone => UNCHANGED lnPay
        BY DEF SyncClaim, SyncDone, monitorRest, walletVars, lightningVars
      <3> QED BY <1>2, <3>1, <3>2, <3>3, <3>4, <3>5, <3>6, <3>7 DEF MonitorLoop, MonitorStep
    <2> QED BY <2>1
  <1>3. ASSUME NEW p \in Payer, PayStep(p)
        PROVE  InvoicesStay /\ CallsStay
    <2>1. InvoicesStay
      <3>1. CASE PaySendLightning(p)
        <4>1. PICK l \in LnIdsOf(MethodOf(p)) :
                 LnSend(l, MethodOf(p).type, MethodOf(p).amount, pay_amount[p])
          BY <3>1 DEF PaySendLightning
        <4>2. /\ lnPay[l].dir \in {"unused", "out"}
              /\ \A m \in LnId \ {l} : lnPay'[m] = lnPay[m]
          BY <4>1 DEF LnSend, LnPayable
        <4> QED BY <4>2
      <3>2. CASE ~PaySendLightning(p)
        <4>1. UNCHANGED lnPay
          BY <1>3, <3>2
          DEF PayStep, Pay, PayStart, PaySkip, PayEstimate, PaySendCustodial,
              PayRecordCustodial, PayRecordLightning, PaySendFails, PayGivesUp,
              walletVars, lightningVars
        <4> QED BY <4>1
      <3> QED BY <3>1, <3>2
    <2>2. /\ payPc[p] # "ok"
          /\ \A q \in Payer \ {p} : payPc'[q] = payPc[q] /\ sent'[q] = sent[q]
      BY <1>3
      DEF PayStep, Pay, PayStart, PaySkip, PayEstimate, PaySendCustodial, PaySendLightning,
          PayRecordCustodial, PayRecordLightning, PaySendFails, PayGivesUp, PayGoto
    <2> QED BY <2>1, <2>2
  <1>4. CASE EventTask \/ Network
    <2>1. UNCHANGED <<payPc, sent>>
      BY <1>4
      DEF EventTask, Network, Deposit, Delivered, Undelivered, LightningSent,
          LightningSendFails, OtherLightningReceipt, taskVars, payVars
    <2>2. \/ UNCHANGED lnPay
          \/ \E l \in LnId : \E s : lnPay' = [lnPay EXCEPT ![l].status = s]
      BY <1>4
      DEF EventTask, HandleEvent, Network, Deposit, Delivered, Undelivered, LnReceive,
          LnReceiveFails, LightningSent, LnSent, LightningSendFails, LnSendFails,
          OtherLightningReceipt, OtherReceipt, nodeVars, lightningVars
    <2>3. ASSUME NEW m \in LnId
          PROVE  lnPay'[m].dir = lnPay[m].dir
      <3>1. CASE UNCHANGED lnPay
        BY <3>1
      <3>2. ASSUME NEW l \in LnId, NEW s, lnPay' = [lnPay EXCEPT ![l].status = s]
            PROVE  lnPay'[m].dir = lnPay[m].dir
        BY <3>2 DEF TypeOK, LightningTypeOK, LnPayment
      <3> QED BY <2>2, <3>1, <3>2
    <2> QED BY <2>1, <2>3
  <1>5. CASE CrashAndRestart
    BY <1>5 DEF CrashAndRestart, nodeVars
  <1> QED BY <1>1, <1>2, <1>3, <1>4, <1>5 DEF Next

LEMMA RecordsOwnedStep ==
    ASSUME TypeOK, SafetyInv, RecordsOwned, Next
    PROVE  RecordsOwned'
  <1> USE IdFacts, Shapes
  <1>1. CASE UNCHANGED tx_metadata
    BY <1>1, OwnersStay DEF RecordsOwned
  <1>2. ASSUME NEW k \in PaymentId, NEW v, do_set(k, v), WritesRecord(k, v)
        PROVE  RecordsOwned'
    <2>1. \A l \in LnId \ {k} : tx_metadata'[l] = tx_metadata[l]
      BY <1>2 DEF do_set
    <2>2. tx_metadata'[k] = v
      BY <1>2 DEF do_set
    <2>3. ASSUME NEW l \in LnId, l # k
          PROVE  /\ tx_metadata'[l].ty = "Transfer" => lnPay'[l].dir = "in"
                 /\ tx_metadata'[l].ty \in {"Payment", "Trigger"} =>
                       \E q \in Payer : sent'[q] = l /\ payPc'[q] = "ok"
                 /\ tx_metadata'[l].ty = "Payment" => tx_metadata'[l] = Plain("Payment")
      BY <2>1, <2>3, OwnersStay DEF RecordsOwned
    <2>4. ASSUME k \in LnId
          PROVE  /\ v.ty = "Transfer" => lnPay'[k].dir = "in"
                 /\ v.ty \in {"Payment", "Trigger"} =>
                       \E q \in Payer : sent'[q] = k /\ payPc'[q] = "ok"
                 /\ v.ty = "Payment" => v = Plain("Payment")
      <3>1. CASE lnPay[k].dir = "in" /\ v.ty = "Transfer"
        BY <2>4, <3>1, OwnersStay
      <3>2. CASE tx_metadata[k].ty = "Payment" /\ v = Plain("Trigger")
        BY <2>4, <3>2, OwnersStay DEF RecordsOwned, Plain
      <3>3. ASSUME v = Plain("Payment")
            PROVE  v.ty = "Payment"
        BY <3>3 DEF Plain
      <3> QED BY <1>2, <2>4, <3>1, <3>2, <3>3 DEF WritesRecord
    <2> QED BY <2>2, <2>3, <2>4 DEF RecordsOwned
  <1> QED BY <1>1, <1>2, RecordWrites

\* What is on record stays, whatever is interleaved, crashes or is paid again, but
\* that a payment becomes the trigger of a transfer, and that the upsert of a call
\* of pay makes the trigger of another call's payment, which failed, a payment
\* again. Two calls may be given the same invoice.
THEOREM WalletOnlyRepayingOverwrites == Spec => OnlyRepayingOverwrites
  <1> DEFINE Overwrites ==
        \A k \in PaymentId : Has(k) /\ tx_metadata'[k] # tx_metadata[k] =>
           \/ tx_metadata[k].ty = "Payment" /\ tx_metadata'[k].ty = "Trigger"
           \/ /\ tx_metadata[k].ty = "Trigger" /\ tx_metadata'[k].ty = "Payment"
              /\ \E p, q \in Payer :
                    /\ p # q /\ sent[p] = k /\ sent[q] = k
                    /\ payPc[q] = "ok"
                    /\ payPc[p] = "record" /\ payPc'[p] = "ok"
  <1>1. Init => RecordsOwned
    BY IdFacts DEF Init, MetadataInit, Plain, RecordsOwned
  <1>2. TypeOK /\ SafetyInv /\ RecordsOwned /\ [Next]_vars => RecordsOwned'
    <2>1. UNCHANGED vars /\ RecordsOwned => RecordsOwned'
      BY DEF RecordsOwned, vars, lightningVars, taskVars, payVars
    <2> QED BY <2>1, RecordsOwnedStep
  <1>3. ASSUME TypeOK, SafetyInv, RecordsOwned, Next
        PROVE  Overwrites
    <2> USE Shapes
    <2>1. CASE UNCHANGED tx_metadata
      BY <2>1
    <2>2. ASSUME NEW k \in PaymentId, NEW v, do_set(k, v), WritesRecord(k, v)
          PROVE  Overwrites
      <3>1. /\ tx_metadata'[k] = v
            /\ \A j \in PaymentId \ {k} : tx_metadata'[j] = tx_metadata[j]
        BY <1>3, <2>2 DEF do_set
      <3>2. CASE ~Has(k)
        BY <3>1, <3>2
      <3>3. CASE tx_metadata[k].ty = "Payment" /\ v = Plain("Trigger")
        BY <3>1, <3>3 DEF Plain
      <3>4. ASSUME NEW p \in Payer, Has(k), v # tx_metadata[k], v = Plain("Payment"),
                   k = sent[p], k \in LnId, payPc[p] = "record", payPc'[p] = "ok"
            PROVE  /\ tx_metadata[k].ty = "Trigger"
                   /\ \E q \in Payer : q # p /\ sent[q] = k /\ payPc[q] = "ok"
        <4>1. lnPay[k].dir = "out"
          BY <1>3, <3>4 DEF SafetyInv, SentHeld
        <4>2. tx_metadata[k].ty # "Transfer" /\ tx_metadata[k].ty # "Payment"
          BY <1>3, <3>4, <4>1 DEF RecordsOwned
        <4>3. tx_metadata[k].ty = "Trigger"
          BY <1>3, <3>4, <4>2 DEF TypeOK, MetadataTypeOK, TxMetadata, Has
        <4>4. PICK q \in Payer : sent[q] = k /\ payPc[q] = "ok"
          BY <1>3, <3>4, <4>3 DEF RecordsOwned
        <4> QED BY <3>4, <4>3, <4>4
      <3>5. Plain("Payment").ty = "Payment"
        BY DEF Plain
      <3> QED BY <2>2, <3>1, <3>2, <3>3, <3>4, <3>5 DEF WritesRecord
    <2> QED BY <1>3, <2>1, <2>2, RecordWrites
  <1>4. TypeOK /\ SafetyInv /\ RecordsOwned /\ [Next]_vars => [Overwrites]_vars
    BY <1>3
  <1> QED BY <1>1, <1>2, <1>4, WalletSafety, PTL DEF Spec, OnlyRepayingOverwrites

=============================================================================
