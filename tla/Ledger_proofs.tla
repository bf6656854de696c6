---------------------------- MODULE Ledger_proofs ----------------------------
(***************************************************************************)
(* The wallet keeps a TransferLedger, for every instance in which no two   *)
(* calls of pay are given the same invoice: its initial state maps to an   *)
(* empty book, and each of its steps to one of the book's, or to none.     *)
(***************************************************************************)
EXTENDS WalletLedger, Transfer_proofs

-----------------------------------------------------------------------------
(* The mapping: where the ledger's variables stand.                        *)

\* The transfer to an invoice is the one custodial payment to it.
TransfersTold ==
    \A l \in LnId :
       /\ \A c \in CustId \ DepositId : transfer[c].dest = l =>
             ToInvoice(c) /\ Transfers[l] = [state |-> StateOf(c), by |-> c]
       /\ (\A c \in CustId \ DepositId : transfer[c].dest # l) =>
             Transfers[l] = [state |-> "none", by |-> NoId]

LEMMA TransfersAreTold == RecordsInv => TransfersTold
  <1> SUFFICES ASSUME RecordsInv, NEW l \in LnId
               PROVE  /\ \A c \in CustId \ DepositId : transfer[c].dest = l =>
                            ToInvoice(c) /\ Transfers[l] = [state |-> StateOf(c), by |-> c]
                      /\ (\A c \in CustId \ DepositId : transfer[c].dest # l) =>
                            Transfers[l] = [state |-> "none", by |-> NoId]
    BY DEF TransfersTold
  <1> DEFINE payments == {c \in CustId \ DepositId : transfer[c].dest = l}
  <1>1. Transfers[l] = IF payments = {} THEN [state |-> "none", by |-> NoId]
                       ELSE LET c == CHOOSE c \in payments : TRUE
                            IN [state |-> StateOf(c), by |-> c]
    BY DEF Transfers
  <1>2. \A c \in payments : ToInvoice(c)
    BY IdFacts DEF RecordsInv, TransferInv, EndsAgree, ToInvoice
  <1>3. \A c, d \in payments : c = d
    BY <1>2 DEF RecordsInv, SafetyInv, OneTransferPerInvoice
  <1>4. ASSUME NEW c \in payments
        PROVE  Transfers[l] = [state |-> StateOf(c), by |-> c]
    <2>1. (CHOOSE d \in payments : TRUE) = c
      BY <1>3
    <2>2. payments # {}
      OBVIOUS
    <2> HIDE DEF payments
    <2> QED BY <1>1, <2>1, <2>2
  <1>5. (\A c \in CustId \ DepositId : transfer[c].dest # l) => payments = {}
    OBVIOUS
  <1> QED BY <1>1, <1>2, <1>4, <1>5

\* What is kept track of is the invoice of the one task that has paid.
CurrentTold ==
    /\ \A t \in Task : pc[t] \in LegPc => Current = invoice[t]
    /\ (\A t \in Task : pc[t] \notin LegPc) => Current = NoId

LEMMA CurrentIsTold == RecordsInv => CurrentTold
  <1> SUFFICES ASSUME RecordsInv PROVE CurrentTold
    OBVIOUS
  <1> DEFINE owners == {t \in Task : pc[t] \in LegPc}
  <1>1. Current = IF owners = {} THEN NoId ELSE invoice[CHOOSE t \in owners : TRUE]
    BY DEF Current
  <1>2. \A t, u \in owners : t = u
    BY LegIsKnown, PcFacts DEF RecordsInv
  <1>3. ASSUME NEW t \in owners
        PROVE  Current = invoice[t]
    <2>1. (CHOOSE u \in owners : TRUE) = t
      BY <1>2
    <2>2. owners # {}
      OBVIOUS
    <2> HIDE DEF owners
    <2> QED BY <1>1, <2>1, <2>2
  <1> QED BY <1>1, <1>3 DEF CurrentTold

\* The entries are the lightning sides that are on record.
EntryAt(l) ==
    [lightning |-> l, custodial |-> tx_metadata[l].custodial_payment,
     cause |-> tx_metadata[l].payment_triggering_transfer]

EntriesTold == Entries = {EntryAt(l) : l \in {m \in LnId : tx_metadata[m].ty = "Transfer"}}

LEMMA EntriesAreTold == RecordsInv => EntriesTold
  <1> SUFFICES ASSUME RecordsInv PROVE EntriesTold
    OBVIOUS
  <1>1. ASSUME NEW l \in LnId, tx_metadata[l].ty = "Transfer"
        PROVE  tx_metadata[l].lightning_payment = l /\ Entered(tx_metadata[l])
    <2> DEFINE e == tx_metadata[l]
    <2>1. /\ e.custodial_payment \in CustId
          /\ l \in {e.custodial_payment, e.lightning_payment}
          /\ tx_metadata[e.custodial_payment] = e
          /\ tx_metadata[e.payment_triggering_transfer].ty = "Trigger"
      BY <1>1, IdFacts DEF RecordsInv, TransferInv, TransferPaired, EntriesAreTransfers
    <2>2. e.lightning_payment = l
      BY <2>1, IdFacts
    <2> QED BY <1>1, <2>1, <2>2 DEF Entered
  <1>2. \A e : Entered(e) => e.ty = "Transfer"
    BY DEF Entered
  <1> DEFINE full(e) == [lightning |-> e.lightning_payment, custodial |-> e.custodial_payment,
                         cause |-> e.payment_triggering_transfer]
             there == {f \in {tx_metadata[l] : l \in LnId} : Entered(f)}
  <1>3. Entries = {full(e) : e \in there}
    BY DEF Entries
  <1>4. there = {tx_metadata[l] : l \in {m \in LnId : tx_metadata[m].ty = "Transfer"}}
    BY <1>1, <1>2
  <1>5. \A l \in LnId : tx_metadata[l].ty = "Transfer" => full(tx_metadata[l]) = EntryAt(l)
    BY <1>1 DEF EntryAt
  <1> HIDE DEF full, there
  <1>6. Entries = {EntryAt(l) : l \in {m \in LnId : tx_metadata[m].ty = "Transfer"}}
    BY <1>3, <1>4, <1>5
  <1> QED BY <1>6 DEF EntriesTold

\* The same of the state a step leads to.
LEMMA NextIsTold ==
    RecordsInv' => TransfersTold' /\ CurrentTold' /\ EntriesTold'
  BY TransfersAreTold, CurrentIsTold, EntriesAreTold, PTL

-----------------------------------------------------------------------------
(* What leaves each part of the mapping alone.                             *)

LEMMA TransfersKept ==
    ASSUME \A c \in CustId \ DepositId :
              /\ transfer'[c].dest = transfer[c].dest
              /\ transfer[c].dest # NoId => StateOf(c)' = StateOf(c)
    PROVE  UNCHANGED Transfers
  <1> DEFINE payments(l) == {c \in CustId \ DepositId : transfer[c].dest = l}
             payment(l) == CHOOSE c \in payments(l) : TRUE
             at(l) == IF payments(l) = {} THEN [state |-> "none", by |-> NoId]
                      ELSE [state |-> StateOf(payment(l)), by |-> payment(l)]
  <1>1. ASSUME NEW l \in LnId
        PROVE  at(l)' = at(l)
    <2>1. payments(l)' = payments(l)
      OBVIOUS
    <2>2. ASSUME NEW c \in payments(l)
          PROVE  StateOf(c)' = StateOf(c)
      BY <1>1, IdFacts
    <2>3. payments(l) # {} => payment(l) \in payments(l)
      OBVIOUS
    <2> HIDE DEF payments
    <2>4. payment(l)' = payment(l)
      BY <2>1
    <2> HIDE DEF payment
    <2>5. payments(l) # {} => StateOf(payment(l))' = StateOf(payment(l))
      BY <2>2, <2>3, <2>4 DEF StateOf
    <2> QED BY <2>1, <2>4, <2>5
  <1>2. Transfers = [l \in LnId |-> at(l)] /\ Transfers' = [l \in LnId |-> at(l)']
    BY DEF Transfers
  <1> HIDE DEF at
  <1> QED BY <1>1, <1>2

LEMMA CurrentKept ==
    ASSUME \A t \in Task : pc'[t] \in LegPc <=> pc[t] \in LegPc,
           \A t \in Task : pc[t] \in LegPc => invoice'[t] = invoice[t]
    PROVE  UNCHANGED Current
  <1> DEFINE owners == {t \in Task : pc[t] \in LegPc}
  <1>1. {t \in Task : pc'[t] \in LegPc} = owners
    OBVIOUS
  <1>2. ASSUME owners # {}
        PROVE  invoice'[CHOOSE t \in owners : TRUE] = invoice[CHOOSE t \in owners : TRUE]
    <2>1. (CHOOSE t \in owners : TRUE) \in owners
      BY <1>2
    <2> QED BY <2>1
  <1> QED BY <1>1, <1>2 DEF Current

LEMMA EntriesKept ==
    ASSUME RecordsInv, RecordsInv',
           \A l \in LnId : \/ tx_metadata'[l] = tx_metadata[l]
                           \/ tx_metadata[l].ty # "Transfer" /\ tx_metadata'[l].ty # "Transfer"
    PROVE  UNCHANGED Entries
  <1> DEFINE recorded == {m \in LnId : tx_metadata[m].ty = "Transfer"}
  <1>1. recorded' = recorded
    OBVIOUS
  <1>2. \A l \in recorded : EntryAt(l)' = EntryAt(l)
    BY DEF EntryAt
  <1>3. /\ Entries = {EntryAt(l) : l \in recorded}
        /\ Entries' = {EntryAt(l)' : l \in recorded'}
    BY EntriesAreTold, NextIsTold DEF EntriesTold
  <1> HIDE DEF recorded
  <1> QED BY <1>1, <1>2, <1>3

LEMMA DeathsKept ==
    ASSUME UNCHANGED crashes,
           \A t \in Task : pc'[t] = "panicked" <=> pc[t] = "panicked"
    PROVE  UNCHANGED Deaths
  BY DEF Deaths

-----------------------------------------------------------------------------
LEMMA InitKeepsLedger == Init => Ledger!LedgerInit
  <1> SUFFICES ASSUME Init PROVE Ledger!LedgerInit
    OBVIOUS
  <1> USE IdFacts DEF Init
  <1>1. \A c \in CustId : transfer[c].dest = NoId
    BY DEF SparkInit, UnusedTransfer
  <1>2. Transfers = [l \in LnId |-> Ledger!At("none", NoId)]
    BY <1>1 DEF Transfers, Ledger!At
  <1>3. Current = NoId
    BY PcFacts DEF Current
  <1>4. \A l \in LnId : ~Entered(tx_metadata[l])
    BY DEF MetadataInit, Plain, Entered
  <1>5. Entries = {}
    BY <1>4 DEF Entries
  <1> QED BY <1>2, <1>3, <1>5 DEF Ledger!LedgerInit

-----------------------------------------------------------------------------
(* The steps of a rebalance.                                               *)

\* Between the payment and the last entry the book does not see the task, nor
\* before, nor where it returns before it has paid.
LEMMA QuietRebalanceLedger ==
    ASSUME RecordsInv, RecordsInv', NEW t \in Task,
           \/ Lock(t) \/ Check(t) \/ GetInvoice(t) \/ GetInvoiceFails(t)
           \/ CustodialPayFails(t) \/ Subscribe(t) \/ Wake(t) \/ Mark(t) \/ InsertCustodial(t)
           \/ Poll(t) /\ ReceivedStatus(t) # "Failed",
           UNCHANGED crashes
    PROVE  UNCHANGED <<Transfers, Current, Entries, Deaths>>
  <1> USE IdFacts, PcFacts, Shapes DEF RecordsInv
  <1>1. UNCHANGED transfer
    BY DEF Lock, Check, GetInvoice, GetInvoiceFails, CustodialPayFails, SparkPayFails,
           Subscribe, Wake, Mark, InsertCustodial, Poll, walletVars, sparkVars
  <1>2. PICK s : /\ pc' = [pc EXCEPT ![t] = s]
                 /\ s # "panicked" /\ pc[t] # "panicked"
                 /\ s \in LegPc <=> pc[t] \in LegPc
    BY DEF Lock, Check, GetInvoice, GetInvoiceFails, CustodialPayFails, Subscribe, Wake,
           Mark, InsertCustodial, Poll, Goto, Return, AfterRebalance
  <1>3. \A u \in Task : pc[u] \in LegPc => invoice'[u] = invoice[u]
    <2>1. CASE GetInvoice(t)
      BY <2>1 DEF GetInvoice
    <2>2. CASE ~GetInvoice(t)
      BY <2>2
      DEF Lock, Check, GetInvoiceFails, CustodialPayFails, Subscribe, Wake, Mark,
          InsertCustodial, Poll, localVars
    <2> QED BY <2>1, <2>2
  <1>4. \A l \in LnId :
           \/ tx_metadata'[l] = tx_metadata[l]
           \/ tx_metadata[l].ty # "Transfer" /\ tx_metadata'[l].ty # "Transfer"
    <2>1. CASE Mark(t)
      BY <2>1 DEF Mark, set_tx_caused_rebalance, do_set, Plain
    <2>2. CASE InsertCustodial(t)
      <3>1. rebalance[t] \in CustId
        BY <2>2 DEF InsertCustodial
      <3> QED BY <2>2, <3>1 DEF InsertCustodial, do_set
    <2>3. CASE ~Mark(t) /\ ~InsertCustodial(t)
      BY <2>3
      DEF Lock, Check, GetInvoice, GetInvoiceFails, CustodialPayFails, Subscribe, Wake,
          Poll, walletVars
    <2> QED BY <2>1, <2>2, <2>3
  <1>5. UNCHANGED Transfers
    BY <1>1, TransfersKept DEF StateOf
  <1>6. UNCHANGED Current
    BY <1>2, <1>3, CurrentKept
  <1>7. UNCHANGED Entries
    BY <1>4, EntriesKept
  <1>8. UNCHANGED Deaths
    BY <1>2, DeathsKept
  <1> QED BY <1>5, <1>6, <1>7, <1>8

\* A task that pays begins a transfer, since no other task has one.
LEMMA CustodialPayLedger ==
    ASSUME RecordsInv, RecordsInv', NEW t \in Task, CustodialPay(t), UNCHANGED crashes
    PROVE  Ledger!Begin
  <1> USE IdFacts, PcFacts, Shapes DEF RecordsInv
  <1>0. PICK c \in UnusedCustIds :
           /\ SparkPay(c, invoice[t], lnPay[invoice[t]].amount)
           /\ rebalance' = [rebalance EXCEPT ![t] = c]
    BY DEF CustodialPay
  <1> DEFINE l == invoice[t]
  <1>1. /\ c \in CustId \ DepositId
        /\ transfer[c].dir = "unused"
        /\ transfer'[c].dest = l /\ transfer'[c].status = "Pending"
        /\ \A d \in CustId \ {c} : transfer'[d] = transfer[d]
    BY <1>0 DEF SparkPay, UnusedCustIds
  <1>2. /\ pc[t] = "custpay"
        /\ pc' = [pc EXCEPT ![t] = "poll"]
        /\ UNCHANGED <<tx_metadata, invoice>>
        /\ l \in LnId
    BY DEF CustodialPay, Goto
  <1>3. Current = NoId
    <2>1. \A u \in Task : pc[u] \notin LegPc
      BY <1>2 DEF SafetyInv, MutexHeld
    <2> QED BY <2>1, CurrentIsTold DEF CurrentTold
  <1>4. Current' = l
    BY <1>2, NextIsTold DEF CurrentTold
  <1>5. transfer[c].dest = NoId
    BY <1>1 DEF TransferInv, EndsAgree
  <1>6. \A d \in CustId \ DepositId : transfer[d].dest # l
    BY <1>2 DEF SafetyInv, InvoiceNotPaid, TransferInv, EndsAgree, ToInvoice
  <1>7. Transfers[l] = [state |-> "none", by |-> NoId]
    BY <1>2, <1>6, TransfersAreTold DEF TransfersTold
  <1>8. \A k \in LnId : Transfers[k].by # c
    <2> SUFFICES ASSUME NEW k \in LnId, Transfers[k].by = c
                 PROVE  FALSE
      OBVIOUS
    <2>1. CASE \E d \in CustId \ DepositId : transfer[d].dest = k
      <3>1. PICK d \in CustId \ DepositId : transfer[d].dest = k
        BY <2>1
      <3>2. Transfers[k] = [state |-> StateOf(d), by |-> d]
        BY <3>1, TransfersAreTold DEF TransfersTold
      <3> QED BY <1>5, <3>1, <3>2
    <2>2. CASE \A d \in CustId \ DepositId : transfer[d].dest # k
      BY <1>1, <2>2, TransfersAreTold DEF TransfersTold
    <2> QED BY <2>1, <2>2
  <1>9. Transfers' = [Transfers EXCEPT ![l] = Ledger!At("moving", c)]
    <2>1. Transfers'[l] = Ledger!At("moving", c)
      <3>1. StateOf(c)' = "moving"
        BY <1>1 DEF StateOf
      <3> QED BY <1>1, <1>2, <3>1, NextIsTold DEF TransfersTold, Ledger!At
    <2>2. ASSUME NEW k \in LnId \ {l}
          PROVE  Transfers'[k] = Transfers[k]
      <3>1. \A d \in CustId \ DepositId : transfer[d].dest = k \/ transfer'[d].dest = k =>
               transfer'[d] = transfer[d] /\ StateOf(d)' = StateOf(d)
        BY <1>1, <1>5 DEF StateOf
      <3>2. CASE \E d \in CustId \ DepositId : transfer[d].dest = k
        <4>1. PICK d \in CustId \ DepositId : transfer[d].dest = k
          BY <3>2
        <4>2. Transfers[k] = [state |-> StateOf(d), by |-> d]
          BY <4>1, TransfersAreTold DEF TransfersTold
        <4>3. Transfers'[k] = [state |-> StateOf(d)', by |-> d]
          BY <3>1, <4>1, NextIsTold DEF TransfersTold
        <4> QED BY <3>1, <4>1, <4>2, <4>3
      <3>3. CASE \A d \in CustId \ DepositId : transfer[d].dest # k
        BY <3>1, <3>3, TransfersAreTold, NextIsTold DEF TransfersTold
      <3> QED BY <3>2, <3>3
    <2>3. /\ Transfers = [k \in LnId |-> Transfers[k]]
          /\ Transfers' = [k \in LnId |-> Transfers'[k]]
      BY DEF Transfers
    <2> HIDE DEF l
    <2> QED BY <1>2, <2>1, <2>2, <2>3
  <1>10. UNCHANGED <<Entries, Deaths>>
    BY <1>2, EntriesKept, DeathsKept
  <1>11. l \in LnId /\ l # NoId /\ c \in CustId /\ Transfers[l].state = "none"
    BY <1>1, <1>2, <1>7
  <1> HIDE DEF l
  <1> QED BY <1>3, <1>4, <1>8, <1>9, <1>10, <1>11 DEF Ledger!Begin

\* A failed receipt is one of a transfer that comes back.
LEMMA PollLedger ==
    ASSUME RecordsInv, RecordsInv', NEW t \in Task, Poll(t), ReceivedStatus(t) = "Failed",
           UNCHANGED crashes
    PROVE  Ledger!GiveUp
  <1> USE IdFacts, PcFacts, Shapes DEF RecordsInv
  <1> DEFINE l == invoice[t]
             c == rebalance[t]
  <1>1. /\ pc[t] = "poll"
        /\ pc' = [pc EXCEPT ![t] = AfterRebalance(t)]
        /\ AfterRebalance(t) \in {"sync", "finished"}
        /\ UNCHANGED <<transfer, tx_metadata, invoice>>
        /\ lnPay[l].status = "Failed"
    BY DEF Poll, Goto, Return, AfterRebalance, ReceivedStatus, walletVars, sparkVars, localVars
  <1>2. /\ c \in CustId \ DepositId
        /\ l \in LnId
        /\ ToInvoice(c) /\ transfer[c].dest = l
        /\ \A u \in Task : pc[u] \in LockedPc => u = t
    BY <1>1, LegIsKnown
  <1>3. Current = l /\ Current # NoId
    BY <1>1, <1>2, CurrentIsTold DEF CurrentTold
  <1>4. Current' = NoId
    <2>1. \A u \in Task : pc'[u] \notin LegPc
      BY <1>1, <1>2
    <2> QED BY <2>1, NextIsTold DEF CurrentTold
  <1>5. Transfers[l].state = "returned"
    <2>1. StateOf(c) = "returned"
      BY <1>1, <1>2 DEF TransferInv, EndsAgree, StateOf
    <2>2. Transfers[l] = [state |-> StateOf(c), by |-> c]
      BY <1>2, TransfersAreTold DEF TransfersTold
    <2> QED BY <2>1, <2>2
  <1>6. UNCHANGED <<Transfers, Entries, Deaths>>
    BY <1>1, TransfersKept, EntriesKept, DeathsKept DEF StateOf
  <1> HIDE DEF l
  <1> QED BY <1>3, <1>4, <1>5, <1>6 DEF Ledger!GiveUp

\* With the last of the three writes the transfer is entered: its payment to
\* blame is one that no other entry blames.
LEMMA InsertLightningLedger ==
    ASSUME RecordsInv, RecordsInv', NEW t \in Task, InsertLightning(t), UNCHANGED crashes
    PROVE  Ledger!Enter
  <1> USE IdFacts, PcFacts, Shapes DEF RecordsInv
  <1> DEFINE l == invoice[t]
             c == rebalance[t]
             e == RebalanceMetadata(t)
  <1>1. /\ pc[t] = "insertL"
        /\ pc' = [pc EXCEPT ![t] = AfterRebalance(t)]
        /\ AfterRebalance(t) \in {"sync", "finished"}
        /\ UNCHANGED <<transfer, invoice>>
    BY DEF InsertLightning, Goto, Return, AfterRebalance, sparkVars, localVars
  <1>2. /\ c \in CustId \ DepositId
        /\ l \in LnId /\ trigger[t] \in PaymentId
        /\ ToInvoice(c) /\ transfer[c].dest = l
        /\ lnPay[l].status = "Succeeded"
        /\ ~Has(l)
        /\ \A u \in Task : pc[u] \in LockedPc => u = t
    BY <1>1, LegIsKnown DEF SafetyInv, LegHeld
  <1>3. Current = l /\ Current # NoId
    BY <1>1, <1>2, CurrentIsTold DEF CurrentTold
  <1>4. Current' = NoId
    <2>1. \A u \in Task : pc'[u] \notin LegPc
      BY <1>1, <1>2
    <2> QED BY <2>1, NextIsTold DEF CurrentTold
  <1>5. Transfers[l].state = "arrived" /\ Transfers[l].by = c
    <2>1. StateOf(c) = "arrived"
      BY <1>2 DEF TransferInv, EndsAgree, StateOf
    <2>2. Transfers[l] = [state |-> StateOf(c), by |-> c]
      BY <1>2, TransfersAreTold DEF TransfersTold
    <2> QED BY <2>1, <2>2
  <1>6. UNCHANGED <<Transfers, Deaths>>
    BY <1>1, TransfersKept, DeathsKept DEF StateOf
  <1>7. \A m \in LnId : tx_metadata[m].ty = "Transfer" => EntryAt(m).cause # trigger[t]
    <2> SUFFICES ASSUME NEW m \in LnId, tx_metadata[m].ty = "Transfer",
                        tx_metadata[m].payment_triggering_transfer = trigger[t]
                 PROVE  FALSE
      BY DEF EntryAt
    <2>1. tx_metadata[m] = e
      BY <1>1 DEF TransferInv, TriggerMarked
    <2>2. e.lightning_payment = l /\ e.custodial_payment = c
      BY EntryFields
    <2>3. m = l
      BY <1>2, <2>1, <2>2 DEF TransferInv, TransferPaired
    <2> QED BY <1>2, <2>3 DEF Has
  <1>8. Entries' = Entries \cup {[lightning |-> l, custodial |-> c, cause |-> trigger[t]]}
    <2> DEFINE recorded == {m \in LnId : tx_metadata[m].ty = "Transfer"}
    <2>0. PICK k : k = l
      OBVIOUS
    <2>1. /\ tx_metadata'[k] = e
          /\ \A m \in LnId \ {k} : tx_metadata'[m] = tx_metadata[m]
      BY <1>2, <2>0 DEF InsertLightning, do_set
    <2>2. /\ e.ty = "Transfer" /\ e.custodial_payment = c
          /\ e.payment_triggering_transfer = trigger[t]
      BY EntryFields
    <2>3. recorded' = recorded \cup {k}
      BY <1>2, <2>0, <2>1, <2>2
    <2>4. k \notin recorded
      BY <1>2, <2>0 DEF Has
    <2>5. \A m \in recorded : EntryAt(m)' = EntryAt(m)
      BY <2>1, <2>4 DEF EntryAt
    <2>6. EntryAt(k)' = [lightning |-> l, custodial |-> c, cause |-> trigger[t]]
      BY <2>0, <2>1, <2>2 DEF EntryAt
    <2>7. /\ Entries = {EntryAt(m) : m \in recorded}
          /\ Entries' = {EntryAt(m)' : m \in recorded'}
      BY EntriesAreTold, NextIsTold DEF EntriesTold
    <2> HIDE DEF recorded
    <2>8. {EntryAt(m)' : m \in recorded} = {EntryAt(m) : m \in recorded}
      BY <2>5
    <2>9. {EntryAt(m)' : m \in recorded \cup {k}} = {EntryAt(m)' : m \in recorded} \cup {EntryAt(k)'}
      OBVIOUS
    <2> QED BY <2>3, <2>6, <2>7, <2>8, <2>9
  <1>9. \A entry \in Entries : entry.cause # trigger[t]
    BY <1>7, EntriesAreTold DEF EntriesTold
  <1>10. trigger[t] \in PaymentId
    BY <1>2
  <1> HIDE DEF l, c
  <1>11. Entries' = Entries \cup {[lightning |-> Current, cause |-> trigger[t],
                                   custodial |-> Transfers[Current].by]}
    BY <1>3, <1>5, <1>8
  <1>12. \E cause \in PaymentId :
            /\ \A entry \in Entries : entry.cause # cause
            /\ Entries' = Entries \cup {[lightning |-> Current, cause |-> cause,
                                        custodial |-> Transfers[Current].by]}
    BY <1>9, <1>10, <1>11
  <1>13. Transfers[Current].state = "arrived"
    BY <1>3, <1>5
  <1> QED BY <1>3, <1>4, <1>6, <1>12, <1>13 DEF Ledger!Enter, PaymentId, Ledger!PaymentId

LEMMA RebalanceLedger ==
    ASSUME RecordsInv, RecordsInv', NEW t \in Task, LockStep(t) \/ HoldingStep(t)
    PROVE  [Ledger!LedgerNext]_<<Transfers, Current, Entries, Deaths>>
  <1>1. ~MarkPanics(t)
    BY MarkNeverPanics DEF RecordsInv
  <1>2. UNCHANGED crashes
    BY DEF LockStep, HoldingStep
  <1> QED
    BY <1>1, <1>2, QuietRebalanceLedger, CustodialPayLedger, PollLedger, InsertLightningLedger
    DEF LockStep, HoldingStep, Holding, Ledger!LedgerNext

-----------------------------------------------------------------------------
(* The steps of the monitor, of pay and of the world around the wallet.    *)

\* A panic of the monitor is a death; the rest of its loop the book does not see.
LEMMA MonitorLedger ==
    ASSUME RecordsInv, RecordsInv', MonitorLoop
    PROVE  [Ledger!LedgerNext]_<<Transfers, Current, Entries, Deaths>>
  <1> USE IdFacts, PcFacts, Shapes, RebalancePcFacts DEF RecordsInv
  <1>1. PICK label : /\ pc' = [pc EXCEPT ![Monitor] = label]
                     /\ pc[Monitor] \in {"list", "scan", "insert", "decide", "sync"}
                     /\ label \in {"list", "scan", "insert", "decide", "sync", "lock", "panicked"}
    BY DEF MonitorLoop, MonitorStep, List, ListFails, Scan, InsertIncoming, ScanDone,
           DecideNot, DecideRebalance, DecidePanics, SyncClaim, SyncDone, Goto
  <1>2. UNCHANGED <<invoice, crashes>>
    BY DEF MonitorLoop, MonitorStep, List, ListFails, Scan, InsertIncoming, ScanDone,
           DecideNot, DecideRebalance, DecidePanics, SyncClaim, SyncDone, monitorRest, localVars
  <1>3. UNCHANGED Current
    BY <1>1, <1>2, CurrentKept
  <1>4. UNCHANGED Transfers
    <2>1. CASE SyncClaim
      <3>1. PICK c \in CustId : SparkClaim(c)
        BY <2>1 DEF SyncClaim
      <3>2. transfer[c] \in Transfer
        BY MoreShapes
      <3>3. PICK s : /\ transfer' = [transfer EXCEPT ![c] = [transfer[c] EXCEPT !.status = s]]
                     /\ transfer[c].status = "Pending" \/ s = "Failed"
        BY <3>1 DEF SparkClaim
      <3>4. LET r == [transfer[c] EXCEPT !.status = s]
            IN  r.dest = transfer[c].dest /\ r.status = s
        BY <3>2 DEF Transfer
      <3>5. c \in CustId \ DepositId /\ transfer[c].dest # NoId =>
               transfer[c].status = "Returned" /\ s = "Failed"
        BY <3>1, <3>3 DEF SparkClaim, Claimable, TransferInv, EndsAgree
      <3>6. \A d \in CustId \ DepositId :
               /\ transfer'[d].dest = transfer[d].dest
               /\ transfer[d].dest # NoId => StateOf(d)' = StateOf(d)
        BY <3>3, <3>4, <3>5 DEF StateOf
      <3> QED BY <3>6, TransfersKept
    <2>2. CASE ~SyncClaim
      <3>1. UNCHANGED transfer
        BY <2>2 DEF MonitorLoop, MonitorStep, List, ListFails, Scan, InsertIncoming,
                    ScanDone, DecideNot, DecideRebalance, DecidePanics, SyncDone, sparkVars
      <3> QED BY <3>1, TransfersKept DEF StateOf
    <2> QED BY <2>1, <2>2
  <1>5. UNCHANGED Entries
    <2>1. CASE InsertIncoming
      <3>1. current \in DepositId /\ do_set(current, Plain("Payment"))
        BY <2>1 DEF InsertIncoming, TypeOK, MonitorTypeOK
      <3>2. \A l \in LnId : tx_metadata'[l] = tx_metadata[l]
        BY <3>1 DEF do_set
      <3> QED BY <3>2, EntriesKept
    <2>2. CASE ~InsertIncoming
      <3>1. UNCHANGED tx_metadata
        BY <2>2 DEF MonitorLoop, MonitorStep, List, ListFails, Scan, ScanDone,
                    DecideNot, DecideRebalance, DecidePanics, SyncClaim, SyncDone
      <3> QED BY <3>1, EntriesKept
    <2> QED BY <2>1, <2>2
  <1>6. label = "panicked" => Deaths' # Deaths
    BY <1>1 DEF Deaths, Task
  <1>7. label # "panicked" => UNCHANGED Deaths
    BY <1>1, <1>2, DeathsKept
  <1> QED BY <1>3, <1>4, <1>5, <1>6, <1>7 DEF Ledger!LedgerNext, Ledger!Die

\* The payments of calls are none of the book's.
LEMMA PayLedger ==
    ASSUME RecordsInv, RecordsInv', NEW p \in Payer, PayStep(p)
    PROVE  UNCHANGED <<Transfers, Current, Entries, Deaths>>
  <1> USE IdFacts, PcFacts, Shapes DEF RecordsInv
  <1>1. UNCHANGED <<invoice, crashes>>
    BY DEF PayStep, Pay, PayStart, PaySkip, PayEstimate, PaySendCustodial, PaySendLightning,
           PayRecordCustodial, PayRecordLightning, PaySendFails, PayGivesUp, payRest, localVars
  <1>2. \/ pc' = pc
        \/ pc[p] = "none" /\ pc' = [pc EXCEPT ![p] = "lock"]
    <2>1. CASE PayRecordLightning(p)
      BY <2>1 DEF PayRecordLightning, Goto, SafetyInv, SpawnedByOk
    <2>2. CASE ~PayRecordLightning(p)
      <3>1. UNCHANGED pc
        BY <2>2 DEF PayStep, Pay, PayStart, PaySkip, PayEstimate, PaySendCustodial,
                    PaySendLightning, PayRecordCustodial, PaySendFails, PayGivesUp, payRest
      <3> QED BY <3>1
    <2> QED BY <2>1, <2>2
  <1>3. UNCHANGED Current
    BY <1>1, <1>2, CurrentKept
  <1>4. UNCHANGED Deaths
    BY <1>1, <1>2, DeathsKept
  <1>5. UNCHANGED Transfers
    <2>1. CASE PaySendCustodial(p)
      <3>1. PICK c \in UnusedCustIds, s \in MethodOf(p).amount : SparkPay(c, NoId, s)
        BY <2>1 DEF PaySendCustodial
      <3>2. /\ transfer[c].dest = NoId /\ transfer'[c].dest = NoId
            /\ \A d \in CustId \ {c} : transfer'[d] = transfer[d]
        BY <3>1 DEF SparkPay, UnusedCustIds, TransferInv, EndsAgree
      <3> QED BY <3>2, TransfersKept DEF StateOf
    <2>2. CASE ~PaySendCustodial(p)
      <3>1. UNCHANGED transfer
        BY <2>2 DEF PayStep, Pay, PayStart, PaySkip, PayEstimate, PaySendLightning,
                    PayRecordCustodial, PayRecordLightning, PaySendFails, SparkPayFails,
                    PayGivesUp, walletVars, sparkVars
      <3> QED BY <3>1, TransfersKept DEF StateOf
    <2> QED BY <2>1, <2>2
  <1>6. UNCHANGED Entries
    <2>1. CASE PayRecordCustodial(p) \/ PayRecordLightning(p)
      <3>1. ~Has(sent[p]) /\ do_set(sent[p], Plain("Payment"))
        BY <2>1 DEF PayRecordCustodial, PayRecordLightning, TransferInv, SentApart
      <3>2. \A l \in LnId : \/ tx_metadata'[l] = tx_metadata[l]
                            \/ tx_metadata[l].ty # "Transfer" /\ tx_metadata'[l].ty # "Transfer"
        BY <3>1 DEF do_set, Plain, Has
      <3> QED BY <3>2, EntriesKept
    <2>2. CASE ~(PayRecordCustodial(p) \/ PayRecordLightning(p))
      <3>1. UNCHANGED tx_metadata
        BY <2>2 DEF PayStep, Pay, PayStart, PaySkip, PayEstimate, PaySendCustodial,
                    PaySendLightning, PaySendFails, PayGivesUp, walletVars
      <3> QED BY <3>1, EntriesKept
    <2> QED BY <2>1, <2>2
  <1> QED BY <1>3, <1>4, <1>5, <1>6

\* A transfer of the book ends when the service delivers or returns it.
LEMMA SettleLedger ==
    ASSUME RecordsInv, RecordsInv', NEW c \in CustId, NEW s \in {"Completed", "Returned"},
           SparkSettle(c, s), UNCHANGED taskVars
    PROVE  [Ledger!LedgerNext]_<<Transfers, Current, Entries, Deaths>>
  <1> USE IdFacts DEF RecordsInv
  <1>1. UNCHANGED <<Current, Entries, Deaths>>
    <2>1. UNCHANGED <<pc, invoice, tx_metadata, crashes>>
      BY DEF taskVars, rebalanceVars, localVars
    <2> QED BY <2>1, CurrentKept, EntriesKept, DeathsKept
  <1>2. /\ transfer[c].status = "Pending"
        /\ transfer'[c].status = s
        /\ \A d \in CustId : transfer'[d].dest = transfer[d].dest
        /\ \A d \in CustId \ {c} : StateOf(d)' = StateOf(d)
    BY SettledTransfer, SettleShape DEF StateOf
  <1>3. CASE c \in DepositId \/ transfer[c].dest = NoId
    <2>1. UNCHANGED Transfers
      BY <1>2, <1>3, TransfersKept
    <2> QED BY <1>1, <2>1
  <1>4. CASE c \notin DepositId /\ transfer[c].dest # NoId
    <2> DEFINE l == transfer[c].dest
    <2>1. l \in LnId
      BY <1>4, Shapes
    <2>2. Transfers[l] = [state |-> "moving", by |-> c]
      BY <1>2, <1>4, <2>1, TransfersAreTold DEF TransfersTold, StateOf
    <2>3. /\ Transfers'[l] = [state |-> StateOf(c)', by |-> c]
          /\ StateOf(c)' \in {"arrived", "returned"}
      BY <1>2, <1>4, <2>1, NextIsTold DEF TransfersTold, StateOf
    <2>4. ASSUME NEW k \in LnId \ {l}
          PROVE  Transfers'[k] = Transfers[k]
      <3>1. CASE \E d \in CustId \ DepositId : transfer[d].dest = k
        <4>1. PICK d \in CustId \ DepositId : transfer[d].dest = k
          BY <3>1
        <4>2. Transfers[k] = [state |-> StateOf(d), by |-> d]
          BY <4>1, TransfersAreTold DEF TransfersTold
        <4>3. Transfers'[k] = [state |-> StateOf(d)', by |-> d]
          BY <1>2, <4>1, NextIsTold DEF TransfersTold
        <4>4. StateOf(d)' = StateOf(d)
          BY <1>2, <2>4, <4>1
        <4> QED BY <4>2, <4>3, <4>4
      <3>2. CASE \A d \in CustId \ DepositId : transfer[d].dest # k
        BY <1>2, <3>2, TransfersAreTold, NextIsTold DEF TransfersTold
      <3> QED BY <3>1, <3>2
    <2>5. /\ Transfers = [k \in LnId |-> Transfers[k]]
          /\ Transfers' = [k \in LnId |-> Transfers'[k]]
      BY DEF Transfers
    <2> HIDE DEF l
    <2>6. /\ Transfers[l].state = "moving"
          /\ Transfers'[l].state \in {"arrived", "returned"}
      BY <2>2, <2>3
    <2>7. Transfers' = [Transfers EXCEPT ![l].state = Transfers'[l].state]
      <3>1. Transfers'[l] = [Transfers[l] EXCEPT !.state = Transfers'[l].state]
        BY <2>2, <2>3
      <3> QED BY <2>1, <2>4, <2>5, <3>1
    <2>8. Ledger!End
      BY <1>1, <2>1, <2>6, <2>7 DEF Ledger!End
    <2> QED BY <2>8 DEF Ledger!LedgerNext
  <1> QED BY <1>3, <1>4

LEMMA EnvironmentLedger ==
    ASSUME RecordsInv, RecordsInv', EventTask \/ Network
    PROVE  [Ledger!LedgerNext]_<<Transfers, Current, Entries, Deaths>>
  <1> USE IdFacts DEF RecordsInv
  <1>1. UNCHANGED taskVars
    BY DEF EventTask, Network, Deposit, Delivered, Undelivered, LightningSent,
           LightningSendFails, OtherLightningReceipt
  <1>2. ASSUME NEW c \in CustId, Delivered(c) \/ Undelivered(c)
        PROVE  [Ledger!LedgerNext]_<<Transfers, Current, Entries, Deaths>>
    BY <1>1, <1>2, SettleLedger DEF Delivered, Undelivered
  <1>3. CASE EventTask \/ Deposit \/ OtherLightningReceipt
             \/ \E l \in LnId : LightningSent(l) \/ LightningSendFails(l)
    <2>1. \A d \in CustId \ DepositId : transfer'[d] = transfer[d]
      BY <1>3, Shapes
      DEF EventTask, Deposit, SparkDeposit, OtherLightningReceipt, LightningSent,
          LightningSendFails, sparkVars
    <2>2. UNCHANGED <<pc, invoice, tx_metadata, crashes>>
      BY <1>1 DEF taskVars, rebalanceVars, localVars
    <2>3. UNCHANGED Transfers
      BY <2>1, TransfersKept DEF StateOf
    <2> QED BY <2>2, <2>3, CurrentKept, EntriesKept, DeathsKept
  <1> QED BY <1>2, <1>3 DEF Network

\* With the process dies whoever kept track.
LEMMA CrashLedger ==
    ASSUME RecordsInv, RecordsInv', CrashAndRestart
    PROVE  Ledger!Die
  <1> USE DEF RecordsInv
  <1>1. UNCHANGED <<transfer, tx_metadata>>
    BY DEF CrashAndRestart, sparkVars
  <1>2. UNCHANGED <<Transfers, Entries>>
    BY <1>1, TransfersKept, EntriesKept DEF StateOf
  <1>3. Deaths' # Deaths
    <2>1. crashes' = crashes + 1 /\ crashes \in Nat
      BY DEF CrashAndRestart, TypeOK
    <2> QED BY <2>1 DEF Deaths
  <1>4. Current' = NoId
    <2>1. \A t \in Task : pc'[t] \notin LegPc
      BY PcFacts DEF CrashAndRestart
    <2> QED BY <2>1, NextIsTold DEF CurrentTold
  <1> QED BY <1>2, <1>3, <1>4 DEF Ledger!Die

-----------------------------------------------------------------------------
LEMMA StepKeepsLedger ==
    ASSUME RecordsInv, RecordsInv', [Next]_vars
    PROVE  [Ledger!LedgerNext]_(Ledger!ledgerVars)
  <1>1. CASE UNCHANGED vars
    <2>1. UNCHANGED <<transfer, pc, invoice, tx_metadata, crashes>>
      BY <1>1 DEF vars, taskVars, rebalanceVars, localVars, sparkVars
    <2>2. UNCHANGED <<Transfers, Current, Entries, Deaths>>
      BY <2>1, TransfersKept, CurrentKept, EntriesKept, DeathsKept DEF StateOf
    <2> QED BY <2>2 DEF Ledger!ledgerVars
  <1>2. CASE Next
    <2>1. CASE CrashAndRestart
      BY <2>1, CrashLedger DEF Ledger!LedgerNext
    <2>2. CASE MonitorLoop \/ EventTask \/ Network
      BY <2>2, MonitorLedger, EnvironmentLedger DEF Ledger!ledgerVars
    <2>3. CASE \E t \in Task : LockStep(t) \/ HoldingStep(t)
      BY <2>3, RebalanceLedger DEF Ledger!ledgerVars
    <2>4. CASE \E p \in Payer : PayStep(p)
      <3>1. UNCHANGED <<Transfers, Current, Entries, Deaths>>
        BY <2>4, PayLedger
      <3> QED BY <3>1 DEF Ledger!ledgerVars
    <2> QED BY <1>2, <2>1, <2>2, <2>3, <2>4 DEF Next
  <1> QED BY <1>1, <1>2

\* The rebalances of the monitor and of any number of calls of pay, interleaved
\* at their awaits and at each of their three writes, with panics and crashes
\* anywhere, implement a ledger that one task keeps in single steps.
THEOREM WalletKeepsLedger ==
    ASSUME DistinctInvoices
    PROVE  Spec => KeepsLedger
  <1>1. Init => Ledger!LedgerInit
    BY InitKeepsLedger
  <1>2. RecordsInv /\ RecordsInv' /\ [Next]_vars => [Ledger!LedgerNext]_(Ledger!ledgerVars)
    BY StepKeepsLedger
  <1>3. Spec => []RecordsInv
    BY WalletTransfers, PTL DEF RecordsInv
  <1> QED BY <1>1, <1>2, <1>3, PTL DEF Spec, KeepsLedger, Ledger!LedgerSpec

=============================================================================
