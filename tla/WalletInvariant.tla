-------------------------- MODULE WalletInvariant --------------------------
(***************************************************************************)
(* The inductive invariant behind the wallet's safety properties: who owns *)
(* which id, and where a transfer between the two sides is while a task is *)
(* at work on it.                                                          *)
(***************************************************************************)
EXTENDS Wallet

\* A task is past the lock only while it holds it.
MutexHeld == \A t \in Task : pc[t] \in LockedPc => mutex = t

\* The mutex is never left behind: its holder is a task past the lock, whatever
\* failed, panicked or crashed.
HolderAtWork == mutex # NoTask => pc[mutex] \in LockedPc

\* The task a call of pay spawns does not exist before the call has succeeded.
SpawnedByOk == \A p \in Payer : payPc[p] # "ok" => pc[p] = "none"

\* Nothing is on record of an id that nobody has used.
UnusedIdsHaveNoMetadata ==
    /\ \A c \in CustId \ DepositId : transfer[c].dir = "unused" => ~Has(c)
    /\ \A l \in LnId : lnPay[l].dir = "unused" => ~Has(l)

\* A transfer between the two sides, by its custodial id.
ToInvoice(c) == transfer[c].dir = "out" /\ transfer[c].dest # NoId

\* An invoice of the wallet is paid for by one transfer, and stays pending for
\* as long as the transfer does.
OneTransferPerInvoice ==
    /\ \A c \in CustId : ToInvoice(c) =>
          /\ lnPay[transfer[c].dest].dir = "in"
          /\ transfer[c].status = "Pending" => lnPay[transfer[c].dest].status = "Pending"
    /\ \A c, d \in CustId :
          ToInvoice(c) /\ ToInvoice(d) /\ transfer[c].dest = transfer[d].dest => c = d

\* An invoice about to be paid is not paid for, received or on record yet.
InvoiceNotPaid ==
    \A t \in Task : pc[t] = "custpay" =>
       /\ lnPay[invoice[t]].dir = "in"
       /\ lnPay[invoice[t]].status = "Pending"
       /\ ~Has(invoice[t])
       /\ \A c \in CustId : ToInvoice(c) => transfer[c].dest # invoice[t]

\* A task that has paid holds a transfer to its invoice, neither end on record
\* before it writes it, and it writes nothing before the transfer is received.
LegHeld ==
    \A t \in Task : pc[t] \in LegPc =>
       /\ rebalance[t] \notin DepositId
       /\ transfer[rebalance[t]].dir = "out"
       /\ transfer[rebalance[t]].dest = invoice[t]
       /\ ~Has(invoice[t])
       /\ pc[t] # "insertL" => ~Has(rebalance[t])
       /\ pc[t] \in {"mark", "insertC", "insertL"} => lnPay[invoice[t]].status = "Succeeded"

\* What a call of pay has sent is a payment out of one side, a custodial one of
\* this call alone, and not on record before the call writes it.
SentHeld ==
    \A p \in Payer :
       /\ sent[p] \in CustId =>
             /\ sent[p] \notin DepositId
             /\ transfer[sent[p]].dir = "out"
             /\ transfer[sent[p]].dest = NoId
             /\ payPc[p] = "record" => ~Has(sent[p])
             /\ \A q \in Payer \ {p} : sent[q] # sent[p]
       /\ sent[p] \in LnId => lnPay[sent[p]].dir = "out"

\* Whose a record of the node's payments is: that of a transfer is about an
\* invoice of the wallet, any other was written by a call that returned Ok, and
\* says nothing else until a transfer is blamed on it.
\* (Beside SafetyInv, this is what OnlyRepayingOverwrites needs.)
RecordsOwned ==
    \A l \in LnId :
       /\ tx_metadata[l].ty = "Transfer" => lnPay[l].dir = "in"
       /\ tx_metadata[l].ty \in {"Payment", "Trigger"} =>
             \E q \in Payer : sent[q] = l /\ payPc[q] = "ok"
       /\ tx_metadata[l].ty = "Payment" => tx_metadata[l] = Plain("Payment")

\* What the monitor is about to insert is not on record.
CurrentIsNew == pc[Monitor] = "insert" => ~Has(current)

\* The parts that need each other to be preserved. With the types they are
\* inductive, and InsertsAreNew follows from them.
SafetyInv ==
    /\ MutexHeld
    /\ SpawnedByOk
    /\ UnusedIdsHaveNoMetadata
    /\ OneTransferPerInvoice
    /\ InvoiceNotPaid
    /\ LegHeld
    /\ SentHeld
    /\ CurrentIsNew
    /\ OneInFlight
    /\ ReceivedTransfersAccounted

=============================================================================
