----------------------------- MODULE TxMetadata -----------------------------
(***************************************************************************)
(* The transaction metadata as the wallet's tasks use it: one map, whose   *)
(* operations are atomic and durable, since each of them updates the       *)
(* memory and the key-value store under one write lock (store.rs).         *)
(***************************************************************************)
EXTENDS WalletIds

VARIABLE tx_metadata

\* TxMetadata, with the TxType's fields; "None" is the absence of an entry.
TxMetadata ==
    [ty: {"None", "Payment", "Trigger", "Transfer"},
     custodial_payment: CustId \cup {NoId},
     lightning_payment: LnId \cup {NoId},
     payment_triggering_transfer: PaymentId \cup {NoId}]

Plain(ty) == [ty |-> ty, custodial_payment |-> NoId, lightning_payment |-> NoId,
              payment_triggering_transfer |-> NoId]

\* TxType::TransferToNonCustodial
TransferToNonCustodial(c, l, trig) ==
    [ty |-> "Transfer", custodial_payment |-> c, lightning_payment |-> l,
     payment_triggering_transfer |-> trig]

MetadataInit == tx_metadata = [k \in PaymentId |-> Plain("None")]

MetadataTypeOK == tx_metadata \in [PaymentId -> TxMetadata]

Has(k) == tx_metadata[k].ty # "None"

\* Both insert and upsert: insert asserts that there was no old value, and only
\* in debug builds; the assertion is a property of the wallet (InsertsAreNew).
do_set(k, value) == tx_metadata' = [tx_metadata EXCEPT ![k] = value]

\* The trigger becomes PaymentTriggeringTransferToNonCustodial; anything but a
\* Payment is answered with Err, and nothing changes.
set_tx_caused_rebalance(k) ==
    /\ tx_metadata[k].ty = "Payment"
    /\ do_set(k, Plain("Trigger"))

set_tx_caused_rebalance_fails(k) ==
    /\ tx_metadata[k].ty # "Payment"
    /\ UNCHANGED tx_metadata

=============================================================================
