-------------------------- MODULE MetadataRequests --------------------------
(***************************************************************************)
(* What tasks ask of TxMetadataStore: to insert or upsert a value, to mark *)
(* a payment (set_tx_caused_rebalance), or to read.                        *)
(***************************************************************************)
EXTENDS TxMetadata

CONSTANT Written        \* values that tasks insert

\* What is inserted, and the trigger that a mark makes of a payment.
StoredValue ==
    {Plain("Payment"), Plain("Trigger")}
      \cup {TransferToNonCustodial(c, l, trig) :
               c \in CustId, l \in LnId, trig \in PaymentId}

ASSUME WrittenAssumption == Written \subseteq StoredValue

\* A read is of all keys, by a caller that looks them up under one guard.
Request ==
    [op : {"do_set"}, key : PaymentId, value : Written]
      \cup [op : {"mark"}, key : PaymentId, value : {Plain("None")}]
      \cup [op : {"read"}, key : {NoId}, value : {Plain("None")}]

NoRequest == [op |-> "none", key |-> NoId, value |-> Plain("None")]

Unread == [k \in PaymentId |-> Plain("None")]

=============================================================================
