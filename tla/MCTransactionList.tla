-------------------------- MODULE MCTransactionList --------------------------
(* MCWallet's instances, with a call of list_transactions.                   *)
EXTENDS MCWallet, TransactionList

=============================================================================
