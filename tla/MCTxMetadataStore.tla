------------------------- MODULE MCTxMetadataStore -------------------------
(* Two tasks, three keys of both kinds, and two values.                      *)
EXTENDS TxMetadataStore

CONSTANTS c1, l1

MCWritten == {Plain("Payment"), TransferToNonCustodial(c1, l1, c1)}

=============================================================================
