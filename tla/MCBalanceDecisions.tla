------------------------- MODULE MCBalanceDecisions -------------------------
(* Bounded inputs for BalanceDecisions and ReceiveUri: up to nearly twice the *)
(* limit, and above it amounts of ten satoshis, whose last decimal is a zero. *)
EXTENDS ReceiveUri

MCAmounts == 0..9 \cup {19, 20}

=============================================================================
