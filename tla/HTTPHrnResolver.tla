-------------------------- MODULE HTTPHrnResolver --------------------------
(***************************************************************************)
(* http_resolver.rs: a human-readable name is resolved by asking a DNS     *)
(* server, query by query, for everything a DNSSEC proof of the name's TXT *)
(* record needs.  A library's proof builder takes the answers and says     *)
(* which queries they call for; only how many there are matters here.      *)
(***************************************************************************)
EXTENDS Naturals

CONSTANT MAX_QUERIES        \* what the builder may ask for before it gives up

ASSUME QueriesAssumption == MAX_QUERIES \in Nat \ {0}

VARIABLES httpPc,           \* where resolve_dns is
          pending_queries,  \* how many queries are on its stack
          proof_builder     \* what the builder has asked for, and still waits for

httpVars == <<httpPc, pending_queries, proof_builder>>

HttpInit ==
    /\ httpPc = "idle"
    /\ pending_queries = 0
    /\ proof_builder = [asked |-> 0, open |-> 0, gaveUp |-> FALSE]

\* ProofBuilder::new hands out the first query.
HttpStart ==
    /\ httpPc = "idle"
    /\ httpPc' = "next"
    /\ pending_queries' = 1
    /\ proof_builder' = [asked |-> 1, open |-> 1, gaveUp |-> FALSE]

\* Pop a query and send it off.
HttpRequest ==
    /\ httpPc = "next"
    /\ pending_queries > 0
    /\ pending_queries' = pending_queries - 1
    /\ httpPc' = "request"
    /\ UNCHANGED proof_builder

\* What process_response makes of an answer that calls for n more queries.
Processed(n) ==
    IF proof_builder.asked + n > MAX_QUERIES
    THEN [proof_builder EXCEPT !.open = @ - 1, !.gaveUp = TRUE]
    ELSE [proof_builder EXCEPT !.open = @ - 1 + n, !.asked = @ + n]

\* A mutant of HttpAnswer: of the new queries only one is kept.
HttpAnswerKeepsOne ==
    /\ httpPc = "request"
    /\ \E n \in 0..2 :
          /\ proof_builder' = Processed(n)
          /\ pending_queries' = pending_queries + IF n > 0 THEN 1 ELSE 0
    /\ httpPc' = "next"

\* The answer arrives, is processed, and its queries go on the stack.
HttpAnswer ==
    /\ httpPc = "request"
    /\ \E n \in 0..2 :
          /\ proof_builder' = Processed(n)
          /\ pending_queries' =
                pending_queries + (proof_builder'.asked - proof_builder.asked)
    /\ httpPc' = "next"

\* The request fails, or the builder can make nothing of its answer.
HttpFails == httpPc = "request"

\* A mutant of HttpFinish: the loop waits for a proof that is not given up.
HttpFinishWhole == httpPc = "next" /\ pending_queries = 0 /\ ~proof_builder.gaveUp

\* The stack is empty: finish_proof, and the TXT records the proof verifies.
HttpFinish == httpPc = "next" /\ pending_queries = 0

HttpEnd ==
    /\ httpPc' = "idle"
    /\ pending_queries' = 0
    /\ UNCHANGED proof_builder

=============================================================================
