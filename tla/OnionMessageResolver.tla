------------------------ MODULE OnionMessageResolver ------------------------
(***************************************************************************)
(* onion_message_resolver.rs, which is not finished: a lookup queues the   *)
(* same query to some nodes that offer DNS resolution, for the messenger   *)
(* of the lightning node to take, and answers Err without waiting.         *)
(***************************************************************************)
EXTENDS Naturals, Sequences

CONSTANTS Graphs,           \* what network_graph may hold: its nodes, as it is walked
          MaxQueued         \* bound: queries that may wait when a lookup begins

\* A node by what it has: an announcement, the two features, an id that is a key.
ASSUME GraphsAssumption ==
    /\ Graphs \subseteq Seq(SUBSET {"announced", "dns", "om", "pubkey"})
    /\ MaxQueued \in Nat

VARIABLE message_queue      \* the destinations of the queries that wait

OnionInit == message_queue = <<>>

Resolves(node) == {"announced", "dns", "om", "pubkey"} \subseteq node

\* The loop over the nodes: each that resolves is kept, until more than five are.
DnsResolvers(nodes) ==
    LET found[n \in 0..Len(nodes)] ==
           IF n = 0 THEN <<>>
           ELSE IF Len(found[n - 1]) <= 5 /\ Resolves(nodes[n])
                THEN Append(found[n - 1], n)
                ELSE found[n - 1]
    IN  found[Len(nodes)]

\* resolve_hrn, up to its Err: it queues nothing if no node resolves, or if the
\* name does not fit in a request.
OnionLookup ==
    \E nodes \in Graphs, fits \in BOOLEAN :
       \/ /\ DnsResolvers(nodes) # <<>> /\ fits
          /\ message_queue' = message_queue \o DnsResolvers(nodes)
       \/ /\ DnsResolvers(nodes) = <<>> \/ ~fits
          /\ UNCHANGED message_queue

release_pending_messages == message_queue # <<>> /\ message_queue' = <<>>

=============================================================================
