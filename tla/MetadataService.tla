--------------------------- MODULE MetadataService ---------------------------
(***************************************************************************)
(* What TxMetadataStore promises the tasks that call it: one map, on which *)
(* every call takes effect at one moment between its start and its end,    *)
(* and which outlives the process.  A call may die (panic), before or      *)
(* after its effect.                                                       *)
(***************************************************************************)
EXTENDS MetadataRequests

VARIABLE call           \* of each task: what it asks for, and what it is told

serviceVars == <<tx_metadata, call>>

At(phase, request, ok, seen) ==
    [phase |-> phase, request |-> request, ok |-> ok, seen |-> seen]

Idle == At("idle", NoRequest, FALSE, Unread)

ServiceInit == MetadataInit /\ call = [t \in Task |-> Idle]

Call(t, request) ==
    /\ call[t].phase = "idle"
    /\ call' = [call EXCEPT ![t] = At("called", request, FALSE, Unread)]
    /\ UNCHANGED tx_metadata

\* The effect of a call, and its answer.
Answered(t, ok, seen) ==
    call' = [call EXCEPT ![t] = At("done", call[t].request, ok, seen)]

Effect(t) ==
    LET r == call[t].request IN
    /\ call[t].phase = "called"
    /\ \/ r.op = "do_set" /\ do_set(r.key, r.value) /\ Answered(t, TRUE, Unread)
       \/ /\ r.op = "mark"
          /\ \/ set_tx_caused_rebalance(r.key) /\ Answered(t, TRUE, Unread)
             \/ set_tx_caused_rebalance_fails(r.key) /\ Answered(t, FALSE, Unread)
       \/ r.op = "read" /\ UNCHANGED tx_metadata /\ Answered(t, TRUE, tx_metadata)

Return(t) ==
    /\ call[t].phase = "done"
    /\ call' = [call EXCEPT ![t] = Idle]
    /\ UNCHANGED tx_metadata

Die(t) ==
    /\ call[t].phase \in {"called", "done"}
    /\ call' = [call EXCEPT ![t] = At("dead", NoRequest, FALSE, Unread)]
    /\ UNCHANGED tx_metadata

\* The process dies, and another one is started.
Restart == call' = [t \in Task |-> Idle] /\ UNCHANGED tx_metadata

ServiceNext ==
    \/ \E t \in Task : \/ \E request \in Request : Call(t, request)
                       \/ Effect(t) \/ Return(t) \/ Die(t)
    \/ Restart

ServiceSpec == ServiceInit /\ [][ServiceNext]_serviceVars

=============================================================================
