----------------------------- MODULE MCParseCall -----------------------------
(* Texts for ParseCall: every URI of up to three parameters, each of every key *)
(* with values that fit it or do not, those of four that ask for amounts, and  *)
(* every other form with every value.                                          *)
EXTENDS ParseCall, SequencesExt

Nothing == [kind |-> "none"]
Garbage == [kind |-> "garbage", bc1 |-> FALSE]
Address(net, bc1) == [kind |-> "address", network |-> net, bc1 |-> bc1]
Invoice(net, amount, desc) ==
    [kind |-> "invoice", network |-> net, amount |-> amount, desc |-> desc]
Offer(nets, amount) ==
    [kind |-> "offer", networks |-> nets, amount |-> amount, desc |-> {"offer"}]
Sats(n) == [kind |-> "sats", sats |-> n]
Callback(escapes, opens) == [kind |-> "callback", escapes |-> escapes, opens |-> opens]

Param(key, values) == [key : {key}, req : {FALSE}, value : values]

\* 4 sats is 12 msats, 2 of which is the difference allowed; 6 sats is all bitcoin,
\* 7 is more, 22 overflows.
Params ==
    Param("bc", {Address("main", TRUE), Address("main", FALSE)})
    \cup Param("lightning", {Nothing, Invoice("main", {}, {"inv"}),
                             Invoice("main", {12}, {}), Invoice("main", {14}, {"inv"})})
    \cup Param("lno", {Garbage, Offer({"main", "test"}, {}), Offer({"main"}, {12})})
    \cup Param("amount", {Sats(0), Sats(4), Sats(5), Sats(6), Sats(7), Sats(22)})
    \cup Param("label", {Nothing, Garbage})
    \cup Param("pop", {Callback({"decimal"}, "local app")})
    \cup {[key |-> "pop", req |-> TRUE, value |-> Callback({"letter"}, "local app")],
          [key |-> "lnr", req |-> TRUE, value |-> Garbage],
          [key |-> "other", req |-> FALSE, value |-> Nothing]}

Uris == [form : {"uri"}, body : {Nothing, Address("main", FALSE)},
         params : BoundedSeq(Params, 3)]

Asking ==
    Param("bc", {Address("main", TRUE)})
    \cup Param("lightning", {Invoice("main", {12}, {}), Invoice("main", {14}, {"inv"})})
    \cup Param("lno", {Offer({"main"}, {12})})
    \cup Param("amount", {Sats(4)})

UrisOfFour == [form : {"uri"}, body : {Nothing}, params : TupleOf(Asking, 4)]

Values == {Nothing, Garbage, Address("main", TRUE), Address("test", FALSE),
           Invoice("main", {3}, {"inv"}), Invoice("test", {}, {}), Offer({"main"}, {}),
           Offer({"test"}, {})}

MCResolvable ==
    [form : {"uri"}, body : {Nothing, Address("main", FALSE)},
     params : BoundedSeq(Param("lno", {Offer({"main"}, {})}), 1)]
    \cup [form : {"bare"}, value : Values]
    \cup {[form |-> "name", value |-> Garbage]}

\* Nodes that resolve, that squat on the feature bit, that are not announced or
\* whose id is no key; more than are asked, and none.
Resolver == {"announced", "dns", "om", "pubkey"}
Squatter == Resolver \ {"om"}

MCGraphs ==
    {<<>>, <<Squatter>>,
     <<Resolver \ {"announced"}, Resolver, Squatter, Resolver, Resolver \ {"pubkey"}>>,
     [n \in 1..8 |-> IF n = 3 THEN Squatter ELSE Resolver]}

MCTexts == Uris \cup UrisOfFour \cup MCResolvable \cup [form : {"lightning"}, value : Values]

=============================================================================
