-------------------------- MODULE ReceiveUri_proofs --------------------------
(***************************************************************************)
(* The wallet's balance decisions are sound, and its own URI is payable,   *)
(* for every value of the tunables and every reading of the balances.      *)
(***************************************************************************)
EXTENDS ReceiveUri, PaymentInstructions_proofs

-----------------------------------------------------------------------------
(* How much to move, and where to receive.                                 *)

\* What get_balance_amt returns, for any reading r of the receivable amount
\* and c of the custodial balance: the facts the theorems below need.
LEMMA BalanceAmount ==
    ASSUME NEW r \in Nat, NEW c \in Nat
    PROVE  LET t == get_balance_amt(r, c) IN
           /\ t \in Nat
           /\ t <= c
           /\ t # None => /\ t > rebalance_min
                          /\ c - t <= custodial_balance_limit
                          /\ t = c \/ t + rebalance_min <= r
           /\ t = None => c <= custodial_balance_limit + rebalance_min
BY TunablesAssumption
   DEF get_balance_amt, LightningReceivable, saturating_sub, Lesser, None

\* A drained custodial balance calls for no transfer.
LEMMA NothingToMove ==
    ASSUME NEW r \in Nat
    PROVE  get_balance_amt(r, 0) = None
BY TunablesAssumption
   DEF get_balance_amt, LightningReceivable, saturating_sub, Lesser, None

\* A transfer that fits the channels leaves nothing more to move.
LEMMA FittingTransferSettles ==
    ASSUME NEW r \in Nat, NEW c \in Nat,
           get_balance_amt(r, c) # None,
           get_balance_amt(r, c) <= r
    PROVE  get_balance_amt(r - get_balance_amt(r, c),
                           c - get_balance_amt(r, c)) = None
<1> DEFINE t == get_balance_amt(r, c)
<1>1. CASE t = c
  BY <1>1, NothingToMove, r - t \in Nat, c - t = 0
<1>2. CASE t # c
  <2>1. t = LightningReceivable(r) /\ c - t <= custodial_balance_limit
    BY <1>2, TunablesAssumption
       DEF get_balance_amt, LightningReceivable, saturating_sub, Lesser, None
  <2>2. t \in Nat /\ t <= c
    BY BalanceAmount
  <2>3. LightningReceivable(r - t) = 0
    BY <2>1, <2>2, TunablesAssumption DEF LightningReceivable, saturating_sub
  <2> QED
    BY <2>1, <2>2, <2>3, TunablesAssumption
       DEF get_balance_amt, saturating_sub, Lesser, None
<1> QED BY <1>1, <1>2

\* The arguments stay readings of natural-number amounts.
LEMMA ReadingsAreAmounts ==
    Spec => [](receivable \in Nat /\ custodial \in Nat /\ requested \in Nat)
<1> DEFINE Readings == receivable \in Nat /\ custodial \in Nat /\ requested \in Nat
<1>1. Init => Readings
  BY AmountsAssumption DEF Init
<1>2. Readings /\ [Next]_vars => Readings'
  BY AmountsAssumption DEF Next, vars
<1> QED BY <1>1, <1>2, PTL DEF Spec

\* get_balance_amt keeps custody capped, whatever the tunables.
THEOREM CustodyIsCapped == Spec => []CustodyCapped
<1>1. receivable \in Nat /\ custodial \in Nat => CustodyCapped
  BY BalanceAmount DEF CustodyCapped, transfer
<1> QED BY <1>1, ReadingsAreAmounts, PTL

\* get_balance_amt never names an amount the channels may be unable to take
\* unless it names the whole balance.
THEOREM TransfersFitOrDrain == Spec => []TransferFitsOrDrains
<1>1. receivable \in Nat /\ custodial \in Nat => TransferFitsOrDrains
  BY BalanceAmount DEF TransferFitsOrDrains, transfer
<1> QED BY <1>1, ReadingsAreAmounts, PTL

\* One rebalance leaves balances that ask for no other.
THEOREM TransfersSettle == Spec => []TransferSettles
<1>1. ASSUME receivable \in Nat, custodial \in Nat
      PROVE  TransferSettles
  <2>1. CASE transfer <= receivable
    BY <1>1, <2>1, FittingTransferSettles DEF TransferSettles, transfer
  <2>2. CASE ~(transfer <= receivable)
    <3>1. transfer # None => transfer = custodial
      BY <1>1, <2>2, BalanceAmount, TunablesAssumption DEF transfer
    <3>2. \A opened \in Amounts : get_balance_amt(opened, 0) = None
      BY NothingToMove, AmountsAssumption
    <3> QED
      BY <1>1, <2>2, <3>1, <3>2, custodial - custodial = 0 DEF TransferSettles
  <2> QED BY <2>1, <2>2
<1> QED BY <1>1, ReadingsAreAmounts, PTL

\* No single-use URI for an amount within the custodial limit opens a channel.
THEOREM SmallReceivesNeedNoChannel == Spec => []SmallReceiveNeedsNoChannel
<1>1. receivable \in Nat /\ requested \in Nat => SmallReceiveNeedsNoChannel
  BY TunablesAssumption
     DEF SmallReceiveNeedsNoChannel, uri, SingleUseReceiveUri, use_custodial,
         LightningInvoiceKind, LightningReceivable, saturating_sub
<1> QED BY <1>1, ReadingsAreAmounts, PTL

-----------------------------------------------------------------------------
(* Amounts on their way through a URI.                                     *)

\* Leaving out the zeros at the end loses nothing: the decimal reads as what it
\* was written from.
LEMMA WrittenIsRead ==
    ASSUME NEW msats, sats_rounding_up(msats) \in Nat
    PROVE  from_str_in(FormattedAmount(msats)) = sats_rounding_up(msats)
  <1> DEFINE total == sats_rounding_up(msats)
             unit == 10^Decimals
             sats == total % unit
             Z == {z \in 0..Decimals : sats % 10^z = 0}
             zeros == TrailingZeros(sats)
  <1>1. Decimals \in Nat /\ unit \in Nat \ {0} /\ 10^0 = 1
        /\ \A z \in 0..Decimals : 10^z \in Nat \ {0}
    BY AmountAssumption, PowersAssumption
  <1>2. /\ sats \in Nat /\ total \div unit \in Nat
        /\ total = unit * (total \div unit) + sats
    <2> HIDE DEF total, unit
    <2>1. total \in Nat /\ unit \in Nat \ {0}
      BY <1>1 DEF total
    <2> QED BY <2>1, Division
  <1> DEFINE power(z) == 10^z
  <1>3. zeros \in 0..Decimals /\ sats % 10^zeros = 0
    <2> HIDE DEF sats
    <2>1. 0 \in Z
      BY <1>1, <1>2
    <2>2. Z \subseteq Nat /\ \A z \in Z : z <= Decimals
      BY <1>1
    <2> DEFINE last == Greatest(Z)
    <2>3. last \in Z /\ \A z \in Z : last >= z
      BY <1>1, <2>1, <2>2, GreatestIsGreatest
    <2> HIDE DEF last
    <2>4. last \in 0..Decimals /\ sats % 10^last = 0
      BY <2>3
    <2>5. last = Decimals \/ sats % 10^(last + 1) # 0
      <3> SUFFICES ASSUME last # Decimals, sats % 10^(last + 1) = 0
                   PROVE  FALSE
        OBVIOUS
      <3>1. last + 1 \in 0..Decimals
        BY <1>1, <2>4
      <3>2. last + 1 \in Z
        BY <3>1
      <3> QED BY <2>3, <2>4, <3>2
    <2>6. \E z \in 0..Decimals : sats % 10^z = 0 /\ (z = Decimals \/ sats % 10^(z + 1) # 0)
      BY <2>4, <2>5
    <2> QED BY <2>6 DEF TrailingZeros
  <1> HIDE DEF sats, zeros
  <1>4. 10^zeros \in Nat \ {0}
    BY <1>1, <1>3
  <1>5. sats = 10^zeros * (sats \div 10^zeros) /\ sats \div 10^zeros \in Nat
    <2> DEFINE d == 10^zeros
    <2>1. d \in Nat \ {0} /\ sats % d = 0
      BY <1>3, <1>4
    <2> HIDE DEF d
    <2>2. sats \div d \in Nat /\ sats = d * (sats \div d) + (sats % d)
      BY <1>2, <2>1, Division
    <2>3. d * (sats \div d) \in Nat
      BY <2>1, <2>2
    <2> QED BY <2>1, <2>2, <2>3 DEF d
  <1>6. Decimals - (Decimals - zeros) = zeros
    BY <1>1, <1>3
  <1>7. FormattedAmount(msats) = [whole |-> total \div unit, digits |-> Decimals - zeros,
                                 fraction |-> sats \div 10^zeros]
    BY DEF FormattedAmount, sats, zeros
  <1>8. from_str_in(FormattedAmount(msats))
           = (total \div unit) * unit + (sats \div 10^zeros) * 10^zeros
    BY <1>6, <1>7 DEF from_str_in
  <1> QED BY <1>1, <1>2, <1>4, <1>5, <1>8

\* Rounded up to whole satoshis, an amount is still not more than there is.
LEMMA RoundedIsMoney ==
    ASSUME NEW msats \in 0..MAX_MSATS
    PROVE  LET rounded == from_sats(sats_rounding_up(msats)) IN
           /\ sats_rounding_up(msats) \in Nat
           /\ rounded \in Nat
           /\ msats <= rounded /\ rounded < msats + MsatsPerSat
           /\ rounded <= MAX_MSATS
  <1> DEFINE sats == sats_rounding_up(msats)
             rounded == from_sats(sats)
             whole == MAX_MSATS \div MsatsPerSat
  <1>1. /\ MsatsPerSat \in Nat \ {0} /\ U64 \in Nat \ {0} /\ MAX_MSATS \in Nat
        /\ MAX_MSATS + MsatsPerSat <= U64
    BY AmountAssumption
  <1>2. msats <= rounded /\ rounded < msats + MsatsPerSat
    BY RoundingUpCovers
  <1>3. sats \in Nat /\ sats * MsatsPerSat < msats + MsatsPerSat
    <2> DEFINE more == msats + (MsatsPerSat - 1)
    <2>1. more \in Nat /\ more < U64
      BY <1>1
    <2>2. more % U64 = more
      BY <1>1, <2>1, NoWrap
    <2>3. sats = more \div MsatsPerSat
      BY <2>2 DEF sats_rounding_up
    <2>4. more \div MsatsPerSat \in Nat /\ more % MsatsPerSat \in 0..MsatsPerSat-1
          /\ more = MsatsPerSat * (more \div MsatsPerSat) + (more % MsatsPerSat)
      <3> HIDE DEF more
      <3> QED BY <1>1, <2>1, Division
    <2>5. sats \in Nat /\ more = MsatsPerSat * sats + (more % MsatsPerSat)
      BY <2>3, <2>4
    <2> HIDE DEF sats
    <2>6. sats * MsatsPerSat = MsatsPerSat * sats /\ sats * MsatsPerSat \in Nat
      BY <1>1, <2>5
    <2> QED BY <1>1, <2>4, <2>5, <2>6
  <1> HIDE DEF sats
  <1>4. sats * MsatsPerSat \in Nat
    BY <1>1, <1>3
  <1>5. rounded = sats * MsatsPerSat
    BY <1>1, <1>3, <1>4, NoWrap DEF from_sats
  <1>6. whole \in Nat /\ MAX_MSATS = MsatsPerSat * whole
    <2>1. whole \in Nat /\ MAX_MSATS = MsatsPerSat * whole + (MAX_MSATS % MsatsPerSat)
      BY <1>1, Division
    <2>2. MAX_MSATS % MsatsPerSat = 0
      BY UriAssumption
    <2> HIDE DEF whole
    <2>3. MsatsPerSat * whole \in Nat
      BY <1>1, <2>1
    <2> QED BY <2>1, <2>2, <2>3
  <1> HIDE DEF whole
  <1>7. sats * MsatsPerSat < MsatsPerSat * whole + MsatsPerSat
    BY <1>1, <1>3, <1>4, <1>6
  <1>8. sats <= whole
    <2> SUFFICES ASSUME sats > whole PROVE FALSE
      BY <1>3, <1>6
    <2>1. PICK more \in Nat : sats = whole + 1 + more
      <3>1. sats - whole - 1 \in Nat /\ sats = whole + 1 + (sats - whole - 1)
        BY <1>3, <1>6
      <3> QED BY <3>1
    <2>2. more * MsatsPerSat \in Nat /\ MsatsPerSat * whole \in Nat
      BY <1>1, <1>6
    <2>3. sats * MsatsPerSat = MsatsPerSat * whole + MsatsPerSat + more * MsatsPerSat
      BY <1>1, <1>6, <2>1
    <2> QED BY <1>1, <1>7, <2>2, <2>3
  <1>9. MsatsPerSat * sats <= MsatsPerSat * whole
    <2>1. PICK more \in Nat : whole = sats + more
      <3>1. whole - sats \in Nat /\ whole = sats + (whole - sats)
        BY <1>3, <1>6, <1>8
      <3> QED BY <3>1
    <2>2. more * MsatsPerSat \in Nat /\ MsatsPerSat * sats \in Nat
      BY <1>1, <1>3
    <2>3. MsatsPerSat * whole = MsatsPerSat * sats + more * MsatsPerSat
      BY <1>1, <1>3, <2>1
    <2> QED BY <2>2, <2>3
  <1>10. MsatsPerSat * sats = sats * MsatsPerSat
    BY <1>1, <1>3
  <1> QED BY <1>2, <1>3, <1>4, <1>5, <1>6, <1>9, <1>10 DEF sats

-----------------------------------------------------------------------------
(* The wallet's own URI, read by this very code.                           *)

\* What a method may ask for: nothing, when no amount was requested, and otherwise
\* what was requested or a part of a satoshi more.
Near(r, a) == a \in Nat /\ r <= a /\ a < r + MsatsPerSat /\ a <= MAX_MSATS

Asks(amount, asked) ==
    \/ amount = {} /\ asked = {}
    \/ \E r \in 0..MAX_MSATS, q \in Nat :
          amount = {r} /\ asked = {q} /\ Near(r, q)

\* The URI is read without error, as on-chain and lightning methods that ask for
\* nothing, or for about what was requested.
LEMMA UriIsRead ==
    ASSUME NEW onchain \in BOOLEAN, NEW amount, NEW asked, Asks(amount, asked)
    PROVE  LET text == UriText(onchain, amount, InvoiceOf(asked)) IN
           /\ text.form = "uri" /\ IsText(text)
           /\ UriError(text, FALSE) = Ok
           /\ \A i \in MethodPlaces(text) : Asks(amount, UriMethods(text)[i].amount)
  <1> DEFINE text == UriText(onchain, amount, InvoiceOf(asked))
             place == IF onchain /\ amount # {} THEN 2 ELSE 1
             sats == from_str_in(FormattedAmount(Least(amount)))
  <1>1. asked \subseteq Nat /\ \A a, b \in asked : a = b
    BY DEF Asks
  <1>2. ASSUME amount # {}
        PROVE  /\ Least(amount) \in 0..MAX_MSATS /\ amount = {Least(amount)}
               /\ sats \in Nat
               /\ Near(Least(amount), from_sats(sats))
    <2>1. PICK r \in 0..MAX_MSATS : amount = {r}
      BY <1>2 DEF Asks
    <2>2. Least({r}) = r
      <3>1. r \in Nat
        BY AmountAssumption
      <3>2. {r} \subseteq Nat /\ {r} # {}
        BY <3>1
      <3> QED BY <3>2, LeastIsLeast
    <2>3. sats = sats_rounding_up(r) /\ sats \in Nat
      BY <2>1, <2>2, RoundedIsMoney, WrittenIsRead
    <2>4. Near(r, from_sats(sats_rounding_up(r)))
      BY RoundedIsMoney DEF Near
    <2> QED BY <2>1, <2>2, <2>3, <2>4
  <1> HIDE DEF sats
  <1>3. /\ text.form = "uri"
        /\ text.body = IF onchain THEN OnChainAddress ELSE [kind |-> "none"]
        /\ DOMAIN text.params = 1..place
        /\ text.params[place] = Written("lightning", InvoiceOf(asked))
        /\ place = 2 => text.params[1] = Written("amount", [kind |-> "sats", sats |-> sats])
    <2> DEFINE lightning == Written("lightning", InvoiceOf(asked))
               fixed == Written("amount", [kind |-> "sats", sats |-> sats])
               params == IF onchain /\ amount # {} THEN <<fixed, lightning>> ELSE <<lightning>>
    <2>1. text = [form |-> "uri",
                  body |-> IF onchain THEN OnChainAddress ELSE [kind |-> "none"],
                  params |-> params]
      BY DEF UriText, sats
    <2> HIDE DEF lightning, fixed
    <2>2. /\ DOMAIN params = 1..place /\ params[place] = lightning
          /\ place = 2 => params[1] = fixed
      <3>1. CASE onchain /\ amount # {}
        <4>1. params = <<fixed, lightning>> /\ place = 2
          BY <3>1
        <4> HIDE DEF params, place
        <4> QED BY <4>1
      <3>2. CASE ~(onchain /\ amount # {})
        <4>1. params = <<lightning>> /\ place = 1
          BY <3>2
        <4> HIDE DEF params, place
        <4> QED BY <4>1
      <3> QED BY <3>1, <3>2
    <2> HIDE DEF params, place, text
    <2> QED BY <2>1, <2>2 DEF lightning, fixed
  <1>4. place \in {1, 2} /\ (place = 2 <=> onchain /\ amount # {})
    OBVIOUS
  <1> HIDE DEF text, place
  <1>5. IsText(text)
    <2>1. IsValue(text.body)
      BY <1>3 DEF IsValue, OnChainAddress
    <2>2. IsValue(text.params[place].value)
      <3>1. text.params[place].value = InvoiceOf(asked)
        BY <1>3 DEF Written
      <3>2. InvoiceOf(asked).kind = "invoice" /\ InvoiceOf(asked).amount = asked
        BY DEF InvoiceOf
      <3> QED BY <1>1, <3>1, <3>2 DEF IsValue
    <2>3. place = 2 => IsValue(text.params[1].value)
      BY <1>2, <1>3, <1>4 DEF IsValue, Written
    <2> QED BY <1>3, <1>4, <2>1, <2>2, <2>3 DEF IsText
  <1>6. /\ ParamsOf(text, {"amount"}) = IF place = 2 THEN {1} ELSE {}
        /\ ParamsOf(text, {"label"}) = {}
        /\ ParamsOf(text, {"message"}) = {}
        /\ ParamsOf(text, {"bc", "lightning", "lno"}) = {place}
    BY <1>3, <1>4 DEF ParamsOf, Written
  <1>7. ReadError(text, FALSE) = Ok
    <2>1. text.body.kind = "none" \/ AddressError(text.body) = Ok
      BY <1>3 DEF AddressError, OnChainAddress, Ok
    <2>2. ParamError(text.params[place], FALSE) = Ok
      BY <1>3 DEF ParamError, UnknownRequired, InvoiceError, InvoiceOf, Written, Ok
    <2>3. place = 2 => ParamError(text.params[1], FALSE) = Ok
      <3>1. place = 2 => text.params[1].key = "amount" /\ text.params[1].req = FALSE
        BY <1>3 DEF Written
      <3> QED BY <3>1 DEF ParamError, UnknownRequired, Ok
    <2>4. AmountError(text) = Ok
      BY <1>3, <1>6 DEF AmountError, Written, Ok
    <2>5. RepeatError(text, "label") = Ok /\ RepeatError(text, "message") = Ok
      BY <1>6 DEF RepeatError, Ok
    <2>6. \A i \in DOMAIN text.params : ParamError(text.params[i], FALSE) = Ok
      <3>1. \A i \in DOMAIN text.params : i = place \/ (place = 2 /\ i = 1)
        <4>1. 1..1 = {1} /\ 1..2 = {1, 2}
          OBVIOUS
        <4> QED BY <1>3, <1>4, <4>1
      <3> QED BY <2>2, <2>3, <3>1
    <2> QED BY <1>3, <1>5, <2>1, <2>4, <2>5, <2>6, ReadWithoutError
  <1>8. UriAmount(text) = IF place = 2 THEN {from_sats(sats)} ELSE {}
    BY <1>3, <1>6 DEF UriAmount, Written
  <1>9. /\ \A i \in MethodPlaces(text) : i = place \/ (i = 0 /\ onchain)
        /\ place \in MethodPlaces(text)
    <2>1. text.body.kind # "none" => onchain
      BY <1>3
    <2>2. MethodPlaces(text) = {i \in {0} : text.body.kind # "none"} \cup {place}
      BY <1>6 DEF MethodPlaces
    <2> QED BY <2>1, <2>2
  <1> DEFINE methods == UriMethods(text)
  <1>10. DOMAIN methods = MethodPlaces(text)
         /\ methods[place] = [type |-> "LightningBolt11", amount |-> asked]
    <2>1. ValueAt(text, place) = InvoiceOf(asked)
      BY <1>3, <1>4 DEF ValueAt, Written
    <2> QED BY <1>9, <2>1 DEF UriMethods, Method, InvoiceOf
  <1>11. 0 \in MethodPlaces(text) =>
            onchain /\ methods[0] = [type |-> "OnChain", amount |-> UriAmount(text)]
    <2>1. 0 \in MethodPlaces(text) => onchain
      BY <1>4, <1>9
    <2>2. onchain => ValueAt(text, 0).kind = "address"
      BY <1>3 DEF ValueAt, OnChainAddress
    <2> QED BY <2>1, <2>2 DEF UriMethods
  <1> HIDE DEF methods
  <1>12. \A i \in MethodPlaces(text) : methods[i].amount = asked \/ methods[i].amount = UriAmount(text)
    BY <1>9, <1>10, <1>11
  <1>13. ASSUME NEW i \in MethodPlaces(text)
         PROVE  Asks(amount, methods[i].amount)
    <2>1. CASE amount = {}
      BY <1>4, <1>8, <1>12, <2>1 DEF Asks
    <2>2. CASE amount # {}
      <3>1. CASE i = place
        BY <1>10, <3>1
      <3>2. CASE i # place
        <4>1. methods[i].amount = {from_sats(sats)}
          <5>1. i = 0 /\ onchain
            BY <1>9, <3>2
          <5>2. methods[0].amount = UriAmount(text)
            BY <1>11, <5>1
          <5> QED BY <1>4, <1>8, <2>2, <5>1, <5>2
        <4>2. from_sats(sats) \in Nat
          BY <1>2, <2>2 DEF Near
        <4> QED BY <1>2, <2>2, <4>1, <4>2 DEF Asks
      <3> QED BY <3>1, <3>2
    <2> QED BY <2>1, <2>2
  <1>14. AmountsOf(methods) \subseteq Nat /\ DOMAIN methods \subseteq Nat
    <2>1. \A i \in DOMAIN methods : methods[i].amount \subseteq Nat
      BY <1>10, <1>13 DEF Asks
    <2>2. DOMAIN methods \subseteq {0, place}
      BY <1>9, <1>10
    <2> QED BY <1>4, <2>1, <2>2 DEF AmountsOf
  <1>15. Consistent(methods)
    <2>1. DOMAIN methods # {}
      BY <1>9, <1>10
    <2>2. \A a \in AmountsOf(methods) : \E r \in amount : amount = {r} /\ r \in Nat /\ Near(r, a)
      <3> SUFFICES ASSUME NEW a \in AmountsOf(methods)
                   PROVE  \E r \in amount : amount = {r} /\ r \in Nat /\ Near(r, a)
        OBVIOUS
      <3>1. PICK i \in MethodPlaces(text) : a \in methods[i].amount
        BY <1>10 DEF AmountsOf
      <3>2. PICK r \in amount : amount = {r} /\ r \in 0..MAX_MSATS /\ Near(r, a)
        BY <1>13, <3>1 DEF Asks
      <3> QED BY <3>2, AmountAssumption
    <2>3. \A a \in AmountsOf(methods) : a <= MAX_MSATS
      BY <2>2 DEF Near
    <2>4. ASSUME NEW i \in DOMAIN methods, NEW j \in DOMAIN methods
          PROVE  ~LightningDiffers(methods, i, j)
      <3>1. \A k \in DOMAIN methods : IsLightning(methods[k]) => k = place
        BY <1>9, <1>10, <1>11 DEF IsLightning
      <3> QED BY <3>1 DEF LightningDiffers
    <2>5. AmountsOf(methods) # {} => \A i \in DOMAIN methods : methods[i].amount # {}
      BY <1>10, <1>13, <2>2 DEF Asks
    <2>6. ASSUME NEW a \in AmountsOf(methods), NEW b \in AmountsOf(methods)
          PROVE  a <= b + MAX_AMOUNT_DIFFERENCE
      <3>1. PICK r \in amount : r \in Nat /\ Near(r, a) /\ Near(r, b)
        BY <2>2
      <3> QED BY <3>1, AmountAssumption, DifferenceAssumption, UriAssumption DEF Near
    <2> QED BY <2>1, <2>3, <2>4, <2>5, <2>6 DEF Consistent
  <1>16. MethodsError(methods) = Ok
    BY <1>14, <1>15, MethodsConsistent
  <1>17. UriError(text, FALSE) = Ok
    BY <1>7, <1>16 DEF UriError, methods
  <1> QED BY <1>3, <1>5, <1>13, <1>17 DEF text, methods

\* A request for nothing gets the text of one without an amount from the custodial side.
\* In any case the text is one for an amount that was requested, if for any.
LEMMA OwnUriText ==
    ASSUME NEW amount, amount = {} \/ \E r \in 0..MAX_MSATS : amount = {r}
    PROVE  \E onchain \in BOOLEAN, kept \in SUBSET amount, asked \in SUBSET Nat :
              /\ OwnUri(amount) = UriText(onchain, kept, InvoiceOf(asked))
              /\ Asks(kept, asked)
  <1>1. /\ MsatsPerSat \in Nat \ {0} /\ U64 \in Nat \ {0} /\ MAX_MSATS \in Nat
        /\ MAX_MSATS + MsatsPerSat <= U64
    BY AmountAssumption
  <1>2. CASE amount = {}
    <2>1. CustodialInvoice({}) = InvoiceOf({})
      <3>1. sats_rounding_up(0) = 0
        <4>1. 0 + (MsatsPerSat - 1) \in Nat /\ MsatsPerSat - 1 < U64
          BY <1>1
        <4>2. (0 + (MsatsPerSat - 1)) % U64 = MsatsPerSat - 1
          BY <1>1, <4>1, NoWrap
        <4>3. (MsatsPerSat - 1) \div MsatsPerSat = 0
          BY <1>1
        <4> QED BY <4>2, <4>3 DEF sats_rounding_up
      <3>2. OrZero({}) = 0
        BY DEF OrZero
      <3> QED BY <3>1, <3>2 DEF CustodialInvoice, create_lightning_invoice
    <2>2. OwnUri(amount) = UriText(enable_amountless_receive_on_chain, amount, InvoiceOf({}))
      BY <1>2, <2>1 DEF OwnUri
    <2> QED BY <1>2, <2>2, AmountlessAssumption DEF Asks
  <1>3. CASE amount # {}
    <2>1. PICK r \in 0..MAX_MSATS : amount = {r}
      BY <1>3
    <2> DEFINE decided == SingleUseReceiveUri(receivable, Least(amount))
               sats == sats_rounding_up(r)
               rounded == from_sats(sats)
    <2>2. r \in Nat /\ Least(amount) = r
      <3>1. r \in Nat /\ {r} \subseteq Nat /\ {r} # {}
        BY <1>1
      <3> QED BY <2>1, <3>1, LeastIsLeast
    <2>3. decided.onchain \in BOOLEAN /\ (r = 0 => ~decided.onchain)
      <3>1. decided.onchain = (r >= onchain_receive_threshold)
        BY <2>2 DEF SingleUseReceiveUri
      <3>2. (r >= onchain_receive_threshold) \in BOOLEAN
            /\ (r = 0 => ~(r >= onchain_receive_threshold))
        BY <2>2, UriAssumption, TunablesAssumption
      <3> HIDE DEF decided
      <3> QED BY <3>1, <3>2, Zenon
    <2>4. rounded \in Nat /\ Near(r, rounded) /\ Near(r, r) /\ sats \in Nat
      BY <1>1, <2>2, RoundedIsMoney DEF Near
    <2>5. CustodialInvoice(amount) = create_lightning_invoice(sats)
      BY <1>3, <2>2 DEF CustodialInvoice, OrZero
    <2>6. OwnUri(amount) = UriText(decided.onchain, amount,
                                  IF decided.invoice = "Custodial"
                                  THEN CustodialInvoice(amount) ELSE InvoiceOf(amount))
      BY <1>3 DEF OwnUri
    <2>7. sats = 0 => r = 0
      <3>1. sats = 0 => rounded = 0
        <4>1. 0 * MsatsPerSat = 0 /\ 0 % U64 = 0
          BY <1>1
        <4> QED BY <4>1 DEF from_sats
      <3> QED BY <2>2, <2>4, <3>1 DEF Near
    <2> HIDE DEF decided, rounded, sats
    <2>8. CASE decided.invoice = "Custodial" /\ sats # 0
      <3>1. OwnUri(amount) = UriText(decided.onchain, amount, InvoiceOf({rounded}))
        BY <2>5, <2>6, <2>8 DEF create_lightning_invoice, rounded
      <3> QED BY <2>1, <2>3, <2>4, <3>1 DEF Asks
    <2>9. CASE decided.invoice = "Custodial" /\ sats = 0
      <3>1. OwnUri(amount) = UriText(FALSE, amount, InvoiceOf({}))
        BY <2>3, <2>5, <2>6, <2>7, <2>9 DEF create_lightning_invoice
      <3>2. UriText(FALSE, amount, InvoiceOf({})) = UriText(FALSE, {}, InvoiceOf({}))
        BY DEF UriText
      <3> QED BY <3>1, <3>2 DEF Asks
    <2>10. CASE decided.invoice # "Custodial"
      <3>1. OwnUri(amount) = UriText(decided.onchain, amount, InvoiceOf(amount))
        BY <2>6, <2>10
      <3> QED BY <2>1, <2>2, <2>3, <2>4, <3>1 DEF Asks
    <2> QED BY <2>8, <2>9, <2>10
  <1> QED BY <1>2, <1>3

\* Its methods ask for nothing, or for about what was requested.
LEMMA OwnUriIsRead ==
    ASSUME NEW amount, amount = {} \/ \E r \in 0..MAX_MSATS : amount = {r}
    PROVE  /\ Read(amount).error = Ok
           /\ Agreeing(Read(amount).methods)
           /\ \A i \in DOMAIN Read(amount).methods :
                 \A a \in Read(amount).methods[i].amount : \E r \in amount : Near(r, a)
  <1>1. PICK onchain \in BOOLEAN, kept \in SUBSET amount, asked \in SUBSET Nat :
           /\ OwnUri(amount) = UriText(onchain, kept, InvoiceOf(asked))
           /\ Asks(kept, asked)
    BY OwnUriText
  <1> DEFINE text == UriText(onchain, kept, InvoiceOf(asked))
  <1>2. /\ text.form = "uri" /\ IsText(text)
        /\ UriError(text, FALSE) = Ok
        /\ \A i \in MethodPlaces(text) : Asks(kept, UriMethods(text)[i].amount)
    BY <1>1, UriIsRead
  <1> HIDE DEF text
  <1>3. Read(amount) = UriPayment(text)
    BY <1>1, <1>2 DEF Read, parse_resolved_instructions, text
  <1>4. Read(amount).error = Ok /\ Read(amount).methods = UriMethods(text)
    BY <1>3 DEF UriPayment, PaymentOf
  <1>5. DOMAIN UriMethods(text) = MethodPlaces(text)
    BY DEF UriMethods
  <1>6. \A i \in MethodPlaces(text) :
           \A a \in UriMethods(text)[i].amount : \E r \in amount : Near(r, a)
    BY <1>1, <1>2 DEF Asks
  <1> QED BY <1>2, <1>4, <1>5, <1>6, UriAgrees

LEMMA RequestedIsMoney ==
    Spec => [](requested \in 0..MAX_MSATS)
  <1> DEFINE Money == requested \in 0..MAX_MSATS
  <1>1. Init => Money
    BY UriAssumption DEF Init
  <1>2. Money /\ [Next]_vars => Money'
    BY UriAssumption DEF Next, vars
  <1> QED BY <1>1, <1>2, PTL DEF Spec

\* Whatever amount is requested, get_single_use_receive_uri writes a URI that
\* parse_payment_instructions and set_amount accept.
THEOREM OwnUriIsPayable == Spec => []OwnUriPayable
  <1>1. ASSUME requested \in 0..MAX_MSATS PROVE OwnUriPayable
    <2> SUFFICES ASSUME NEW amount \in {{}, {requested}}
                 PROVE  /\ Read(amount).error = Ok
                        /\ \A a \in max_amount(Read(amount)) : set_amount(Read(amount), a)
      BY DEF OwnUriPayable
    <2>1. amount = {} \/ \E r \in 0..MAX_MSATS : amount = {r}
      BY <1>1
    <2> QED BY <2>1, OwnUriIsRead, AgreeingIsPayable
  <1> QED BY <1>1, RequestedIsMoney, PTL

\* And whichever method of it is paid, what was requested arrives, with less
\* than a satoshi above.
THEOREM OwnUriIsEnough == Spec => []OwnUriAsksEnough
  <1>1. ASSUME requested \in 0..MAX_MSATS PROVE OwnUriAsksEnough
    <2>1. AmountsOf(Read({}).methods) = {}
      BY OwnUriIsRead DEF AmountsOf
    <2>2. ASSUME NEW i \in DOMAIN Read({requested}).methods,
                 NEW a \in Read({requested}).methods[i].amount
          PROVE  requested <= a /\ a < requested + MsatsPerSat
      <3>1. \E r \in 0..MAX_MSATS : {requested} = {r}
        BY <1>1
      <3>2. PICK r \in {requested} : Near(r, a)
        BY <2>2, <3>1, OwnUriIsRead
      <3> QED BY <3>2 DEF Near
    <2> QED BY <2>1, <2>2 DEF OwnUriAsksEnough
  <1> QED BY <1>1, RequestedIsMoney, PTL

=============================================================================
