# A verification development for libbtcwallet

The wallet keeps small balances with a custodial service (Spark) and moves larger
ones into its own lightning channels (ldk-node). This directory models how it
does that: TLA+ modules translated from the Rust sources, configurations with
which TLC checks them on small instances, and proofs, checked by TLAPS, of what
holds for every instance. `PROJECT.json` maps each definition to its lines.

    tlc -workers 2 -config MCWalletCrash.cfg MCWallet     # one run
    tlapm WalletSafety_proofs.tla                         # one module's proofs

## The system

Paths are below `src/`; `lib.rs` is `libbtcwallet/src/lib.rs`.

| Part | State | Operations |
|---|---|---|
| Balance policy (`lib.rs:295`, `:545`) | the tunables | how much to move to lightning, which side issues an invoice |
| Monitor task (`lib.rs:241`) | the custodial payments it lists, the new ones, the latest known one | each second: list, insert metadata for new deposits, decide, rebalance, sync |
| Rebalance (`lib.rs:312`) | `balance_mutex`; per task the amount, invoice, custodial id | lock, decide again, invoice, pay it custodially, poll and wait, mark the trigger, record both sides |
| Pay (`lib.rs:604`) | the two balances it read, the loop and method it is at | try the methods in four loops, record the payment, spawn a rebalance |
| Lightning adapter (`lightning_wallet.rs`) | the node's payments and capacity, a watch channel | invoice, pay, list, balances; an event task; `await_payment_receipt` |
| Custodial adapter (`custodial_wallet.rs`) | the service's transfers and the known balance | pay, estimate, list, sync |
| Metadata store (`store.rs`) | a map from payment ids, in memory and on disk | `insert`, `upsert`, `set_tx_caused_rebalance`, `read` |
| Transaction list (`lib.rs:367`) | the two lists a call has read | folds payments and metadata into what the user sees |
| Receive URI (`lib.rs:559`) | none | the text a payer scans: address, amount, invoice |
| Instructions (`bitcoin-payment-instructions`) | none | parse what a user scans or types in order to pay; `set_amount` |
| Resolvers (`http_resolver.rs`, `onion_message_resolver.rs`) | a stack of DNS queries; a queue of messages | resolve human-readable names |
| Amounts (`amount.rs`) | none | milli-satoshis in 64 bits, rounding, decimal form |
| Set-up, logging, demo | configuration | I/O |

`Wallet::new` spawns the monitor; it calls the rebalance. `pay` does not call it
but spawns a task for it after each lightning payment. These tasks share the
mutex, the metadata and both backends, and `pay` takes no lock. A rebalance
pays an invoice of one backend out of the other, and then waits until the event
task says on the watch channel that *some* payment arrived.

What is hard here, and what makes each part correct:

* **Rebalance**: several tasks move one balance; the process or the task may die
  between the payment and the three separate writes that record it; the receipt
  may come before the wait. One transfer may be under way at a time, none may be
  forgotten, its entries agree, and the wait must end.
* **Monitor**: the list, the metadata and the balance are of different moments.
  It must insert only new ids, always find a payment to blame, and keep running.
* **Pay**: it goes by stale balances while rebalances move the money; one method
  fails after another. It must pay at most once and report what it did.
* **Metadata**: what is on record only becomes a trigger, unless an invoice is paid
  again. The memory is changed before the
  store, a failing write panics with the lock held and poisons it, and a restart
  reads back what reached the store. Callers must see one durable map.
* **Transaction list**: reads the custodial payments, the lightning payments and
  the metadata at three moments. Transfers must not be taken for income, and
  neither a fee nor a line may get lost.
* **Balance policy**: saturation and strict comparisons must neither shuttle
  money for ever nor leave too much in custody.
* **Instructions**: two loops over the parameters of a URI, in an order the
  sender chose, and amounts that must agree between methods: whichever method
  works, the payer must be asked for one amount. Amounts are rounded by different
  code on their way into the wallet's own URI, and 64 bits can overflow.
* **Resolvers**: the queries of a proof are answered one by one and call for
  more; all must be answered, and there must be an end.

`PROJECT.json` lists each hazard at its line with the properties that cover it,
and says of the uncovered ones why.

## The modules

    BalancePolicy ---------- BalanceDecisions ---.
         |                                       ReceiveUri --- MCBalanceDecisions
    WalletIds                                        '--- ReceiveUri_proofs
     |- SparkWallet ----.
     |- LightningWallet |-- Rebalance --- MonitorTask --.
     '- TxMetadata -----'             '-- PayCall ------+-- Wallet
                                                             |
           MCWallet --- TransferInvariant --- WalletInvariant
              |                                              |
              '-------- WalletLedger ------------------------'
              |              '-- TransferLedger (INSTANCE)
       MCTransactionList --- TransactionList --- WalletFunds --- WalletInvariant

    WalletSafety_proofs --- Transfer_proofs --- Ledger_proofs
                                   '----------- TransactionList_proofs

    TxMetadata --- MetadataRequests --- MetadataService
                          |                  | (INSTANCE)
                          '---------- TxMetadataStore --- TxMetadataStore_proofs
                                             '--- MCTxMetadataStore

    Amount --- PaymentInstructions --- ParseCall --- MCParseCall
                        |--- ReceiveUri     |- HTTPHrnResolver
                        |                   '- OnionMessageResolver
               PaymentInstructions_proofs --- ParseCall_proofs
                        '--- ReceiveUri_proofs

* **BalancePolicy** has `get_balance_amt` and the invoice choices as operators.
  **BalanceDecisions** takes one decision from every combination of amounts.
* **SparkWallet** and **LightningWallet** each model an adapter with the service
  behind it: what the adapter calls and returns is translated, what only the
  service does is marked external in the map.
* **TxMetadata** is the store as the wallet's tasks see it: each call is atomic
  and durable. **MetadataService** says so of concurrent calls: each takes effect
  at one moment between its start and its end, on a map that outlives the process.
* **TxMetadataStore** is `store.rs`: the reader-writer lock and its poison, the
  change of the memory, then the write to the key-value store that may fail, the
  conversions of ids and values to what is written, and the restart, which panics for
  what it cannot read. A key string is a tag and the hex digits or the uuid after it,
  an id inside a value the number of its variant and its bytes: `from_str` and
  `decode_id` are `Err` unless the one fits the other. `Service`
  instantiates `MetadataService` with the map that a restart would load for its
  map, and `Implements` is its specification. So the wallet may be modelled over
  `TxMetadata`: what a poisoned lock adds is that a call dies.
* **Rebalance** is `do_custodial_rebalance`, parameterised by the task. `pc[t]`
  is the line, and every await and every metadata write ends an action: `Lock`,
  `Check` (the second `get_balance_amt`), `GetInvoice`, `CustodialPay`, `Poll`
  (one pass over the payment list), `Subscribe` and `Wake` (the two halves of
  `await_payment_receipt`), `Mark`, `InsertCustodial`, `InsertLightning`, and an
  action for every failure. Where the code drops the mutex guard, so does
  `Return`; a panic unwinds and drops it too (`MarkPanics`).
* **MonitorTask** is the loop of `Wallet::new`, one action per payment scanned,
  since it looks up the metadata, releases the lock and inserts afterwards.
* **PayCall** is `pay`: `snapshot` is what it read when it began, `loop` and
  `idx` where it is, `PaySkip` the early returns before anything is sent.
* **TransactionList** adds a call of `list_transactions` to the wallet: three
  actions, with everything else between them, and `Transactions`, the fold.
* **Amount** has the conversions with their width, **PaymentInstructions** the
  parser as operators over texts that are already split (below): the methods of a
  text are a function of the places where they stand, the body's being 0.
* **HTTPHrnResolver** and **OnionMessageResolver** have the two resolvers' actions,
  the latter the loop that picks nodes of the network graph and the queue it fills;
  **ParseCall** is `parse_payment_instructions`, which resolves a name and parses.
* **ReceiveUri** writes the text of `get_single_use_receive_uri` and has the
  parser read it, on top of the decision that `BalanceDecisions` takes.
* **Wallet** composes them with the event task, the networks and
  `CrashAndRestart`: the tasks, the mutex, the channel and pending calls are
  gone, the metadata is read back, the backends live on. It states the properties.
* **WalletInvariant** and **TransferInvariant** state the inductive invariants, of
  the payments and of the records of transfers.
* **WalletFunds** says what each payment has added to the two balances together
  (`Effect`): what it is worth to its own side (`Worth`), and nothing for a transfer
  that has arrived or a receipt that is a side of one. `ListAddsUp` sums this over
  the lines of the list. `MoneyKept` sums it over the payments of both backends: a fact
  about the modelled services, which the proof of `ListAddsUp` starts from.
* **TransferLedger** is what all rebalances together promise: the book of one task
  that makes one transfer at a time, waits for its end, and enters it in one step
  under a payment of its own to blame; only a death leaves one out.
  **WalletLedger** maps the wallet to it: a transfer is the custodial payment to
  one of the wallet's invoices, it is kept track of by a task past `CustodialPay`,
  and entered when both sides and the trigger are written.

`orphaned` is a history variable: the transfers whose task died before both
sides were recorded. No action reads it. Operators that begin with "A mutant of"
in their comment belong to no specification: they are slips that the properties
were tried on.

### Abstractions

* In the wallet's modules amounts are small naturals; the arithmetic that matters
  there is saturating subtraction, kept as it is. Where amounts are read from a
  text, `Amount` has them wrap at `U64`, with `MsatsPerSat` and `MAX_MSATS` in
  the place of 1000 and of 21 million bitcoin.
* A text is what its splitting and the decoders of addresses, invoices and offers
  (libraries) find in it: its form, and values with what the parser asks of them.
  Which callback schemes open a local app is part of the value.
* The DNSSEC proof builder and the verifier are a library's: they may call for
  queries, give up, or reject as they like. The custodial wallet asks for the same
  invoice for 0 satoshis and for no amount (`custodial_wallet.rs:126-127`, with a TODO);
  the service's invoice for it is taken to have none, as the wallet expects.
* The key-value store writes a value whole or not at all, and may have written it
  when it reports an error.
* A line of the transaction list is a payment's id with the sources of the fees
  added to it. The debug assertions are not executed, as in a release build.
* The reads of `get_balance_amt` are one step, although each is of its own moment.
* An `Err` of a backend's `pay` means nothing was sent, as the code assumes; the
  service charges no fee ("Currently everything is free", `custodial_wallet.rs:141`).
* The custodial wallet pays what the invoice asks for, whatever amount `pay` hands it
  (`custodial_wallet.rs:157-162`); an invoice without an amount it refuses, as nobody
  tells the service one. The lightning node pays the amount of the call, which must
  not be less than is asked. The custodial payment of a transfer completes and the
  lightning one is received in one step.
* A BOLT 11 payment's id is its hash, so paying an invoice twice reuses the id;
  ldk-node accepts that only after a failure. Every other id is fresh.
* The wall clock may step: which known deposit is the latest is any of them.
* The second that the monitor sleeps only delays. Runs of the wallet start with an
  empty store; only `TxMetadataStore`'s restart reads one back by its encoding.

## The runs

| Run | What it asks |
|---|---|
| `balance_decisions` | do decisions cap custody, fit or drain, settle, and spare small receives a channel? Can the wallet's own URI be paid, for no less than was asked? Every combination of amounts from zero past twice the limit |
| `wallet_crash` | a deposit moved in parts by the monitor and by two calls of `pay`, a crash at any step: one transfer in flight, entries that agree, one trigger each, at most one left unrecorded; in short, does it keep a `TransferLedger`? Also checks `TransferInv`, the invariant of the records |
| `wallet_faults` | every call may fail, payments come back, channels are bought and a crash happens, while `pay` goes through its four loops over three methods: pays at most once, no transfer given up that arrives. `list_transactions` reads all of this as it goes: are fees charged, transfers no income, lines kept, and do the lines add up to the balances? |
| `wallet_repay` | the same invoice paid by two calls, again after a failure: what survives a reused id, and is that the only way to overwrite a record? Also checks the inductive invariant |
| `wallet_live` | under fairness: do rebalances end, deposits get their metadata, large balances move? |
| `store` | do concurrent calls, with writes that fail, a poisoned lock and restarts, implement one durable map? Is the memory what a restart would load, and is the lock always released? |
| `instructions` | every text of the instance, directly or out of a name that one of the resolvers looks up: do the amounts agree, is the amount parameter kept, does the order of parameters not matter, is a proof complete, does a resolution end? |
| `lost_wakeup` | finding: a receipt between the poll and the subscription is missed |
| `jit_never_seen` | finding: a transfer over a JIT channel is never recognised |
| `monitor_dies` | finding: the monitor finds nobody to blame and panics |
| `repay_mark` | finding: the second rebalance for one trigger panics |
| `on_chain_funds` | finding: on-chain funds are compared with the lightning balance |

**Findings.** The two liveness runs violate "deposits are automatically shifted
to minimize fees and ensure maximal security" (`lib.rs:11-12`): a rebalance waits
without a timeout, holding the mutex (and, in the monitor, the whole loop), for a
receipt it has missed (`lightning_wallet.rs:138` marks the clone unchanged after
the list was read) or cannot recognise (`lib.rs:326` only looks at payments of
kind `Bolt11`, but the invoice may be a JIT one). `monitor_dies` refutes "We cannot
have a balance if we have no transactions" (`lib.rs:280`): a first transfer that
left funds behind made the deposit its trigger, and nothing else is of type
`Payment` when new room in the channels calls for another. `repay_mark` refutes the
`expect` of `lib.rs:345`: a rebalance is spawned for each payment of one invoice,
so two have the same trigger. `on_chain_funds` refutes the comment of `lib.rs:723`.

Divergences seen while modelling that no run is spent on: the comment of
`lib.rs:548` has the estimate always taken for an overestimate, but the choice
between a plain and a JIT invoice (`lightning_wallet.rs:151`) goes by the whole of
it; `lib.rs:249` has outbound payments tracked by the sending task, which gives a
returned transfer up; `lib.rs:11` says payments can draw on both balances
simultaneously, but `pay` uses one side for a payment; `lib.rs:687-688` says the
custodial balance can top up the lightning balance in the background, but `pay`
goes by the lightning balance it read when it began; `pay` of the custodial wallet
takes an amount, compares it with the balance, and then drops it
(`custodial_wallet.rs:157-162`), so that an invoice that asks for more than the call's
amount is paid in full, and one without an amount cannot be paid from custody.

In `list_transactions`, a debug build may stop where a release build goes on: an
outbound lightning payment has no metadata between being sent and recorded
(`lib.rs:482`); the entry of a trigger has no lightning side or no transaction
(`lib.rs:503-505`) while its transfer is half recorded, after a crash there, or
when the custodial list is older than the deposit. A transfer's receipt is
listed as income until it is recorded, which after a crash, or over a JIT
channel, is for ever. `TransfersAreNotIncome` says just that, and no more.

In `bitcoin-payment-instructions` (its own `lib.rs`): `amount` is multiplied
to milli-satoshis, and may wrap, before it is compared with 21 million bitcoin
(`lib.rs:429`), which is the exception in `AmountAsWritten`; a second `label` is
an error only if it has a value (the exception in `ParamOrderIrrelevant`);
`lib.rs:217` has `label` and `message` as descriptions, but they are dropped;
`lib.rs:62` tells of the fallback address of an invoice, which is still to do
(`lib.rs:259`); escapes in a callback may only have decimal digits
(`lib.rs:283`), so `%3A` is refused. In the parser of claims, which nothing calls, a
URI with a `lnr` parameter always fails, as the refund is read from the whole URI
(`receive.rs:95`).

Were `onchain_receive_threshold` 0, a request for nothing would be written as an
on-chain amount of 0 beside an invoice without an amount, which the wallet's own
parser calls inconsistent; `UriAssumption` has it positive.

### Bounds, and why they are enough

One or two deposits, two outbound custodial ids, two invoices of the wallet's own,
one or two calls of `pay`, one crash, one unhandled unrelated event. Two of each
are what an interleaving needs: two rebalances contend for the mutex, and one
more waits. A third transfer would need a third id; when ids run out, calls
answer `Err`, as services may. The limits are 5, 2 and 3, and the deposits 6
(moved at once), 8 (moved in two parts, as the room is 5 - 2), and 9 (needs a
channel, as 9 - 3 exceeds 5). `DecideNot`, `Check`'s refusal, and the JIT case are
all reached. `wallet_crash` has no payments that come back, which
`wallet_faults` has: the abstract `GiveUp` is not taken there, and what is checked
is that no rebalance gives up without it.

`instructions` has every URI of up to three parameters, since two methods and an amount are what the checks compare, and those of four that all
ask for an amount. `MsatsPerSat` 3, `MAX_MSATS` 18 and `U64` 64 leave room for
amounts that differ by less and by more than the tolerance of 2, that are or exceed all
bitcoin, and that wrap. `MAX_QUERIES` is 4. `MCGraphs` has
a network graph of eight nodes, where the resolver stops at six, one of nodes that each
lack something, and two in which none resolves; `MaxQueued` lets the queue grow over
two lookups and more. `balance_decisions` has amounts of one digit and
two with a zero to drop. `store` has two tasks, for a reader beside a writer and a
panic that the other meets, three keys of both kinds, and two values.
Symmetry is used for interchangeable ids and, in `wallet_crash`, for the
two calls of `pay` together with their invoices; in safety runs only.
`CHECK_DEADLOCK FALSE` stands in the runs whose environment may run dry, with
every task waiting for a receipt or done.

### Fairness

`LiveSpec` assumes weak fairness of each task, since the runtime runs what can
run; strong fairness of `Lock`, since tokio's mutex is first in, first out; weak
fairness of the event task and of deliveries; and that unrelated receipts keep
arriving. The last one the code does not ensure: `lost_wakeup` drops it from the
environment (`Environment` without `"receipts"`) and finds the hang. Deposits,
crashes and failures have no fairness, and a call of `pay` need not begin.

`ParseCall` assumes that the resolving task runs and that the server answers each
request or fails it; that the builder's queries come to an end is not assumed but
follows from its limit. `TxMetadataStore` assumes weak fairness of a task that
holds the lock: it runs synchronous code that waits for nobody, and the write ends.

## The proofs

Every proof is for all instances: any sets of ids, any calls and methods, any
amounts and funds, any of the environment's hazards, any number of crashes; any
texts of any length. The assumptions are the named `ASSUME`s: the ids are distinct
kinds, amounts are natural numbers, 21 million bitcoin is a positive number of
whole satoshis that does not overflow, an invoice or an offer asks for one amount
at most (`IsText`), and a satoshi is within the tolerance of a URI (`UriAssumption`:
1000 and 100,000 milli-satoshis in the code). `PowersAssumption` tells the provers,
who know no powers, that those of ten are positive.

Every safety invariant and action property that a passing run checks is a theorem,
and so are both refinements. What is only model-checked are the liveness properties.

### The wallet

* **WalletSafety_proofs**, `WalletTypeOK`: a lemma for each group of actions, over
  lemmas on what the services do to their own state. `TypeOK` includes that a
  task past its payment has its invoice and ids. `WalletSafety`: `TypeOK /\
  SafetyInv` is inductive.
  `OneInFlight` is not by itself: when `Poll` finds a failed payment and lets go
  of the mutex, one has to know that no transfer to this invoice is pending any
  more, which needs that there is one transfer per invoice
  (`OneTransferPerInvoice`), that a task with the money holds the mutex
  (`MutexHeld`, `LegHeld`), and that an invoice about to be paid was not paid
  before (`InvoiceNotPaid`). `InsertsAreNew` needs that unused ids have no
  metadata and that ids in two hands differ (`UnusedIdsHaveNoMetadata`, `SentHeld`).
  Two lemmas carry most actions: `QuietStep`, for a task that only moves, and
  `SettlingStep`, for services that move on. `WalletOneInFlight`,
  `WalletReceivedTransfersAccounted` and `WalletInsertsAreNew` follow.
  `WalletPaysAtMostOnce` is inductive by itself once no step removes a record
  (`RecordsStay`). `WalletOnlyRepayingOverwrites`, an action property: a record only
  turns from a payment into a trigger, except where `pay` upserts the payment of an
  invoice that another call has recorded (`lib.rs:642-648`). It rests on `RecordsOwned`:
  whose record it is, call of `pay` or transfer, is told by the payment's direction. `WalletHolderAtWork`, the safe half of `RebalancesEnd`: the mutex is
  never left behind, so whoever waits for it waits for a task past the lock, and
  that one waits for nothing but the receipt of its transfer.
* **Transfer_proofs**, `WalletTransfers`: with these, `TransferInv` is inductive
  too. The properties it carries do not stand alone. That `Mark` succeeds needs
  that the trigger is still a plain payment (`TriggerIsPayment`), hence that no
  other task may turn it into something else: what the monitor blames is a deposit
  it saw as a payment (`CandidatesArePayments`), what a call of `pay` blames is its
  own payment (`TriggersApart`, `SentApart`), and a task blames under the mutex.
  That entries agree needs what is written between the three writes
  (`TriggerMarked`, `FirstEntryWritten`), and that an entry stands for a transfer
  that was delivered needs that both ends of a transfer tell the same end
  (`EndsAgree`: the one is completed if and only if the other is received). `WalletTransferPaired`, `WalletOneTransferPerTrigger`,
  `WalletMarkSucceeds` and
  `WalletCrashLosesAtMostOne` follow, the last by counting: nothing but a crash
  leaves a transfer unrecorded (`OrphansKept`), and each at most that of the
  mutex's holder (`CrashOrphansOne`).
* **Ledger_proofs**, `WalletKeepsLedger`: `WalletLedger` is a refinement mapping,
  step by step. `CustodialPay` begins a transfer, a `Poll` that finds it failed gives it
  up, its delivery or return ends it, `InsertLightning` enters it, a crash or a panic of the
  monitor is a `Die`; every other step is a stutter, for which it is shown that the transfers,
  the current one, the entries and the deaths each stay (`TransfersKept`,
  `CurrentKept`, `EntriesKept`, `DeathsKept`).
* **TransactionList_proofs**, `ListChargesTransferFees`,
  `ListTransfersAreNotIncome`, `ListShownStays`: `ListInv` says what a call knows
  while it lists and the wallet moves on: what is in its lists is still what the
  backends have (`ListsAreKnown`), and the payment blamed for a transfer whose
  custodial side is listed is, or will be, listed too (`BlameListed`), since that
  payment was made before the transfer (`DepositsMade`) and the custodial list is
  read first. Backends never forget a payment (`BackendsRemember`).
* The same module, `FundsInvHolds`: `FundsInv` is inductive over `SafetyInv`. That money
  is kept says nothing about the wallet's code, whose services these are, but a list can
  only be compared with balances that are the sum of something.
  A transfer is taken from one side and given to the other in different steps, with
  the amount of the custodial payment and of the invoice: that they are one needs
  `AmountsAgree` (the custodial wallet pays what the invoice asks for), and that
  an arrival counts once needs one transfer per invoice. Each step changes at most two
  payments, and for each of the services' actions a lemma says what it does to the
  balances and to the effects (`SparkPayFunds` .. `LnInvoiceFunds`).
  Sums are folds over sets, and the prover cannot be given the induction rule for
  them, whose parameter is an operator. They are proved from the library's
  well-founded order instead: a set of numbers that has 0 and each
  successor has them all (`CountUp`), used of sets of cardinalities. The fold's
  recursion has a solution (`TallyExists`) that does not depend on the set it is
  taken over (`TallyIsTotal`), hence a sum loses the
  term of any element with it (`TotalWithout`), parts worth nothing can be left out
  (`TotalOfPart`), and a payment that changes changes the sum by its own difference
  (`TotalOfChange`). That the used ids are finitely many is not assumed but part of `FundsInv`.
* `ListAddsUpAlways`: with nothing under way, the lines are the payments with an
  effect, each counted for what it is worth. A transfer that arrived is then on record on both sides
  (`ArrivedIsRecorded`), so neither is a line (`ListedCounts`); what was sent and not
  recorded would have a call that is still to record it (`SentIsRecorded`); so what is no
  line has no effect (`UnlistedIsNothing`), and `MoneyKept` is the sum of the list.

All that is in `Transfer_proofs`, `Ledger_proofs` and `TransactionList_proofs`, except
for `FundsInvHolds`, is under the hypothesis `DistinctInvoices`: no two calls of `pay` are given the same
invoice. ldk-node refuses to pay an invoice a second time unless the first payment
failed, so this excludes only a second attempt after a failure, where both calls
record, and blame, the one payment of that hash. It cannot be left out:
`repay_mark` shows what happens then. Every instance that checks the same properties
satisfies it (`wallet_crash` and `wallet_faults`). What does not need it, all of
`WalletSafety_proofs`, is proved without it, and `wallet_repay` checks it so.

### The store

* **TxMetadataStore_proofs**, `MemoryIsAlwaysStore` and
  `StoreImplementsService`, for any tasks, keys and values. `StoreInv` adds to
  `MemoryIsStore` that a writer is alone (`LockInv`), that between the change of
  the memory and the write the two differ by that value alone (`WriteInv`), and
  that what a reader has seen is still so (`CallInv`), which is what lets a read
  of many keys take effect at one moment. What was written is read back as it was
  (`KeyRoundTrip`, `IdRoundTrip`, `ValueRoundTrip`), since tags and variants tell the kinds
  of id apart, and a restart therefore never panics on it (`DiskLoads`). Each step of the store is then a step of
  the service or a stutter: a write is its effect, a lock for reading the read's.
  `StoreHoldersInCall`, the safe half of `LockIsReleased`: the lock is free or held by
  calls that have yet to release it.

### The parser, the resolvers, and the wallet's own URI

* **PaymentInstructions_proofs**: what the code's loops with their early returns
  amount to. A sequence of checks has no first error if and only if no check fails
  (`NoFirstError`); the comparison of each method with those before it, and the
  extremes that start at 21 million bitcoin and 0, together say that the methods
  are `Consistent`, in which no order appears (`NoMethodError`, `NoMixNoSpread`,
  `MethodsConsistent`). So the methods of every text that parses are `Agreeing`
  (`ParsedAgrees`), and `AgreeingIsPayable` tells what `set_amount` accepts of
  such. The test for having seen any amount is right only because 21 million is
  not 0, which `AmountAssumption` has. `RoundingUpCovers`: rounding up to satoshis and
  back never overflows below 21 million bitcoin and adds less than a satoshi.
* **ParseCall_proofs**: `ParsedMethodsAgree`, `ParsedAmountsPayable` and
  `ParsedAmountAsWritten`, for any texts, through resolution; `ParsedInAnyOrder`,
  for every permutation of the parameters: a permuted text is read without error
  because each check is, and its methods are those of before in other places, so they are
  `Consistent` again (`ReorderedRead`, `ReorderedMethods`); `FinishedProofComplete`,
  with an invariant for the HTTP resolver. No induction over the parameters is needed, since methods are
  indexed by their places and checks are quantified over them.
* **ReceiveUri_proofs**: the four decision properties, by arithmetic;
  `OwnUriIsPayable` and `OwnUriIsEnough`. A decimal without its last zeros reads as
  the number it was written from (`WrittenIsRead`), and rounding up does not
  exceed 21 million (`RoundedIsMoney`), so each way an amount takes into the URI adds less
  than a satoshi, and the checks of the parser pass one by one (`UriIsRead`). A request
  for nothing is included: custody then issues the invoice for no amount (`OwnUriText`).

### Only model-checked

Liveness under fairness, and with it `ENABLED`, which is out of the prover's
reach: `wallet_live`'s properties, `LockIsReleased` and `ResolutionEnds`.
Their safe halves are theorems: that no lock is ever left behind, and that a
rebalance past its payment holds a transfer (`LegHeld`). What they add is that
tasks and networks go on, that a receipt reaches who waits for it, and that loops end.

## What is not modelled, and the plan

Not modelled: logging and the demo; node and storage set-up, on-chain addresses,
`get_reusable_receive_uri` and `stop`, which pass calls on to libraries; the
cryptography of proofs and invoices; `saturating_add` and the exact `sats()`;
which error `pay` answers; the parser of claims (`receive.rs`), which nothing calls
since `parse_claim_instructions` is commented out (`lib.rs:590-596`); the answers to the onion message resolver, which wake nobody yet. Service
fees and the loss of an answer to an accepted payment are abstracted as said above.

What is left: custodial fees in `SparkPay`; receiving by `get_single_use_receive_uri`
as an action of the wallet; `Drop`, which stops the node under running tasks;
`get_balance`, which sums two moments.

Recursion is left to the community modules, away from what is proved about.
