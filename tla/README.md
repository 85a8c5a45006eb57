# ChronicleAI: a formal model in TLA+

ChronicleAI watches chains, sells what it finds, pays those who helped to sell
it, and runs two things that move money on their own: a treasury that carries
USDC from Base to Sepolia over Circle's CCTP, and a trading desk that opens,
executes and reports small trades through KeeperHub workflows. This directory
holds specifications of those parts, instances for the model checker TLC, and
proofs checked by TLAPS.
`PROJECT.json` lists the components, the runs, the lines each definition stands
for, the known disagreements between comments and code, and the hazards.

In what follows a path without a prefix is under `src/apps/api/src/`.

## 1. The system

### 1.1 Components

| Component | State it keeps | Operations | What makes it correct |
|---|---|---|---|
| CCTP treasury rebalance (`cctp/`, `routes/treasury-cctp-routes.ts`) | table `cctp_rebalance_transfers`, statuses moved by compare-and-set; the in-flight flag of the worker | worker cycle (resume, then tick), forced rebalance, forced resume | a record never claims a burn or a mint that did not happen; the safety buffer; few transfers in flight; every resumable transfer finishes |
| Desk intents and execution (`desk/control-plane.ts`, `intent-service.ts`, `strategy-runner.ts`, `execution-bridge.ts`, `policy-engine.ts`, `ticket-service.ts`, `desk-scheduler.ts`) | tables `desk_intents`, `desk_tickets`; the in-flight flag of the scheduler | tick, callback `execution-result`, boot reaper | one open intent per strategy; no fake fill; a trade that happened is not reported failed without a reason; executing intents settle |
| Kill switch and heartbeat (`desk/kill-switch-service.ts`, `heartbeat-service.ts`, `packages/db/src/desk-control-state-repository.ts`) | armed and paused in memory, one persisted row | arm, trip, evaluate, hydrate | an armed switch stays armed, also after a restart, and empties the desk |
| Capital manager (`desk/capital-manager.ts`) | table `desk_capital_moves` | top-up, sweep, emergency return, unwinding | reserve of the treasury, ceiling of the desk, a row for each move |
| Signals, strategies, agent (`desk/signal-*.ts`, `desk/strategy-*.ts`, `desk/agent/`) | table `desk_signals` | scoring, sizing, a language model's proposal | pure: sizes within the limits |
| KeeperHub client (`services/keeperhub-write-client.ts`, `keeperhub-mcp-*.ts`) | none but log rows | run a workflow over MCP or REST, public fallback, transfers | a write is done at most once per key |
| Payment settlement and affiliate rewards (`services/payment-*.ts`, `affiliate-funding-service.ts`) | `payment_records`, `affiliate_earnings`, `affiliate_funding_transfers` | challenge, settle, credit, fund the float | one settlement per challenge and reference; a reward is credited and funded once, for money that came in |
| Affiliate withdrawals and agent (`services/affiliate-withdrawal-service.ts`, `affiliate-agent-service.ts`) | `affiliate_withdrawals`, nonces, jobs in memory | withdraw, by the model's tool or the fallback | one withdrawal per signature, no overdraft, a true reply |
| Revenue routing and treasury checks (`services/revenue-routing-service.ts`, `treasury-status-service.ts`) | `payout_records`, `treasury_snapshots` | periodic payout, snapshot | one payout per interval, one for each piece of revenue |
| Premium access and receipts (`services/premium-*.ts`) | proof columns of payments; in-memory queue | access check, receipt publication | whoever paid may read; one receipt per payment |
| Sponsored watches (`services/sponsored-watch-*.ts`, `telegram-watch-ingest-service.ts`, `marketplace-watch-ingest-service.ts`) | `sponsored_watches`, `public_alerts`; campaigns of the registry contract | create, activate, monitor, complete | no campaign is lost, no event is passed over in silence or told twice, each campaign gets the report that is on chain |
| Subscriptions and Chronicle Pass (`services/newsletter-subscription-service.ts`, `chronicle-pass-*.ts`) | agreements, session rows | start, renew, settle, cancel, billing sweep; challenge, verify, resolve, log out | a payment buys one period, which is kept; a closed session stays closed |
| Events, alerts, digests, Telegram (`keeperhub/*`, `services/alert-*`, `digest-*`, `telegram-*`) | `monitored_events`, `public_alerts`, `daily_digests`, bindings | ingest, deduplicate, publish, bind | one alert per event, one digest per window |
| Registry contract (`src/packages/contracts/contracts/ChronicleRegistry.sol`) | published hashes | publish, record payout | append-only, no duplicates |
| Web application, configuration, repositories, workflows | - | - | not modelled as components of their own, see section 7 |

### 1.2 How they interact

Everything runs in one Node process on one database. Calls interleave at every
`await`; no lock is shared by two calls, apart from the in-memory single-flight
flags of the CCTP worker, the desk scheduler and the campaign cycle. HTTP requests
(operator routes, KeeperHub callbacks) run beside the scheduled work, so the
places where components meet are rows of tables and the outside world: the
chains, Circle's attestation service and KeeperHub runs. The desk scheduler's
tick calls the CCTP cycle, then the capital manager, then the desk tick, which
ends by evaluating the kill switch. A settled payment starts, in the same call,
the affiliate's credit and funding, and in the background the creation of a
watch; withdrawals and routing share the table of payouts and the registry. The
process can be restarted at any await; memory is lost, tables and the outside
world are not.

### 1.3 What is hard

* reads that are old when acted upon (counts, balances, gates, statuses);
* updates that are not conditional on what was read (`desk_intents`, payments,
  withdrawals, agreements, `desk_control_state`) beside ones that are (CCTP
  transitions, claims of funding rows, nonces, binding codes);
* outside effects whose answer is lost: burns and mints without a receipt,
  workflow runs that outlive their poll, retries under the same or a fresh key;
* restarts between an outside effect and the row that should tell of it;
* two callers that ask for the same thing because the first was slow to answer;
* work nobody resumes.

`PROJECT.json` gives each such place its line and the property that guards it.

## 2. Modules

| Module | Role |
|---|---|
| `CctpPolicy` | the pure eligibility and amount rules |
| `CctpRebalance` | transfers, worker, routes, Base, Iris, Sepolia, restarts |
| `CctpTransfer` | abstract specification: what one transfer promises |
| `CctpProperties`, `MCCctp` | properties and refinement mapping, instance |
| `CctpRebalanceProofs`, `CctpPromiseProofs` | proofs of types and of the limit of transfers; proofs of the promise, the buffer and the mints paid |
| `DeskIntents` | intents, ticks, workflow runs, callbacks, reaper, restarts |
| `DeskProperties`, `DeskIntentsProofs`, `MCDesk` | properties, proofs, instance |
| `DeskBook` | the desk's money and the calls that move it |
| `CapitalManager`, `KillSwitch` | each over `DeskBook` |
| `DeskControl` | composes them with the scheduler, the desk tick's part and restarts |
| `ControlProperties`, `DeskControlProofs`, `MCControl` | properties and fairness, proofs, instance |
| `AffiliateFunding` | funding rows, claims, retry runs, Para |
| `Payments` | challenges, expiry sweep, settlement requests; extends `AffiliateFunding`, whose calls it starts |
| `Settlement` | abstract specification: what settling a challenge promises |
| `PaymentProperties`, `PaymentsProofs`, `MCPayments` | properties and refinement mapping, proofs, instance |
| `PayoutRecords` | the table of payouts, transfers, the registry |
| `AffiliateWithdrawals`, `RevenueRouting` | the two writers of that table |
| `Payouts` | composes them, with restarts |
| `PayoutProperties`, `PayoutsProofs`, `MCPayouts` | properties, proofs, instance |
| `Agreements`, `PassSessions` | recurring agreements; wallet sessions |
| `ChroniclePass` | composes them: a session is let in by an agreement |
| `PassProperties`, `ChroniclePassProofs`, `MCPass` | properties, proofs, instance |
| `WatchRecords` | rows, campaigns, feed, alerts, clock |
| `WatchCreation`, `WatchCycle` | the three ways to a watch; the campaign cycle |
| `SponsoredWatches` | composes them, with restarts and fairness |
| `WatchPromise` | abstract specification: what a watch promises |
| `WatchProperties`, `SponsoredWatchesProofs`, `MCWatch` | properties and refinement mapping, proofs, instance |

Some operators are followed by a variant under a comment "Mutant": a plausible
mistake. It is used by nothing; substituting it for its original must make the
named property fail, which shows that the property has teeth.

### 2.1 CCTP

`row` is the table; a transition fails, and changes nothing, unless the row
has the status the caller expects (`repo.transition`). `pc`, `job`, `cur`,
`copy`, `seen` and `receipt` are the local variables of the running calls: the
worker's cycle and one call per HTTP request. In particular `copy` is the row
object a resumer holds, which may be older than the table, and `seen` is what
`evaluateAndMaybeStart` read before it creates a row. Each label of `pc` is an
await of `rebalance-service.ts`: `balances`, `count`, `last_burn`, `decide`
(the policy and `repo.create`), `begin` ... `record_burn` (`startTransfer`),
`list`, `next` (`resumeInFlight`), `unstick` ... `reread`
(`advanceAttestationAndMint`), `send_mint` ... `retry_later`
(`completeDirectMint`). `base`, `allowance`, `burn`, `attested`, `forward`,
`mint`, `pool` and `loose` are the outside: a burn or a mint is sent, then mined
or reverted, and the caller may give up on its receipt before that; `loose` are
mints no process waits for any more.

Amounts are small integers of atomic units. Gas, desk starvation and the mode
chosen by `resolveMode` are free choices. `recent` abstracts the clock: a burn
is younger than the cooldown or it is not.

`sends` is a history variable, which no guard reads: it counts the
`receiveMessage` transactions broadcast for each row. The program does not count
them: `attempt_count` is written at the end of an attempt as the number in the row
object held plus one (`rebalance-service.ts:858`), so that it is not the number of
mints that were paid for.

### 2.2 Desk

`intent` is the table with its partial unique index on open intents of one
strategy. A tick reads its gates (`ReadOpen`, `ReadAny`, in any order in the
strategy phase as they run in a `Promise.all`, in sequence in the microtrade
phase), is refused or allowed, looks for an open intent of the strategy,
inserts, and executes: `executing`, submit, wait, `filled` and a ticket, or
`failed`. A status change is `ReadStatus` and `WriteStatus`, as `transition` is
`findById` and an unconditional `update`; `move` holds the decision in between.
`Threw` is the control flow of errors: a runner's catch clause fails the
intent, an error in that ends the tick, an error in a callback ends it. `run` is KeeperHub's
side, per intent and idempotency key: the private workflow is started under
`desk-intent-<id>` over MCP and again over REST, the public fallback under a key
of its own, after a timeout. `RunOutside` stands for intents left by ticks with
`execute=false`, which a deployed workflow executes and reports. `reaper` is the boot code of
`routes/index.ts`, which nobody awaits. `lost` is a ghost variable: the
intents whose outcome the program lost sight of.

The agent, the mark of the positions, sizing and all policy rules but the
single-flight one can only keep a tick from proposing; `Refuse` is therefore
always possible and `Allow` free in the strategy it takes. `approved`,
`deferred` and `cancelled` have no writer in the program (`approve`,
`markDeferred` and `cancel` are never called) and are left out.

### 2.3 Payments

`row` is the status of each payment record; payments stand for records, their
challenges and, as `affiliate_earnings` has one row per record, their earnings.
A request goes through the awaits of `settle` (`pc`): `Reap`, `Find`, `Verify`,
`SubmitAuthorization`, and one of the four updates. Three of them (`Close`)
write by id alone; `MarkSettled` is the compare-and-set. An adapter is a
`Verdict` on a proof that is good, short, late or bad; on the x402 rail a good
one leads to the submission, a step of its own in which the payer's money moves.
`due` abstracts the clock. `SweepExpire`, `SweepDeleteExpired` and
`SweepDeleteOpen` are the three statements of the timer in `app.ts`. One sweep is
under way at a time; a slow one that met the next would only repeat statements
that each look at the table anew.

After `MarkSettled` the same request credits the affiliate and, with an earning,
enters `fundEarning`: `fstep` and `target` are the local state of that call and
of the retry runs, `batch` the list a retry run has read. A claim is two awaits
in the repository, `ClaimRead` and `Claim`; that the update compares
`updated_at` is modelled by `Outdated`, which makes every other call that has
read the row `stale` when it changes. `sent` is what Para has broadcast,
whatever the caller was told: `SendLost` is the broadcast reported as an error,
`Recognised` a key Para has seen and answers with the old transaction, which the
model allows and does not require.

`Settlement` keeps of all this what a payer, an affiliate and a reader of the table
can see. `RecordOf` shows a status as none, open, settled, closed (underpaid,
expired, failed) or dropped (deleted); the payments taken are those with a reference,
those told are those some request was newly settled for. Statements of a sweep move
several records at once; everything a request or a retry run does in memory, the
claims of rows and restarts are invisible.

### 2.4 Payouts

A payer is one call that pays, of a withdrawal or of a routing run; it inserts at
most one row of `payout_records`, which has its name. `pc` goes through the
awaits of `withdraw` (nonce, affiliate, balance, row, processing, payout,
transfer, registry, four updates) and of `routeRevenue` (aggregates, snapshot,
row, transfer, registry, mark). An update of a row may fail and the code goes on
as if it had not, where it ignores the result, and ends where it does not. A
transfer may be broadcast though the caller is told that it failed (`unknown`).

A job of the affiliate agent asks the language model, which may call the tool
`withdraw` any number of times and is aborted after its time, whatever call is
under way; the fallback then calls `withdraw` itself. `asked`, `authority` and
`reply` say which calls a job made, with which signature, and what its answer
tells the affiliate. `stale` and `blind` are ghosts: withdrawals inserted after
another one had taken from the balance they read, or without having read it.

Routing keeps what the guard and the aggregates read: the time of the last
routing on the snapshot that was the latest when the run began, and revenue that
only grows. Costs, reserve and shares are a free amount below both ceilings.

### 2.5 Desk control

`DeskBook` has the money in whole units at a constant price: `treasury`, free
`desk`, `stock` (LINK and Aave), and `booked`, the net of the rows of
`desk_capital_moves`. A KeeperHub run takes the money when it ends; a caller
that gives up on it leaves it in `late`, where it ends all the same. `past`
remembers what excuses a limit that was passed.

`CapitalManager` is one tick: mark, treasury, history (`book` is what it read),
the rules, and one of top-up, sweep, emergency return or unwinding, with the
verification, the guard on the live balance at dispatch and the row. `behind`
marks readings another top-up has outdated. `KillSwitch` is the flag in memory
and its row, an upsert that reads the whole row and writes every column.
`DeskControl` adds the scheduler's cycle, the requests beside it, and of the desk
tick what meets the other two: heartbeat, mark, gate, a trade that turns free
USDC into stock or back, the two times written to `desk_control_state`, and the
evaluation of the switch. The strategy and event slots of a tick are one, a trade
is one step, and the age of the heartbeat is a free choice at `Evaluate`.

Left out: the values a request to the control plane may override, withdrawing
LINK, a forced evaluation, the starvation report, alerts, logs, the registry
audit of a move, the pruning of heartbeats. `disarm` has no caller.

### 2.6 Chronicle Pass

`Agreements` is the table of recurring agreements. A request reads a row (`mine`,
`held`) and writes it by id some awaits later: start, renew, cancel and resume,
and `settle`, which takes the payment, enrols the address and then opens the
period from the reading. The billing sweep decides on each row (`doom`) before it
writes any. Time is in days; the next period is computed on the day of the
update. `raced` is a ghost: rows a period of which was opened while another call
held an older reading of them.

`PassSessions` has challenge, verification, the resolution of a session token
(which consults the agreements of the wallet), logout and the sweep; a nonce row
becomes the session row. Signatures and tokens are external, and
`findByPayerWallet` returns any agreement of the wallet. The taking of a payment
is one step here; its races are the subject of `Payments`. The list of alert
recipients and its preferences, the catalog product, referrals, `touch` and
execution logs are left out.

### 2.7 Sponsored watches

A call creates a watch: a settled payment in the background, a Telegram message,
or a marketplace workflow, which has created the campaign itself and only
registers it. Telegram and KeeperHub retry, so that two calls may carry one
request; a binding code is used once. KeeperHub may answer a create with the
campaign of an earlier one, as the idempotency key is made of the specification
and its window (`made`). `forsaken` is a ghost: campaigns whose call was refused,
or died.

The cycle is single-flight: a run lists the rows of each of its three phases and
takes them one by one, with the time of its start. As nothing else updates a row,
a listed row is never out of date, and the model reads the table. In a row it
goes through the awaits of `refreshMonitoring`, `deliverWatchAlert` and
`completeWatchInternal`. Collecting events (`collectMatchingEvents`) is one step:
those known by id, those of the window scan up to its limit, and at most one that a
scan of the chain finds. `feed` is `monitored_events`; a record's event is observed when it is
captured. An alert's text is the set of events it names; its row has the watch and
the first new event as its key. A report is its source root and its text.
`dmed`, `posted`, `folded`, `rode`, `repeated` and `spoke` are ghosts for who was
told of what.

`WatchPromise` has of a row whether it is open or closed, the events it has passed and
the report it was closed with (`ShownRow`), who heard of what (`HeardBy`; of a private
watch its owner alone), the reports asked for and the one on chain. Activation, what a
run collects and prepares, restarts and refused calls are invisible.

Left out: the repair of placeholder narratives, the providers of text, fetching
logs, the batch limit of 25 rows of a phase, the caps of 500 ids, a request's own
time, the registry write of an alert (it fails softly), `failWatch` and
`completeWatch`, which nothing calls.

## 3. Runs

| Run | Instance | Shows |
|---|---|---|
| `cctp_race` | worker and a forced rebalance, 3 transfers, a limit of one in flight, failures of database, Base, receipts and Iris, 1 restart | `RecordedBurnHappened`, `BreachIsBounded`, `InFlightBounded` |
| `cctp_live` | worker and one HTTP request of any kind, 1 transfer, direct and forwarded mints, late receipts, network and gas failures, lost mints, 1 restart, fair | `MintedOnChain`, `MintInputsComplete`, `MintsBounded`, `LegalTransitions`, the refinement `KeepsPromise`, `ResumableSettles` |
| `desk_intents` | scheduler and a callback, 2 intents, MCP, REST and fallback, microtrades, database failures, 1 restart | `FilledMeansDone`, `FailureOfFillIsExplained` |
| `desk_live` | scheduler and a tick request, 2 intents of one strategy, 1 restart, fair | `OneOpenPerStrategy`, `ExecutingSettles` |
| `desk_switch` | scheduler and one request of any kind, 1 fault, fair | `BooksBalance`, `ReserveExplained`, `AumExplained`, `SwitchSurvives`, `EventuallyFlat` |
| `desk_kill_lost` | the same | **violated**: `ArmSurvives`, the claim of `kill-switch-service.ts:15` |
| `payments` | 1 challenge on either rail, 2 requests, 1 retry run, sweep, 1 fault, fair | `ConsumedOnce`, `FundingIsBacked`, `ClaimExclusive`, `PaidTwiceNeedsLostAnswer`, the refinement `KeepsSettlement`, `FundingSettles`, `OverdueCloses` |
| `payouts` | 2 payers, 2 jobs, 2 signatures, 2 snapshots, 1 fault | `OneWithdrawalPerSignature`, `OverdraftExplained`, `ReplyTellsTruth`, `TransferredIsPaid`, `DoubleRouteExplained` |
| `routing_revenue` | 2 routing runs, no fault | **violated**: `RevenueRoutedOnce`, the claim of `revenue-routing-service.ts:262` |
| `chronicle_pass` | 2 requests, 2 challenges, 1 agreement, 1 session, sweep, 3 days, 1 fault | `PaidForPeriods`, `BoughtIsKept`, `ClosedStaysClosed` |
| `watches` | 1 row, 2 calls, Telegram and its retry, 2 events, every kind and audience, 1 fault | `CursorExplained`, `ToldTwiceExplained`, `ReportCovers`, `AnchorExplained`, and the refinement `KeepsWatchPromise` |
| `watch_live` | 2 rows, 2 calls of any origin, 1 fault, fair | `CampaignTracked`, `EndedCompletes` |

The two violations are disagreements between what a comment promises and what
the code does; `PROJECT.json` ("findings") quotes both and tells the trace. The
models have more behaviours that a comment denies, which no run exhibits any more:
two starters, the worker and a forced rebalance, burn below the safety buffer
(`src/packages/config/src/defaults.ts:314`; `BreachIsBounded` says by how much); a mint that was given up is mined later and its row fails
(`rebalance-service.ts:936`); two strategies have open intents at once
(`policy-engine.ts:151`); more mints are paid for than the "max mint retries
before failed" (`src/packages/config/src/defaults.ts:338`), as a caller with an old
row object sets the counter back, and a failing update does not count an attempt at
all (`MintsBounded` says by how much while the database answers); a filled intent is overwritten with `failed` by a writer
that read it before (`intent-service.ts:42`); and a settled record whose status a
late request has overwritten is deleted by the sweep
(`src/packages/db/src/payment-record-repository.ts:82`).

What the passing properties say, in words:

* `RecordedBurnHappened`: a row past burning has its hash, and that burn is on
  chain. `MintedOnChain`: a row closed by a direct mint was minted.
  `MintInputsComplete`: whoever is about to mint holds an attested message.
* `BreachIsBounded`: the treasury goes below its buffer by at most one chunk for
  each HTTP request, which acts on a balance read before other burns, and one for
  each burn the service had given up on. In the run the forced rebalance does breach
  it, without any such burn and on top of one; `BufferKept` (section 6) proves the
  bound for any number of requests.
* `InFlightBounded`: concurrent requests exceed the limit by at most their
  number. In the run the worker and the forced rebalance both count no transfer in
  flight and both start one, so that two are in flight at a limit of one.
* `MintsBounded`: two resumers write the counter out of order, and a copy read before
  the other's attempt sets it back. While the database answers a transfer costs at
  most `MintMaxAttempts` mints for the worker, as many for each request, and one for
  each restart, which finds the attempt under way not counted. The bound is met:
  five mints at a limit of two, with one request and one restart.
* `LegalTransitions`: no old row object revives a closed row.
* `KeepsPromise`: each row implements `CctpTransfer`, in which money leaves
  once, arrives once and only after it left, and the record says so truly.
* `FilledMeansDone`: a filled intent, or a ticket, has a run that ended with a
  transaction. `FailureOfFillIsExplained`: a failed intent whose trade
  happened was lost from sight or had another run that failed.
* `OneOpenPerStrategy`: two ticks let by on the same stale gates still leave
  one open intent of a strategy. It is the unique index that makes this true.
* `ConsumedOnce`: whatever the unconditional updates and the sweep do to a
  record, one request at most is newly settled, so that one reward is credited
  and one watch created.
* `FundingIsBacked`: the treasury adds to the float only what was earned from a
  recorded settlement, on the x402 rail with the money arrived.
* `ClaimExclusive`, `PaidTwiceNeedsLostAnswer`: overlapping retry runs, restarts
  and failing updates never make two calls hold a row, and a second broadcast
  needs an error reported for the first.
* `KeepsSettlement`: every payment implements `Settlement`. Beyond the invariants it
  says in which order things come: a reward after somebody was told, a transfer to the
  float after the reward, a second one only while the first is in doubt; and what may
  become of a record: it never opens again, is not dropped in the state settled (the
  sweep deletes what a late request overwrote, not what it finds settled), and an
  update by id does not bring a dropped one back.
* `OneWithdrawalPerSignature`, `ReplyTellsTruth`: the model's tool and the
  fallback may both call `withdraw`; one of them pays, and the affiliate is told
  so. `OverdraftExplained`: what is paid beyond the earnings is paid by
  withdrawals that acted on an old or unread balance, or whose transfer was said to
  have failed.
* `TransferredIsPaid`: a payout shown as transferred was sent and is on the
  registry, though updates are by id and their results ignored.
  `DoubleRouteExplained`: two payouts of one interval need overlapping runs or a
  snapshot between them.
* `BooksBalance`: the table of capital moves accounts for the treasury, unless an
  answer or the process was lost between a transfer and its row.
  `ReserveExplained`, `AumExplained`: the limits are passed only by a top-up
  decided on a reading that another top-up has outdated, or on a failed mark.
* `SwitchSurvives`: a switch that was saved armed stays so through restarts, trips
  and hydration, unless the desk tick writes an old row back; `ArmSurvives`
  without the exception is what the code's comment says, and is violated.
* `PaidForPeriods`: no interleaving of settlements, renewals and sweeps buys two
  periods with one payment. `BoughtIsKept`: none loses a period that was paid for,
  unless it was opened while another call held an older reading.
  `ClosedStaysClosed`: a verification under way never reopens a session.
* `CampaignTracked`: a campaign on chain has a row, or a call that was refused or
  lost; two rows of one campaign come of different requests for the same watch
  and moment. `CursorExplained`: a monitored watch passes no event in silence but by
  design. Two silences the model has are worth knowing: an alert row of an earlier
  attempt is published with its old text and the newer events ride along
  (`rode`), and a throttled or folded batch starts the throttle anew, as
  `last_alert_sent_at` is written though nothing was sent.
* `ToldTwiceExplained`: nobody hears of an event twice unless something failed.
  `ReportCovers`: the report has every event of the window recorded before it, up
  to the limit of the scan. `AnchorExplained`: the row's report is the one on
  chain, unless an attempt was lost or two rows share a campaign.
* `KeepsWatchPromise`: every row implements `WatchPromise`: it passes only events that
  were heard of or that nobody was to hear of, asks for a report when its campaign is
  over, and is closed once and for all, with a report that was asked for.
* `ResumableSettles`, `ExecutingSettles`, `FundingSettles`, `OverdueCloses`,
  `EventuallyFlat`, `EndedCompletes`: see section 5.

## 4. Bounds

`cctp_race` has three transfers: one whose burn landed after its call had given up
on it, and two of starters that act on one stale count. `InitialBase = 9`, chunk 3,
buffer 5, fee 1: two chunks do not fit above the buffer, so that the second one,
on an old balance, breaches it, and a third empties the treasury. One attempt and
direct mints are enough there, as the mint has no part in these properties.
Its `VIEW` leaves out `sends`, which no step and none of its properties read, and
which grows for ever when updates may fail without end (a mint that is sent again
after its attempt was not recorded).
`cctp_live` has one transfer, on which the worker and a request race:
`MintMaxAttempts = 2` is the least with a retry, and `InitialBase = 6`, chunk 3,
override 2, buffer 1 let either start it. Transfers meet only in the count, the
balance and the allowance, which `cctp_race` has. All of both at once is too large;
what the two runs show is proved for any number of transfers and requests (section
6), but for `ResumableSettles`.
`MaxCrashes = 1`: after a restart the process is in its initial state, and a
second restart differs from the first only in how the table looks, which the
first already leaves in every state.

On the desk two intents are needed for one that blocks the other. One callback is
enough to race with the runner, and, as it may report any run of any intent, with
another key's result. The rows of one strategy interact only with each other
apart from the global rule, so the runs have one strategy.

In `desk_switch` one request beside the scheduler makes every pair of calls;
funds of five, a chunk of two, a ceiling of three, a reserve of one and a minimum of
one let a top-up pass each limit and miss it, and let two top-ups on one reading
breach both. A sweep is possible because the desk's free money may exceed
`ProfitSweep`. One fault is each failing call, lost answer or restart by itself.

Two requests for one challenge contain every race of `settle`: a third meets the
record only through the two updates already racing. Challenges do not interact:
a settlement reference is bound to its challenge (by nonce on x402, by HMAC on
MPP), so the unique index on references never meets two. The retry run
overlaps with the request that created the row, a caller like any other of
`processRow`; two retry runs add no step that the pair lacks. One fault covers each
failing call, lost answer or restart by itself at every place; `MaxSends = 2` is the
least that counts a double payment.

Two payers make every pair: two withdrawals on one balance of one unit, under the
same or different signatures, of one job or two, and two routing runs, in one
interval or two (`MaxInterval = 2`), with or without a treasury check between
them (two snapshots). `routing_revenue` has neither job nor fault: routing alone
violates its property.

Two requests, two challenges and one agreement are two settlements, of one
challenge or of two, or a settlement beside a renewal, cancellation or sweep;
agreements do not share anything but the sweep, which takes them one by one.
Three days with a period and a grace of one let an agreement run out, be past due,
expire and be renewed.

In `watches` one campaign of two moments is looked at whole, over two events with
a scan limit of one, so that an event behind the limit exists; two calls are the
Telegram message and its retry, or a payment and a message that KeeperHub takes
for the same. Rows meet only in creation, so `watch_live` has two rows and no
event. Calls come at the first moment only (`LastCall = 0`): a later one only
shortens the window, and `Horizon` cuts it as well.

The proofs of section 6 need none of these bounds. Symmetry is used on rows,
intents, calls, events, challenges and payers, and only in runs without liveness
properties; none of these sets is ordered or compared otherwise.

## 5. Fairness

`CctpRebalance!Fairness` asks for weak fairness of the worker's steps (a timer
calls its cycle for ever), of the chains and of Iris, which settle what was
sent. HTTP requests owe nothing. Then every resumable row becomes minted or
failed: timeouts and failed mints spend attempts. The database is taken as
reliable in this run, as a failing update can leave a row where it was.

`DeskIntents!Fairness` asks for weak fairness of the steps of running calls (the
event loop resumes them, `pollUntilComplete` has a deadline) and of the reaper
once started. It asks nothing of KeeperHub, of callbacks or of new ticks. Then
an executing intent is settled by its runner or, after a restart, by the reaper.
Database failures are off here too: a failing `markFailed` leaves the intent
executing until the next restart, which is a hazard on the list, not a property.

`ControlProperties!FairSpec` asks for weak fairness of the scheduler's timer and of
its calls, of `hydrate`, and of runs nobody waits for, which end. Requests owe
nothing and faults are finitely many. Then an armed desk ends with nothing free
(`EventuallyFlat`): whatever was under way when the switch was armed frees money
once, and the scheduler's emergency returns go on.

`Payments!Fairness` asks for weak fairness of the sweep, of running funding calls
and of retry runs (timers), and for strong fairness of Para's accepting a retried
transfer: it may refuse for long, not for ever. Faults are finitely many. Then an
overdue challenge leaves the open state, and a funding row that exists ends
completed, or stays `processing` after a fault, which the code leaves to
reconciliation on purpose. Settlement requests and clients owe nothing.

`SponsoredWatches!FairSpec` asks for weak fairness of the campaign timer, of the
steps of a run, of time, and of KeeperHub, which mines one of the reports it was
asked to publish. Calls owe nothing, and faults are finitely many. Then a campaign
that ends within the horizon is completed (`EndedCompletes`), although the cycle
that should have activated or monitored it failed.

## 6. Proofs

`CctpRebalanceProofs` proves, for every value of the constants allowed by
the named assumptions `PolicyConfig` and `RebalanceConfig` (finite sets of rows
and requests, natural amounts, a positive limit of attempts):

* `EligibleAmountIsSafe`: an amount the policy lets by is positive, within the
  cap, and leaves the buffer of the balance it was shown after the fee;
* `TypeCorrect`: `Spec => []TypeOK`. The type invariant is inductive. Its
  non-obvious parts are that a process at a step on a row has one, and that
  balance, amounts and attempts never go below zero: a burn is subtracted only
  when the chain has the balance. The proof has one lemma per family of
  steps (starting, resuming, minting, chain, calls), and lemmas for the helpers
  `Stop`, `Return`, `Transition`, `Insert`.
* `FlightBounded`: `Spec => []InFlightBounded`, for any number of requests. A caller
  that has read a count below the limit holds a permit to create one row; rows in
  flight plus permits stay within the limit and the number of callers. A row that
  was released never comes back, and a permit is spent by the insert.

`CctpPromiseProofs` builds on it. Its invariant `Facts` says what rows, chains and
processes know of each other:

* `RowFacts`: what a row says agrees with the chains, the budget of attempts included;
  `ChainFacts`: only what was burned is attested or can be minted.
* `StartFacts`: a process that starts a transfer finds its row in the status its
  place expects and the burn not yet sent; this is inductive because it is alone
  with its row (`Alone`: two starters have two rows; and only rows past their burn
  are resumed).
* `CopyFacts`: a row object read before an await is old, but what it says of messages
  stays true. `MintFacts`: who sends a mint holds a message, and who waits for a
  receipt in `pool` waits for the row at hand.

Each step is one of three (`StepSeen`): a transaction is mined (`Mined`), one row
moves by an allowed transition (`Move`), or nothing a reader of the table sees
changes. From this follow, for every set of rows and callers and every number of
faults, `BurnRecorded` (`Spec => []RecordedBurnHappened`), `MintInputs`
(`Spec => []MintInputsComplete`), `MintRecorded` (`Spec => []MintedOnChain`),
the action property `Legal`
(`Spec => LegalTransitions`), and the refinement `Implements`
(`Spec => KeepsPromise`): the rebalance implements `CctpTransfer` for every row at once.

`BufferKept` proves `Spec => []BreachIsBounded` for every number of requests and
without assumptions beside those of the modules. Two concurrent starters may each read
a balance the other spends, so the buffer itself is no invariant; what is one counts
what may have been taken out of it. `Excused` is one chunk for each request that has
burned or whose call is over (`Spenders`; a request makes one call) and one for each burn
nobody will record. `Cushion` says that but for what is excused the buffer is there, the
worker has not read more than there is, and the burn it is about leaves the buffer.
`HashFacts` gives the rest: rows with a hash are burned, and only those are resumed, so
that no orphan is taken up again, and a burn that is mined is the worker's, which
`Cushion` covers, or a request's or an orphan, which adds a chunk to what is excused
(`BurningKeeps`). `CalmKeeps` covers every step but a burn that is mined, the insert,
the worker's reading of the balance and a restart: such a step leaves balance and burns
to others, and nobody who has spent comes back (`CalmExcuses`).

`MintsLimited` proves `Spec => []MintsBounded` for every number of requests and
every limit. Its invariant `Ledger` is a book of each transfer: the mints paid for,
less the attempt the worker has under way (`Settled`), are covered by the counter
(`Counted`; a closed row counts as all attempts) and by what others may have added
(`Allowance`): one for each request that has an attempt under way (`Spending`), one
round of attempts for each request that is done with the row (`Through`), which may
have set the counter back, and one for each restart. Requests answer once, so that
each is in one of the two sets at most; the worker goes on for ever, and for it
`Affordable` says that the number it will write is not too small, and that a row
moved by others has room for the attempt it makes in vain. A step that neither
sends a mint nor ends an attempt is `Hushed` (`HushedKeeps`); a mint that is sent is
`AttemptKeeps`, an attempt that ends `EndingKeeps`, a restart `RestartKeeps`.

About the desk (`DeskIntentsProofs`), for every set of intents, strategies,
ticks and callbacks and every combination of faults:

* `TypeCorrect`: `Spec => []TypeOK`. The type invariant is not inductive alone:
  a callback works on an intent because a run of it exists. `TypeInv` adds that
  runs belong to intents that exist, that such an intent has a strategy, that no
  status change under way removes an intent, and that the reaper lists intents
  that exist.
* `OneOpen`: `Spec => []OneOpenPerStrategy`, inductive together with `TypeInv`:
  an insert and an update are open only where the unique index allows it, so
  that even an update that reopens a closed intent is refused next to another.
* `NoFakeFill`: `Spec => []FilledMeansDone`. Status and tickets do not remember
  why they were written; the update is unconditional. `FillInv` therefore adds
  what processes have in hand between their awaits (`FillsInHand`): whoever
  decided on `filled`, or stands before the ticket, has a run that ended with a
  transaction, and so has a callback that first writes `executing` on its way.
  Runs that ended with a transaction stay so (`FillsAreStable`).
* `FillFailureExplained`: `Spec => []FailureOfFillIsExplained`. `FailInv` says more
  of every failed intent (`FailedIsOver`): its failure is explained, or none of its
  runs trades any more. `TickKnows` and `CallbackKnows` say, place by place, what the
  status was read for: a tick that submits has an `executing` intent nobody ran,
  one that waits has asked for the one run it waits for, one that publishes has a
  filled intent, unless the failure is explained already. `Owned` separates the
  calls: no two ticks have one intent, and nobody runs a proposed intent a
  tick has in hand, so that a report cannot mark it executing under it.
  `Evolves` is what another call may do to an intent in hand; ticks stand it
  (`TickStays`).

About payments (`PaymentsProofs`), for every set of payments, requests and retry
runs and every number of faults:

* `TypeCorrect`: `Spec => []TypeOK`, with the addition that only x402 payments are
  submitted (`TypeInv`).
* `SettledOnce`: `Spec => []ConsumedOnce`. `SettleInv` says that a counted
  settlement has left its reference on the record, which the compare-and-set
  tests and no other update removes; the status alone would not do.
* `FundedIsPaid`: `Spec => []FundingIsBacked`. `SettleInv` has the other half:
  whoever stands before `markSettled` on the x402 rail has seen the money;
  `BackInv` carries "settled and credited" from the request to the row, to every
  call on it and to every list a retry run has read.
* `OneHolder`: `Spec => []ClaimExclusive`. `ClaimInv`: a row that is held is
  `processing`, and a claim that is still fresh is on a row that is not.
* `TwiceOnlyAfterLostAnswer`: `Spec => []PaidTwiceNeedsLostAnswer`. `SendInv`: after
  an answered broadcast the row is `processing` or `completed` and its holder, if
  any, is about to mark it completed.
* `Implements`: `Spec => KeepsSettlement`. Nothing new is needed but that whoever is
  about to credit a reward was told of its settlement (`SettleInv`). `SettleInv`
  gives `Take` and `Reward`, `BackInv` that a transfer is of a reward, `SendInv` that a
  second one is made in doubt only: a call about to send holds its row, and the
  holder of an answered one is past that (`FloatShown`). The three updates by id are a
  withdrawal of an existing record or change nothing (`CloseShown`), the statements
  of the sweep one of a set of records (`ExpiryShown`, `SweepShown`).

The desk proofs have one lemma per control helper (`Stop`, `Change`, `Threw`,
`NextPhase`, `Written`: what it does to its process and that it leaves the
others alone), one per family of steps, and for each invariant a lemma that
reduces a step of one process to that process (`ProcessKeepsTypeInv`,
`ProcessKeepsFillInv`, `ProcessKeepsFailInv`).

About payouts (`PayoutsProofs`), for every set of payers, jobs, signatures and
snapshots and every number of faults:

* `TypeCorrect`: `Spec => []TypeOK`.
* `SignedOnce`: `Spec => []OneWithdrawalPerSignature`. `SigInv`: whoever has spent a
  nonce or inserted a withdrawal (`Held`) has its signature in the table of nonces,
  and no two of them have the same; a row outlives its call, which is why the
  invariant speaks of rows as well as of places.
* `TransferredPaid`: `Spec => []TransferredIsPaid`. `PayInv`: past its transfer a call
  has sent, past the registry its payout is there.
* `EarningsSuffice`: `Spec => []OverdraftExplained`, for any number of concurrent
  withdrawals. `PlaceInv` ties the place of a call to its reservation and its
  transfer; `SumInv` bounds the reservations that nothing excuses by the earnings,
  and says that a call about to insert on a good reading has room for one more: an
  insert makes every other such reading stale.
* `RepliesTrue`: `Spec => []ReplyTellsTruth`. `TellInv`: a call that has ended
  reported the transfer it made, or was told that it had failed; a job in its
  fallback waits for one call, and a reply speaks of calls that are over, so that no
  later transfer makes it false.
* `RoutedTwiceExplained`: `Spec => []DoubleRouteExplained`. `RouteInv`: a mark stays
  on its snapshot until a later one (`RunFacts`, `MarkFacts`), and two runs on one
  snapshot either overlapped or one was over, its mark set, before the other began
  (`Apart`, `Before`).

About the desk's control (`DeskControlProofs`), for every set of requests and
every amount and limit:

* `TypeCorrect`: `Spec => []TypeOK`; no balance is ever negative, whatever was seen
  before it is moved.
* `SwitchKept`: `Spec => []SwitchSurvives`. `SwitchInv`: a call between arming and its
  last save finds the switch armed still, so that it saves an armed one; and,
  unless the row was clobbered, what was saved is in the row and, once that is
  restored, in memory.
* `ReserveKept`, `AumKept`: `Spec => []ReserveExplained`, `Spec => []AumExplained`.
  `LimitInv`: a reading no top-up has outdated errs on the careful side, since
  nothing but a top-up lowers the treasury or raises the desk's equity
  (`Cautious`); a top-up decided on it keeps the limit.
* `BooksKept`: `Spec => []BooksBalance`, for any number of concurrent moves.
  `BookInv`: which calls hold a good transfer (`PaidPlaces`), and the account
  (`Accounts`): treasury, rows of the table and what is going in are the funds and what is
  coming out. What is in transit is counted as a set of pairs of a call, or a late
  run, and a unit, so that cardinalities add up over any set of calls; late runs are
  unwinds as long as nothing was left untold.

About the pass (`ChroniclePassProofs`), for every set of requests, agreements,
challenges, wallets and nonces; the inductive invariant is
`PassInv`, of five parts:

* `TypeCorrect`: `Spec => []TypeOK`.
* `PaidOnce`: `Spec => []PaidForPeriods`. `SpendInv`: a settlement holds a reading of
  its row to which its own challenge has not contributed, so that what it writes
  counts each challenge once. It needs `KnownBills` (a challenge anywhere was
  issued, a settlement past the payment is of a paid one) and `FreshBills` (a
  challenge about to be linked is nobody else's).
* `BoughtKept`: `Spec => []BoughtIsKept`. `KeptInv`: where no reading was overtaken,
  readings agree with the rows, and neither the sweep nor a reopening has a running
  period in its sights.
* `Closed`: `Spec => ClosedStaysClosed`, an action property, from the conditions of
  each update.

Most steps leave periods alone; `CalmKeeps` says once that such a step keeps
the invariant, and four special steps are left.

About the watches (`SponsoredWatchesProofs`), for every set of calls, requests, rows,
events and targets and every number of faults:

* `TypeCorrect`: `Spec => []TypeOK`, with `Placed`: what a call or a run holds at
  each place (a call at its insert a campaign, a run at a row that row).
* `Tracked`: `Spec => []CampaignTracked`. That no campaign is lost from sight needs
  to know whose it is: `CampaignsKnown` (a campaign is one request's or of one
  specification, never both), `CallsKnown` and `RowsKnown` (what calls and rows have
  is the campaign of their request or specification, and a request has one row),
  and `RowsInHand` (a call that uses its binding code has a row behind it, so that
  it may end with success). Then each step that takes a campaign out of a call's
  hands puts it in a row or gives it up. The cycle keeps what identifies a row
  (`RowsKeep`), and so disturbs none of this.
* `ReportsAnchored`: `Spec => []AnchorExplained`. All that follow rest on `Driven`:
  which row the run is at, in which phase, and what status the listed rows have.
  `AnchorInv`: what was submitted for a campaign came from one of its rows, and,
  without a fault, a row that has its campaign to itself has asked for the report it
  holds and for no other. It uses `NoReportYet` (no report is `None`).
* `ReportsCover`: `Spec => []ReportCovers`. `CoverInv` speaks of the report in hand too:
  the feed grows only by what happens now (`FeedGrows`), and the campaign reported on
  has ended, so that nothing new falls in its window, or before the limit of its scan.
* `CursorKept`: `Spec => []CursorExplained`, and `ToldOnce`:
  `Spec => []ToldTwiceExplained`. `TellInv` has a half that holds whatever fails
  (`HeardInv`: what a run is about to put into a cursor is explained, as the cursor is) and
  one for runs without a fault (`CalmInv`: the cursor holds all that was told, but for
  the row at hand, and what is new there has not been told yet).

* `Implements`: `Spec => KeepsWatchPromise`. Each step is one of `WatchPromise` or shows
  nothing. `TellInv` gives that the events a commit passes were heard of, `AnchorInv`
  that the report a row is closed with was asked for, and `Driven` that a run that
  tells, commits or closes is at a row in the status its phase requires. The lemmas
  are one per visible step (`BeginShown`, `TellingShown`, `CommitShown`, `AskShown`,
  `CloseShown`) and `NothingShown` for the others.

Each abstract specification states what it entails at any time (`Honest` in
`CctpTransfer`, `Settlement` and `WatchPromise`). `HonestThroughout` of the three proof
modules shows that it is inductive over the abstract steps and, by `Implements`,
that it holds of the service: `Spec => []Promise!Honest`. So what an abstract module
says of money and reports is said of the detailed one, and no proof of it looks at a
detailed step again.

Every safety property, every action property and every refinement of a passing run is
stated by one of these theorems; the type invariants are proved and in no run of their
own. Out of reach of the prover and therefore only model-checked: liveness
and fairness (`ResumableSettles`, `ExecutingSettles`, `FundingSettles`, `OverdueCloses`,
`EventuallyFlat`, `EndedCompletes`), `ENABLED`, and what recursive definitions compute
for every input (no module has one).

## 7. What is not modelled

* CCTP: waiting for the attestation inside the tick (`awaitAttestationInTick`,
  which production never sets), the `enabled` flag (taken as on), metadata, activity log, validation
  of addresses and hashes, two branches that cannot be reached ("Missing
  burn_tx_hash", "Missing message_bytes"), approvals that are mined late, and the
  nonces of the signing wallet.
* Desk: the agent, positions, sizing, legs, alerts, audit and execution logs,
  the publication of tickets on chain. In `DeskIntents` the kill switch is part of
  "every rule that can only refuse"; `DeskControl` models it with the money. The
  limits of the reaper (100 rows) and of the list of open intents (50) are left out.
  A failing first read of `executeIntent` (`desk/strategy-runner.ts:331`), which leaves
  the intent proposed, has no branch of its own: it ends the tick as a failing insert
  does.
* Payments: receipts; the status `pending`, which has no
  writer; legacy records without `expires_at`; the limits of 50 and 500 rows of
  a retry run; two updates of a row within one millisecond, which `updated_at`
  would not tell apart. A payer whose authorization is executed after the record
  was expired, refused or deleted is charged and cannot be settled any more:
  the model has this behaviour, no property forbids it, as the code promises
  nothing about it.
  A due x402 credential is a late one, though its adapter looks at the
  authorization's own deadline (`validBefore`) and not at the record's.
* Pass: a new period is computed when it is written, while the code takes the time
  before the enrolment (`services/newsletter-subscription-service.ts:397`); and billing
  sweeps do not overlap, though the timer does not prevent it.
* Watches: a contract watch whose event is stored as a `wallet_transfer`, which is not
  published either (`services/sponsored-watch-service.ts:1289`), is left out; and a
  found event is recorded, though the insert may fail and the event be used without
  (`:1018`).
* Payouts, desk control, pass and watches: what sections 2.4 to 2.7 leave out. The
  batch limit of the campaign cycle means that 25 rows which fail for ever would
  starve those behind them; the model has no limit and says nothing of it.
* That KeeperHub starts one run per idempotency key is an assumption about an
  external service: the bridge sends the key over MCP and as a header over REST.
* Premium access, receipts, event ingestion, digests, Telegram bindings and the
  KeeperHub write client keep little state of their own (a status column, a
  dedupe key, a token) and are written as one conditional insert or update each;
  where their rows matter to a modelled component, they are part of it: the
  public alerts and the feed in `WatchRecords`, one-time binding codes in
  `WatchCreation`, the registry's uniqueness in `PayoutRecords` and `WatchRecords`,
  the three transports of a workflow run in `DeskIntents`.
* The other components of the table above: see the notes in `PROJECT.json`.
  The web application, which is half of the code, configuration, generated types
  and query builder keep no protocol state; schemas appear as sets of statuses,
  migrations as constraints of the tables. They are why the map covers a small
  share of the repository's lines.

## 8. Plan

What would add most next:

1. The publication of alerts, digests and receipts with the registry contract:
   one abstract specification "published once", which each of them implements.
2. `DeskControl` with the intents of `DeskIntents` instead of its one-step trade.
3. An abstract specification of payouts (an affiliate's balance, a profit) which
   `Payouts` implements, as `Payments` implements `Settlement`.
