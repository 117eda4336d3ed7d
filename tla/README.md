# QuantFund: TLA+ models, checks and proofs

QuantFund takes trading strategies from research over paper trading to a tightly
limited live canary. Its Python sources are under `src/quantfund/` of the
repository; all paths below are relative to that directory unless they begin
with `docs/`. Tests and documents were read with the code, but every definition
translates code.

The models follow the part of the system where a mistake costs money: what turns
an order intent into an order, and what the system believes about it afterwards.

## 1. The system

Eight components send orders, pretend to, or decide what may be traded at all. Each
keeps its own state.

**The Phase 9 execution gateway** (`execution/gateway.py`, with `live_orders.py`,
`live_risk.py`, `reconciliation_live.py`, `recovery.py`, `mock_broker.py`).
One object per session, synchronous. It keeps an idempotency store of client
order ids, a submit epoch per intent, internal positions and cash, risk counters,
a kill switch and a `_blocked` flag; the venue keeps its own orders, positions and
cash. Operations: `start`, `stop`, operator approval, the kill switch,
`submit_intent`, cancel at the venue, `reconcile`, `recover_gateway`.
Hard: the venue may answer UNKNOWN, so that two books of the same facts drift
apart and a retry may fill twice.

**The Phase 16B live canary** (`phase16b/session.py`, `gates.py`, `broker.py`,
`recovery.py`, `brokers/intent_store.py`). A session with an activation record, a
kill switch that must be disarmed, a reconciliation verdict and daily counters; a
broker with a store of registered intents (possibly a file) and a dictionary of
submits it is unsure of. Operations: `require_activation`, `activate`,
`begin_running`, `disarm`, `reconcile`, `evaluate`, `submit`, `close`,
`emergency_kill`, `recover_uncertain_submit`, and the constructor of a new process.
Hard: replies are lost, requests are late, the process dies between the request
and its registration, the activation expires, the venue fills later than the one
status poll.

**The Phase 8 paper session** (`paper/session.py`, `execution.py`, `orders.py`,
`risk.py`, `reconciliation.py`, `risk/limits.py`, `backtest/portfolio.py`).
A state machine over market events: pending orders execute at the open of the event
they were scheduled for, new ones are accepted at its close. It keeps intents,
pending orders, positions, cash, risk counters, a kill switch and a halted flag.
Hard: partial fills, several orders competing for one cash balance, gaps and
other symbols in the stream, an exception in the middle of an event.

**The Phase 21 paper daemon** (`phase21/daemon.py`, `control.py`, `pipeline.py` over
`phase14/paper.py` and `realtime.py`, with `phase14/recovery.py`,
`phase13/recovery.py` and `phase19/checkpoint.py`). A service that takes bars one by one, trades on
paper, appends every fill to a journal, rewrites a checkpoint every few bars and at
the end recovers its own files for a report. It keeps a bar counter, the engine with its kill
switch, and two files; an operator has a STOP file and SIGTERM. Operations: start, one
turn of the loop, the exception paths of a turn, checkpoint, final checkpoint, close, recover.
Hard: it may die between any two steps and in the middle of writing either file; SIGTERM
has no handler; a bar whose processing raises is dropped half done.

**The research campaign** (`research/campaign_runner.py`, `candidate_pool.py`,
`campaign_state.py`, `test_seal.py`, `acceptance.py`, `acceptance_record.py` and the
campaign tables of `storage/registry.py`). Generated specs are admitted, screened, validated, sealed,
measured once on TEST and decided; budgets bound candidates and experiments, and trial counters go
into budgets, seal, records and report. State: the rows of the campaign, files of records and
report, and the memory of the runner. Hard: the database commits its facts one by one, a
runner may raise or die between any two, and another resumes.

**The Phase 15 shadow session** (`phase15/shadow_session.py`, `session_machine.py`,
`reconcile.py`, `recovery.py`, `freeze.py`). Watches the market and records the orders it
would have sent. State: a session machine, the pause, the kill switch, the last
reconciliation with a read-only account, the frozen configuration, shadow orders and
position, journal and checkpoint. Hard: each control call changes a part of this and a later
bar asks another part; bars repeat and come late; a process is followed by another.

**The Phase 9B router** (`execution/order_router.py`, `live_guard.py`,
`brokers/zerodha/adapter.py`, `brokers/intent_store.py`). A second order path
beside the gateway: a guard with counters and a kill switch, and a store of the broker
orders of intents. Hard: the POST may time out or lose its answer after the broker made
an order; guard and store learn only of what was answered.

**The historical replay** (`paper/replay.py`, `phase13/session_runner.py`,
`phase13/drift.py`, `backtest/engine.py`, `backtest/broker_sim.py`). Recorded bars are fed to
a paper session, a backtest of the same bars is run, and any difference of
their fills, cash or equity is critical. Hard: two programs, written
apart, have to agree on every sequence of bars and orders.

Features, data, the batch validations and the terminal are numeric or batch work.
`PROJECT.json` lists all parts with their status.

| Component | What makes it correct |
|---|---|
| Gateway | both books agree; an attempt is opened only when no earlier one of its intent may be working; limits of every level hold; a freeze is a freeze |
| Canary | at most one order per intent, over replies lost and crashes; nothing is sent between a stop and a disarm; what is booked was filled |
| Paper session | the pending list is the undecided orders; cash, positions, fills and intents agree; ceilings hold; every accepted order is decided |
| Paper daemon | what a recovery may restore is all that was booked at some moment, never a selection; a kill outlives its process once it is journalled; STOP ends the loop |
| Research campaign | one selection before TEST (which walk-forward windows may reach all the same), one measurement of each selected candidate; every evaluation is counted; the report says what was decided |
| Shadow session | decisions in the order of the bars, at most one for each; none after a close, a kill or a mismatch |
| Router | an intent with an answered order is never posted again; the store names real orders; the guard counts what was stored, and misses only calls that raised |
| Historical replay | the session does what the backtest does, fill by fill |

Configuration and control flow between them: research evidence and paper evidence
feed the eligibility gate of the gateway; the canary shares the `KillSwitch` class
with the gateway and the paper session, and the next-open rule of the paper session
is that of the backtest engine, which is what `HistoricalReplay` shows. The daemon, the
shadow session and the canary share the kill switch and the forms of journal and checkpoint. No
order passes through two of the gateway, the canary and the router, so each is a system of its
own here; the paper session is composed with the backtest, and the daemon with a
simpler form of the session, in which a bar fills at most one order.

## 2. Modules

| Module | Models | Notes |
|---|---|---|
| `IntentSubmission` | the promise all submitting components make | abstract: attempts of an intent are absent, outstanding or closed; one may be opened only when none is outstanding |
| `LiveOrders` | `execution/live_orders.py` | states, client ids, records, `can_retry` |
| `LiveRisk` | `execution/live_risk.py` | `merge_capital_limits`, `check_order` |
| `MockBroker` | `execution/mock_broker.py` through `dry_run.py` | the venue; one operator per outcome |
| `ExecutionGateway` | `execution/gateway.py`, `recovery.py`, `reconciliation_live.py` | one action per call |
| `CanaryBroker` | `phase16b/broker.py`, `recovery.py`, `brokers/intent_store.py`, and the venue | request, reply, registration, recovery, restart |
| `CanarySession` | `phase16b/session.py`, `gates.py` | composes with the broker; a submit is several steps |
| `PaperOrders` | `paper/orders.py` | status table, intents |
| `PaperSession` | `paper/session.py` and what it calls | an event is several steps |
| `PaperLedger` | what the files of paper sessions promise | abstract: fills are booked one by one; what may be restored is nothing, what could be before, or all that is booked |
| `SessionFiles` | `phase13/journal.py`, `phase13/recovery.py`, `phase14/recovery.py`, `phase19/checkpoint.py` | journal, checkpoint, when the two are trusted |
| `PaperDaemon` | `phase21/daemon.py`, `control.py`, `pipeline.py` over `phase14` | implements `PaperLedger` |
| `SealedTest` | what a campaign promises of TEST | abstract: select once, measure once, accept what was measured |
| `ResearchCampaign` | `research/campaign_runner.py` and what it calls | implements `SealedTest` |
| `DecisionWindow` | what a shadow session promises its reader | abstract: open, decide in the order of bars, close |
| `ShadowSession` | `phase15` over `phase14/shadow.py`, `realtime.py` | implements `DecisionWindow` |
| `BrokerRouter` | `execution/order_router.py`, `live_guard.py`, the Zerodha adapter, `intent_store.py` | a submission is several steps; implements `IntentSubmission` where answers are final |
| `BacktestEngine` | `backtest/engine.py`, `broker_sim.py`, `portfolio.py`, `risk/limits.py` | the specification of the replay, itself translated from code |
| `HistoricalReplay` | `paper/replay.py`, `phase13/session_runner.py`, `drift.py` | composes with `PaperSession`; implements `BacktestEngine` |
| `MC...` | | instances for TLC |
| `FiniteSums` | sums and cardinalities over finite sets | lemmas the proof modules share; models nothing |
| `..._proofs` | | theorems of one component; `PaperSession_proofs` has those of the replay too |

Each specification module extends its helpers, the session modules extend the broker
modules, so that a step of the session and of its broker is one action where
the code calls and waits, and separate actions where it does not.

### ExecutionGateway

`store`, `epoch`, `position`, `cash`, `capitalUsed`, `orderCount` and `turnover` are
the fields of the gateway; `venue`, `venuePos`, `venueCash` those of the mock. A call
is atomic: everything is in one thread. `SubmitIntent` is one call with the
venue's answer inside. A call that is refused changes nothing but the audit log and
is no action. Quantities are half shares, so that the mock's 0.5 partial fill of one
share is a whole number, and money is in half rupees. `evidence` (eligibility inputs)
is chosen at the start and never changes, as in `GatewayConfig`. Client order ids,
hashes of session, intent and epoch, are the pair of intent and epoch. A price of 0
stands for a missing or zero reference price, which the venue charges at its default.
Every modelled order is a MARKET order.

`epoch < MaxEpoch` is a guard of the model, which follows that many submissions of
an intent.

### CanaryBroker and CanarySession

A request is a pair of intent and number; `net` says whether it was sent, is on its
way, was lost or is an order. `pending` is `_pending_intents`, `store` the intent store.
`call` is where the submit in progress stands: `SubmitSend` (gates and the request),
then `SubmitReply` or `SubmitError`, then the one status poll (`StatusRead`,
`StatusError`). Two more steps are replies to a placed order whose recording fails: the store cannot be
written, and the session halts before it counts the order (`SubmitUnsaved`), or the journal entry raises and
nothing catches it (`SubmitUnjournalled`). The intents concerned are in `uncounted`, which is history: no action
reads it. `file` is what is on disk of the store, torn if a write was cut off. Between these steps the venue moves, the activation may expire or the
process may die. All other operations need an idle session.

`LateRequests` says whether a request may arrive after its caller saw an error.
`durable` says whether the intent store has a file; it is chosen at the start. The other entries of the session's
journal are assumed to be written.
`TagIn` describes which order tags occur in which intent ids: recovery matches by a
substring of a tag cut at twenty characters. `stopped` is what the journal of the process
shows (no disarm since the last start, halt, kill or critical refusal); it guards nothing.

One instrument, one price and BUY orders only: the gates on symbol, side, order type,
size and strategy hash compare with frozen lists and pass here for every order; one
that fails them never gets further. Quote age is the Boolean `fresh`. The loss gate is
left out, because nothing feeds it (section 7).

### PaperSession

An event is taken (`TakeEvent`), its due orders execute in the order they
were created (`Fill`, `RejectAtOpen`, `RaiseAtOpen`), the pending list is rebuilt and
the mark set (`Close`), and then the strategy creates orders (`AcceptOrder`, `RejectOrder`) or raises.
`stage` is the program counter that forces this order. Control calls only happen
between events, as nothing is concurrent. The strategy is any sequence of orders of
the event's symbol. `pending` is a set, as the code appends in the order of creation
and rebuilds the list in that order, which is what `First` restores.

`PartialFill` stands for the remaining quantity times the configured ratio, with the
1e-9 cut-off of the code as "at least one unit"; `Cost` for slippage and costs of a
unit. Average price, realised profit and the attribution report are left out: no
decision reads them but the loss ceiling, which reads equity and is modelled by it.
`Contiguous` restricts the stream to one without gaps; the validator accepts gaps.
A ceiling may be `Unlimited`, the None of `PaperRiskConfig`.

### PaperDaemon

`session` is the process that runs or ran last and `pc` where it is: `boot`, the `top` of
a turn, `ingest`, `journal`, `after` (the immutability check), `killing` (the kill switch is triggered, its journal entry not yet written), `checkpoint`, then `final`, `closing`,
`closed`. Files are kept per session, as every start opens a session of its own. The
paper session is reduced to what the files depend on: whether an order waits for the next
bar (`waiting`), how many fills are booked (`filled`), and whether the fill of this bar is
still to be journalled (`unsaved`). `Crash` ends the process at any step; when
it was appending to the journal it may leave a line that does not parse (so does an append that raises outside the processing of a bar, which ends the process too), and when it was rewriting
the checkpoint a torn file, as both are written in place. `TouchStop` is the STOP file
alone, `RequestStop` the file with SIGTERM. Polls that bring nothing change nothing and are left out.
`interrupted` is history: the sessions whose process ended in `killing`.

### ResearchCampaign

A candidate is its place in the generated list. `campaign`, `sealed`, `frozen` and `trials`
are database rows, `records` and `report` files, the rest is memory of the runner and lost
when it ends. `stage` orders the steps of `run`; one action is what lies between two commits. What a backtest
measures is a choice of the verdict the code draws from it. `Raise` is an exception anywhere in `run`, whose
handler fails the campaign; `Crash` leaves the rows as they are, `Resume` starts
another runner from them. `reaches` of a configuration says that walk-forward is enabled and its windows, which are cut
from all bars of the dataset, reach the TEST period. `ran`, `opens`, `peeked` (the candidates backtested on such windows) and `crashes`
are history: no action reads them. The Sharpe ratio of an experiment is deflated by the number of experiments the registry has for its
strategy family (`research/runner.py:277`), not by `trials`; that count is part of the experiment tables, which are not modelled.

### ShadowSession

Every public operation runs to its end before the next and is an action, except that
`process_bar` has one action for each way it ends (`BarInvalidates`, `BarOfFuture`, `BarMismatched`,
`BarDecided`). An account that cannot be read, or shows what the session does not hold, is a choice
inside `BarDecided` and `BeginShadow`. `provider` says whether the market data is on, `verdict`
what the recovery told the present process. Latency and health scores, which no decision
reads, are left out.

### BrokerRouter

`Post` asks guard and store and sends the request; `Answered` registers the order, then counts it;
`AnsweredUnsaved` is an answer whose order the file of the store cannot take: the memory of the store has it, the file is the old one or
torn, and the guard is never told. `Raises` is every way in which the call ends without an order. `raised` (the calls that raised
in this process) and `begun` (the posts before it) are history. `posts` numbers the requests, `wire` has those that have not arrived,
`orders` those the broker accepted, late ones included. `file` is what is on disk,
`known` what the process has loaded or learnt. What the guard asks of a request alone is left out: a request
that fails there changes nothing.

### BacktestEngine and HistoricalReplay

`BacktestEngine` has the loop of `BacktestEngine.run`: the one scheduled order at the open, the
mark at the close, the orders of the strategy with their three fates. `HistoricalReplay` is
`PaperSession` restricted to what `run_paper_session` does with the bars of one symbol: start, every bar, stop
after the last bar or a halt, and no control calls. Its strategy orders at most once at a close, as
`Strategy.generate_orders` (`strategies/base.py:77`) does. The refinement
maps a pending intent to the scheduled order, forgets the order of the last bar (which the
backtest cancels and the session leaves pending), and maps a halt to the exception of `run`. The
assumptions name what it takes: one symbol, no gaps, positive prices, whole fills, and
only the ceilings the backtest of the drift check has.

### Alternative definitions

Some definitions stand beside the ones the specification uses
(`NoRetryWithoutPartialFills`, `SubmitRejectedSameEpoch`, `FinalCheckpointWhenDue`,
`FillPriceAtClose` and others). They are plausible mistakes. `PROJECT.json`
names, for each property a passing run checks, the one that violates it.

## 3. Runs

| Run | Instance | What it shows |
|---|---|---|
| `gateway` | 3 intents, 2 symbols, 2 submissions each, prices 1 and 2, all venue behaviours, all calls | books, store and epochs agree; fills explain the position; limits; refines `IntentSubmission` |
| `canary_process` | 2 intents, 2 requests each, no restart, final errors, a store or journal that cannot be written | no orphan, no second order, orders within their counter, refines `IntentSubmission` |
| `canary_crash` | 1 intent, 3 requests, 2 restarts, late requests | what survives crashes: the store names the last request of its intent; nothing goes out before a disarm |
| `canary_duplicate_crash` (violated) | 2 intents, 1 restart | a second order for one intent after a crash |
| `paper_books` | 2 symbols, gaps, 4 orders of up to 2 units, half fills, all ceilings in reach | pending list, books, counters |
| `paper_stream` | 1 symbol, no gaps, 2 orders, 5 events, fair | no order misses its open; each is decided |
| `daemon` | 2 starts, 3 bars, 1 bar that raises, checkpoint every 2 bars, fair | a trusted recovery misses little, a graceful end nothing; a kill is forgotten only between the switch and its entry; STOP ends the loop; implements `PaperLedger` |
| `campaign` | 6 specs (1 malformed, 2 repeated), 19 configurations, one with windows that reach TEST, 2 crashes, fair | evaluations are counted; the report explains itself; a campaign that is resumed ends; implements `SealedTest` |
| `campaign_repeats` (violated) | 3 specs, 1 repeated | a repeated spec is measured on TEST twice |
| `shadow` | 2 bars in any order, 2 configurations, 1 restart | orders, fills and position agree; mismatches halt; recoveries hand over journalled decisions; implements `DecisionWindow` |
| `router` | 2 intents, 4 posts, 2 restarts, a file that cannot be written | an answered intent is final; the store is true; the guard counts |
| `replay` | 4 bars, 2 prices, orders of up to 2 units | the session implements `BacktestEngine` |

Deadlock is checked in the gateway, canary and paper runs, where a new control call or a
repeated stop is always possible. It is not checked in `daemon`, `campaign`, `campaign_repeats`, `shadow`, `router`
and `replay`: there a process may end for good, after its last start, crash, bar or post, and
that is what the bounds count.

### Bounds, and why they are enough

- Gateway: two submissions of an intent are what a retry takes, and two intents of
  one symbol in opposite directions plus one of another symbol are what exhausts cash
  with one and changes exposure with another. Each level of the hierarchy is the tightest in
  one limit, so that every one of them is decisive somewhere. The initial cash pays for
  some but not all of the orders; a default price above both quoted ones lets the
  venue charge more than was checked.
- Canary, one process: two intents whose tags collide, two requests of each, so that a
  resend after recovery exists; quantity two, so that a partial fill exists. Two orders a day, a turnover of five
  and a position of four make each cap decisive.
- Canary, crashes: two restarts, so that a crash can follow a recovery from a crash;
  three requests, one for each process.
- Paper: four orders, of which risk accepts at most three: a buy and two sells that
  compete for what it bought, or several buys for the cash of one; two prices, so that an
  order may cost more at its open than at the close that accepted it; the numbers 0 to 2
  with gaps: an order, its residual and the orders after it. `TightLimit` is chosen so
  that each ceiling refuses something. The two symbols are symmetric, as no definition
  names one; the run has safety properties only. The stream run needs five events for an
  order, its residual and a second order.
- Daemon: a checkpoint every second of three bars leaves a bar after the last due checkpoint, which
  only the final one saves. Two starts, so that the files of a session are followed by those of another.
- Campaign: experiment budgets of 1, 3 and 6 run out in validation, in TEST, and not at all; candidate
  budgets of 5 and 6 do and do not admit all specs. Two crashes, so that the runner that fails a campaign
  can itself die. The configuration that reaches TEST accepts with a record and has the
  largest experiment budget, so that every phase is reached under it too.
- Shadow: two sequence numbers are what a late and a repeated bar take; two configurations, so that one can
  change and change back; an account with no share or one, where the session holds no, one, or minus one.
- Router: two orders a day and a turnover of three with notionals 1 and 2 make each limit decide somewhere; four
  posts are two for each intent, in three processes.
- Replay: four bars are a buy, its open, a sell, its open, and an order of the last bar. Prices 2 and 3 with
  cash 8 make orders fail at their open, and ceilings of 6 make risk refuse some.

### Fairness

Three specifications state fairness, each as weak as the loop it stands for.

- `FairSpec` of `PaperSession`: `run_paper_session` (`paper/replay.py:53`)
  loops over all events and each call of `process_event` returns, so taking events,
  executing the open, closing and ending are weakly fair. Creating orders, kill switch, halts
  and stop are not. `OrdersAreDecided` allows a halt or stop to leave an order
  undecided and only speaks of orders the remaining events are enough for.
- `FairSpec` of `PaperDaemon`: the steps of a turn once a bar has been taken, and the look at the
  STOP file at its top: the loop (`phase21/daemon.py:105`) sleeps and polls for ever, and calls that return.
  That a bar comes is not assumed. `StopEndsLoop` is about exactly that: a quiet market must not hide the file.
  A file that appears while the process boots is removed by it (`phase21/daemon.py:65`) and ends nothing.
- `FairSpec` of `ResearchCampaign`: the next step of a runner, and that someone resumes a
  campaign left behind. The latter is an assumption about the operator, which `CampaignEnds` needs; crashes and
  exceptions are not fair.

The gateway, canary, shadow, router and replay have safety properties only: their steps are calls
of an operator or answers of a broker, and nothing in the code makes either happen.

## 4. Proofs

All theorems hold for every value of the constants that satisfies the named
assumptions of the modules, without bounds except the ones that are
constants of the model (`MaxEpoch`, `MaxSends`, `MaxOrders`, ...), which are arbitrary.
`IntentsAssumption` (the intents are finitely many) is what a run of the program hands over; the sums need it.

**Sums** (`FiniteSums`). Several invariants say that a number in one place is a sum over a set in another: a position and the
fills of its intents, a counter and the orders it counted, a turnover and their notionals. The sums are
folds, which the library has no theorem for that the provers can use. `FiniteSums` shows that the recursive equation of the
fold has exactly one solution over a finite set (`SumsExist`, `SumsAgree`), that any element may be taken out first, and from
that what the steps need: adding or changing one term changes the sum by the difference, terms of at most `c` sum to at most `c` for each.
The induction is over finite subsets: among the subsets for which a fact fails there is a smallest one, as proper
inclusion is well founded there (`LeastSet`), and one element is taken out of it.

**Gateway** (`ExecutionGateway_proofs`). The inductive invariant is `TypeOK`,
`EpochDiscipline` and `StoreMatchesVenue` together. `StoreMatchesVenue` alone is not
inductive: a submission overwrites the record at the current epoch, and without
`EpochDiscipline` that could be an answered one, whose fill would be lost from the
store. From it follow `BooksAgree` (both books move by the same amounts, as the mock
and the gateway default a missing price alike), `NoOverdraft`, and the refinement
of `IntentSubmission`: that a new attempt opens only when no other is outstanding uses
`can_retry` and that at most the current epoch can be ambiguous. `GatewayFillsExplainPosition`
needs the same two: a fill is recorded where none was, so that the sum gains what the position gains. The freeze (`GatewayFreeze`) follows from the
guards of the one action that submits. `LimitsHold` is
proved on the assumption that no caller quotes a price of 0. Without it the capital
limit can be passed: risk then checks a notional of 0 while the venue charges
its default. The run quotes positive prices for the same reason.

**Canary** (`CanarySession_proofs`). `CanaryTypeOK`, `CanaryStopNeedsDisarm`,
`CanaryHaltedIsKilled` and `CanaryStoreNamesAnOrder` hold with any number of crashes and
with late requests. For the second, `StopsAreArmed` (a stop leaves the session not
disarmed) is the invariant and `OnlySubmitSends` shows that a request needs the gates.
For the last, `StoreInv` adds that requests of an intent are sent in order and that the
one a submit waits for is the latest.
`CanaryNoOrphanOrder`, `CanaryOneOrderPerIntent` and `CanarySubmissionDiscipline`, the
refinement of `IntentSubmission`, assume `MaxRestarts = 0` and `~LateRequests`. Their
inductive invariant `ProcessInv` says that a request in flight is the one the call waits
for, that a live request is registered or its intent pending, that an intent has at
most one live request, and that only orders fill. Neither assumption can be dropped:
`canary_duplicate_crash` shows what a crash does, and a request that arrives after a
recovery found nothing does the same without one. What they cost is bounded all the same. With any number of crashes and final
error answers an intent has at most one order for each process (`CanaryDuplicatesBounded`): in `DuplicatesInv` a process that may send an intent finds at most one live request of it for each
earlier process (`MaySend`), and one that has it pending knows which request is its own (`SentByThisProcess`). In one process,
`CanaryOrdersAccounted` compares the orders at the venue with the counter of the day, by `RegisteredCounted` (what was registered was
counted, unless its recording failed), and `CanaryExposureBounded` turns that into quantities and money: by `WithinPolicy` the counter, and an order that is
out, respect `MaxOrders` and `MaxTurnover`, so that the venue exceeds them by one order for each submit that awaits recovery or whose recording failed, and no more.

**Paper** (`PaperSession_proofs`). The inductive invariant has four groups. `TypeOK`,
`StageInv` (`due` is empty outside an open), `PendingInv` (during an open the due
orders are pending and live) and `FillInv` (a status tells the fill) support each
other: that a due order may be filled needs its liveness, and that its rejection is
legal exactly when nothing was filled needs its status. `BooksInv` adds the equality of
portfolio and fills, `CountersInv` that of counters and accepted orders, `ScheduleInv`
the schedule of pending orders. `PaperNoMissedOpen` assumes one symbol and a contiguous
stream: an order is scheduled for the next number of the stream, so that with a second symbol, or a gap, it
may wait for ever (section 7). `PaperBooksAgree` adds `NetInv`, the position of a symbol as the sum of the signed
fills of its intents: a fill changes one term, a new order adds a term of zero. `PaperOrderLifecycle` is an action
property of the order and its session together; `DueNow` (what is due was scheduled for this very event) makes it follow from
the invariant, step by step. `PaperPositionCeiling` is about a ceiling the code does not keep (section 7): risk asks only for the filled position and
the new order. It is kept where no buy is accepted while another of its symbol is undecided (`OneBuyAtATime`, a hypothesis on the
steps); the invariant `BuyInv` says that a position keeps room for what the one live buy of its symbol may still fill.

**Daemon** (`PaperDaemon_proofs`). The inductive invariant `Inv` adds to the types: sessions that have not
started have no files (`FutureIsEmpty`); the loop has bars left while it takes one (`BarsLeft`); only the
last fill may be missing from the journal while it is `unsaved` (`UnsavedInJournal`), and otherwise only those
of bars that raised (`JournalKeepsUp`, `NothingLost`); a checkpoint never is ahead of the books
(`CheckpointBehind`); a kill is in the journal, whatever the checkpoint says, unless the
process is in `killing` or ended there (`KillIsJournalled`).
`FilesImplementLedger` follows step by step: a step books at most one fill, and what recovery would restore
changes to nothing or to all. A selection of the fills is excluded because recovery trusts the two files only when they name the
same fills, and a checkpoint takes all that are booked when it is written.

**Campaign** (`ResearchCampaign_proofs`). `IInv` has to tie the runner to its rows: the stage fits the state of the
row (`StageOfRow`), nothing is frozen before the seal and TEST is unopened before its phase (`ClosedBeforeSeal`,
`FreshBeforeTest`), the admitted candidates are a prefix of the list (`PoolIsPrefix`), and in the TEST phase a sealed candidate was
opened only if it is the one whose measurement is being recorded (`TestPhase`). `MeasuredOnce` is about the sealed evaluation and
holds for every configuration; that no candidate sees TEST otherwise (`OneShotTest`) holds for those whose windows do not reach it, as
only they let `peeked` grow (`PeeksAreWindows`). `SealedTest` has the same exception: a configuration may be `leaky`, and then, and only before the
selection, candidates may be added to `early`. `OneShotTest` is not inductive alone: a resumed runner
starts with an empty log, and only that every resume from other than DRAFT fails keeps TEST shut. The
counters and the report have parts of their own (`Counters`, `RejectedIsCounted`,
`AcceptedIsCounted`, `BarredAcceptsNothing`, `ReportIsLast`).

**Shadow** (`ShadowSession_proofs`). `IInv` adds to what the run checks that decisions are for bars up to `lastSeq`
(`DecisionsFollowBars`), without which a late bar could decide twice, and that journal and checkpoint follow the session
(`FilesAgree`). `DecisionsAreCovered` is an action property: no WOULD_ORDER under a kill, a changed configuration or a known mismatch.

**Router** (`BrokerRouter_proofs`). `IInv` numbers the world: what is on the wire, an order or registered was posted
(`Posted`); the process waits for the last post, of an intent without known order (`WaitsForLast`), for whose answer the guard has room (`RoomForAnswer`); the file is what
the store knew (`FileFollows`). `NeverPostedAgain` is the promise that is left of idempotency.
`GuardCountsOrders` sums the notionals of the registered orders of the process, leaves out those whose registration raised, and says that
any other order of the process is one of a call that raised or is still waiting. Two theorems say what would be true if a call that
ends had either stored its order in the file or left none at the broker (`AnswersFinal`, the condition the code does not establish and
a reconciliation by intent would): then the limits bind the broker and not only the guard (`LimitsBindBroker`), and the router
implements `IntentSubmission` (`RouterSubmissionDiscipline`). Both rest on `AllAccounted`: what is on the wire or an order is registered, or is the request the process waits for.
The condition is the only obstacle: it is a hypothesis on the steps of a behaviour, and crashes stay in.

**Replay** (end of `PaperSession_proofs`). `ReplayIsBacktest` needs `ReplayInv`: at most one order waits, whole, for the very next bar, and a
waiting sell is covered by the position, so that no open raises. The other half is that the two risk checks agree:
`ExposureOfSymbol` reduces the exposure of the session to one product and `SameRisk` shows that under `DefaultCeilings` the extra
ceilings of the session never refuse what the backtest accepts. What the drift check assumes (one symbol, whole fills, default ceilings) are
hypotheses of the theorem, so that the other theorems of the module do without them.

Proved but checked by no run: `NoOverdraft` and `FreezeStopsSubmission` of the gateway, `HaltedIsKilled` of the canary,
`StatusTellsFill` and `NoOverdraft` of the paper session, `TypeOK`, `OneShotTest` and `OverIsOver` of the campaign,
`DecisionsAreCovered` of the shadow session, `OrderLifecycle` and `PositionCeiling` of the paper session, `DuplicatesBounded` and `ExposureBounded` of the canary,
`LimitsBind` and `SubmissionDiscipline` of the router.

## 5. Only model-checked

Every safety property a run checks is a theorem, some of them under the hypotheses section 4 names. What
stays with the runs is `OrdersAreDecided`, `StopEndsLoop` and `CampaignEnds`: liveness under fairness, beyond the provers, and checked on instances
that are small in every bound. The two violated properties are violated on theirs.

## 6. Where code and documents disagree

The two violated runs; `PROJECT.json` quotes the lines under "findings". In each, the
specification is what a document or comment of the repository says.

- `canary_duplicate_crash`: a crash between a request and its registration leaves nothing on disk.
- `campaign_repeats`: a candidate is hashed together with its fresh id, so no duplicate is ever found.

## 7. Disagreements without a run

The models contain each of these; the properties say what does hold.

Gateway
- `execution/gateway.py:411`: the epoch advances after a fill, so that an intent can be filled by two submissions.
  docs/PHASE9_ARCHITECTURE.md:349: "`submit_epoch` increments only after a **terminal** local decision that the prior
  attempt is confirmed absent/rejected".
- `execution/recovery.py:34`: recovery of a record that stays UNKNOWN returns `blocked=True` and leaves the gateway open;
  its docstring (line 22): "After process restart simulation: reconcile or remain BLOCKED."

Canary
- `phase16b/session.py:317`: a replay of a submitted intent books the filled quantity of its order once more; the comment at line 315:
  "Observe broker status — only book position on confirmed fills".
- `phase16b/session.py:161`: `activate` and others take a HALTED session back to work; docs/PHASE16B_OPERATIONS.md:31:
  "Failure → HALTED (never continue trading)." After a disarm it trades.
- `phase16b/session.py:240`: a CLEAN verdict stays when orders fill later, so an order
  may go out while the books differ. docs/PHASE16B_SAFETY.md:13 says that a mismatch blocks new orders but
  not how old a verdict may be.
- `phase16b/gates.py:138`: the loss gate compares a counter nothing assigns, while
  docs/PHASE16B_RISK.md:7 lists the daily loss as enforced.
- `phase16b/session.py:311`: the orders of a day are counted in memory; a
  restart of the process begins at zero (docs/PHASE16B_RISK.md:8).
- `phase16b/session.py:303`: an order whose store write (`brokers/intent_store.py:99`) or journal entry raises is at the venue and
  registered in memory, and `orders_today` (line 311) never counts it. docs/PHASE16B_RISK.md:8 lists the orders of a day as enforced;
  `OrdersAccounted` and `CanaryExposureBounded` say what it costs.
- `phase16b/recovery.py:63`: an order that shows up after recovery looked for it has a twin
  if the intent is sent again.

Paper session
- `paper/session.py:321`: an order is scheduled for the next number of the whole stream, which may belong to another
  symbol; it then waits for ever. docs/PHASE8_ARCHITECTURE.md:268 speaks of a "multi-symbol event stream".
- `paper/risk.py:96`: risk projects the filled position only, so that orders accepted before the first fills exceed the
  position ceiling of docs/PHASE8_ARCHITECTURE.md:430 together. `PaperPositionCeiling` names the condition that excludes it.
- `paper/orders.py:43` with `paper/execution.py:111`: the residual of a partial fill that
  the next open cannot pay for is rejected, an illegal transition; the session halts
  (`RaiseAtOpen`). The documents do not describe the case.

Replay
- `phase13/drift.py:53`: the backtest of the drift check always has the default `RiskConfig`. docs/PHASE13_PAPER_VALIDATION.md:36 expects
  `DRIFT = NONE` for the same bars, strategy and capital. A session with ceilings of its own that refuse an
  order, with partial fills, or with a strategy that orders twice at one close (the backtest supersedes, the
  session keeps both) is called critical although nothing drifted. Under the assumptions of
  `HistoricalReplay` the expectation is the theorem `ReplayIsBacktest`.

Daemon
- `phase21/pipeline.py:190`: a start opens a session with the initial cash and an armed switch;
  docs/PHASE21_EC2_OPERATIONS.md:71: "Recovered cash/positions must match the last trusted checkpoint before new paper
  orders continue."
- `phase14/realtime.py:124`: the kill switch is triggered in memory before its journal entry (line 126). A process that ends in between, or
  because the entry cannot be written, leaves a checkpoint that says ARMED and no entry: the recovery of that session allows new orders.
  `KillOutlivesProcess` says that no other kill is forgotten.

Shadow session
- `phase15/shadow_session.py:344`: when the account cannot be read during a bar the session pauses, and the bar is decided on all the same;
  docs/PHASE15_OPERATIONS.md:24: "Broker read failure → degrade; do not trade".
- A kill after the last checkpoint is unknown to the next process, which takes nothing of what recovery returns: a
  second process may decide on the bars of the first (docs/PHASE15_OPERATIONS.md:31).

Router
- `execution/order_router.py`: nothing remembers a call that raised, so the next routing of the intent posts it again;
  docs/PHASE9B_ZERODHA.md: "Network timeout after place | Do not retry blindly; reconcile by intent id". Counters and kill switch
  are in memory only, and the positions of the guard are written by nothing. `LimitsBindBroker` and `RouterSubmissionDiscipline` say
  what remembering would give.
- `brokers/intent_store.py:98`: `register_submit` changes its memory, then writes. If the write raises, the process answers the intent as
  submitted from then on, `record_accepted` (`execution/order_router.py:104`) is skipped, and the file is the old one or torn. `GuardCounts`
  names these orders.

Campaign
- `research/campaign_runner.py:144`: docs/PHASE6_ARCHITECTURE.md:427 says "Resume from last event; cannot alter config"; any resume but
  from DRAFT fails the campaign.
- `research/runner.py:222`: with `walkforward_enabled` every validated candidate is backtested on windows that
  `research/campaign_runner.py:608` has cut from all bars, TEST included, before anything is sealed. docs/PHASE6_ARCHITECTURE.md:239 has
  "Walk-forward | Windows on dev bars | Windows | **No**" (of TEST), line 228 "Walk-Forward (dev bars only; no TEST)", and the comment at
  `research/runner.py:224` "Strict: metrics from window test segment only (dev WF, not sealed TEST)". Nothing marks the candidate `CONTAMINATED`
  (line 352). The model lets it happen (`reaches`, `peeked`), and `SealedTestSpec` allows it to such a configuration only.
- An exhausted experiment budget leaves candidates SCREENED without a decision, against docs/PHASE6_ARCHITECTURE.md:414; a crash after FINALIZED leaves
  a final campaign without a report; a counter above `candidate_budget` on disk makes every later resume
  raise before anything is marked failed.

## 8. Not modelled

Numeric work (features, strategies, cost formulas, metrics, statistics), as its correctness is that
of floating-point formulas; the web application, data ingest, quality checks and
environment checks, which read tables and files once and have no concurrent or recoverable state; the batch pipelines of phases 17
to 20, sequences of such steps that stop at the first error; audit logs and
reports, which nothing reads back; eligibility, approval and credentials, single-shot
conjunctions that are one Boolean each in the models; floating point tolerances.

These parts are most of the 65000 lines of the implementation: the definitions stand for about a twelfth of it, and
that twelfth holds what has state, interleavings, failures and recovery. A model of the rest would have one
action per table row or formula, and would say nothing a unit test does not.

Within the modelled components the following is left out: cancel and modify at the Zerodha
adapter, which no code calls; promotion of a finished campaign to paper trading, one pipeline of checks; the
phase 12 engine, which phase 14 replaced; the report of the daemon's pipeline.

## 9. Plan

Done, in this order: gateway, canary, paper session; then daemon, campaign, shadow session, router, and the replay
against the backtest, each with a proof module.

1. Replace the reduced session inside `PaperDaemon` by `PaperSession` itself, with a refinement between the two.
2. `phase11/trading_session.py` and `research/promotion.py` as drivers of what is modelled.
3. Proofs: what the processes of a canary may spend together in one day, as its counters start at zero in each.
