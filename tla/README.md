# Verification project of crypto_ai_system

TLA+ models of `crypto_ai_system`: how it gets from market data to an order,
how orders, positions and books survive crashes and lost answers, how
strategies are found, judged and retired, and how a strategy climbs from
testnet to live. TLC checks the models on small instances, TLAPS proves the
most important properties for every instance.

## 1. The system

One pipeline cycle runs its agents in order (data, research, validation,
routing, trading, feedback) and skips trading when an earlier one halts. Cycles
are started by `run_pipeline.py` or `run_scheduler.py` under a single-runner
file lock. Beside them the operator starts scripts that take no lock: the
strategy factory, the rule miner, the testnet and canary order scripts, and the
`main()` of almost every module. Between agents, cycles and processes everything
goes through JSON files in `storage/latest` (replaced atomically) and
append-only JSONL registries.

| Component | State it keeps | Operations | Hard behaviour | What makes it correct |
|---|---|---|---|---|
| Live position kernel (`execution/live_position_kernel.py`) | `live_position_v1.json` | open from a reconciled fill, advance holding, exit signal, write-ahead close, resolve, settle, clear | crash between save, POST, append and clear; lost answers; part fills | no close is lost, sent twice or invented; every open position is closed in the end |
| Live submission and reconciliation (`live_strategy_execution.py`, `signed_testnet_reconciliation.py`, `retry_policy.py`) | `latest_order_result.json` | guard, POST, resolve an ambiguous submit, reconcile | timeouts, 5xx, two queries at two moments | a submit is never assumed away |
| Final guard, counter, P&L ledger (`live_order_final_guard.py`, `live_pnl_ledger.py`) | order count by day, outcome registry | count, record, guard, day total, breaker | midnight between test and count, crash between POST and count | no day's budget is overrun; an entry sees every booked loss |
| Order executor, RiskGate registry, lock (`order_executor.py`, `risk_gate_registry.py`, `core/run_lock.py`) | decision file with a consumption mark, approvals with an expiry, lock file | read, mark, build intent, submit, verify | two executors on one file, stale write-back | one decision, one order; an expired approval authorises nothing |
| Pipeline (`pipeline/`, `scheduler/loop.py`) | cycle context, verdict, exit code | run agents, halt, settle, enter, feedback | an agent raises; a halted or refused cycle; a restart with other settings | bad inputs never trade; the exit code tells the truth; live exits keep being evaluated |
| Paper kernels, engine, reconciliation, multibook (`execution/paper_*.py`, `trading_steps/multibook.py`) | books, fills, outcome and reconciliation registries | settle, save, attribute, walk, fill, open | caps counted in several places; crash inside an append | caps hold; an outcome is recorded once, and before its book is cleared |
| Data, research, QA, risk gate, decision (`data/`, `research/`, `quality/`, `trading/`, `bridge/`, `risk/`, `data_health/`) | a chain of `latest_*.json` files | collect, build, score, sign, QA, stamp, decide, gate | a cycle that dies half-way; mains run by hand; three switches that disarm layers | an intent rests on real, fresh data of one cycle |
| Strategy factory and pool, lifecycle (`strategy_factory/`, `feedback/`) | active pool, counters, lifecycle registry | generate, mine, offer, judge, suspend | whole-file copies held through long runs; ids used twice | caps hold; a strategy is judged on its own record; terminal is terminal |
| Backtest and search (`backtesting/`, `strategy_factory/rule_miner.py`) | none between runs | simulate, walk forward, gate, breed, select | look-ahead, leakage of the holdout, normalisation | what is adopted was measured honestly |
| Canary, testnet, promotion (`execution/live_canary_*.py`, `signed_testnet_*.py`, `testnet_session_harness.py`, `live_promotion.py`) | session report, preparation file, canary registry, counters, the shared result file | guarded single orders, sessions, evidence, readiness | scripts outside the lock, late and lost orders | live needs the evidence it says it needs |
| Registries and files (`registry/base_registry.py`, `core/json_io.py`) | JSONL and JSON files | append, read, replace | torn tail | damage is never hidden |
| Notifier, reports, operator scripts | output only | - | - | outside this project |

Components interact by calls inside one cycle (trading agent -> settlement ->
kernel -> venue; entry -> bridge -> executor -> guard -> venue ->
reconciliation -> kernel), and by files otherwise: the ledger written by the
kernel is read by the guard; the decision written by the bridge is read by the
executor, in the same process or another; the pool written by the factory is
read by the routing and rewritten by the feedback; the result file written by
every order script is read by whichever reconciles next.

## 2. Modules

Live trading
* `LiveVenue` - the venue as the adapter shows it (external, except the
  adapter's `submit_order` and `query_order`). Per client order id: kind,
  status, quantity, executed quantity and price move. A POST is accepted,
  rejected, or loses its answer before or after it reached the book. A query
  fails, finds nothing, or answers with or without a price. Orders fill in parts
  and leave the book.
* `LiveTrading` - the live stage of one runner on top of `LiveVenue`: the files
  (`pos`, `counter`, `ledger`, `result`), the runner's locals and the
  environment (`day`, `candle`, `crashes`). One action per file access or venue
  call, so that a crash can fall between any two of them. A crash also falls
  inside the append of an outcome (`TearLedger`): `torn` says whether it left half
  a line, over which the ledger cannot be read, or a line without its newline,
  which is read but behind which nothing is appended. A cycle in a *refused*
  stage (kill switch, configuration) settles and skips the entry. The close has a
  guard of its own that may refuse every time (`CloseGuardBlocks`).
* `LivePosition` - what the kernel's docstring promises, in eight actions: a
  close is named before it is sent, sent once, given up only when the venue can
  no longer fill it, booked from what it executed, and the position dropped only
  when its close is booked. `LiveTrading` implements it (`ImplementsLivePosition`)
  under the mapping *open* = the file is OPEN, *pending* = its pending close id,
  *live* = close orders the book has and that are not dead, *done* = close
  orders with an executed part, *booked* = ids of the ledger.
* `OrderExecutor` - the hand-off of the decision between processes: runners
  under the lock, manual `order_executor` processes without it, the consumption
  mark, the expiry of the RiskGate record, and the result file, which the testnet
  and canary scripts write too, without the lock (`ScriptResult`).

The cycle and paper trading
* `PipelineCycle` - one cycle after another, with every agent's possible result:
  which stage halts the trade path, what a cycle settles under which settings,
  what a refused stage still does, what counts as a trade, and the exit code.
  The operator restarts it with other settings while a position is open.
* `PaperEngine` - the paper venue's simulation, the reconciliation, its legacy
  fallback and `outcome_from` as pure operators; `PaperBooks` uses them.
* `PaperBooks` - the multi-book paper stage: validate, settle every book, save,
  attribute, walk the candidates, then the research decision. A crash falls
  between two steps or inside an append, and leaves a torn line in the outcome,
  execution or reconciliation registry.

From data to intent
* `RiskGatePolicy` - the pre-order gate: reasons, statuses, stages (pure).
* `ResearchView` - score, scenario, timing and permission of a snapshot (pure).
* `DecisionChain` - the chain of files over both: collection, snapshot, context,
  research, signal, QA, stamp, decision, health, risk, trading signal, bridge. A
  cycle may die anywhere, the settings may change, and a main may be run by hand
  in between.

Strategies
* `Backtest` - simulation bar by bar, costs, metrics, walk forward, robustness,
  the absolute gate and the choice of the champion, as operators in integer
  arithmetic (ticks, hundredths of an ATR, thousandths for ratios).
* `StrategySearch` - the factory's batches and the miner's evolution over
  `Backtest`, run in two worlds at once: a history, and a twin that differs from
  some bar on. Two-world properties say what may not depend on what. The
  validator is there whole: schema, features, comparisons, the type or label of a
  constant, exits, risk; and the miner's step that makes the labels pass, the
  intersection of the registry's labels with those the data shows (`SeenLabels`).
* `StrategyPool` - the pool file and its writers: the factory and the miner,
  each with a copy held through a long run, and the lifecycle feedback.
* `Promotion` - testnet sessions, single testnet orders and canaries, their
  guards, counters, reconciliations over one result file, the evidence registry
  and the readiness check. Any number of canary processes may run beside each
  other; the history `met` says which of them did.

`MC...` modules hold the constants of the runs. `...Proofs` modules hold the
theorems, `SumTheorems` the lemmas on finite sums, cardinalities and least
elements that several of them need. Actions carry the name of the function they model; where a crash may
cut a function it is several actions (`settle_open_live_position` is
`SettleFlat`, `EvaluateExit`, `PostClose`, `AbandonClose`, `ReadCloseFill`,
`RecordOutcome`, `ClearPosition`). A definition marked `Mutant:` is not used by
the specification: it is a plausible bug that the property named in
`PROJECT.json` must catch.

Abstractions, and why they are enough:

* The live kernel tracks one position, and a close mirrors its entry: one symbol
  and direction. Quantities are small integers; a price is its difference from
  the entry price, so that the P&L is their product, as in `_realized_pnl_usdt`.
* Stop, target and manual exit are one nondeterministic `touched`; on paper the
  exit math is its result per candle (`fate`), the same for every cycle that
  sees that candle.
* Flags, confirmations, hosts and keys are a nondeterministic refusal.
* Ids that the code hashes from several fields are what the hash depends on:
  client order ids are distinct; the execution id is who decided plus the cycle
  or the signal; a signal id is candle, features, side and profile, and *not*
  freshness, which is what `AuthorityIsOnItsOwnReport` is about.
* A number a score or gate compares is the side of the comparison it falls on.
* An exception inside a cycle is a crash of that cycle, where the module has no
  finer outcome: `Agent.run` turns it into an ERROR result, and the files are
  all that is left.
* Random draws of generator and miner are small sets of choices.

## 3. Runs

| Run | What it shows |
|---|---|
| `live_trading_safety` | Under a crash anywhere and every answer of the venue: no working or filled close is unnamed and unbooked (`CloseAccounted`), the ledger claims what was executed and no more (`LedgerReal`), at most one record too many for each crash (`OneDuplicatePerCrash`), no entry and no lost position behind a ledger a crash has cut (`TornLedgerStopsEntries`), `DailyBudget` over midnight, `BudgetCoversVenue`, `EntrySeesLosses`, and the refinement `ImplementsLivePosition` |
| `live_trading_liveness` | A tracked position is eventually closed, in refused stages too, unless a crash has cut the ledger or the close's own guard refuses it again and again (`OpenEventuallyClosed`), and is held at the venue as long as it is tracked: never closed twice (`TrackedIsHeld`) |
| `executor` | A second order for one decision needs two executors that read it unmarked (`DuplicateNeedsRace`); a runner sends its own decision (`OwnDecision`), and reconciles its own result or one that a process without the lock wrote over it, never another runner's (`ReconcilesOwn`) |
| `pipeline` | `OrderNeedsCleanCycle`, `OrderNeedsEmptySlot` across restarts with other stages, `NoTradeExitMeansNoOrder`, and `RequestedLiveIsServed`: the exits of a live position are evaluated again and again |
| `paper_books` | `RecordedOnce`, `ClearedIsRecorded`, `DivergenceNeedsCut`, `FilledIsConsumed`, `StrategyFillHasRoom`, `CapsHold` with a crash between or inside any two writes |
| `decision_chain` | `IntentIsOnRealData` under every switch, `AuthorityIsOnItsOwnReport`, `IntentIsOfOneCycle`, `ChainDecides` (the whole chain is one line), `GateOnlyCloses` |
| `strategy_pool` | `PoolAlwaysSound`, `DegradedIsLogged`, `JudgedOnOwnRecord`, `TerminalStaysTerminal` with writers one after the other and side by side |
| `strategy_search` | `NoLookAhead`, `HoldoutUntouched`, `BredIsValid` (the whole validator), `ChampionUndominated` |
| `promotion_ladder` | `LadderInOrder` and `TestnetBudget` with orders that rest, arrive late or get no answer, queries that fail too, midnight and a killed script |
| `promotion_overlap` | `EvidenceIsDistinct` with a session, two canary processes and paper cycles over one result file: a clean record is an order of the mainnet, and only canaries that ran beside each other record one twice |
| `live_part_filled_close` | violated: `EveryCloseFillReachesLedger` (section 5) |
| `factory_rotation` | violated: `RotationCoversLibrary` (section 5) |

Bounds, and why they are enough.

* Live. Four order ids allow an entry, an expired close, its replacement and a
  second entry. Size 2 is the smallest with part fills; the liveness run has
  size 1, since part fills are what the known defect is about. Two days put
  midnight between guard and counter; two candles and `MaxHold` 2 separate
  counting candles from counting runs; one crash can fall anywhere. `MaxDaily`
  and `LossLimit` are reached. An order expires only while an unused id is left,
  an entry starts only while another is left for its close; `hold` saturates at
  `MaxHold`, the only value it is compared with. Ids are symmetric in the safety
  runs only.
* Executor. Two runners, one manual process, one script, two decisions, three
  ticks with a TTL of one, two crashes.
* Pipeline. Nothing is counted: the state space is finite without a bound. The
  settings are each live setting alone and each other setting beside one of
  them.
* Books. Two strategies beside the shared book, room for two books and one per
  signal: a full portfolio and a repeated signal are refused. Three cycles are an
  entry, a close a crash cuts, and its replay; two snapshots are a new candle, or
  new features on the old one.
* Chain. Two collections are what a dead cycle and the next one need; six inputs
  (tradable, stale, weak, synthetic, optional data missing, malformed), every
  setting of the switches on paper and the other stages, one main run by hand.
* Pool. Caps of two with one per family, windows of one to three trades, three or
  four rule sets. One setting runs factory, miner and pipeline one after the
  other; one lets the miner overlap.
* Promotion. On the ladder, three orders, two days, one crash and every fault:
  a session and a canary, or a session and a further testnet order at the cap.
  On the shared file, four orders, a session and a canary of each of two
  processes, on one day, with failed queries and no crash; the canary processes
  are symmetric.
* Search. Histories of 24 bars with a rise, a fall and a wave; twins differ from
  bar 9 (look-ahead) or from the holdout on (bar 17 of 24). Two batches of four for
  the factory, populations of three over two generations for the miner. The
  first bars show a label (UNCLEAR) that this instance's registry does not list,
  so that a miner taking labels from the data alone would breed invalid specs.

Fairness. `LiveTrading`: the scheduler loop starts the next cycle whatever the
last one did (`run_scheduler_loop` catches everything), a cycle goes on to its
end, the venue works off its book: weak. A query and a snapshot with a last close
are retried every cycle and assumed to succeed some time; a close is accepted by
the venue some time, or else refused by the bot's own guard: strong, on exactly
these. Nothing is assumed of the guard, so that a confirmation may stay cleared
for ever; nor of crashes, so that the ledger may be cut. `PipelineCycle`: a running cycle goes on (weak);
a cycle starts although the operator may restart the runner in between, each
pre-trade stage passes some time, and settlement, on its own or before a
refusal, succeeds some time (strong). Nothing is assumed of crashes, entries,
clocks, expiries, or of what the operator sets. The stage need not ever be
allowed to trade.

## 4. Proofs

For every value of the constants, from the assumptions named in each module
(`VenueAssumption`, `LiveAssumption`, `ExecutorAssumption`, `ConfigAssumption`,
`PaperAssumption`, `ChainAssumption`, `PoolAssumption`, `PromotionAssumption`,
`BacktestAssumption`, and of `StrategySearch` `SearchAssumption`, `ExitAssumption`,
`MiningAssumption`, `TwinAssumption`, `BreedAssumption`):

| Module | Proved |
|---|---|
| `LiveTradingProofs` | `TypeOK`, `CloseAccounted`, `LedgerReal`, `OneDuplicatePerCrash`, `TornLedgerStopsEntries`, `DailyBudget`, `BudgetCoversVenue`, `EntrySeesLosses`, `ImplementsLivePosition`, and that OPEN becomes CLOSED only for a close with an executed part in the ledger; `TrackedIsHeld` for `Size = 1` |
| `OrderExecutorProofs` | `DuplicateNeedsRace`, `OwnDecision`, `ReconcilesOwn`, for any number of runners, manual processes and scripts |
| `PipelineCycleProofs` | `OrderNeedsCleanCycle`, `OrderNeedsEmptySlot`, `NoTradeExitMeansNoOrder`, and `HealthyMeansCompleted` |
| `PaperBooksProofs` | `RecordedOnce`, `ClearedIsRecorded`, `StrategyFillHasRoom`, `CapsHold`, `DivergenceNeedsCut`, `FilledIsConsumed` |
| `DecisionChainProofs` | `IntentIsOnRealData`, `AuthorityIsOnItsOwnReport`, `IntentIsOfOneCycle`, `GateOnlyCloses`, `ChainDecides` |
| `StrategyProofs` | of the pool: `DegradedIsLogged`, `TerminalStaysTerminal`, `PoolAlwaysSound`, `JudgedOnOwnRecord`; of the search: `HoldoutUntouched`, `NoLookAhead`, `ChampionUndominated`, `BredIsValid` |
| `PromotionProofs` | `EvidenceIsDistinct`, for any number of canary processes; `LadderInOrder` and `TestnetBudget` for `~Overlap` |

Three theorems have a hypothesis, and each is a fact about the code.
`TrackedIsHeld` is false with part fills, which is finding 1; for `Size = 1`
orders fill whole. `LadderInOrder` and `TestnetBudget` are about one script at a
time: scripts that overlap share the counter and the result file, and each may
read the other's. `PoolAssumption` asks that the warning window be no longer than
the probation window (20 and 30 as configured).

The search's assumptions are facts about its input. Its features are the
registry's (`allowed_feature_registry.py`), each categorical one with a list of
labels; the data may show others. `EXIT_SPACE` lies within the validator's ranges, its dearest stop below its dearest target. Pool champions
were validated when they were adopted; templates give them two or three
conditions, the miner two to four. Frames end on a close. `TwinAssumption` says
what a twin is, and is about the properties alone: where the two part, the bar
opens at one price, since an entry fills at the open of the bar after its signal.

None of the state properties but the gate's is inductive alone. Each module has
an `IInv` of named parts, written out at the end of the module it is about and
model-checked before it was proved; one lemma per action shows that the action
keeps it. Where a property needs more, a second invariant is proved relative to
the first. The invariants of `StrategySearch` stand before their theorems in
`StrategyProofs`.

* `LiveTrading`: what the program counter says. From the write-ahead to the
  clearing the file names the close in hand; before the POST and after a proven
  failure that id is unused; at the ledger the answer agrees with the book.
  Between guard and counter there is budget left today and future days are
  untouched, which carries the guard's test over midnight. A ledger was cut while
  a position was open, and the only step behind an append of its own is the
  clearing: so the position stays, and no step leads to an entry. Duplicate
  records are paid for by crashes, the record not yet cleared included.
  - `LimitsInv`: the entries the venue has number no more than the counters of all
    days, the entry between POST and count, and the crashes; nothing is booked
    ahead of the day, and at the POST the ledger of the day is inside the limit.
    A step changes one term of a sum, or adds a record to the ledger.
  - `HeldInv`, for orders that fill whole: an order that executed is done, and an
    entry that was read as reconciled is still held when the file is written.
* `ImplementsLivePosition`: each action maps to a step of the abstract
  specification or a stutter. The venue's steps need care: a fill that completes
  a close adds to *done* and keeps it *live*; a cancellation takes it out of
  *live*; anything on an entry is a stutter. That OPEN becomes CLOSED for an
  executed close only follows from `Clear` and from *booked* being part of *done*
  (`LedgerReal`).
* `OrderExecutor`: a runner is in a cycle exactly while it holds the lock; from
  the bridge on the file offers it its own decision only; a decision about to be
  persisted is known to nobody; up to the first race an unsent decision is in one
  place.
* `PipelineCycle`: what the stages so far, the order so far and the end of the
  cycle say of each other.
* `PaperBooks`: what each step holds in hand, what an unsaved summary implies of
  the registry, how many books the walk has opened against the count the gate
  was given. Cardinalities of the open books change by one book at a time.
  - `AttributionInv`: what is recorded or attributed is of a cycle that is over, so
    that an execution under way meets neither a record nor a summary.
  - `ConsumptionInv`: a book is attempted once in a cycle, and what was filled in
    this one is among the attempts or in hand.
* `DecisionChain`: while signal and report are rewritten the result carries no
  stamp; what a cycle has written is of its own collection. For the gate: the
  status table covers every reason (so that a status passes exactly when no
  reason was collected), and the set of reasons grows with conditions and stage.
  - `DecidesInv`: every file of a cycle nobody interferes with is a function of
    the collection it started from. What is left is arithmetic, for all markets:
    on real data the score is between 3000 and 7500 hundredths, a long is
    permitted from 5500 on, a short never. Both directions follow: the intent
    that must not be, and the intent that must.
* `StrategyPool`: the lifecycle registry covers not the pool file alone but
  every copy of it that a writer may yet save; without overlap one process runs
  at a time, and the copy it is about to save keeps the file's terminal entries.
  - `SoundInv`: every copy is sound. The newcomer's family has room before the
    weakest is evicted, and a weakest exists because scores compared by cross
    multiplication are an order without cycles.
  - `JudgedInv`: in every copy a degraded entry has a warning window of outcomes
    under its id; unless scripts overlap the file forgets no routed strategy, and
    an id stays with its rule.
* `Promotion`: what the one result file may say of each order, which orders the
  session or canary in hand was sent on, and the orders of the day, not on their
  way to the counter, against counter and crashes. A clean record is made on an
  order the registry did not have, whoever wrote the result file last, unless two
  canaries that met read one result.
* `StrategySearch`, an argument for each of its properties:
  - `OneSearch` (for `HoldoutUntouched`): only the miner searches two worlds, and
    its cases have one training slice; every step applies one operator to equal
    arguments in both.
  - `NoLookAhead` holds of every rule set, not only of those a search comes by.
    Two runs of the simulation on frames that part at bar *d* are in step until
    the loop reaches *d*. From there on what they may still do is bounded: a
    trade that ended before *d* is in both ledgers, and an entry at *d* itself
    was decided on the bar before it. The relation is carried turn by turn.
  - `Researched` (for `ChampionUndominated`): the exits of a batch are numbers,
    and so is every trade, total and ratio of its backtests. `_normalize` is
    monotone in its metric, hence the score in each of them; a candidate as good
    in everything and better in expectancy or drawdown would have been chosen.
  - `Breeding` (for `BredIsValid`): a condition drawn from a training slice is
    valid, its thresholds numbers of the column and its labels the registry's; `_dedupe_features` keeps conditions it was given, one for a feature;
    crossover draws from valid parents, mutation changes one part and keeps the
    reward above the risk; ranking permutes. A generation after the first is
    headed by an elite large enough to cross.

The folds over bars, trades and conditions that these four speak of are recursive
functions, and what is proved of them is by induction on a bar, a turn or a
position. The library's induction theorems take an operator; `SumTheorems` has
the same as statements about sets of naturals, which the provers can use.

Only model-checked: the liveness properties `OpenEventuallyClosed` and
`RequestedLiveIsServed`, since fairness is out of the prover's reach. The two
findings are counterexamples of TLC. Not proved beyond their hypotheses:
`TrackedIsHeld`, `LadderInOrder` and `TestnetBudget`, as said above.

## 5. Findings

1. `live_position_kernel.py:357` - a dead close is retired without looking at
   what it executed: the part is not booked, and the file goes on tracking the
   whole quantity (`live_part_filled_close`).
2. `strategy_generator_agent.py:100` - the rotation's position is the number of
   specs accepted in this batch, and each batch starts at zero: with batches of
   four, ten of the fourteen families are never generated (`factory_rotation`).

## 6. Observations

What the models also show or had to take into account, without contradicting a
sentence of the code:

Live
* A submit confirmed by a query, or unresolved, has no exchange id and is
  answered NO_SUBMISSION (`signed_testnet_reconciliation.py:71`): a fill stays at
  the venue untracked. An entry that is still NEW right after its POST is
  RECONCILED but not tracked (`live_position_kernel.py:127`).
* A PARTIALLY_FILLED close with a price settles and clears while its rest still
  works (`:465`). A position flattened by hand stays OPEN, since every
  reduce-only close is rejected (`:440`). When the fill price lags, the position
  opens at the intent's price (`:130`).
* A crash inside the append of an outcome (`base_registry.py:162`) stops the live
  stage until somebody repairs the registry: every settlement raises before the
  position is cleared, although the position is flat at the venue, and no entry
  goes out. Behind half a line the ledger cannot be read either, so that a live
  cycle ends at its first step. The repair is not modelled: `torn` is never reset,
  here as on paper.
* A close guard that refuses (`live_order_final_guard.py`: a cleared
  confirmation, another profile) keeps the position open as long as it does. The
  id of each refused close is retired and a new one written.
* Clearing `LIVE_STRATEGY_ORDER_ENABLED` with a position open abandons it:
  `RequestedLiveIsServed` speaks of the time the live stage is asked for.
* `order_executor.main()` takes no lock; test and mark are two steps
  (`order_executor.py:264`). `DuplicateNeedsRace` says that this is the only way
  to a second order. The testnet and canary scripts replace the result file
  without the lock too: a runner may reconcile what they wrote.
* The expiry of an approval is tested once, in the final guard; nothing bounds the
  time from there to the POST.
* Exit code 2 ("no trade") is also given with an unresolved submit, which
  `NoTradeExitMeansNoOrder` names as its exception.

Paper
* A research position closed and entered again on one signal has the execution
  id of the first; its outcome is skipped as a duplicate. A position opened on
  the legacy reconciliation closes without an outcome.
* After a crash between outcome and save the replayed close may fall on another
  candle: the registry keeps the first result, the strategy is judged by the
  second (`DivergenceNeedsCut`). A reconciliation mismatch does not stop
  `open_in_book`. A torn execution registry raises after the decision was
  consumed. Partial fills and cancels never happen in the pipeline.

Chain
* `manual_kill_switch` and `reconciliation_mismatch` are never written by the
  risk guard: those gate inputs are dead. A PASS_REVIEW_ONLY gate counts as an
  approval in both decision builders. Research never permits a short on real
  data, since the score of a bearish market does not fall far enough.

Strategies
* An overlapping script saves its old copy over a suspension: the strategy is
  active again (`TerminalStaysTerminal` excludes overlap). A crash between pool
  and counter hands an id out again, and the record is shared.
* Two scripts that overlap load the same counter and give one id to different
  rules; the later save drops the other's entry, and outcomes of the dropped
  strategy count against the one that stays. `JudgedOnOwnRecord` speaks of one
  script at a time; the attempt to prove it without showed the case.
* One window suffices to suspend once two failures are counted, and the count is
  lost when the status does not change (the pool is then not saved).
* Pool champions seed the miner although they were selected on the holdout
  (`run_rule_miner.py:113`). The last generation's children are never scored. A
  template's exits can be drawn with a reward below the risk. A stop fills at
  the stop even when the bar gaps through it. A position that is open at the end
  and has no last close vanishes. A missing profit factor fails the gate,
  although `performance_metrics.py:6-8` leaves that to the selector. The
  champion depends on who else is in the batch, by normalisation.

Promotion
* The canary's daily cap counts answered POSTs only. An order that arrives after
  a query answered -2013 is outside every count (`TestnetBudget` names both
  exceptions). Preparation evidence has no expiry.
* `run_live_canary_order` takes no lock. Of two that run beside each other, one may
  read the result of the other (`live_canary_execution.py:85`), and both record its
  order as clean: `live_promotion_ready` can then be reached with fewer distinct
  orders than it asks for.
* A session that cannot read the position takes the account for flat
  (`run_testnet_session.py:97-105`), and `--force` goes on regardless; an open
  on top of a residual position then reconciles as a size mismatch.

## 7. Not modelled

* Signing, hosts, key scope, HTTP and rate limits; the deep-history collectors.
* The older feature matrix, signal builder and calibration, which tests and
  reports use and the running pipeline does not; report statistics, dashboards,
  the notifier and operator scripts: output only.
* The counterfactual book: it is written by the feedback stage and read by
  reports.
* Rotation by size and the hash chain of registries, stage and profile checks of
  the RiskGate registry, the contents of the template library.
* In `Promotion`: SELL openings, flags, confirmations and the kill switch (taken
  as set); a counter's read-modify-write is one step; each testnet script is one
  process.
* In `LiveTrading`: client order ids are hashes (`idempotency.py:37-44`), modelled
  as fresh whenever one is made. The repair of a cut registry.
* In `Backtest` and `StrategySearch`: a quantile is a value of the column, without
  interpolation between two.
* In `PaperEngine`: prices and fees, which decide nothing there.
* Floating point: prices, scores and ratios are integers of a named unit.
