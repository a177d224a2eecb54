------------------------------ MODULE Backtest ------------------------------
(***************************************************************************)
(* The backtest of one strategy: the bar-by-bar simulation of a rule set   *)
(* over a feature frame, the metrics of its trades, the walk-forward and   *)
(* robustness evidence, the absolute gate, and the choice of the champion  *)
(* among the qualified candidates of a batch.                              *)
(*                                                                         *)
(* Everything here is a pure function, as it is in the code.  Prices are   *)
(* ticks, an ATR multiple counts hundredths, an R multiple is an integer of    *)
(* which RUnit make one R, and a ratio counts thousandths, rounded down.   *)
(* Costs in basis points become a fixed number of ticks a leg.  A missing  *)
(* price is 0; a missing feature is absent from the row.  Labels are       *)
(* numbers.  Bars count from 1.                                            *)
(***************************************************************************)
EXTENDS Integers, Sequences, FiniteSets, SequencesExt

CONSTANTS
  Slip, Fee,         \* the cost of one leg
  RUnit,             \* units of one R
  NumWindows,        \* walk-forward windows
  Gate,              \* the thresholds of AbsoluteGate
  Healthy, Critical, \* trades per parameter
  SampleTarget       \* trades for full sample credit

ASSUME BacktestAssumption ==
  /\ Slip \in Nat /\ Fee \in Nat /\ RUnit \in Nat \ {0} /\ NumWindows \in Nat
  /\ Healthy \in Nat \ {0} /\ Critical \in 0..Healthy /\ SampleTarget \in Nat \ {0}
  /\ DOMAIN Gate = {"trades", "expectancy", "profit_factor", "pass_rate", "drawdown",
                    "stability", "per_parameter", "robustness"}

Missing == 0
Ratio(a, b) == (1000 * a) \div b
_clamp01(x) == IF x < 0 THEN 0 ELSE IF x > 1000 THEN 1000 ELSE x
Total(f) == SumFunction(f)

-----------------------------------------------------------------------------
(***************************************************************************)
(* Rules on a row.  A condition whose operand is missing is indeterminate, *)
(* and indeterminate never matches.                                        *)
(***************************************************************************)
_cell(row, feature) == IF feature \in DOMAIN row THEN {row[feature]} ELSE {}

Operand(c, row) == IF c.value_from = "" THEN c.value ELSE _cell(row, c.value_from)

evaluate_condition(c, row) ==
  \E left \in _cell(row, c.feature), right \in Operand(c, row) :
    CASE c.comparison = ">" -> left > right
      [] c.comparison = ">=" -> left >= right
      [] c.comparison = "<" -> left < right
      [] c.comparison = "<=" -> left <= right
      [] c.comparison = "==" -> left = right
      [] c.comparison = "!=" -> left # right

\* Generated and mined specs all join their conditions with AND.
evaluate_spec(spec, row) == \A c \in Range(spec.conditions) : evaluate_condition(c, row)

-----------------------------------------------------------------------------
(***************************************************************************)
(* Costs and one round trip.                                               *)
(***************************************************************************)
Sign(side) == IF side = "LONG" THEN 1 ELSE -1

\* A taker buys above and sells below the mid.
fill_price(mid, side, action) ==
  mid + (IF action = "entry" THEN Sign(side) ELSE -Sign(side)) * Slip

stop_price(entry, atr, side, stop_atr) == entry - Sign(side) * ((stop_atr * atr) \div 100)
target_price(entry, atr, side, target_atr) == entry + Sign(side) * ((target_atr * atr) \div 100)

\* The quantity is the risk amount over the risk per unit, so the R multiple
\* does not depend on the amount.
settle_trade(side, entry_intended, exit_intended, risk) ==
  LET gross == Sign(side) * (exit_intended - entry_intended)
      on_fills == Sign(side) * (fill_price(exit_intended, side, "exit")
                                  - fill_price(entry_intended, side, "entry"))
  IN  [r |-> (RUnit * (on_fills - 2 * Fee)) \div risk,
       cost |-> (RUnit * (gross - on_fills + 2 * Fee)) \div risk]

-----------------------------------------------------------------------------
(***************************************************************************)
(* The simulation.  A rule that matches on bar i enters at the open of bar *)
(* i + 1, and that bar is already managed.  A position, and an exit, is a  *)
(* set of at most one record.                                              *)
(***************************************************************************)
\* Mutant: the stop is sized with the ATR of the entry bar.
MutSignalAtr(frame, i) == frame[i + 1].atr

SignalAtr(frame, i) == frame[i].atr

Position(spec, frame, i) ==
  LET entry == fill_price(frame[i + 1].open, spec.direction, "entry")
      stop == stop_price(entry, SignalAtr(frame, i), spec.direction, spec.stop_atr)
  IN  [entry_bar |-> i + 1, entry_intended |-> frame[i + 1].open, stop |-> stop,
       target |-> target_price(entry, SignalAtr(frame, i), spec.direction, spec.target_atr),
       risk |-> IF entry > stop THEN entry - stop ELSE stop - entry,
       regime |-> _cell(frame[i].row, "market_regime")]

Entry(spec, frame, i) ==
  IF /\ i < Len(frame) /\ evaluate_spec(spec, frame[i].row)
     /\ SignalAtr(frame, i) # Missing /\ frame[i + 1].open # Missing
  THEN {p \in {Position(spec, frame, i)} : p.risk > 0}
  ELSE {}

_hit_stop(side, bar, stop) ==
  IF side = "LONG" THEN bar.low # Missing /\ bar.low <= stop
                   ELSE bar.high # Missing /\ bar.high >= stop
_hit_target(side, bar, target) ==
  IF side = "LONG" THEN bar.high # Missing /\ bar.high >= target
                   ELSE bar.low # Missing /\ bar.low <= target

\* The stop before the target when one bar touches both.
Exit(spec, p, bar, i) ==
  LET side == spec.direction
  IN  CASE _hit_stop(side, bar, p.stop) -> {[reason |-> "STOP", price |-> p.stop]}
        [] ~_hit_stop(side, bar, p.stop) /\ _hit_target(side, bar, p.target) ->
             {[reason |-> "TARGET", price |-> p.target]}
        [] OTHER -> IF i - p.entry_bar + 1 >= spec.max_holding_bars /\ bar.close # Missing
                    THEN {[reason |-> "MAX_HOLDING", price |-> bar.close]} ELSE {}

_close(spec, p, i, x) ==
  LET settled == settle_trade(spec.direction, p.entry_intended, x.price, p.risk)
  IN  [entry_bar |-> p.entry_bar, exit_bar |-> i, reason |-> x.reason, regime |-> p.regime,
       stop |-> p.stop, target |-> p.target, r |-> settled.r, cost |-> settled.cost]

\* Position p on bar i, which gives it these exits.
Held(spec, trades, p, i, exits) ==
  [i |-> i + 1, position |-> IF exits = {} THEN {p} ELSE {},
   trades |-> trades \o SetToSeq({_close(spec, p, i, x) : x \in exits})]

\* What an open position, or one entered for bar i, becomes on that bar.
Manage(spec, frame, trades, position, i) ==
  CHOOSE s \in {Held(spec, trades, p, i, Exit(spec, p, frame[i], i)) : p \in position} : TRUE

\* One turn of the loop.
Turn(spec, frame, s) ==
  IF s.position # {} THEN Manage(spec, frame, s.trades, s.position, s.i)
  ELSE LET entered == Entry(spec, frame, s.i)
       IN  IF entered = {} THEN [s EXCEPT !.i = @ + 1]
           ELSE Manage(spec, frame, s.trades, entered, s.i + 1)

\* What is still open at the end closes at the last close.
ForceClosed(spec, frame, s) ==
  LET n == Len(frame)
      last == [reason |-> "FORCE_CLOSE", price |-> frame[n].close]
  IN  s.trades \o SetToSeq({_close(spec, p, n, last) :
                              p \in {q \in s.position : last.price # Missing}})

simulate_strategy(spec, frame) ==
  LET start == [i |-> 1, position |-> {}, trades |-> <<>>]
      run[k \in 0..Len(frame)] ==
        IF k = 0 THEN start
        ELSE LET s == run[k - 1] IN IF s.i > Len(frame) THEN s ELSE Turn(spec, frame, s)
  IN  ForceClosed(spec, frame, run[Len(frame)])

-----------------------------------------------------------------------------
(***************************************************************************)
(* Metrics of a ledger.  Means are compared as total against count.        *)
(***************************************************************************)
Rs(trades) == [k \in DOMAIN trades |-> trades[k].r]

Deeper(a, r) ==
  LET cum == a.cum + r
      peak == IF cum > a.peak THEN cum ELSE a.peak
  IN  [cum |-> cum, peak |-> peak, dd |-> IF peak - cum > a.dd THEN peak - cum ELSE a.dd]

_max_drawdown_r(rs) ==
  LET after[k \in 0..Len(rs)] ==
        IF k = 0 THEN [cum |-> 0, peak |-> 0, dd |-> 0] ELSE Deeper(after[k - 1], rs[k])
  IN  after[Len(rs)].dd

regimes_traded(trades) == {trades[k].regime : k \in DOMAIN trades}
profitable_regimes(trades) ==
  {g \in regimes_traded(trades) : Total(Rs(SelectSeq(trades, LAMBDA t : t.regime = g))) > 0}

\* A trade whose regime is unknown is a regime of the breakdown, but does not
\* count for the consistency.
_regime_consistency(trades) ==
  LET known == regimes_traded(trades) \ {{}}
  IN  IF known = {} THEN 0
      ELSE Ratio(Cardinality(profitable_regimes(trades) \ {{}}), Cardinality(known))

compute_backtest_metrics(trades) ==
  LET rs == Rs(trades)
  IN  [trade_count |-> Len(trades), total |-> Total(rs),
       profit |-> Total([k \in DOMAIN rs |-> IF rs[k] > 0 THEN rs[k] ELSE 0]),
       loss |-> Total([k \in DOMAIN rs |-> IF rs[k] < 0 THEN -rs[k] ELSE 0]),
       drawdown |-> _max_drawdown_r(rs),
       cost |-> Total([k \in DOMAIN trades |-> trades[k].cost]),
       regime_consistency |-> _regime_consistency(trades)]

\* Thousandths of an R; of a ledger that is not empty.
expectancy_r(m) == Ratio(m.total, m.trade_count * RUnit)

-----------------------------------------------------------------------------
(***************************************************************************)
(* Walk forward: the strategy on consecutive slices of time, each from a   *)
(* flat start.                                                             *)
(***************************************************************************)
\* The remainder goes to the first windows, one bar each.
split_windows(n, k) ==
  LET w == IF k < n THEN k ELSE n
      start(j) == j * (n \div w) + (IF j < n % w THEN j ELSE n % w)
  IN  IF n <= 0 \/ k <= 0 THEN <<>>
      ELSE [j \in 1..w |-> [first |-> start(j - 1) + 1, last |-> start(j)]]

\* The expectancies of the windows that traded, by window; a window of one bar
\* is not tried.
WindowExpectancies(spec, frame) ==
  LET windows == split_windows(Len(frame), NumWindows)
      metrics == [j \in {i \in DOMAIN windows : windows[i].last > windows[i].first} |->
                    compute_backtest_metrics(
                      simulate_strategy(spec, SubSeq(frame, windows[j].first, windows[j].last)))]
  IN  [j \in {i \in DOMAIN metrics : metrics[i].trade_count > 0} |-> expectancy_r(metrics[j])]

\* The square root, rounded down.
Root(n) == CHOOSE r \in 0..n : r * r <= n /\ n < (r + 1) * (r + 1)

\* 1 / (1 + standard deviation / mean), on coarser units so that squares fit;
\* a set of at most one number, as the rate is.
_temporal_stability(es) ==
  LET xs == [k \in DOMAIN es |-> es[k] \div 100]
      n == Cardinality(DOMAIN es)
      sum == Total(xs)
      spread == Root(Total([k \in DOMAIN xs |-> (n * xs[k] - sum) * (n * xs[k] - sum)]) \div n)
  IN  IF n < 2 THEN {} ELSE IF sum <= 0 THEN {0} ELSE {Ratio(sum, sum + spread)}

pass_rate(es) ==
  IF DOMAIN es = {} THEN {}
  ELSE {Ratio(Cardinality({k \in DOMAIN es : es[k] > 0}), Cardinality(DOMAIN es))}

-----------------------------------------------------------------------------
(***************************************************************************)
(* Robustness and the absolute gate.                                       *)
(***************************************************************************)
count_free_parameters(spec) ==
  Len(SelectSeq(spec.conditions, LAMBDA c : c.value_from = "")) + 3

\* What the walk forward could not tell is not evidence.
_temporal_consistency(es) ==
  LET parts == SetToSeq({<<1, v>> : v \in pass_rate(es)}
                          \cup {<<2, v>> : v \in _temporal_stability(es)})
  IN  IF parts = <<>> THEN 0
      ELSE _clamp01(Total([k \in DOMAIN parts |-> parts[k][2]]) \div Len(parts))

_regime_breadth(trades) ==
  IF trades = <<>> THEN 0
  ELSE Ratio(Cardinality(profitable_regimes(trades)), Cardinality(regimes_traded(trades)))

_parameter_parsimony(free) == _clamp01(Ratio(11 - free, 11 - 3))

_cost_robustness(m) == IF m.total <= 0 THEN 0 ELSE _clamp01(Ratio(m.total, m.total + m.cost))

score_robustness(spec, m, es, trades) ==
  LET free == count_free_parameters(spec)
  IN  (30 * _clamp01(Ratio(m.trade_count, free * Healthy)) + 25 * _temporal_consistency(es)
        + 20 * _regime_breadth(trades) + 15 * _parameter_parsimony(free)
        + 10 * _cost_robustness(m)) \div 100

_verdict(spec, m, score) ==
  CASE m.trade_count < Critical * count_free_parameters(spec) -> "FRAGILE"
    [] m.trade_count >= Critical * count_free_parameters(spec) /\ score >= 700 -> "ROBUST"
    [] OTHER -> IF score < 350 THEN "FRAGILE" ELSE "PROVISIONAL"

\* A profit factor without a loss is undefined, and what is undefined fails.
evaluate_absolute_gate(spec, m, es, robustness) ==
  /\ m.trade_count >= Gate.trades /\ m.trade_count > 0
  /\ expectancy_r(m) >= Gate.expectancy /\ m.total > 0
  /\ m.loss > 0 /\ Ratio(m.profit, m.loss) >= Gate.profit_factor
  /\ m.drawdown <= Gate.drawdown
  /\ \E rate \in pass_rate(es) : rate >= Gate.pass_rate
  /\ \E stability \in _temporal_stability(es) : stability >= Gate.stability
  /\ m.trade_count >= Gate.per_parameter * count_free_parameters(spec)
  /\ robustness >= Gate.robustness

\* The record of a backtest: its metrics, its evidence and the gate's word.
Judged(spec, m, es, robustness) ==
  [spec |-> spec, metrics |-> m, stability |-> _temporal_stability(es),
   robustness |-> robustness, verdict |-> _verdict(spec, m, robustness),
   qualified |-> evaluate_absolute_gate(spec, m, es, robustness)]

Rated(spec, trades, m, es) == Judged(spec, m, es, score_robustness(spec, m, es, trades))

BacktestOf(spec, trades, es) == Rated(spec, trades, compute_backtest_metrics(trades), es)

run_backtest_agent(spec, frame) ==
  BacktestOf(spec, simulate_strategy(spec, frame), WindowExpectancies(spec, frame))

-----------------------------------------------------------------------------
(***************************************************************************)
(* The champion of a batch, from the qualified records alone.              *)
(***************************************************************************)
_candidate_metrics(r) ==
  [expectancy |-> expectancy_r(r.metrics),
   profit_factor |-> Ratio(r.metrics.profit, r.metrics.loss),
   stability |-> Total(SetToSeq(r.stability)), regimes |-> r.metrics.regime_consistency,
   sample |-> _clamp01(Ratio(r.metrics.trade_count, SampleTarget)),
   drawdown |-> r.metrics.drawdown]

\* Mutant: the scale is upside down.
MutNormalize(v, values) ==
  LET lo == CHOOSE x \in values : \A y \in values : x <= y
      hi == CHOOSE x \in values : \A y \in values : x >= y
  IN  IF hi = lo THEN 1000 ELSE Ratio(hi - v, hi - lo)

\* Min-max over the values of the batch; a flat set scores full marks.
_normalize(v, values) ==
  LET lo == CHOOSE x \in values : \A y \in values : x <= y
      hi == CHOOSE x \in values : \A y \in values : x >= y
  IN  IF hi = lo THEN 1000 ELSE Ratio(v - lo, hi - lo)

champion_score(c, candidates) ==
  30 * _normalize(c.expectancy, {d.expectancy : d \in candidates})
   + 20 * _normalize(c.profit_factor, {d.profit_factor : d \in candidates})
   + 20 * c.stability + 10 * c.regimes + 10 * c.sample
   - 10 * _normalize(c.drawdown, {d.drawdown : d \in candidates})

\* Score, then expectancy, then the smaller drawdown, then the later id.
\* Records are numbered as the batch is; the champion's number, or none.
select_batch_champion(records) ==
  LET qualified == {k \in DOMAIN records : records[k].qualified}
      metrics == [k \in qualified |-> _candidate_metrics(records[k])]
      score == [k \in qualified |-> champion_score(metrics[k], Range(metrics))]
      Key(k) == <<score[k], metrics[k].expectancy, -metrics[k].drawdown, k>>
      Below(a, b) == \E i \in 1..4 : a[i] < b[i] /\ \A j \in 1..(i - 1) : a[j] = b[j]
  IN  {k \in qualified : \A j \in qualified \ {k} : Below(Key(j), Key(k))}

=============================================================================
