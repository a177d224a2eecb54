--------------------------- MODULE StrategySearch ---------------------------
(***************************************************************************)
(* The two scripts that look for strategies: the factory, which fills in   *)
(* the parameters of templates, and the rule miner, which breeds rule sets *)
(* against the training slice of a history.  What they find is validated,  *)
(* backtested and gated; what the pool does with it is StrategyPool's.     *)
(*                                                                         *)
(* The search runs in two worlds at once: on the history, and on a twin    *)
(* that has the same training slice and another holdout.  Both draw the    *)
(* same random numbers.  The twin is there for the properties alone: the   *)
(* gates look at the history.                                              *)
(***************************************************************************)
EXTENDS Backtest, TLC

CONSTANTS
  Cases,            \* [script, history, twin, champions]: what a script runs on
  NumericFeatures, CategoricalFeatures, RuntimeUnavailable,
  Labels,           \* the registry's labels of a categorical feature, sorted
  RANGE, UP, DOWN,  \* the labels the templates name
  Columns,          \* features a history has a column of
  ThresholdFeatures, PriceFeatures, LabelFeatures,  \* sequences: what is mined
  MinValues,        \* values a mined feature must have
  Quantiles,        \* in tenths, a sequence
  NumericComparisons,
  StopAtrRange, TargetAtrRange, HoldingRange,       \* the validator's
  ExitSpace,        \* [stop_atr, target_atr, max_holding_bars], each [lo, base, hi]
  Shifts,           \* bound: how far a template's exits are moved, in thousandths
  Exits,            \* bound: the exits the miner comes up with, before its floor
  Picks,            \* bound: its sequences of condition picks
  Levels,           \* bound: the thresholds a template is given, by feature
  Timeframe, BatchSize, MaxAttempts,
  Population, Generations, EliteSize, TopN,
  TrainPercent, HoldoutMinTrades, FitTrades,
  MaxBatches        \* bound: batches of the factory

Side == {"LONG", "SHORT"}
World == {"history", "twin"}

ASSUME SearchAssumption ==
  /\ \A c \in Cases : c.script \in {"factory", "miner"}
  /\ NumericFeatures \cap CategoricalFeatures = {}
  /\ Population \in Nat /\ EliteSize \in 2..Population /\ Generations \in Nat \ {0}
  /\ BatchSize \in Nat /\ MaxAttempts \in Nat /\ TopN \in Nat /\ FitTrades \in Nat \ {0, 1}
  /\ HoldoutMinTrades \in Nat \ {0} /\ MaxBatches \in Nat /\ TrainPercent \in 0..100

ASSUME ExitAssumption ==
  LET Range3 == [lo : Int, base : Int, hi : Int]
  IN  /\ ExitSpace \in [stop_atr : Range3, target_atr : Range3, max_holding_bars : Range3]
      /\ Shifts \subseteq [stop_atr : Int, target_atr : Int, max_holding_bars : Int]

\* The miner's features are those of the registry, its draws a few picks each.
ASSUME MiningAssumption ==
  /\ ThresholdFeatures \in Seq(NumericFeatures) /\ PriceFeatures \in Seq(NumericFeatures)
  /\ LabelFeatures \in Seq(CategoricalFeatures) /\ "" \notin NumericFeatures \cup CategoricalFeatures
  /\ DOMAIN Labels = CategoricalFeatures
  /\ \A f \in CategoricalFeatures : Labels[f] \in Seq(Range(Labels[f]))
  /\ NumericComparisons \in Seq({">", ">=", "<", "<="}) /\ Quantiles \in Seq(0..10)
  /\ MinValues \in Nat \ {0}
  /\ \A picks \in Picks : picks \in Seq(Nat) /\ Len(picks) \in 1..4

\* Frames are sequences of bars and end on a close.  A history and its twin are
\* one up to some bar; that bar still opens at the same price on both, since an
\* entry on it fills at its open.  The miner's have one training slice.
IsFrame(frame) ==
  /\ frame \in Seq(Range(frame))
  /\ \A bar \in Range(frame) : bar.open \in Int /\ bar.close \in Int /\ bar.atr \in Int
  /\ frame # <<>> => frame[Len(frame)].close # Missing

ASSUME TwinAssumption ==
  \A c \in Cases :
    /\ IsFrame(c.history) /\ IsFrame(c.twin) /\ Len(c.history) = Len(c.twin)
    /\ \A d \in DOMAIN c.history :
         (\A i \in 1..(d - 1) : c.history[i] = c.twin[i]) => c.history[d].open = c.twin[d].open
    /\ c.script = "miner" =>
         LET cut == (Len(c.history) * TrainPercent) \div 100
         IN  SubSeq(c.history, 1, cut) = SubSeq(c.twin, 1, cut)

VARIABLES
  case,       \* one of Cases
  pc,
  batch,      \* the factory's accepted specs
  attempts,
  taken,      \* history: families accepted, how many specs, how many batches
  records,    \* the backtest of each spec of the batch
  breed,      \* each world's search: [pool, current, scored]
  round,
  survivors,  \* the miner's, still to be gated
  found       \* the records whose specs are offered to the pool

search_vars == <<case, pc, batch, attempts, taken, records, breed, round, survivors, found>>

-----------------------------------------------------------------------------
(***************************************************************************)
(* Validation.                                                             *)
(***************************************************************************)
is_allowed_feature(f) == f \in NumericFeatures \cup CategoricalFeatures
is_runtime_available_feature(f) == is_allowed_feature(f) /\ f \notin RuntimeUnavailable
allowed_comparisons_for(f) ==
  (IF f \in NumericFeatures THEN {">", ">=", "<", "<="} ELSE {}) \cup {"==", "!="}

\* A constant is a number or, for a categorical feature, one of its labels.
ValuesFor(f) == IF f \in NumericFeatures THEN Int ELSE Range(Labels[f])

_in_range(x, bounds) == bounds[1] <= x /\ x <= bounds[2]

_validate_conditions(spec) ==
  /\ Len(spec.conditions) <= 8
  /\ \A c \in Range(spec.conditions) :
       /\ is_runtime_available_feature(c.feature)
       /\ c.comparison \in allowed_comparisons_for(c.feature)
       /\ c.value_from # "" => /\ is_runtime_available_feature(c.value_from)
                               /\ {c.feature, c.value_from} \subseteq NumericFeatures
       /\ c.value_from = "" => c.value \subseteq ValuesFor(c.feature)

\* In hundredths, as the exits.
MAX_RISK_PER_TRADE_R == 200
SCHEMA_VERSION == "strategy_spec.v1"

\* The reward is at least the risk.
_validate_exit_and_risk(spec) ==
  /\ _in_range(spec.stop_atr, StopAtrRange) /\ _in_range(spec.target_atr, TargetAtrRange)
  /\ spec.target_atr >= spec.stop_atr
  /\ _in_range(spec.max_holding_bars, HoldingRange)
  /\ 0 < spec.max_risk_per_trade_R /\ spec.max_risk_per_trade_R <= MAX_RISK_PER_TRADE_R

\* from_dict: what it raises for.
Parses(spec) ==
  /\ spec.conditions # <<>>
  /\ \A c \in Range(spec.conditions) : (c.value_from = "") # (c.value = {})
  /\ spec.stop_atr > 0 /\ spec.target_atr > 0 /\ spec.max_holding_bars > 0
  /\ spec.max_risk_per_trade_R > 0

validate_strategy(spec) ==
  /\ Parses(spec) /\ spec.schema_version = SCHEMA_VERSION
  /\ _validate_conditions(spec) /\ _validate_exit_and_risk(spec)

\* The miner's exit space lies within the validator's ranges, the dearest stop
\* below the dearest target; the pool's champions were validated when they were
\* adopted, and have no more conditions than the miner gives.
ASSUME BreedAssumption ==
  /\ StopAtrRange \in (Nat \ {0}) \X Nat /\ TargetAtrRange \in (Nat \ {0}) \X Nat
  /\ HoldingRange \in (Nat \ {0}) \X Nat
  /\ Exits \subseteq [stop_atr : Nat, target_atr : Nat, max_holding_bars : Nat]
  /\ \A x \in Exits :
       /\ _in_range(x.stop_atr, StopAtrRange) /\ x.stop_atr <= TargetAtrRange[2]
       /\ _in_range(x.target_atr, TargetAtrRange) /\ _in_range(x.max_holding_bars, HoldingRange)
  /\ \A c \in Cases :
       /\ c.champions \in Seq(Range(c.champions))
       /\ \A spec \in Range(c.champions) :
            /\ validate_strategy(spec)
            /\ spec.conditions \in Seq(Range(spec.conditions)) /\ Len(spec.conditions) <= 4

-----------------------------------------------------------------------------
(***************************************************************************)
(* The template library: seven long shapes, and the mirror of each.        *)
(***************************************************************************)
Literal(f, op, v) == [feature |-> f, comparison |-> op, value |-> {v}, value_from |-> ""]
Against(f, op, g) == [feature |-> f, comparison |-> op, value |-> {}, value_from |-> g]

\* In rotation order, without the short half of each pair.
LongFamilies == <<"trend_pullback", "breakout", "mean_reversion", "macd_momentum",
                  "bollinger_breakout", "htf_trend_follow", "funding_fade_long">>

At(f, op, p) == Literal(f, op, p[f])

entry_builder(family, p) ==
  CASE family = "trend_pullback" ->
         <<Against("ma20", ">", "ma50"), At("adx", ">=", p), At("rsi", "<=", p)>>
    [] family = "breakout" ->
         <<Against("close", ">", "ma20"), Against("ma20", ">", "ma50"), At("adx", ">=", p)>>
    [] family = "mean_reversion" -> <<At("rsi", "<=", p), Literal("market_regime", "==", RANGE)>>
    [] family = "macd_momentum" ->
         <<Literal("macd_hist", ">", 0), Against("macd", ">", "macd_signal"), At("adx", ">=", p)>>
    [] family = "bollinger_breakout" ->
         <<At("bb_percent_b", ">=", p), At("volume_zscore", ">=", p), Against("ma20", ">", "ma50")>>
    [] family = "htf_trend_follow" ->
         <<At("htf_alignment_score", ">=", p), Literal("htf_1d_trend", "==", UP), At("rsi", "<=", p)>>
    [] family = "funding_fade_long" -> <<At("funding_zscore", "<=", p), At("rsi", "<=", p)>>

\* Strength and volume count the same both ways; the rest turns around, a
\* trend label to the opposite label.
MirrorOp(op) == CASE op = ">" -> "<" [] op = "<" -> ">" [] op = ">=" -> "<="
                  [] op = "<=" -> ">=" [] op = "==" -> "=="
Mirror(c) ==
  IF c.feature \in {"adx", "volume_zscore", "market_regime"} THEN c
  ELSE [c EXCEPT !.comparison = MirrorOp(@), !.value = IF @ = {UP} THEN {DOWN} ELSE @]

Template(family, side) == [family |-> family, direction |-> side]

\* On 4h and 1d bars the higher-timeframe family is left out.
templates_for_timeframe ==
  LET longs == SelectSeq(LongFamilies,
                 LAMBDA f : f # "htf_trend_follow" \/ Timeframe \notin {"4h", "1d"})
  IN  [k \in 1..(2 * Len(longs)) |->
         Template(longs[(k + 1) \div 2], IF k % 2 = 1 THEN "LONG" ELSE "SHORT")]

build_spec_dict(t, level, exits) ==
  LET shape == entry_builder(t.family, level)
  IN  [family |-> <<t.family, t.direction>>, direction |-> t.direction,
       conditions |-> IF t.direction = "LONG" THEN shape
                      ELSE [k \in DOMAIN shape |-> Mirror(shape[k])],
       stop_atr |-> exits.stop_atr, target_atr |-> exits.target_atr,
       max_holding_bars |-> exits.max_holding_bars,
       schema_version |-> SCHEMA_VERSION, max_risk_per_trade_R |-> 100]

RuleHash(spec) == <<spec.direction, spec.conditions, spec.stop_atr, spec.target_atr, spec.max_holding_bars>>


-----------------------------------------------------------------------------
(***************************************************************************)
(* The factory: a batch of template instances, the champion of the batch.  *)
(***************************************************************************)
\* A parameter is moved within a share of its range, and clamped to it.
mutate_params(shift) ==
  [name \in DOMAIN ExitSpace |->
     LET p == ExitSpace[name]
         value == p.base + ((p.hi - p.lo) * shift[name]) \div 1000
     IN  IF value < p.lo THEN p.lo ELSE IF value > p.hi THEN p.hi ELSE value]

\* One attempt: the next template of the rotation; what does not validate, or
\* is there already, is rejected.
GenerateAttempt ==
  /\ pc = "generate" /\ Len(batch) < BatchSize /\ attempts < BatchSize * MaxAttempts
  /\ \E level \in Levels, shift \in Shifts :
       LET t == templates_for_timeframe[1 + (Len(batch) % Len(templates_for_timeframe))]
           spec == build_spec_dict(t, level, mutate_params(shift))
           accepted == validate_strategy(spec)
                         /\ RuleHash(spec) \notin {RuleHash(s) : s \in Range(batch)}
       IN  /\ batch' = IF accepted THEN Append(batch, spec) ELSE batch
           /\ taken' = IF accepted
                       THEN [taken EXCEPT !.families = @ \cup {spec.family}, !.specs = @ + 1]
                       ELSE taken
  /\ attempts' = attempts + 1
  /\ UNCHANGED <<case, pc, records, breed, round, survivors, found>>

\* The whole batch is backtested; the champion goes to the pool.
SelectChampion ==
  /\ pc = "generate" /\ (Len(batch) = BatchSize \/ attempts = BatchSize * MaxAttempts)
  /\ records' = [k \in DOMAIN batch |-> run_backtest_agent(batch[k], case.history)]
  /\ found' = {records'[k] : k \in select_batch_champion(records')}
  /\ taken' = [taken EXCEPT !.batches = @ + 1]
  /\ pc' = "selected"
  /\ UNCHANGED <<case, batch, attempts, breed, round, survivors>>

\* The next cycle of the factory starts a batch of its own.
NextCycle ==
  /\ pc = "selected" /\ taken.batches < MaxBatches
  /\ pc' = "generate" /\ batch' = <<>> /\ attempts' = 0 /\ records' = <<>> /\ found' = {}
  /\ UNCHANGED <<case, taken, breed, round, survivors>>

-----------------------------------------------------------------------------
(***************************************************************************)
(* The miner: the conditions it may draw, and the operators it breeds with.*)
(***************************************************************************)
\* Mutant: the search works on the whole history.
MutSplit(frame) == [train |-> frame, holdout |-> frame]

split_train_holdout(frame) ==
  LET cut == (Len(frame) * TrainPercent) \div 100
  IN  [train |-> SubSeq(frame, 1, cut), holdout |-> SubSeq(frame, cut + 1, Len(frame))]

\* The elements of s at the positions kept, in their order.
Kept(s, kept) ==
  LET out[n \in 0..Len(s)] ==
        IF n = 0 THEN <<>> ELSE IF n \in kept THEN Append(out[n - 1], s[n]) ELSE out[n - 1]
  IN  out[Len(s)]

\* The first of each key; key[i] is of s[i].
Distinct(s, key) == Kept(s, {i \in DOMAIN s : \A j \in 1..(i - 1) : key[j] # key[i]})

\* The best first, and equals in the order they had; score[i] is of s[i].
Ranked(s, score) ==
  LET Better(i, j) == score[i][1] * score[j][2] > score[j][1] * score[i][2]
      order[n \in 0..Len(s)] ==
        IF n = 0 THEN <<>>
        ELSE LET before == order[n - 1]
                 ahead == {k \in DOMAIN before : ~Better(n, before[k])}
             IN  InsertAt(before, Cardinality(ahead) + 1, n)
      ranking == order[Len(s)]
  IN  [k \in DOMAIN s |-> s[ranking[k]]]

\* The numbers of a column from the smallest up; what is none is dropped.
Column(frame, f) ==
  LET rows == Kept(frame, {i \in DOMAIN frame : f \in DOMAIN frame[i].row /\ frame[i].row[f] \in Int})
      values == [k \in DOMAIN rows |-> rows[k].row[f]]
  IN  Ranked(values, [k \in DOMAIN values |-> <<-values[k], 1>>])

\* The value a share of the column lies below, without interpolation.
Quantile(column, tenths) == column[1 + ((Len(column) - 1) * tenths) \div 10]

Mineable(fs) == Kept(fs, {k \in DOMAIN fs : is_runtime_available_feature(fs[k]) /\ fs[k] \in Columns})

\* Thresholds of the frame's own, prices against each other, labels seen.
ThresholdConditions(frame) ==
  LET fs == Mineable(ThresholdFeatures)
      mined == Kept(fs, {k \in DOMAIN fs : Len(Column(frame, fs[k])) >= MinValues})
  IN  FlattenSeq([k \in DOMAIN mined |-> FlattenSeq([q \in DOMAIN Quantiles |->
        [c \in DOMAIN NumericComparisons |->
           Literal(mined[k], NumericComparisons[c], Quantile(Column(frame, mined[k]), Quantiles[q]))]])])

PriceConditions(frame) ==
  LET prices == Mineable(PriceFeatures)
  IN  FlattenSeq([a \in DOMAIN prices |-> FlattenSeq([b \in DOMAIN prices |->
        IF a = b THEN <<>>
        ELSE <<Against(prices[a], ">", prices[b]), Against(prices[a], "<", prices[b])>>])])

SeenIn(frame, f) == {frame[i].row[f] : i \in {j \in DOMAIN frame : f \in DOMAIN frame[j].row}}

\* Mutant: every label seen, the registry's or not.
MutSeenLabels(frame, f) == SetToSeq(SeenIn(frame, f))

\* The registry's labels that were seen.
SeenLabels(frame, f) == Kept(Labels[f], {l \in DOMAIN Labels[f] : Labels[f][l] \in SeenIn(frame, f)})

LabelConditions(frame) ==
  LET fs == Mineable(LabelFeatures)
      Equal(f) == [l \in DOMAIN SeenLabels(frame, f) |-> Literal(f, "==", SeenLabels(frame, f)[l])]
  IN  FlattenSeq([k \in DOMAIN fs |-> Equal(fs[k])])

build_condition_pool(frame) ==
  ThresholdConditions(frame) \o PriceConditions(frame) \o LabelConditions(frame)

\* The first condition on each feature.
_dedupe_features(conditions) == Distinct(conditions, [k \in DOMAIN conditions |-> conditions[k].feature])

Pick(from, n) == from[1 + (n % Len(from))]

\* Drawing goes on until there are two conditions.
Redrawn(conditions, c) ==
  IF Len(conditions) < 2 THEN _dedupe_features(Append(conditions, c)) ELSE conditions

Refilled(conditions, from, picks) ==
  LET drawn[n \in 0..Len(picks)] == IF n = 0 THEN conditions ELSE Redrawn(drawn[n - 1], Pick(from, picks[n]))
  IN  drawn[Len(picks)]

\* The target is drawn from the stop upwards.
_sample_exits(x) == [x EXCEPT !.target_atr = IF @ < x.stop_atr THEN x.stop_atr ELSE @]

WithExits(rule_set, x) ==
  [rule_set EXCEPT !.stop_atr = x.stop_atr, !.target_atr = x.target_atr,
                   !.max_holding_bars = x.max_holding_bars]

random_rule_set(pool, x) ==
  LET exits == _sample_exits(x.exits)
  IN  [direction |-> x.side,
       conditions |-> _dedupe_features([k \in DOMAIN x.picks |-> Pick(pool, x.picks[k])]),
       stop_atr |-> exits.stop_atr, target_atr |-> exits.target_atr,
       max_holding_bars |-> exits.max_holding_bars]

\* Conditions of both parents in a shuffled order, the rest from one of them.
crossover(a, b, x) ==
  LET merged == a.conditions \o b.conditions
  IN  [(IF x.first THEN a ELSE b) EXCEPT
         !.conditions = _dedupe_features([k \in DOMAIN x.picks |-> Pick(merged, x.picks[k])])]

\* Another condition, other exits, or the other direction.
mutate(rule_set, pool, change) ==
  CASE change.what = "none" -> rule_set
    [] change.what = "condition" ->
         LET at == 1 + (change.at % Len(rule_set.conditions))
             replaced == _dedupe_features([rule_set.conditions EXCEPT ![at] = Pick(pool, change.picks[1])])
         IN  [rule_set EXCEPT !.conditions = Refilled(replaced, pool, Tail(change.picks))]
    [] change.what = "exits" -> WithExits(rule_set, _sample_exits(change.exits))
    [] OTHER -> [rule_set EXCEPT !.direction = CHOOSE s \in Side : s # @]

\* A champion of the pool as a rule set, if it can be bred on.
spec_to_rule_set(spec) ==
  {[direction |-> spec.direction, conditions |-> c, stop_atr |-> spec.stop_atr,
    target_atr |-> spec.target_atr, max_holding_bars |-> spec.max_holding_bars] :
     c \in {d \in {_dedupe_features(spec.conditions)} : spec.direction \in Side /\ Len(d) >= 2}}

\* The family is the set of features.
mined_family(rule_set) == {c.feature : c \in Range(rule_set.conditions)}
rule_set_to_spec_dict(rule_set) ==
  [family |-> mined_family(rule_set), direction |-> rule_set.direction,
   conditions |-> rule_set.conditions, stop_atr |-> rule_set.stop_atr,
   target_atr |-> rule_set.target_atr, max_holding_bars |-> rule_set.max_holding_bars,
   schema_version |-> SCHEMA_VERSION, max_risk_per_trade_R |-> 100]

-----------------------------------------------------------------------------
(***************************************************************************)
(* The search.                                                             *)
(***************************************************************************)
\* The t statistic of the trades' mean as its signed square, a fraction; few
\* trades, and no spread, count as negative numbers.
fitness(rule_set, train) ==
  LET rs == Rs(simulate_strategy(rule_set_to_spec_dict(rule_set), train))
      n == Len(rs)
      sum == Total(rs)
      spread == Total([k \in DOMAIN rs |-> (n * rs[k] - sum) * (n * rs[k] - sum)]) \div n
  IN  CASE ~Parses(rule_set_to_spec_dict(rule_set)) -> <<-100, 1>>
        [] Parses(rule_set_to_spec_dict(rule_set)) /\ n < FitTrades -> <<-((100 - n) * (100 - n)), 400>>
        [] OTHER -> IF spread = 0 THEN <<-100, 1>>
                    ELSE <<(IF sum < 0 THEN -1 ELSE 1) * sum * sum * (n - 1), spread>>

\* The order of the conditions does not matter.
_key(rule_set) ==
  <<rule_set.direction, Range(rule_set.conditions),
    rule_set.stop_atr, rule_set.target_atr, rule_set.max_holding_bars>>

Evaluated(rs, train) == [key |-> _key(rs), score |-> fitness(rs, train), rule_set |-> rs]

\* A rule set is scored when it joins the generation; what has been scored
\* keeps its score.
Scored(breeding, rs, train) ==
  [breeding EXCEPT
     !.current = Append(@, rs),
     !.scored = IF \E e \in Range(@) : e.key = _key(rs) THEN @
                ELSE Append(@, Evaluated(rs, train))]

FirstOf(s, n) == SubSeq(s, 1, IF n < Len(s) THEN n ELSE Len(s))

Seeds ==
  LET bred == FlattenSeq([k \in DOMAIN case.champions |->
                            SetToSeq(spec_to_rule_set(case.champions[k]))])
  IN  FirstOf(Distinct(bred, [k \in DOMAIN bred |-> _key(bred[k])]), Population)

Train(w) == split_train_holdout(IF w = "history" THEN case.history ELSE case.twin).train

\* No two seeds have one key: each is scored.
Seeded(train) ==
  [pool |-> build_condition_pool(train), current |-> Seeds,
   scored |-> [k \in DOMAIN Seeds |-> Evaluated(Seeds[k], train)]]

MineStart ==
  /\ pc = "mine"
  /\ breed' = [w \in World |-> Seeded(Train(w))]
  /\ pc' = IF breed'["history"].pool = <<>> THEN "gate" ELSE "breed"
  /\ UNCHANGED <<case, batch, attempts, taken, records, round, survivors, found>>

RandomDraw == [side : Side, picks : Picks, exits : Exits]
CrossDraw == [a : 1..EliteSize, b : 1..EliteSize, first : BOOLEAN, picks : Picks]
Change == {[what |-> "none"], [what |-> "direction"]}
            \cup [what : {"condition"}, at : 0..1, picks : Picks]
            \cup [what : {"exits"}, exits : Exits]

\* A child joins in both worlds; a draw that leaves it with one condition is
\* not over.
Join(child) ==
  /\ Len(child["history"].conditions) >= 2
  /\ breed' = [w \in World |-> Scored(breed[w], child[w], Train(w))]
  /\ UNCHANGED <<case, pc, batch, attempts, taken, records, round, survivors, found>>

Growing == pc = "breed" /\ Len(breed["history"].current) < Population

Populate ==
  /\ Growing /\ round = 0
  /\ \E x \in RandomDraw : Join([w \in World |-> random_rule_set(breed[w].pool, x)])

\* The elite of a round heads the next generation.
BreedRandom ==
  /\ Growing /\ round > 0
  /\ \E x \in RandomDraw, change \in Change :
       Join([w \in World |-> mutate(random_rule_set(breed[w].pool, x), breed[w].pool, change)])

BreedCross ==
  /\ Growing /\ round > 0
  /\ \E x \in CrossDraw, change \in Change :
       Join([w \in World |->
               LET elite == breed[w].current
               IN  mutate(crossover(elite[x.a], elite[x.b], x), breed[w].pool, change)])

\* The last round's ranking ends the search: what is bred after it is never
\* scored, and left out here.
Rank ==
  /\ pc = "breed" /\ Len(breed["history"].current) = Population
  /\ LET ScoreOf(w, rs) == (CHOOSE e \in Range(breed[w].scored) : e.key = _key(rs)).score
         all == breed["history"].scored
         best == Ranked(all, [k \in DOMAIN all |-> all[k].score])
         ranked == [k \in DOMAIN best |-> best[k].rule_set]
     IN  /\ breed' = [w \in World |-> [breed[w] EXCEPT !.current =
                        FirstOf(Ranked(@, [k \in DOMAIN @ |-> ScoreOf(w, @[k])]), EliteSize)]]
         /\ IF round + 1 < Generations
            THEN UNCHANGED <<pc, survivors>>
            ELSE /\ pc' = "gate"
                 /\ survivors' = FirstOf(Distinct(ranked, [k \in DOMAIN best |-> mined_family(ranked[k])]), TopN)
  /\ round' = round + 1
  /\ UNCHANGED <<case, batch, attempts, taken, records, found>>

\* A profit factor without a loss counts as none, and fails.
SurvivesHoldout(m) == m.trade_count >= HoldoutMinTrades /\ m.total > 0 /\ m.loss > 0 /\ m.profit > m.loss

\* A survivor is validated, then tried on the holdout, then on everything.
GateSurvivor ==
  /\ pc = "gate" /\ survivors # <<>>
  /\ LET spec == rule_set_to_spec_dict(Head(survivors))
         holdout == split_train_holdout(case.history).holdout
         record == run_backtest_agent(spec, case.history)
     IN  found' = IF /\ validate_strategy(spec)
                     /\ SurvivesHoldout(compute_backtest_metrics(simulate_strategy(spec, holdout)))
                     /\ record.qualified
                  THEN found \cup {record} ELSE found
  /\ survivors' = Tail(survivors)
  /\ UNCHANGED <<case, pc, batch, attempts, taken, records, breed, round>>

-----------------------------------------------------------------------------
SearchInit ==
  /\ case \in Cases
  /\ pc = IF case.script = "factory" THEN "generate" ELSE "mine"
  /\ batch = <<>> /\ attempts = 0 /\ taken = [families |-> {}, specs |-> 0, batches |-> 0]
  /\ records = <<>> /\ found = {} /\ round = 0 /\ survivors = <<>>
  /\ breed = [w \in World |-> [pool |-> <<>>, current |-> <<>>, scored |-> <<>>]]

SearchNext ==
  \/ GenerateAttempt \/ SelectChampion \/ NextCycle
  \/ MineStart \/ Populate \/ BreedRandom \/ BreedCross \/ Rank \/ GateSurvivor

SearchSpec == SearchInit /\ [][SearchNext]_search_vars

-----------------------------------------------------------------------------
(***************************************************************************)
(* Properties.                                                             *)
(***************************************************************************)
Newest(s) == IF s = <<>> THEN {} ELSE {s[Len(s)]}
InPlay == Newest(batch) \cup Newest(breed["history"].current)

\* The first bar in which the two worlds differ.
Divergence ==
  CHOOSE d \in 1..(Len(case.history) + 1) :
    /\ \A i \in 1..(d - 1) : case.history[i] = case.twin[i]
    /\ d <= Len(case.history) => case.history[d] # case.twin[d]

\* The backtest never looks ahead: up to the first bar in which two histories
\* differ, a strategy enters at the same bars with the same stops and targets
\* on both, and the trades that end before it are the same to the last field.
NoLookAhead ==
  LET d == Divergence
      Entries(trades) == {<<t.entry_bar, t.stop, t.target>> : t \in {u \in Range(trades) : u.entry_bar <= d}}
      Ended(trades) == {t \in Range(trades) : t.exit_bar < d}
  IN  \A spec \in InPlay :
        LET here == simulate_strategy(spec, case.history)
            there == simulate_strategy(spec, case.twin)
        IN  Entries(here) = Entries(there) /\ Ended(here) = Ended(there)

\* Nothing the search does, thresholds, scores, ranks or children, depends on
\* the holdout: on two histories with one training slice it is one search.
HoldoutUntouched == breed["history"] = breed["twin"]

\* Whatever is bred from valid seeds would pass the validator, and has two to
\* four conditions, one for each feature.
BredIsValid ==
  \A rule_set \in Newest(breed["history"].current) :
    /\ validate_strategy(rule_set_to_spec_dict(rule_set))
    /\ Len(rule_set.conditions) \in 2..4
    /\ Cardinality(mined_family(rule_set)) = Len(rule_set.conditions)

\* The champion is not dominated: no qualified candidate of the batch is at
\* least as good in everything and better in expectancy or drawdown.
ChampionUndominated ==
  \A champion \in found, r \in Range(records) :
    r.qualified =>
      LET a == _candidate_metrics(r)
          b == _candidate_metrics(champion)
      IN  ~(/\ a.expectancy >= b.expectancy /\ a.profit_factor >= b.profit_factor
            /\ a.stability >= b.stability /\ a.regimes >= b.regimes
            /\ a.sample >= b.sample /\ a.drawdown <= b.drawdown
            /\ (a.expectancy > b.expectancy \/ a.drawdown < b.drawdown))

\* The rotation covers the library: once as many specs were accepted as the
\* rotation is long, every family had its turn (strategy_generator_agent.py:3,
\* "picking templates in rotation").
RotationCoversLibrary ==
  taken.specs >= Len(templates_for_timeframe) =>
    taken.families = {<<t.family, t.direction>> : t \in Range(templates_for_timeframe)}
=============================================================================
