-------------------------- MODULE MCStrategySearch --------------------------
(* TLC instances of StrategySearch. *)
EXTENDS StrategySearch

CONSTANTS TREND_UP, UNCLEAR

Larger(a, b) == IF a > b THEN a ELSE b
Smaller(a, b) == IF a < b THEN a ELSE b

\* A frame over a path of closes: a bar opens at the last close, the averages
\* lag behind, and the first bars have no atr and no slow average yet.
Bars(closes, atrs) ==
  [i \in DOMAIN closes |->
     LET close == closes[i]
         open == closes[Larger(1, i - 1)]
     IN  [open |-> open, close |-> close, high |-> Larger(open, close) + 2,
          low |-> Smaller(open, close) - 2, atr |-> IF i = 1 THEN 0 ELSE atrs[1 + (i % Len(atrs))],
          row |-> [close |-> close, ma20 |-> (open + close) \div 2, adx |-> 15 + 5 * ((i * i) % 4),
                   rsi |-> IF close > open THEN 60 ELSE 40, 
                   market_regime |-> IF i < 3 THEN UNCLEAR ELSE <<RANGE, TREND_UP>>[1 + ((i \div 3) % 2)]]
                    @@ (IF i > 2 THEN [ma50 |-> closes[i - 2]] ELSE <<>>)]]

\* From bar d on, every bar that follows moves twice as much, and is higher;
\* its open is as it was.
Twin(frame, d) ==
  [i \in DOMAIN frame |->
     IF i < d THEN frame[i]
     ELSE [frame[i] EXCEPT !.high = @ + 3, !.close = @ + 2, !.atr = @ + 4, !.row.close = @ + 2,
                           !.row.rsi = 100 - @]]

Rise == Bars(<<124, 130, 133, 138, 136, 138, 137, 147, 145, 155, 159, 158, 165, 168, 168, 167, 174, 170, 179, 169, 167, 168, 159, 163>>, <<6, 8>>)
Fall == Bars(<<130, 132, 132, 128, 130, 128, 136, 142, 140, 134, 128, 125, 117, 116, 114, 107, 103, 102, 105, 108, 107, 112, 121, 124>>, <<6, 8>>)
Wave == Bars(<<129, 126, 127, 121, 124, 129, 135, 145, 149, 152, 162, 157, 166, 158, 156, 161, 153, 150, 160, 155, 156, 148, 145, 146>>, <<6, 8>>)

Champion(d, cs) ==
  [family |-> <<"x">>, direction |-> d, conditions |-> cs,
   stop_atr |-> 100, target_atr |-> 200, max_holding_bars |-> 3,
   schema_version |-> SCHEMA_VERSION, max_risk_per_trade_R |-> 100]

Champions == <<Champion("LONG", <<Against("ma20", ">", "ma50"), Literal("adx", ">=", 20), Literal("rsi", "<=", 55)>>),
               Champion("SHORT", <<Against("close", "<", "ma20"), Against("close", "<", "ma50")>>)>>

On(script, frame, d, champions) ==
  [script |-> script, history |-> frame, twin |-> Twin(frame, d), champions |-> champions]

MCCases == {On("factory", f, 9, <<>>) : f \in {Rise, Fall, Wave}}
             \cup {On("miner", f, 17, Champions) : f \in {Rise, Wave}}
RotationCases == {On("factory", Rise, 9, <<>>)}

MCNumeric == {"close", "ma20", "ma50", "rsi", "adx", "macd", "macd_signal", "macd_hist",
              "bb_percent_b", "volume_zscore", "htf_alignment_score", "funding_zscore", "open_interest"}
MCCategorical == {"market_regime", "htf_1d_trend"}
\* The registry of the instance lists no UNCLEAR, which the first bars show.
MCLabels == [f \in MCCategorical |-> IF f = "market_regime" THEN <<RANGE, TREND_UP>> ELSE <<DOWN, UP>>]
MCColumns == {"close", "ma20", "ma50", "adx", "rsi", "market_regime"}
MCThreshold == <<"rsi", "adx", "open_interest">>
MCPrices == <<"close", "ma50">>
MCLabelFeatures == <<"market_regime", "htf_1d_trend">>
MCQuantiles == <<2, 7>>
MCComparisons == <<">=", "<=">>
MCStopRange == <<30, 500>>
MCTargetRange == <<50, 1000>>
MCHoldingRange == <<1, 500>>
MCExitSpace == [stop_atr |-> [lo |-> 80, base |-> 120, hi |-> 200],
                target_atr |-> [lo |-> 160, base |-> 300, hi |-> 800],
                max_holding_bars |-> [lo |-> 1, base |-> 2, hi |-> 5]]
Shift(s, t, h) == [stop_atr |-> s, target_atr |-> t, max_holding_bars |-> h]
MCShifts == {Shift(350, -350, 0), Shift(0, -200, 300), Shift(-300, -300, 300)}
OneShift == {Shift(0, 0, 0)}
MCExits == {Shift(190, 170, 3), Shift(90, 200, 2)}
\* The pool has 14 conditions, the labels' last: 14 is the first again.
MCPicks == {<<14, 7, 9, 12>>, <<2, 13>>, <<5, 8, 11>>}
Level(a, r) == [adx |-> a, rsi |-> r, bb_percent_b |-> 1, volume_zscore |-> 1,
                htf_alignment_score |-> 1, funding_zscore |-> 1]
MCLevels == {Level(15, 50), Level(20, 65)}
OneLevel == {Level(20, 50)}
MCGate == [trades |-> 2, expectancy |-> 1, profit_factor |-> 1000, pass_rate |-> 300, drawdown |-> 40,
           stability |-> 0, per_parameter |-> 0, robustness |-> 100]
=============================================================================
