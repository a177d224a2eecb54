----------------------------- MODULE ResearchView -----------------------------
(***************************************************************************)
(* What the research makes of one market snapshot: the transparent score   *)
(* (research/scoring.py), its classification (research/scenario.py) and    *)
(* the sides it permits (research/trade_permission.py).  Pure functions.   *)
(*                                                                         *)
(* A number the score compares is abstracted to the side of the comparison *)
(* it falls on; scores are kept in hundredths, the precision they are      *)
(* rounded to.                                                             *)
(***************************************************************************)
EXTENDS Integers

Trend == {"bullish", "neutral", "bearish"}
Change == {"up", "slightly_up", "flat", "slightly_down", "down"}   \* change_24h_pct

\* The fields of the snapshot that the score reads.
Market == [trend : Trend, change : Change, volume : BOOLEAN,   \* volume_ratio > 1.2
           funding : BOOLEAN,                                  \* |funding_rate| > 0.001
           oi : BOOLEAN]                                       \* open interest grew

market_structure_score(m) ==
  CASE m.trend = "bullish" -> 70 [] m.trend = "bearish" -> 30 [] OTHER -> 50

momentum_score(m) ==
  50 + (CASE m.change = "up" -> 15 [] m.change = "down" -> -15 [] OTHER -> 0)
     + (IF m.volume THEN 5 ELSE 0)

derivatives_score(m) ==
  50 - (IF m.funding THEN 10 ELSE 0)
     + (CASE m.oi /\ m.change \in {"up", "slightly_up"} -> 5
          [] m.oi /\ m.change \in {"down", "slightly_down"} -> -5
          [] OTHER -> 0)

Clamp(x) == IF x < 0 THEN 0 ELSE IF x > 10000 THEN 10000 ELSE x

\* final_score in hundredths; "real" is neither synthetic nor fallback data.
final_score(m, real) ==
  Clamp(35 * market_structure_score(m) + 25 * momentum_score(m)
          + 25 * derivatives_score(m) + 750 - (IF real THEN 0 ELSE 2000))

classify_scenario(score) ==
  CASE score >= 7000 -> "Bullish"
    [] 5500 <= score /\ score < 7000 -> "Constructive"
    [] 4500 <= score /\ score < 5500 -> "Neutral"
    [] 3000 <= score /\ score < 4500 -> "Cautious"
    [] OTHER -> "Bearish"

LONG_SCENARIOS == {"Bullish", "Constructive"}
SHORT_SCENARIOS == {"Bearish"}
BLOCKING_TIMING == {"Data-Blocked", "Late", "Risk-Off", "Bearish"}

\* "real" is FALSE exactly when the context lists
\* synthetic_or_fallback_data_source among its risks.
classify_timing(score, scenario, real) ==
  CASE ~real -> "Data-Blocked"
    [] real /\ scenario \in LONG_SCENARIOS -> (IF score < 7500 THEN "Early" ELSE "Confirmed")
    [] real /\ scenario = "Neutral" -> "Neutral"
    [] real /\ scenario = "Cautious" -> "Risk-Off"
    [] real /\ scenario = "Bearish" -> "Bearish"

\* The sides the research view permits.
directional_permission(scenario, timing) ==
  (IF scenario \in LONG_SCENARIOS /\ timing \notin BLOCKING_TIMING THEN {"LONG"} ELSE {})
    \cup (IF scenario \in SHORT_SCENARIOS /\ timing # "Data-Blocked" THEN {"SHORT"} ELSE {})
=============================================================================
