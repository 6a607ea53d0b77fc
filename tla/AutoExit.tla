------------------------------ MODULE AutoExit ------------------------------
(* The exit decision of the archived live engine (engine.py, _check_auto_exit):
   which condition of a held position a tick meets first, and what the tick does
   to the state the exits keep between ticks. Profit is a level: the profit of
   the position in percent, rounded so that every threshold of config_live.py
   lies on a level or between two. *)
EXTENDS Integers

\* What a tick brings apart from its level; at most one matters to a tick, see
\* NextExit. "early": the first ticks after the entry lost strength or momentum and
\* price (_check_engine_early_stop). "grace": the stop-loss grace window is open.
EntryCues == {"early", "grace"}

\* The next-day exit window is open, or over.
WindowCues == {"due", "force"}

\* Two long bull candles, of ticks or of days, in the last few.
CandleCues == {"bull"}

Cues == {"none"} \cup EntryCues \cup WindowCues \cup CandleCues

\* partial_exit_done, breakeven_active, trailing_armed, trailing_high_price and
\* trend_hold_active of one symbol.
NoExit == [partial |-> FALSE, breakeven |-> FALSE, armed |-> FALSE,
           high |-> 0, trend |-> FALSE]

LongBullProfit == 8
NextDayTake == 2
NextDayStop == -2
TrendHoldProfit == 2

\* The thresholds of a position by strategy ("" for a position whose strategy is
\* unknown). The ratio of a partial exit is in percent.
StrategyThreshold(strategy) ==
  CASE strategy = "close_buy" ->
         [stop |-> -2, partial |-> 3, ratio |-> 50, take |-> 5, start |-> 4, gap |-> 2, floor |-> 0]
    [] strategy = "bottom_reversal" ->
         [stop |-> -5, partial |-> 10, ratio |-> 35, take |-> 20, start |-> 14, gap |-> 4, floor |-> 0]
    [] strategy = "leader_pullback" ->
         [stop |-> -2, partial |-> 3, ratio |-> 35, take |-> 4, start |-> 3, gap |-> 2, floor |-> 0]
    [] OTHER ->
         [stop |-> -2, partial |-> 3, ratio |-> 30, take |-> 2, start |-> 3, gap |-> 2, floor |-> 0]

\* The thresholds of a trend hold, which keeps the stop of the strategy.
TrendThreshold(stop) ==
  [stop |-> stop, partial |-> 2, ratio |-> 50, take |-> 4, start |-> 3, gap |-> 2, floor |-> -1]

\* The _effective_ functions: the trend hold overrides the strategy.
Threshold(strategy, trend) ==
  IF trend THEN TrendThreshold(StrategyThreshold(strategy).stop)
  ELSE StrategyThreshold(strategy)

\* Shares of a partial exit: the ratio of the position rounded down, at least one.
PartialQty(qty, ratio) ==
  IF (qty * ratio) \div 100 = 0 THEN 1 ELSE (qty * ratio) \div 100

\* _update_trend_hold_state: a hold that is active stays active.
TrendHold(x, level, strong) ==
  [x EXCEPT !.trend = @ \/ (strong /\ level >= TrendHoldProfit)]

\* _check_close_buy_next_day_exit.
NextDayExit(strategy, aged, level, cue) ==
  CASE ~ (strategy = "close_buy" /\ aged /\ cue \in {"due", "force"}) -> "none"
    [] level >= NextDayTake -> "next_day_take"
    [] level <= NextDayStop -> "next_day_stop"
    [] cue = "force" -> "next_day_force"
    [] OTHER -> "none"

\* The high of a trailing stop follows the price once the partial exit is done,
\* and the stop is armed at its start level.
Trail(x, th, level) ==
  IF x.partial
    THEN [x EXCEPT !.high = IF level > @ THEN level ELSE @,
                   !.armed = @ \/ level >= th.start]
    ELSE x

\* The exit a tick triggers, in the order of the code, with the exit state it
\* leaves. x is the state after TrendHold; aged: the position is from an earlier
\* day.
NextExit(x, strategy, aged, level, cue) ==
  LET th == Threshold(strategy, x.trend)
      nd == NextDayExit(strategy, aged, level, cue)
      tr == Trail(x, th, level)
  IN  CASE cue = "early" -> [why |-> "early_stop", exit |-> x]
        [] nd # "none" -> [why |-> nd, exit |-> x]
        [] level <= th.stop /\ cue # "grace" -> [why |-> "stop_loss", exit |-> x]
        [] ~x.partial /\ level >= th.partial ->
             [why |-> "partial_take",
              exit |-> [x EXCEPT !.partial = TRUE, !.breakeven = TRUE, !.high = level]]
        [] x.breakeven /\ level <= th.floor /\ ~x.trend ->
             [why |-> "breakeven_exit", exit |-> tr]
        [] strategy = "bottom_reversal" /\ cue = "bull" /\ level >= LongBullProfit ->
             [why |-> "long_bull", exit |-> tr]
        [] tr.armed /\ level <= tr.high - th.gap ->
             [why |-> "trailing_stop", exit |-> tr]
        [] ~x.partial /\ level >= th.take -> [why |-> "take_profit", exit |-> x]
        [] OTHER -> [why |-> "none", exit |-> tr]

\* Whether the engine takes the reason of a sell for a loss: its text says stop,
\* which that of a trailing stop does too.
IsStop(why) == why \in {"early_stop", "next_day_stop", "stop_loss", "trailing_stop"}
=============================================================================
