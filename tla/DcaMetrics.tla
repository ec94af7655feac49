------------------------------ MODULE DcaMetrics ------------------------------
(***************************************************************************)
(* What the DCA validation computes from reconstructed trades              *)
(* (services/dca_validation_metrics.py): profit and loss, drawdown, the    *)
(* walk-forward split, hold times, exposure and completion of the ladder.  *)
(*                                                                         *)
(* Profits and notionals are whole numbers; rates are kept as a numerator  *)
(* over the number of trades.  Sharpe and Sortino are left out but for     *)
(* when they exist.                                                        *)
(***************************************************************************)
EXTENDS Integers, Sequences, FiniteSets, SequencesExt, Functions

CONSTANTS
    Trade,              \* reconstructed trades: profit, times, notional, levels filled
    SplitPercent,       \* split_ratio, in percent
    MaxValidationTrades

NoMetric == <<>>
MIN_RETURN_OBSERVATIONS == 2
ALLOCATION_PERCENT == <<20, 20, 60>>
LadderLevel == 1..3

ASSUME MetricsAssumption ==
    /\ Trade \subseteq [net: Int, start: Nat, end: Nat, notional: Nat \ {0}, levels: SUBSET LadderLevel]
    /\ SplitPercent \in 1..99

VARIABLE validationTrades       \* of one symbol, in the order of their first scans

metricsVars == validationTrades

-----------------------------------------------------------------------------
NetTotal(values) == SumFunction(values)

Nets(list) == [i \in DOMAIN list |-> list[i].net]
Allocated(levels) == SumFunctionOnSet(ALLOCATION_PERCENT, levels)

Winning(list) == {i \in DOMAIN list : list[i].net > 0}
Losing(list) == {i \in DOMAIN list : list[i].net < 0}
GrossProfit(list) == SumFunctionOnSet(Nets(list), Winning(list))
GrossLoss(list) == -SumFunctionOnSet(Nets(list), Losing(list))
Wins(list) == Cardinality(Winning(list))

_profit_factor(profit, loss) == IF loss = 0 THEN NoMetric ELSE <<profit, loss>>

\* The drop from the highest profit so far; the percentage is kept for the deepest drop and has
\* no value when nothing had been won before it.
DrawdownStep(acc, net) ==
    LET total == acc.total + net
        peak == IF total > acc.peak THEN total ELSE acc.peak
        drop == peak - total
    IN  [total |-> total, peak |-> peak,
         drawdown |-> IF drop > acc.drawdown THEN drop ELSE acc.drawdown,
         percent |-> IF drop > acc.drawdown THEN IF peak > 0 THEN <<drop, peak>> ELSE NoMetric
                     ELSE acc.percent]

NoDrawdown == [total |-> 0, peak |-> 0, drawdown |-> 0, percent |-> <<0, 1>>]

_max_drawdown(nets) ==
    LET after[n \in 0..Len(nets)] == IF n = 0 THEN NoDrawdown ELSE DrawdownStep(after[n - 1], nets[n])
    IN  after[Len(nets)]

_sharpe_exists(list) ==
    /\ Len(list) >= MIN_RETURN_OBSERVATIONS
    /\ \E i, j \in DOMAIN list : list[i].net * list[j].notional # list[j].net * list[i].notional

_sortino_exists(list) == Len(list) >= MIN_RETURN_OBSERVATIONS /\ Losing(list) # {}

HoldTime(list) == NetTotal([i \in DOMAIN list |-> list[i].end - list[i].start])
Exposure(list) == NetTotal([i \in DOMAIN list |-> Allocated(list[i].levels)])

\* The report on some trades; on none it has no values.
_trade_metrics(list) ==
    [wins |-> Wins(list), trades |-> Len(list), total |-> NetTotal(Nets(list)),
     notional |-> NetTotal([i \in DOMAIN list |-> list[i].notional]),
     gross_profit |-> GrossProfit(list), gross_loss |-> GrossLoss(list),
     profit_factor |-> _profit_factor(GrossProfit(list), GrossLoss(list)),
     drawdown |-> _max_drawdown(Nets(list)).drawdown, drawdown_percent |-> _max_drawdown(Nets(list)).percent,
     hold |-> HoldTime(list), exposure |-> Exposure(list)]

\* The share of the three levels some trade filled, and of the trades that filled all three.
LevelsFilled(list) == UNION {list[i].levels : i \in DOMAIN list}
Completed(list) == {i \in DOMAIN list : list[i].levels = LadderLevel}

\* Trades by their end, those that end together in their given order.
EndsBefore(list, i, j) == list[i].end < list[j].end \/ (list[i].end = list[j].end /\ i < j)
PlaceByEnd(list, i) == 1 + Cardinality({j \in DOMAIN list : EndsBefore(list, j, i)})
ByEnd(list) == [k \in DOMAIN list |-> list[CHOOSE i \in DOMAIN list : PlaceByEnd(list, i) = k]]

\* The first SplitPercent of them, rounded up, are in the sample, and when there are two or more the last
\* one never is.
SplitAt(n) ==
    LET up == (n * SplitPercent + 99) \div 100
        least == IF up < 1 THEN 1 ELSE IF up > n THEN n ELSE up
    IN  IF least = n /\ n > 1 THEN n - 1 ELSE least

_walk_forward(list) ==
    IF list = <<>> THEN [in |-> <<>>, out |-> <<>>]
    ELSE [in |-> SubSeq(ByEnd(list), 1, SplitAt(Len(list))),
          out |-> SubSeq(ByEnd(list), SplitAt(Len(list)) + 1, Len(list))]

Underperforms(list) ==
    LET split == _walk_forward(list)
        inside == _trade_metrics(split.in)
        outside == _trade_metrics(split.out)
    IN  /\ split.in # <<>> /\ split.out # <<>>
        /\ outside.total * inside.notional < inside.total * outside.notional

-----------------------------------------------------------------------------
MetricsInit == validationTrades = <<>>

AddTrade(t) ==
    /\ Len(validationTrades) < MaxValidationTrades
    /\ validationTrades' = Append(validationTrades, t)

MetricsNext == \E t \in Trade : AddTrade(t)

MetricsSpec == MetricsInit /\ [][MetricsNext]_metricsVars

-----------------------------------------------------------------------------
\* The drawdown is the deepest fall from one point of the profit curve, or from its start, to a later one.
Curve(nets, i) == SumFunctionOnSet(nets, 1..i)

DrawdownIsDeepest ==
    LET nets == Nets(validationTrades)
        spans == {p \in (0..Len(nets)) \X (0..Len(nets)) : p[1] <= p[2]}
        falls == {Curve(nets, p[1]) - Curve(nets, p[2]) : p \in spans}
    IN  /\ _max_drawdown(nets).drawdown \in falls
        /\ \A fall \in falls : fall <= _max_drawdown(nets).drawdown

\* The split loses no trade, keeps their order in time and leaves both samples something to judge as soon
\* as there are two trades (_walk_forward).
SplitIsFair ==
    LET split == _walk_forward(validationTrades)
    IN  /\ \A i \in DOMAIN split.in, j \in DOMAIN split.out : split.in[i].end <= split.out[j].end
        /\ \A t \in Trade : Cardinality({i \in DOMAIN validationTrades : validationTrades[i] = t})
                = Cardinality({i \in DOMAIN split.in : split.in[i] = t})
                  + Cardinality({i \in DOMAIN split.out : split.out[i] = t})
        /\ Len(validationTrades) >= 2 => split.in # <<>> /\ split.out # <<>>
        /\ Underperforms(validationTrades) => Len(validationTrades) >= 2

\* The parts of the report agree: profit and loss make the total, a drawdown is no more than what was lost,
\* and who completed the ladder filled every level and was exposed in full (_trade_metrics, _dca_metrics).
ReportAddsUp ==
    validationTrades # <<>> =>
        LET report == _trade_metrics(validationTrades)
        IN  /\ report.gross_profit - report.gross_loss = report.total
            /\ report.drawdown <= report.gross_loss
            /\ report.total < 0 => report.drawdown > 0
            /\ report.total < 0 /\ report.trades >= MIN_RETURN_OBSERVATIONS => _sortino_exists(validationTrades)
            /\ report.wins = report.trades => report.profit_factor = NoMetric
            /\ Completed(validationTrades) # {} => LevelsFilled(validationTrades) = LadderLevel
            /\ report.exposure = 100 * report.trades
                   <=> Completed(validationTrades) = DOMAIN validationTrades

\* What the validation reports of its trades is right: the three properties above.
MetricsInv == DrawdownIsDeepest /\ SplitIsFair /\ ReportAddsUp
===============================================================================
