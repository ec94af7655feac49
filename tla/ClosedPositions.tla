--------------------------- MODULE ClosedPositions ---------------------------
(***************************************************************************)
(* The closed-position analytics of src/backend/services/                  *)
(* analytics_service.py, as its routes (src/backend/routes/analytics.py)   *)
(* ask for them: one filter pass over the stored history, from which the   *)
(* overview, the periods, the calendar, the breakdowns, the streaks and    *)
(* the drawdown are derived.                                               *)
(*                                                                         *)
(* Time is counted in half days, so that a local midnight can fall in the  *)
(* middle of a UTC day; money in whole units (sums of decimals are exact). *)
(* Rounding, labels and reason texts are left out.                         *)
(***************************************************************************)
EXTENDS Integers, Sequences, FiniteSets, SequencesExt, FiniteSetsExt

CONSTANTS
    ClosedTrade,    \* the rows a history may have
    Filter,         \* the filters that are asked for
    MaxTrades,      \* bound: rows of the history
    Offset          \* local time, in half days after UTC

Unset == -1         \* of a time, a leverage or a bound
Optional == Nat \cup {Unset}

ASSUME ClosedAssumption ==
    /\ ClosedTrade \subseteq [id: Int, symbol: STRING, side: {"long", "short"}, pnl: Int,
                              open: Optional, close: Optional, leverage: Int]
    /\ Filter \subseteq [from: Optional, to: Optional, symbol: STRING, side: {"any", "long", "short"},
                         pnlMin: Int, leverageMin: Optional, leverageMax: Optional,
                         durationMin: Optional, durationMax: Optional]
    /\ MaxTrades \in Nat /\ Offset \in Int

VARIABLES
    history,        \* position_history, in the order of its ids
    filter          \* the query

closedVars == <<history, filter>>

ClosedTypeOK ==
    /\ history \in Seq(ClosedTrade) /\ Len(history) <= MaxTrades
    /\ \A i, j \in DOMAIN history : history[i].id = history[j].id /\ history[i].id # Unset => i = j
    /\ filter \in Filter

ClosedInit == history = <<>> /\ filter \in Filter

-----------------------------------------------------------------------------
(***************************************************************************)
(* What a row says.                                                        *)
(***************************************************************************)
HalfDays == 2
LocalDay(t) == (t + Offset) \div HalfDays

\* Periods of the three kinds; a month has four weeks here.
DaysOf == [day |-> 1, week |-> 7, month |-> 28]
PeriodOf(t, kind) == LocalDay(t) \div DaysOf[kind]

_duration(p) == IF p.open = Unset \/ p.close = Unset THEN Unset ELSE p.close - p.open
_leverage(p) == IF p.leverage <= 0 THEN Unset ELSE p.leverage
IsClosed(p) == p.close # Unset

_breakdown_key(p, group) ==
    CASE group = "symbol" -> p.symbol
      [] group = "side" -> p.side
      [] group = "pair_direction" -> <<p.symbol, p.side>>
      [] group = "duration" ->
            (CASE _duration(p) = Unset -> "unknown_duration"
               [] _duration(p) < HalfDays /\ _duration(p) # Unset -> "<1d"
               [] _duration(p) \in HalfDays..7 * HalfDays -> "1-7d"
               [] OTHER -> ">7d")
      [] group = "leverage" ->
            (CASE _leverage(p) = Unset -> "unknown_leverage"
               [] _leverage(p) \in 1..5 -> "<=5x"
               [] _leverage(p) \in 6..10 -> ">5x-10x"
               [] OTHER -> ">10x")

Group == {"symbol", "side", "pair_direction", "duration", "leverage"}

-----------------------------------------------------------------------------
(***************************************************************************)
(* _filter_closed_positions.  A row without a close time passes the range  *)
(* of times; one without a leverage or a duration fails a bound on it and  *)
(* is counted.                                                             *)
(***************************************************************************)
AtLeast(value, bound) == bound = Unset \/ value >= bound
AtMost(value, bound) == bound = Unset \/ value <= bound
Asked(low, high) == filter[low] # Unset \/ filter[high] # Unset

InRange(p) ==
    IsClosed(p) => AtLeast(p.close, filter.from) /\ (filter.to = Unset \/ p.close < filter.to)

Matches(p) ==
    /\ filter.symbol \in {"any", p.symbol} /\ filter.side \in {"any", p.side}
    /\ p.pnl >= filter.pnlMin

LeverageFits(p) == AtLeast(_leverage(p), filter.leverageMin) /\ AtMost(_leverage(p), filter.leverageMax)
DurationFits(p) == AtLeast(_duration(p), filter.durationMin) /\ AtMost(_duration(p), filter.durationMax)
NoLeverage(p) == Asked("leverageMin", "leverageMax") /\ _leverage(p) = Unset
NoDuration(p) == Asked("durationMin", "durationMax") /\ _duration(p) = Unset

TradeRows == DOMAIN history

Kept ==
    {i \in TradeRows : LET p == history[i]
                  IN  InRange(p) /\ Matches(p) /\ ~NoLeverage(p) /\ ~NoDuration(p)
                      /\ LeverageFits(p) /\ DurationFits(p)}

\* The rows counted in excluded_reasons.
Missing ==
    {i \in TradeRows : LET p == history[i]
                  IN  InRange(p) /\ Matches(p)
                      /\ (NoLeverage(p) \/ (LeverageFits(p) /\ NoDuration(p)))}

-----------------------------------------------------------------------------
(***************************************************************************)
(* What is derived from the rows that were kept.                           *)
(***************************************************************************)
Pnl(I) == SumFunctionOnSet([i \in TradeRows |-> history[i].pnl], I)
Won(I) == {i \in I : history[i].pnl > 0}
Lost(I) == {i \in I : history[i].pnl < 0}

\* _breakdown_row.
BreakdownRow(I) ==
    [trades |-> Cardinality(I), pnl |-> Pnl(I), profit |-> Pnl(Won(I)), loss |-> -Pnl(Lost(I)),
     wins |-> Cardinality(Won(I))]

Breakdown(group) ==
    LET key(i) == _breakdown_key(history[i], group)
    IN  [k \in {key(i) : i \in Kept} |-> BreakdownRow({i \in Kept : key(i) = k})]

Dated == {i \in Kept : IsClosed(history[i])}

\* The rows of get_daily_pnl and get_period_pnl: every row with a close time in the range,
\* its end included; no other filter applies.
DailyRows ==
    {i \in TradeRows : LET p == history[i]
                  IN  IsClosed(p) /\ AtLeast(p.close, filter.from) /\ AtMost(p.close, filter.to)}

\* _closed_position_calendar_days of the first, get_daily_pnl of the second rows.
ByDay(I) ==
    [d \in {LocalDay(history[i].close) : i \in I} |->
        BreakdownRow({i \in I : LocalDay(history[i].close) = d})]

\* _closed_position_periods and get_period_pnl.
ByPeriod(I, kind) ==
    LET period(i) == PeriodOf(history[i].close, kind)
    IN  [k \in {period(i) : i \in I} |-> BreakdownRow({i \in I : period(i) = k})]

CalendarDays == ByDay(Dated)

\* The last instant before the end of the range.
LastDay == IF filter.to # Unset THEN (filter.to + Offset - 1) \div HalfDays ELSE Max(DOMAIN CalendarDays)
FirstDay == IF filter.from # Unset THEN LocalDay(filter.from) ELSE Min(DOMAIN CalendarDays)

_calendar_day_count ==
    IF DOMAIN CalendarDays = {} \/ LastDay < FirstDay THEN 0 ELSE LastDay - FirstDay + 1

-----------------------------------------------------------------------------
(***************************************************************************)
(* Orders: by close time, rows without one last, then by id.               *)
(***************************************************************************)
Before(i, j) ==
    LET a == history[i].close
        b == history[j].close
    IN  \/ a # Unset /\ (b = Unset \/ a < b)
        \/ a = b /\ i < j

SortPlace(i) == 1 + Cardinality({j \in Kept : Before(j, i)})
Chronological == [n \in 1..Cardinality(Kept) |-> CHOOSE i \in Kept : SortPlace(i) = n]

Kind(i) == CASE history[i].pnl > 0 -> "win" [] history[i].pnl < 0 -> "loss" [] OTHER -> "breakeven"

NoStreak == [kind |-> "none", len |-> 0, win |-> 0, loss |-> 0]

Longer(s, kind, len) == IF s.kind = kind /\ len > s[kind] THEN len ELSE s[kind]

Extended(s, kind, len) ==
    LET t == [s EXCEPT !.kind = kind, !.len = len]
    IN  [t EXCEPT !.win = Longer(t, "win", len), !.loss = Longer(t, "loss", len)]

\* Mutant of Continue: a trade that breaks even does not end a streak.
ContinueThrough(s, i) ==
    IF Kind(i) = "breakeven" THEN s
    ELSE Extended(s, Kind(i), IF Kind(i) = s.kind THEN s.len + 1 ELSE 1)

Continue(s, i) == Extended(s, Kind(i), IF Kind(i) = s.kind THEN s.len + 1 ELSE 1)

\* _streaks.
Streaks ==
    LET after[n \in 0..Cardinality(Kept)] ==
            IF n = 0 THEN NoStreak ELSE Continue(after[n - 1], Chronological[n])
    IN  after[Cardinality(Kept)]

Fall(s, i) ==
    LET sum == s.sum + history[i].pnl
        peak == Max({s.peak, sum})
    IN  [sum |-> sum, peak |-> peak, drop |-> Max({s.drop, peak - sum})]

\* _compute_max_drawdown; the performance route asks without a filter.
Drawdown ==
    LET after[n \in 0..Cardinality(Kept)] ==
            IF n = 0 THEN [sum |-> 0, peak |-> 0, drop |-> 0] ELSE Fall(after[n - 1], Chronological[n])
    IN  after[Cardinality(Kept)].drop

-----------------------------------------------------------------------------
\* The row a synchronised one replaces: that with its id at the exchange, or without an
\* id one of the same symbol and close time.
Existing(p) ==
    {i \in TradeRows : IF p.id # Unset THEN history[i].id = p.id
                      ELSE history[i].symbol = p.symbol /\ history[i].close = p.close}

\* _upsert_positions.
StoreTrade(p) ==
    /\ \/ \E i \in Existing(p) : history' = [history EXCEPT ![i] = p]
       \/ Existing(p) = {} /\ Len(history) < MaxTrades /\ history' = Append(history, p)
    /\ UNCHANGED filter

Ask(f) == filter' = f /\ UNCHANGED history

ClosedNext == (\E p \in ClosedTrade : StoreTrade(p)) \/ (\E f \in Filter : Ask(f))

ClosedSpec == ClosedInit /\ [][ClosedNext]_closedVars

-----------------------------------------------------------------------------
(***************************************************************************)
(* Properties.                                                             *)
(***************************************************************************)
Total(rows) ==
    [field \in {"trades", "pnl", "profit", "loss", "wins"} |->
        SumFunction([k \in DOMAIN rows |-> rows[k][field]])]

\* Every breakdown accounts for each trade of the overview once, rows with missing
\* leverage or duration included (_closed_position_breakdown).
PartsAddUp == \A group \in Group : Total(Breakdown(group)) = BreakdownRow(Kept)

\* The days of the calendar make up the periods of each kind, in local time: none
\* of their results falls in another period (_closed_position_periods).  The same holds of
\* the daily figures and their periods (get_daily_pnl, get_period_pnl).
DaysMakePeriods ==
    \A I \in {Dated, DailyRows}, kind \in DOMAIN DaysOf :
        \A k \in DOMAIN ByPeriod(I, kind) :
            ByPeriod(I, kind)[k].pnl =
                SumFunctionOnSet([d \in DOMAIN ByDay(I) |-> ByDay(I)[d].pnl],
                                 {d \in DOMAIN ByDay(I) : d \div DaysOf[kind] = k})

\* A row that meets every bound that can be judged on it is either shown or counted
\* as excluded (_filter_closed_positions, excluded_reasons).
NoneLostSilently ==
    \A i \in TradeRows :
        LET p == history[i]
        IN  /\ InRange(p) /\ Matches(p)
            /\ NoLeverage(p) \/ LeverageFits(p)
            /\ NoDuration(p) \/ DurationFits(p)
            => i \in Kept \cup Missing

\* Over a range, the calendar days are those local days that have an instant of it.
CalendarIsRange ==
    filter.from # Unset /\ filter.to > filter.from /\ Dated # {}
    => _calendar_day_count = Cardinality({LocalDay(t) : t \in filter.from..filter.to - 1})

Stretches == {x \in (DOMAIN Chronological) \X (DOMAIN Chronological) : x[1] <= x[2]}

RunsOf(kind) == {x \in Stretches : \A n \in x[1]..x[2] : Kind(Chronological[n]) = kind}

\* The longest streaks are the longest runs of wins and of losses.
StreakIsRun ==
    \A kind \in {"win", "loss"} :
        Streaks[kind] = Max({0} \cup {x[2] - x[1] + 1 : x \in RunsOf(kind)})

Gained(x) ==
    SumFunctionOnSet([n \in DOMAIN Chronological |-> history[Chronological[n]].pnl], x[1]..x[2])

\* The drawdown is the most that was lost over any stretch of trades.
DrawdownIsWorstDrop ==
    Drawdown = Max({0} \cup {-Gained(x) : x \in Stretches})

\* What every answer of the closed-position analytics satisfies, whatever rows are stored
\* and whatever is asked: the parts add up, no row is lost uncounted, the calendar is the
\* range, streaks and drawdown are what they claim.
ClosedInv ==
    /\ ClosedTypeOK
    /\ PartsAddUp
    /\ DaysMakePeriods
    /\ NoneLostSilently
    /\ CalendarIsRange
    /\ StreakIsRun
    /\ DrawdownIsWorstDrop

=============================================================================
