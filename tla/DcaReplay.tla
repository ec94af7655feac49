------------------------------- MODULE DcaReplay -------------------------------
(***************************************************************************)
(* The DCA validation of one symbol: what the DCA rules would have done    *)
(* with the position held now over the scans that were stored (services/   *)
(* dca_validation_reconstruction.py), and the route that answers with it   *)
(* under a time budget (routes/dca_validation.py).                         *)
(*                                                                         *)
(* Scans are stored as time goes by.  A request reads the position and the *)
(* scans in two queries; when its budget is over it is answered with what  *)
(* an earlier request of the same parameters computed.                     *)
(*                                                                         *)
(* Fees and slippage are counted in ten-thousandths of the price unit, the *)
(* rounding to cents is left out.                                          *)
(***************************************************************************)
EXTENDS DcaMetrics, OrderedRows

CONSTANTS
    Validator,          \* the requests that may be under way
    Scan,               \* what a stored scan says: direction of its plan, daily RSI, mark price
    HeldSide,           \* sides the position takes over time, "none" when there is none
    Notional,           \* margin of the position, a multiple of 5 times every mark price
    RequestEnd,         \* the end dates asked for
    ScanGap,            \* time between two scans, in hours
    MaxScans, MaxSideChanges

METHOD_GAP_HOURS == 48
MIN_USABLE_SCANS == 2
SLIPPAGE == 5           \* ten-thousandths
FEE == 4
NoReading == -1
OpenEnd == -1

ASSUME ReplayAssumption ==
    /\ Scan \subseteq [direction: {"LONG", "SHORT", "none"}, rsi: Nat \cup {NoReading}, mark: Nat \cup {NoReading}]
    /\ HeldSide \subseteq {"LONG", "SHORT", "none"}
    /\ ScanGap \subseteq Nat \ {0}
    /\ Notional \in Nat \ {0} /\ Notional % 5 = 0
    /\ \A s \in Scan : s.mark > 0 => Notional % (5 * s.mark) = 0

VARIABLES
    storedScans,        \* Analysis rows of the symbol, the oldest first, each with its time
    held,               \* side of the position row
    sideChanges,
    validations,        \* per request: how far it is and what it has read
    lastCompleted       \* _LAST_COMPLETED: per end date asked for, the payload computed last and
                        \* (ghost) the end date it was computed for

replayVars == <<storedScans, held, sideChanges, validations, lastCompleted>>

Newest == IF storedScans = <<>> THEN 0 ELSE Last(storedScans).at

-----------------------------------------------------------------------------
(***************************************************************************)
(* The scans that can be used.                                             *)
(***************************************************************************)
_skip(scan, side) ==
    CASE side = "none" -> "missing_position_context"
      [] scan.direction = "none" -> "missing_trade_plan"
      [] scan.rsi = NoReading -> "missing_rsi"
      [] scan.mark = NoReading -> "missing_mark_price"
      [] OTHER -> "usable"

CanUse(scans, side) == {i \in DOMAIN scans : _skip(scans[i], side) = "usable"}
Usable(scans, side) == Selected(scans, CanUse(scans, side))
Skipped(scans, side) == Cardinality((DOMAIN scans) \ CanUse(scans, side))
Until(scans, end) == Selected(scans, {i \in DOMAIN scans : end = OpenEnd \/ scans[i].at <= end})

-----------------------------------------------------------------------------
(***************************************************************************)
(* The simulation over consecutive scans.                                  *)
(***************************************************************************)
Thresholds(side) == IF side = "LONG" THEN <<30, 24, 16>> ELSE <<80, 92, 95>>

_crossed(side, before, now, threshold) ==
    IF side = "LONG" THEN before > threshold /\ threshold >= now ELSE before < threshold /\ threshold <= now

CrossedLevels(side, acc, before, now) ==
    {l \in LadderLevel : l \notin acc.filled /\ _crossed(side, before.rsi, now.rsi, Thresholds(side)[l])}

Event(scan, recommendation) == [at |-> scan.at, recommendation |-> recommendation]

Fill(level, before, scan) ==
    LET notional == (Notional * ALLOCATION_PERCENT[level]) \div 100
    IN  [level |-> level, at |-> scan.at, mark |-> scan.mark, notional |-> notional,
         quantity |-> IF scan.mark = 0 THEN 0 ELSE notional \div scan.mark, assumed |-> scan.at - before.at > METHOD_GAP_HOURS]

\* Mutant of SimulateStep: an opposed scan leaves the position open, the replay goes on.
SimulateStepNoBreak(side, acc, before, now) ==
    LET crossed == CrossedLevels(side, acc, before, now)
    IN  CASE now.direction # side /\ acc.fills # <<>> ->
                 [acc EXCEPT !.events = Append(@, Event(now, "CLOSE")), !.close = <<now>>]
          [] now.direction # side \/ crossed = {} -> [acc EXCEPT !.events = Append(@, Event(now, "HOLD"))]
          [] OTHER ->
                 [acc EXCEPT !.events = Append(@, Event(now, "ADD")), !.filled = @ \cup {Min(crossed)},
                             !.fills = Append(@, Fill(Min(crossed), before, now))]

\* An opposed scan closes what has been filled and ends the replay.
SimulateStep(side, acc, before, now) ==
    LET crossed == CrossedLevels(side, acc, before, now)
    IN  CASE acc.close # <<>> -> acc
          [] acc.close = <<>> /\ now.direction # side /\ acc.fills # <<>> ->
                 [acc EXCEPT !.events = Append(@, Event(now, "CLOSE")), !.close = <<now>>]
          [] acc.close = <<>> /\ ((now.direction # side /\ acc.fills = <<>>)
                                  \/ (now.direction = side /\ crossed = {})) ->
                 [acc EXCEPT !.events = Append(@, Event(now, "HOLD"))]
          [] acc.close = <<>> /\ now.direction = side /\ crossed # {} ->
                 [acc EXCEPT !.events = Append(@, Event(now, "ADD")), !.filled = @ \cup {Min(crossed)},
                             !.fills = Append(@, Fill(Min(crossed), before, now))]

NothingYet == [events |-> <<>>, fills |-> <<>>, filled |-> {}, close |-> <<>>]

_simulate_events(side, scans) ==
    IF Len(scans) < MIN_USABLE_SCANS THEN NothingYet
    ELSE LET run[i \in 1..Len(scans)] ==
                 IF i = 1 THEN NothingYet ELSE SimulateStep(side, run[i - 1], scans[i - 1], scans[i])
         IN  run[Len(scans)]

\* Profit of the fills at the closing scan, or at the last one, in ten-thousandths.
Valuation(run, scans) == IF run.close # <<>> THEN run.close[1] ELSE Last(scans)

_raw_pnl(side, fill, mark) == fill.quantity * (IF side = "LONG" THEN mark - fill.mark ELSE fill.mark - mark)

ReplayPnl(side, run, scans) ==
    IF run.fills = <<>> THEN [gross |-> 0, fees |-> 0, slippage |-> 0, net |-> 0]
    ELSE LET mark == Valuation(run, scans).mark
             moved == NetTotal([i \in DOMAIN run.fills |-> run.fills[i].notional + run.fills[i].quantity * mark])
             gross == 10000 * NetTotal([i \in DOMAIN run.fills |-> _raw_pnl(side, run.fills[i], mark)])
         IN  [gross |-> gross, fees |-> FEE * moved, slippage |-> SLIPPAGE * moved,
              net |-> gross - FEE * moved - SLIPPAGE * moved]

_entry_fill_price(side, mark) == mark * (IF side = "LONG" THEN 10000 + SLIPPAGE ELSE 10000 - SLIPPAGE)
_exit_fill_price(side, mark) == mark * (IF side = "LONG" THEN 10000 - SLIPPAGE ELSE 10000 + SLIPPAGE)

\* The answer for one symbol, and the trade the metrics take from it.
_coverage_for_symbol(side, scans) ==
    LET usable == Usable(scans, side)
        run == _simulate_events(side, usable)
    IN  [side |-> side, scans |-> Len(usable), skipped |-> Skipped(scans, side),
         status |-> IF Len(usable) >= MIN_USABLE_SCANS THEN "metrics_available" ELSE "insufficient_history",
         events |-> run.events, fills |-> run.fills, closed |-> run.close # <<>>,
         mark |-> IF run.fills = <<>> THEN 0 ELSE Valuation(run, usable).mark,
         end |-> IF run.fills = <<>> THEN 0 ELSE Valuation(run, usable).at,
         gap |-> \E i \in 2..Len(usable) : usable[i].at - usable[i - 1].at > METHOD_GAP_HOURS,
         pnl |-> IF side = "none" THEN ReplayPnl("LONG", NothingYet, usable) ELSE ReplayPnl(side, run, usable)]

_trade_from_coverage(c) ==
    [net |-> c.pnl.net, start |-> c.fills[1].at, end |-> c.end,
     notional |-> NetTotal([i \in DOMAIN c.fills |-> c.fills[i].notional]),
     levels |-> {c.fills[i].level : i \in DOMAIN c.fills}]

CoverageTrades(c) == IF c.fills = <<>> THEN <<>> ELSE << _trade_from_coverage(c) >>

\* The metrics always hold a portfolio: the answer says that there are metrics, whatever was found.
Payload(side, scans) ==
    LET coverage == _coverage_for_symbol(side, scans)
    IN  [state |-> "metrics_available", coverage |-> coverage, trades |-> CoverageTrades(coverage)]

-----------------------------------------------------------------------------
(***************************************************************************)
(* The route.                                                              *)
(***************************************************************************)
NoValidation == [at |-> "idle"]
NotCompleted == <<>>

ReplayInit ==
    /\ storedScans = <<>>
    /\ held \in HeldSide
    /\ sideChanges = 0
    /\ validations = [v \in Validator |-> NoValidation]
    /\ lastCompleted = [end \in {OpenEnd} |-> NotCompleted]

StoreScan(scan, gap) ==
    /\ Len(storedScans) < MaxScans
    /\ storedScans' = Append(storedScans, [at |-> Newest + gap, direction |-> scan.direction,
                                           rsi |-> scan.rsi, mark |-> scan.mark])
    /\ UNCHANGED <<held, sideChanges, validations, lastCompleted>>

\* A synchronisation of the portfolio finds the position turned, opened or gone.
HoldOther(side) ==
    /\ sideChanges < MaxSideChanges
    /\ side # held
    /\ held' = side
    /\ sideChanges' = sideChanges + 1
    /\ UNCHANGED <<storedScans, validations, lastCompleted>>

get_dca_validation(v, end) ==
    /\ validations[v].at = "idle"
    /\ validations' = [validations EXCEPT ![v] = [at |-> "positions", end |-> end]]
    /\ UNCHANGED <<storedScans, held, sideChanges, lastCompleted>>

_load_positions(v) ==
    /\ validations[v].at = "positions"
    /\ validations' = [validations EXCEPT ![v] = [at |-> "analyses", end |-> @.end, side |-> held]]
    /\ UNCHANGED <<storedScans, held, sideChanges, lastCompleted>>

_load_analyses(v) ==
    /\ validations[v].at = "analyses"
    /\ LET run == validations[v]
       IN  validations' = [validations EXCEPT ![v] =
               [at |-> "computed", end |-> run.end, payload |-> Payload(run.side, Until(storedScans, run.end))]]
    /\ UNCHANGED <<storedScans, held, sideChanges, lastCompleted>>

_cache_key(end) == end

Complete(v) ==
    /\ validations[v].at = "computed"
    /\ LET run == validations[v]
           key == _cache_key(run.end)
       IN  /\ lastCompleted' = [k \in (DOMAIN lastCompleted) \cup {key} |->
                                   IF k = key THEN <<run.payload, run.end>> ELSE lastCompleted[k]]
           /\ validations' = [validations EXCEPT ![v] = NoValidation]
    /\ UNCHANGED <<storedScans, held, sideChanges>>

\* The budget is over: the computation is cancelled, the answer is what was completed last, if anything.
Timeout(v) ==
    /\ validations[v].at \in {"positions", "analyses", "computed"}
    /\ LET run == validations[v]
           key == _cache_key(run.end)
       IN  validations' = [validations EXCEPT ![v] =
               [at |-> "reconstructing", end |-> run.end,
                payload |-> IF key \in DOMAIN lastCompleted THEN lastCompleted[key] ELSE NotCompleted]]
    /\ UNCHANGED <<storedScans, held, sideChanges, lastCompleted>>

Answered(v) ==
    /\ validations[v].at = "reconstructing"
    /\ validations' = [validations EXCEPT ![v] = NoValidation]
    /\ UNCHANGED <<storedScans, held, sideChanges, lastCompleted>>

ReplayNext ==
    \/ \E scan \in Scan, gap \in ScanGap : StoreScan(scan, gap)
    \/ \E side \in HeldSide : HoldOther(side)
    \/ \E v \in Validator :
           \/ \E end \in RequestEnd : get_dca_validation(v, end)
           \/ _load_positions(v) \/ _load_analyses(v) \/ Complete(v) \/ Timeout(v) \/ Answered(v)

ReplaySpec == ReplayInit /\ [][ReplayNext]_replayVars

-----------------------------------------------------------------------------
(***************************************************************************)
(* Properties.                                                             *)
(***************************************************************************)
Replayed(scans) == _coverage_for_symbol(held, scans)

\* A level is filled once, in a scan of the position's own direction.  What is filled never exceeds the
\* margin of the position at the mark prices; at the fill prices it costs more than that by no more
\* than the slippage, since the quantity is the notional over the mark (_simulate_events).
FillsAreBounded(c) ==
    /\ \A i, j \in DOMAIN c.fills : i # j => c.fills[i].level # c.fills[j].level
    /\ \A i \in DOMAIN c.fills :
           \E k \in DOMAIN storedScans : storedScans[k].at = c.fills[i].at /\ storedScans[k].direction = c.side
    /\ NetTotal([i \in DOMAIN c.fills |-> c.fills[i].notional]) <= Notional
    /\ NetTotal([i \in DOMAIN c.fills |-> c.fills[i].quantity * _entry_fill_price(c.side, c.fills[i].mark)])
           <= (10000 + SLIPPAGE) * Notional

\* A close is the last event and closes something; each pair of scans before it has one event
\* (_simulate_events).
CloseIsLast(c) ==
    /\ \A i \in DOMAIN c.events : c.events[i].recommendation = "CLOSE" =>
           i = Len(c.events) /\ c.fills # <<>> /\ c.fills[1].at < c.events[i].at
    /\ c.status = "metrics_available" /\ ~c.closed => Len(c.events) = c.scans - 1

\* The profit reported is the one the reported fill prices give, less the fees, unless a scan had the
\* price zero and nothing was bought for the notional (_entry_fill_price, _exit_fill_price, _raw_pnl).
PricesExplainProfit(c) ==
    c.fills # <<>> /\ (\A i \in DOMAIN c.fills : c.fills[i].mark > 0) =>
        c.pnl.net + c.pnl.fees =
            NetTotal([i \in DOMAIN c.fills |->
                LET paid == _entry_fill_price(c.side, c.fills[i].mark)
                    got == _exit_fill_price(c.side, c.mark)
                IN  c.fills[i].quantity * (IF c.side = "LONG" THEN got - paid ELSE paid - got)])

\* What the replay of the scans decided before the newest one was stored, it still decides with it: later
\* scans never rewrite earlier events, as long as the position keeps its side (_coverage_for_symbol).
LaterScansAddOnly(c) ==
    storedScans # <<>> =>
        LET before == Replayed(Front(storedScans))
        IN  IsPrefix(before.events, c.events) /\ IsPrefix(before.fills, c.fills)

\* A request that ran out of time is shown only what was computed for the dates it asks for (_cache_key).
TimeoutShowsOwn ==
    \A v \in Validator :
        validations[v].at = "reconstructing" /\ validations[v].payload # NotCompleted =>
            validations[v].payload[2] = validations[v].end

\* The trades the metrics judge are within what the metrics assume.
TradesAreSound(c) ==
    \A t \in Range(CoverageTrades(c)) : t.start <= t.end /\ t.notional > 0 /\ t.levels # {}

\* The DCA validation is right: the properties above, and that of the metrics.
ReplayInv ==
    /\ LET c == Replayed(storedScans)
       IN  /\ FillsAreBounded(c) /\ CloseIsLast(c)
           /\ PricesExplainProfit(c) /\ TradesAreSound(c)
           /\ LaterScansAddOnly(c)
    /\ TimeoutShowsOwn
    /\ MetricsInv
===============================================================================
