------------------------------ MODULE DcaAdvice ------------------------------
(***************************************************************************)
(* What the backend says about an open position when a scan of its pair    *)
(* has ended: the DCA engine (dca_service.py), the position alerts         *)
(* (position_alert_service.py) and the Position Desk (position_desk_       *)
(* service.py).  They read one scan, each by rules of its own; the         *)
(* properties say where their answers must agree.                          *)
(*                                                                         *)
(* The scan is module ScanPipeline; it may be a cached one, so a position  *)
(* of any price meets it.  A scan that failed is "failed".  run_scan keeps *)
(* patterns under a key _patterns does not read: none opposes.             *)
(***************************************************************************)
EXTENDS ScanPipeline

CONSTANTS
    Position        \* open positions: side, mark and entry price, profit in percent, liquidation price,
                    \* with the daily RSI of the pair and whether a band squeezes on some timeframe

NoRsi == -1

ASSUME AdviceAssumption ==
    Position \subseteq [side: Direction \cup {"other"}, mark: Nat, entry: Nat \ {0}, pnl: Int,
                        liquidation: Nat, rsi: Nat, squeeze: BOOLEAN]

HasScan == step = "done"
Scanned == step \in {"done", "failed"}

\* A timeframe without indicators has no reading.
Rsi(p) == IF "daily" \in indicators THEN p.rsi ELSE NoRsi
Squeezes(p) == p.squeeze /\ indicators \cap MomentumFrames # {}

Mark(p) == IF p.mark > 0 THEN p.mark ELSE p.entry
Sided(p) == p.side \in Direction
Opposite(p) == IF p.side = "LONG" THEN "SHORT" ELSE "LONG"

-----------------------------------------------------------------------------
(***************************************************************************)
(* Signals against a position.                                             *)
(***************************************************************************)
AgainstColour(p) == IF p.side = "LONG" THEN "RED" ELSE "GREEN"
WithColour(p) == IF p.side = "LONG" THEN "GREEN" ELSE "RED"
AgainstZones(p) == IF p.side = "LONG" THEN Bearish ELSE Bullish

AgainstMomentum(p) == {tf \in MomentumFrames : Trend(tf) = AgainstColour(p)}
AgainstStructure(p) == {tf \in StructureFrames : labels[tf] \in AgainstZones(p)}
Conflicts(p) == Cardinality(AgainstMomentum(p)) + Cardinality(AgainstStructure(p))

NearLiquidation(p, percent) ==
    p.liquidation > 0 /\ Gap(Mark(p), p.liquidation) * 100 < percent * Mark(p)

AgainstRegime(p) == (p.side = "LONG" /\ band = "bear") \/ (p.side = "SHORT" /\ band = "bull")

-----------------------------------------------------------------------------
(***************************************************************************)
(* The DCA engine.                                                         *)
(***************************************************************************)
\* What the engine reads of a scan besides its signals: score and trade plan.
Plan ==
    IF HasScan /\ TradeDecision
    THEN [score |-> Score, direction |-> ScanDirection, low |-> EntryBlock.low, high |-> EntryBlock.high,
          tp1 |-> PriceLevels.tp1]
    ELSE [score |-> IF HasScan THEN Score ELSE 0, direction |-> NoDirection, low |-> 1, high |-> 0, tp1 |-> 0]

HasZone(plan) == plan.direction # NoDirection
InZone(p, plan) == plan.low <= Mark(p) /\ Mark(p) <= plan.high
AtFirstTarget(p, plan) ==
    HasZone(plan) /\ Gap(Mark(p), plan.tp1) * 100 < 2 * plan.tp1 /\ Mark(p) * 100 >= 98 * plan.tp1

Aligned(p) == \E tf \in MomentumFrames : Trend(tf) = WithColour(p)

RsiThresholds(p) == IF p.side = "LONG" THEN <<30, 24, 16>> ELSE <<80, 92, 95>>

Reached(p, i) ==
    /\ Rsi(p) # NoRsi
    /\ IF p.side = "LONG" THEN Rsi(p) <= RsiThresholds(p)[i] ELSE Rsi(p) >= RsiThresholds(p)[i]

\* The first pending entry of the ladder, 0 when all are filled.
NextEntry(p) ==
    LET pending == {i \in 1..3 : ~Reached(p, i)}
    IN  IF pending = {} THEN 0 ELSE Min(pending)

Oversold(p) ==
    Rsi(p) # NoRsi /\ IF p.side = "LONG" THEN Rsi(p) <= 35 ELSE Rsi(p) >= 65

Rule(reason, when, action) == [reason |-> reason, when |-> when, action |-> action]

\* Mutant of Rules: the zone is looked at before the direction of the scan.
RulesZoneFirst(p, plan) ==
    << Rule("unknown side", ~Sided(p), "HOLD"),
       Rule("liquidation", NearLiquidation(p, 2), "CLOSE"),
       Rule("no scan", ~HasScan, "HOLD"),
       Rule("doubled", p.pnl >= 100, "REDUCE"),
       Rule("first target", AtFirstTarget(p, plan), "REDUCE"),
       Rule("oversold in zone", InZone(p, plan) /\ Oversold(p), "ADD"),
       Rule("in zone", InZone(p, plan), IF Rsi(p) = NoRsi THEN "error" ELSE "ADD"),
       Rule("reversed", plan.direction = Opposite(p) /\ Conflicts(p) >= 3, "CLOSE"),
       Rule("below band", p.side = "LONG" /\ band = "bear", "REDUCE"),
       Rule("momentum", {"daily", "4h"} \subseteq AgainstMomentum(p), "REDUCE"),
       Rule("squeeze", Squeezes(p), "HOLD"),
       Rule("not aligned", ~Aligned(p), "HOLD"),
       Rule("score", plan.score < SCORE_TRADE_THRESHOLD, "HOLD"),
       Rule("wait", TRUE, "HOLD") >>

\* The rules of evaluate_dca in their order.  The reason of an ADD that is not backed by
\* the RSI prints the RSI: without one the evaluation raises.
Rules(p, plan) ==
    << Rule("unknown side", ~Sided(p), "HOLD"),
       Rule("liquidation", NearLiquidation(p, 2), "CLOSE"),
       Rule("no scan", ~HasScan, "HOLD"),
       Rule("doubled", p.pnl >= 100, "REDUCE"),
       Rule("first target", AtFirstTarget(p, plan), "REDUCE"),
       Rule("reversed", plan.direction = Opposite(p) /\ Conflicts(p) >= 3, "CLOSE"),
       Rule("below band", p.side = "LONG" /\ band = "bear", "REDUCE"),
       Rule("momentum", {"daily", "4h"} \subseteq AgainstMomentum(p), "REDUCE"),
       Rule("squeeze", Squeezes(p), "HOLD"),
       Rule("not aligned", ~Aligned(p), "HOLD"),
       Rule("score", plan.score < SCORE_TRADE_THRESHOLD, "HOLD"),
       Rule("oversold in zone", InZone(p, plan) /\ Oversold(p), "ADD"),
       Rule("in zone", InZone(p, plan), IF Rsi(p) = NoRsi THEN "error" ELSE "ADD"),
       Rule("wait", TRUE, "HOLD") >>

evaluate_dca(p, plan) ==
    LET rules == Rules(p, plan)
    IN  rules[Min({i \in DOMAIN rules : rules[i].when})]

\* The zone and the ladder are filled in before the first rule that needs the scan.
DcaZone(reason, plan) == reason \notin {"unknown side", "liquidation", "no scan"} /\ HasZone(plan)

-----------------------------------------------------------------------------
(***************************************************************************)
(* The position alerts.                                                    *)
(***************************************************************************)
SignalsFor(zones, colour) ==
    Cardinality({tf \in MomentumFrames : Trend(tf) = colour})
    + Cardinality({tf \in StructureFrames : labels[tf] \in zones})

\* _infer_scan_direction: without the band and the entry zone.
Inferred ==
    LET bull == SignalsFor(Bullish, "GREEN")
        bear == SignalsFor(Bearish, "RED")
    IN  CASE bull > bear + 1 -> "LONG"
          [] bear > bull + 1 -> "SHORT"
          [] OTHER -> NoDirection

AlertOf(type, severe) == [type |-> type, severity |-> IF severe THEN "DANGER" ELSE "WARNING"]

LiquidationAlerts(p) ==
    {AlertOf("LIQ_DISTANCE", NearLiquidation(p, 2)) : x \in {y \in {p} : NearLiquidation(y, 5)}}
MomentumAlerts(p) ==
    {AlertOf("QQE_FLIP", signals[tf] \in {"GREEN-STRONG", "RED-STRONG"}) : tf \in AgainstMomentum(p)}
StructureAlerts(p) == {AlertOf("STRUCTURE", tf = "daily") : tf \in AgainstStructure(p)}
ConfluenceAlerts(p) ==
    {AlertOf("CONFLUENCE", Conflicts(p) >= 3) : x \in {y \in {p} : Inferred = Opposite(y)}}

evaluate_position_alerts(p) ==
    IF ~Sided(p) THEN {}
    ELSE LiquidationAlerts(p)
         \cup IF HasScan THEN MomentumAlerts(p) \cup StructureAlerts(p) \cup ConfluenceAlerts(p) ELSE {}

Severities(alerts) == {a.severity : a \in alerts}
InDanger(p) == "DANGER" \in Severities(evaluate_position_alerts(p))

-----------------------------------------------------------------------------
(***************************************************************************)
(* The Position Desk.                                                      *)
(***************************************************************************)
\* What the ruling of _compose_ruling is about.
Ruling(p, advice, plan) ==
    LET action == advice.action
    IN  CASE ~HasScan -> "no data"
          [] HasScan /\ action = "CLOSE" -> "close"
          [] HasScan /\ action = "REDUCE" /\ AgainstRegime(p) -> "wrong side of the band"
          [] HasScan /\ action = "REDUCE" /\ ~AgainstRegime(p) /\ advice.reason = "doubled" -> "withdraw"
          [] HasScan /\ action = "REDUCE" /\ ~AgainstRegime(p) /\ advice.reason = "first target" -> "take profit"
          [] HasScan /\ action = "REDUCE" /\ ~AgainstRegime(p)
                /\ advice.reason \notin {"doubled", "first target"} -> "momentum flipped"
          [] HasScan /\ action = "ADD" -> "add in zone"
          [] HasScan /\ action = "HOLD" /\ AgainstRegime(p) -> "no adds against the regime"
          [] HasScan /\ action = "HOLD" /\ ~AgainstRegime(p) /\ DcaZone(advice.reason, plan) -> "hold, add in zone"
          [] OTHER -> "hold"

Alignment(p) ==
    CASE ~HasScan -> "NO_DATA"
      [] HasScan /\ (~Sided(p) \/ band = "none") -> "MIXED"
      [] HasScan /\ Sided(p) /\ band # "none" -> IF AgainstRegime(p) THEN "COUNTER_REGIME" ELSE "ALIGNED"

-----------------------------------------------------------------------------
(***************************************************************************)
(* Properties.                                                             *)
(***************************************************************************)
\* More is only put into a position that the scan is for: a zone of its own direction, no
\* alert at DANGER, a weekly band on its side (evaluate_dca and evaluate_position_alerts
\* judge apart).  The engine reads no stop, yet the price has not passed that of the plan:
\* always for a LONG, for a SHORT when the zone ends before its stop.
AddIsBacked(p, advice) ==
    advice.action = "ADD" =>
        /\ ScanDirection = p.side /\ ~AgainstRegime(p) /\ ~InDanger(p)
        /\ Conflicts(p) = 0
        /\ p.side = "LONG" => Mark(p) > PriceLevels.stop
        /\ p.side = "SHORT" /\ EntryBlock.high < PriceLevels.stop => Mark(p) < PriceLevels.stop

\* A position the engine closes is in danger for the alerts as well, which are what
\* reaches the user's phone.
CloseIsDanger(p, advice) == advice.action = "CLOSE" => InDanger(p)

\* A zone the desk names for adding is one of the position's direction, and the
\* momentum it blames has flipped.
RulingIsTrue(p, advice, plan) ==
    LET ruling == Ruling(p, advice, plan)
    IN  /\ ruling \in {"add in zone", "hold, add in zone"} => ScanDirection = p.side
        /\ ruling = "momentum flipped" => Cardinality(AgainstMomentum(p)) >= 2
        /\ ruling = "wrong side of the band" => Alignment(p) = "COUNTER_REGIME"

\* The ladder is filled in order, and what is next lies deeper than the RSI is.
LadderInOrder(p) ==
    LET next == NextEntry(p)
    IN  /\ \A i, j \in 1..3 : i < j /\ Reached(p, j) => Reached(p, i)
        /\ next # 0 /\ Rsi(p) # NoRsi =>
               IF p.side = "LONG" THEN RsiThresholds(p)[next] < Rsi(p) ELSE RsiThresholds(p)[next] > Rsi(p)

\* The engine, the alerts and the desk agree about every position a scan may meet: adds are backed, closes are in danger, rulings are true, the ladder is in order.
DcaInv ==
    Scanned =>
        LET plan == Plan
        IN  \A p \in Position :
                LET advice == evaluate_dca(p, plan)
                IN  /\ AddIsBacked(p, advice) /\ CloseIsDanger(p, advice) /\ RulingIsTrue(p, advice, plan)
                    /\ Sided(p) => LadderInOrder(p)

\* Every position gets an answer.  Does not hold: in the zone, aligned, without a daily RSI
\* the evaluation raises, and with it the whole list of positions.
EveryPositionAnswered ==
    Scanned => \A p \in Position : evaluate_dca(p, Plan).action # "error"

=============================================================================
