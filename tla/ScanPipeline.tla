----------------------------- MODULE ScanPipeline -----------------------------
(***************************************************************************)
(* One analysis of a pair: run_scan of src/backend/services/               *)
(* analysis_service.py with the confluence score, the trade plan and the   *)
(* verdict of src/mirai_core.  Every step catches its own failure and the  *)
(* scan goes on without it; only a scan without any candle ends.           *)
(*                                                                         *)
(* What the indicators compute is a free choice of their outcomes, but for *)
(* the weekly band: with fewer than twenty weekly candles its value is not *)
(* a number, no price is above it, and the regime reads "bear".  Prices    *)
(* are whole units, Cent of which make a cent.  The cache around a scan is *)
(* module ScanCache.                                                       *)
(***************************************************************************)
EXTENDS Integers, Sequences, FiniteSets, FiniteSetsExt

CONSTANTS
    Fetched,            \* the sets of timeframes that may have candles
    Label, Signal,      \* outcomes of classify_structure and compute_qqe that matter
    Block,              \* order blocks SMC may find
    MaxBlocks,          \* bound: order blocks of a scan
    SpotPrice, Atr,     \* daily close; average true range, 0 if it cannot be computed
    Cent,
    MaxStepFailures     \* bound: steps that fail

Timeframe == {"weekly", "daily", "4h", "1h", "15m"}
StructureFrames == {"weekly", "daily", "4h"}
MomentumFrames == {"daily", "4h", "1h"}
Direction == {"LONG", "SHORT"}

ASSUME ScanAssumption ==
    /\ Fetched \subseteq SUBSET Timeframe
    /\ Label \subseteq {"HH", "HL", "LH", "LL", "unknown"}
    /\ Signal \subseteq {"GREEN", "GREEN-STRONG", "RED", "RED-STRONG", "Neutral"}
    /\ Block \subseteq [type: {"bullish", "bearish"}, low: Nat, high: Nat]
    /\ {SpotPrice, Cent} \subseteq Nat \ {0} /\ {Atr, MaxBlocks, MaxStepFailures} \subseteq Nat

VARIABLES
    step,           \* the step that comes next
    frames,         \* timeframes with candles
    indicators,     \* timeframes with indicators
    mature,         \* whether the weekly band had the twenty candles it needs
    band,           \* weekly Bull Market Support Band: bull, bear or none
    labels,         \* structure by timeframe
    signals,        \* QQE by timeframe
    blocks,         \* order blocks
    soft,           \* scored signals that hold besides those of the entry
    broken,         \* which of score, plan and verdict failed
    stepFailures

scanVars ==
    <<step, frames, indicators, mature, band, labels, signals, blocks, soft, broken, stepFailures>>

Steps == <<"fetch", "indicators", "qqe", "smc", "structure", "score">>

ScanTypeOK ==
    /\ step \in {Steps[i] : i \in DOMAIN Steps} \cup {"done", "failed"}
    /\ indicators \subseteq frames /\ frames \subseteq Timeframe
    /\ mature \in BOOLEAN /\ band \in {"bull", "bear", "none"}
    /\ (band # "none" => "weekly" \in indicators) /\ (band = "bull" => mature)
    /\ broken \subseteq {"score", "plan", "verdict"} /\ ("score" \in broken => soft = {})
    /\ labels \in [StructureFrames -> Label \cup {"unknown"}]
    /\ signals \in [MomentumFrames -> Signal \cup {"error"}]
    /\ \A tf \in StructureFrames \ frames : labels[tf] = "unknown"
    /\ \A tf \in MomentumFrames \ frames : signals[tf] = "error"
    /\ blocks \subseteq Block /\ (blocks # {} => "4h" \in frames)

ScanInit ==
    /\ step = "fetch" /\ frames = {} /\ indicators = {} /\ mature = FALSE /\ band = "none"
    /\ labels = [tf \in StructureFrames |-> "unknown"]
    /\ signals = [tf \in MomentumFrames |-> "error"]
    /\ blocks = {} /\ soft = {} /\ broken = {} /\ stepFailures = 0

-----------------------------------------------------------------------------
(***************************************************************************)
(* Direction and price levels.                                             *)
(***************************************************************************)
Bullish == {"HH", "HL"}
Bearish == {"LH", "LL"}

\* _extract_qqe_signals; a failed or missing timeframe is neutral.
Trend(tf) ==
    CASE signals[tf] \in {"GREEN", "GREEN-STRONG"} -> "GREEN"
      [] signals[tf] \in {"RED", "RED-STRONG"} -> "RED"
      [] OTHER -> "NEUTRAL"

NoDirection == "NEUTRAL"

\* Mutant of ScanDirection: a timeframe that says nothing does not object.
ScanDirectionUnopposed ==
    IF /\ band = "bull" /\ \A tf \in StructureFrames : labels[tf] \notin Bearish
       /\ \A tf \in MomentumFrames : Trend(tf) # "RED"
    THEN "LONG"
    ELSE IF /\ band = "bear" /\ \A tf \in StructureFrames : labels[tf] \in Bearish
            /\ \A tf \in MomentumFrames : Trend(tf) = "RED"
         THEN "SHORT" ELSE NoDirection

\* _determine_trade_direction.
ScanDirection ==
    IF /\ band = "bull" /\ \A tf \in StructureFrames : labels[tf] \in Bullish
       /\ \A tf \in MomentumFrames : Trend(tf) = "GREEN"
    THEN "LONG"
    ELSE IF /\ band = "bear" /\ \A tf \in StructureFrames : labels[tf] \in Bearish
            /\ \A tf \in MomentumFrames : Trend(tf) = "RED"
         THEN "SHORT" ELSE NoDirection

Distance(b, direction) ==
    LET d == IF direction = "LONG" THEN SpotPrice - b.high ELSE b.low - SpotPrice
    IN  IF d > 0 THEN d ELSE 0

\* Order blocks of the direction within 3 % of the price, in reach from the right side.
CandidatesFor(direction) ==
    {b \in blocks : /\ "daily" \in frames
                    /\ b.type = (IF direction = "LONG" THEN "bullish" ELSE "bearish")
                    /\ IF direction = "LONG" THEN b.low <= SpotPrice ELSE b.high >= SpotPrice
                    /\ Distance(b, direction) * 100 <= 3 * SpotPrice}

Candidates == CandidatesFor(ScanDirection)

EntryActionable == ScanDirection # NoDirection /\ Candidates # {}

\* The least of the tuples (distance, low, high).
NearestBlock(S, direction) ==
    LET least(a, b) ==
            LET da == Distance(a, direction) db == Distance(b, direction)
            IN  \/ da < db
                \/ da = db /\ a.low < b.low
                \/ da = db /\ a.low = b.low /\ a.high <= b.high
    IN  CHOOSE b \in S : \A c \in S : least(b, c)

EntryBlock == NearestBlock(Candidates, ScanDirection)

Round2(x) == ((2 * x + Cent) \div (2 * Cent)) * Cent
AtLeastCent(x) == IF x > Cent THEN x ELSE Cent
Gap(a, b) == IF a > b THEN a - b ELSE b - a

\* _extract_price_levels for an actionable entry.
LevelsFrom(entry, direction) ==
    LET long == direction = "LONG"
        away(offset) == AtLeastCent(IF long THEN entry - offset ELSE entry + offset)
        offset == IF Atr > 0 THEN (3 * Atr) \div 2 ELSE SpotPrice \div 200
        atLeast == entry \div 100
        fallback == IF Atr > 0 /\ (3 * Atr) \div 2 > atLeast THEN (3 * Atr) \div 2 ELSE atLeast
        first == away(AtLeastCent(offset))
        stop == IF Gap(entry, first) < atLeast THEN away(fallback) ELSE first
        risk == Gap(entry, stop)
    IN  [entry |-> entry, stop |-> Round2(stop),
         tp1 |-> Round2(IF long THEN entry + risk ELSE entry - risk),
         tp2 |-> Round2(IF long THEN entry + 2 * risk ELSE entry - 2 * risk)]

PriceLevels == LevelsFrom(EntryBlock.low, ScanDirection)

-----------------------------------------------------------------------------
(***************************************************************************)
(* The verdict.                                                            *)
(***************************************************************************)
BIAS_SUPERMAJORITY == 5

Votes(side, zones, colour) ==
    (IF band = side THEN 1 ELSE 0) + Cardinality({tf \in StructureFrames : labels[tf] \in zones})
    + Cardinality({tf \in MomentumFrames : Trend(tf) = colour})

LongVotes == Votes("bull", Bullish, "GREEN")
ShortVotes == Votes("bear", Bearish, "RED")

\* The direction, or else where a supermajority leans (derive_bias).
Bias ==
    CASE ScanDirection # NoDirection -> ScanDirection
      [] ScanDirection = NoDirection /\ LongVotes >= BIAS_SUPERMAJORITY /\ LongVotes > ShortVotes -> "LONG"
      [] ScanDirection = NoDirection /\ ShortVotes >= BIAS_SUPERMAJORITY /\ ShortVotes > LongVotes -> "SHORT"
      [] OTHER -> NoDirection

\* _risk_gate: no opposing block begins between the entry and the second target.
Opposing(b, levels, direction) ==
    IF direction = "LONG" THEN b.type = "bearish" /\ b.low > levels.entry /\ b.low < levels.tp2
    ELSE b.type = "bullish" /\ b.high < levels.entry /\ b.high > levels.tp2

RiskGate == EntryActionable /\ \A b \in blocks : ~Opposing(b, PriceLevels, ScanDirection)

Gates ==
    [regime |-> (Bias = "LONG" /\ band = "bull") \/ (Bias = "SHORT" /\ band = "bear"),
     structure |-> \/ Bias = "LONG" /\ \A tf \in StructureFrames : labels[tf] \in Bullish
                   \/ Bias = "SHORT" /\ \A tf \in StructureFrames : labels[tf] \in Bearish,
     momentum |-> \/ Bias = "LONG" /\ \A tf \in MomentumFrames : Trend(tf) = "GREEN"
                  \/ Bias = "SHORT" /\ \A tf \in MomentumFrames : Trend(tf) = "RED",
     zone |-> EntryActionable,
     risk |-> RiskGate]

\* The state of build_verdict; a scan whose verdict failed has none.
Verdict ==
    CASE "verdict" \in broken -> "none"
      [] "verdict" \notin broken /\ ScanDirection = NoDirection -> "NO_TRADE"
      [] "verdict" \notin broken /\ ScanDirection # NoDirection /\ ~(EntryActionable /\ RiskGate) -> "WATCH"
      [] "verdict" \notin broken /\ ScanDirection = "LONG" /\ EntryActionable /\ RiskGate -> "READY_LONG"
      [] "verdict" \notin broken /\ ScanDirection = "SHORT" /\ EntryActionable /\ RiskGate -> "READY_SHORT"

Actionable == Verdict \in {"READY_LONG", "READY_SHORT"}

-----------------------------------------------------------------------------
(***************************************************************************)
(* The confluence score.  qqe_aligned looks for GREEN or RED in the raw    *)
(* trend, which compute_qqe calls BULLISH or BEARISH: it never holds.      *)
(***************************************************************************)
SoftWeight ==
    [weekly_structure |-> 2, daily_structure |-> 2, btc_d_aligned |-> 1, weekly_200ma |-> 1,
     usdt_d_favourable |-> 1, fear_greed_aligned |-> 1, fvg_at_zone |-> 1,
     liquidity_grab_before_ote |-> 1, trend_line_at_zone |-> 1, target_2r |-> 2, h4_structure |-> 1,
     daily_rsi_confirms |-> 1, h4_rsi_confirms |-> 1, bb_not_squeezing |-> 1, m15_structure |-> 1,
     rsi_divergence |-> 1, chart_pattern |-> 1, ema_ribbon |-> 1]

OfEntry == {"fvg_at_zone", "liquidity_grab_before_ote", "trend_line_at_zone", "target_2r"}

\* What a timeframe without indicators cannot confirm; without daily indicators the
\* bands count as not squeezing.
NeedsFrame ==
    [weekly_structure |-> "weekly", weekly_200ma |-> "weekly", daily_structure |-> "daily",
     daily_rsi_confirms |-> "daily", ema_ribbon |-> "daily", h4_structure |-> "4h",
     h4_rsi_confirms |-> "4h", m15_structure |-> "15m"]

Possible ==
    {s \in DOMAIN SoftWeight :
        /\ s \in DOMAIN NeedsFrame => NeedsFrame[s] \in indicators
        /\ s \in OfEntry => EntryActionable /\ "4h" \in frames}

\* Every signal weighs one point or two.
Points(S) == Cardinality(S) + Cardinality({s \in S : SoftWeight[s] = 2})

\* bmsb_aligned follows the direction; an actionable entry counts for zone, overlap and
\* block (5), volume, retest and fakeout (3) and a clean stop; news risk is never seen.
HardPoints ==
    (IF ScanDirection # NoDirection THEN 1 ELSE 0) + (IF EntryActionable THEN 5 + 3 + 1 ELSE 0) + 1

\* Scoring that failed leaves the empty result.
Score == IF "score" \in broken THEN 0 ELSE HardPoints + Points(soft)

SCORE_TRADE_THRESHOLD == 10
SCORE_MAX == 30

\* Whether the trade plan says to trade (generate_trade_plan); one that failed does not.
TradeDecision == EntryActionable /\ Score >= SCORE_TRADE_THRESHOLD /\ "plan" \notin broken

-----------------------------------------------------------------------------
(***************************************************************************)
(* The steps of run_scan.                                                  *)
(***************************************************************************)
\* _backfill_missing_timeframes.
Backfilled(S) ==
    LET daily == IF S \cap {"4h", "1h"} # {} THEN S \cup {"daily"} ELSE S
    IN  IF daily \cap {"daily", "4h"} # {} THEN daily \cup {"weekly"} ELSE daily

Fails == stepFailures < MaxStepFailures /\ stepFailures' = stepFailures + 1
Succeeds == UNCHANGED stepFailures

FetchFrames(S) ==
    /\ step = "fetch" /\ S # {}
    /\ frames' = Backfilled(S) /\ step' = "indicators"
    /\ UNCHANGED <<indicators, mature, band, labels, signals, blocks, soft, broken, stepFailures>>

\* "No OHLCV data received": the scan raises.
FetchNothing ==
    /\ step = "fetch" /\ step' = "failed"
    /\ UNCHANGED <<frames, indicators, mature, band, labels, signals, blocks, soft, broken, stepFailures>>

ComputeIndicators ==
    /\ step = "indicators" /\ step' = "qqe"
    /\ \/ Succeeds /\ indicators' = frames
       \/ Fails /\ \E tf \in frames : indicators' = frames \ {tf}
    /\ mature' \in IF "weekly" \in indicators' THEN BOOLEAN ELSE {FALSE}
    /\ band' \in CASE "weekly" \notin indicators' -> {"none"}
                   [] "weekly" \in indicators' /\ ~mature' -> {"bear"}
                   [] "weekly" \in indicators' /\ mature' -> {"bull", "bear"}
    /\ UNCHANGED <<frames, labels, signals, blocks, soft, broken>>

Outcome(f, S, none) == {g \in f : \A tf \in DOMAIN g : tf \notin S => g[tf] = none}

ComputeQqe ==
    /\ step = "qqe" /\ step' = "smc"
    /\ \/ /\ Succeeds
          /\ signals' \in Outcome([MomentumFrames -> Signal \cup {"error"}], frames, "error")
          /\ \A tf \in MomentumFrames \cap frames : signals'[tf] # "error"
       \/ /\ Fails
          /\ \E tf \in MomentumFrames \cap frames :
                signals' \in Outcome([MomentumFrames -> Signal \cup {"error"}], frames \ {tf}, "error")
    /\ UNCHANGED <<frames, indicators, mature, band, labels, blocks, soft, broken>>

AnalyzeSmc ==
    /\ step = "smc" /\ step' = "structure"
    /\ \/ Succeeds /\ "4h" \in frames
          /\ blocks' \in {S \in SUBSET Block : Cardinality(S) <= MaxBlocks}
       \/ Succeeds /\ "4h" \notin frames /\ blocks' = {}
       \/ Fails /\ "4h" \in frames /\ blocks' = {}
    /\ UNCHANGED <<frames, indicators, mature, band, labels, signals, soft, broken>>

ClassifyStructure ==
    /\ step = "structure" /\ step' = "score"
    /\ \/ Succeeds /\ labels' \in Outcome([StructureFrames -> Label \cup {"unknown"}], frames, "unknown")
       \/ /\ Fails
          /\ \E tf \in StructureFrames \cap frames :
                labels' \in Outcome([StructureFrames -> Label \cup {"unknown"}], frames \ {tf}, "unknown")
    /\ UNCHANGED <<frames, indicators, mature, band, signals, blocks, soft, broken>>

\* Score, plan and verdict, each of which may fail; a plan is only made for an actionable
\* entry.  None or all of the signals hold that can.
ScoreSetup ==
    /\ step = "score" /\ step' = "done"
    /\ broken' \in SUBSET ({"score", "verdict"} \cup IF EntryActionable THEN {"plan"} ELSE {})
    /\ stepFailures' = stepFailures + Cardinality(broken') /\ stepFailures' <= MaxStepFailures
    /\ soft' \in IF "score" \in broken' THEN {{}} ELSE {{}, Possible}
    /\ UNCHANGED <<frames, indicators, mature, band, labels, signals, blocks>>

ScanAgain ==
    /\ step \in {"done", "failed"}
    /\ step' = "fetch" /\ frames' = {} /\ indicators' = {} /\ mature' = FALSE /\ band' = "none"
    /\ labels' = [tf \in StructureFrames |-> "unknown"]
    /\ signals' = [tf \in MomentumFrames |-> "error"]
    /\ blocks' = {} /\ soft' = {} /\ broken' = {} /\ stepFailures' = 0

ScanNext ==
    \/ \E S \in Fetched : FetchFrames(S)
    \/ FetchNothing \/ ComputeIndicators \/ ComputeQqe \/ AnalyzeSmc \/ ClassifyStructure
    \/ ScoreSetup \/ ScanAgain

ScanSpec == ScanInit /\ [][ScanNext]_scanVars

-----------------------------------------------------------------------------
(***************************************************************************)
(* Properties of a finished scan.                                          *)
(***************************************************************************)
Done == step = "done"

\* READY is reported exactly when all five gates pass: the state and the gates are
\* computed apart from each other (build_verdict).
ReadyMeansAllGates ==
    Done /\ "verdict" \notin broken => (Actionable <=> \A g \in DOMAIN Gates : Gates[g])

\* A step that failed, or a timeframe without candles, never helps to a trade: the
\* regime, the structure and the momentum behind it were all computed, score and plan
\* as well, and a band of twenty weeks stands behind a LONG.
DecidedOnEvidence ==
    Done /\ TradeDecision =>
        /\ "weekly" \in indicators /\ StructureFrames \cup MomentumFrames \subseteq frames
        /\ \A tf \in MomentumFrames : signals[tf] # "error"
        /\ \A tf \in StructureFrames : labels[tf] # "unknown"
        /\ blocks # {} /\ broken \subseteq {"verdict"}
        /\ ScanDirection = "LONG" => mature

\* "weekly Bull Market Support Band regime known and matching" (verdict.py).  Does not
\* hold: a SHORT may rest on weekly candles that are too few for the band.
RegimeKnown == Done /\ TradeDecision => mature

\* A setup that passed its gates is not held back by its score: only a plan that failed
\* to be scored or made does not say to trade.
ReadyHasPlan == Done /\ Actionable /\ broken = {} => TradeDecision

\* A bias is one that most signals share, and never the opposite of a direction.
BiasIsShared ==
    Done => /\ Bias = "LONG" => LongVotes > ShortVotes + 1
            /\ Bias = "SHORT" => ShortVotes > LongVotes + 1

\* "LONG direction places stop loss below entry" and the targets above it, and the
\* other way round (test_price_levels.py).  Holds for prices well above a cent.
StopOnLossSide(direction, p) ==
    IF direction = "LONG" THEN p.stop < p.entry /\ p.entry < p.tp1 /\ p.tp1 < p.tp2
    ELSE p.stop > p.entry /\ p.entry > p.tp1 /\ p.tp1 > p.tp2

StopProtects == Done /\ EntryActionable => StopOnLossSide(ScanDirection, PriceLevels)

\* "A confluence score [...] can never turn a failed gate into a trade" (verdict.py).
\* Does not hold: the trade plan is made without the risk gate.
FailedGateIsNoTrade == Done /\ TradeDecision => \A g \in DOMAIN Gates : Gates[g]

\* What a finished scan satisfies whichever of its steps failed: the verdict needs its gates
\* and its evidence, a READY setup has a plan, score and verdict share the bias, and the
\* stop is on the side of the loss.
ScanInv ==
    /\ ScanTypeOK
    /\ ReadyMeansAllGates
    /\ DecidedOnEvidence
    /\ ReadyHasPlan
    /\ BiasIsShared
    /\ StopProtects

=============================================================================
