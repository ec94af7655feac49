---------------------------- MODULE AdviceProofs ----------------------------
(***************************************************************************)
(* What a scan, the advice about open positions and the comparison of      *)
(* stored scans satisfy, for every set of timeframes, labels, signals,     *)
(* order blocks, prices, positions and stored results.                     *)
(*                                                                         *)
(* Whatever a step of the scan found or failed to find is in its variables *)
(* when it is done, so the invariant is the type with what the score may   *)
(* count; the rest is what the verdict, the plan and the four answers say  *)
(* of one such state, read apart from each other.                          *)
(* The timeline of the stored scans is read off their sequence: where a    *)
(* part differs from the first scan for the first time, the step before    *)
(* it names the change.                                                    *)
(***************************************************************************)
EXTENDS DcaAdvice, ScanDiff, FiniteSetTheorems, SequenceTheorems, WellFoundedInduction,
        TLAPS

\* A set of naturals that is not empty has a least element.
LEMMA LeastNat ==
    ASSUME NEW S \in SUBSET Nat, S # {}
    PROVE  \E n \in S : \A m \in S : n <= m
<1>1. PICK n \in S : \A m \in S : ~ (<<m, n>> \in OpToRel(<, Nat))
  BY NatLessThanWellFounded, WFMin
<1>2. ASSUME NEW m \in S PROVE n <= m
  <2>1. n \in Nat /\ m \in Nat
    OBVIOUS
  <2>2. ASSUME m < n PROVE <<m, n>> \in OpToRel(<, Nat)
    <3>1. <<m, n>> \in Nat \X Nat /\ <<m, n>>[1] < <<m, n>>[2]
      BY <2>1, <2>2
    <3> QED BY <3>1 DEF OpToRel
  <2>3. ~ (m < n)
    BY <1>1, <2>2
  <2> QED BY <2>1, <2>3
<1> QED BY <1>2

\* Rounding to a cent moves a price by half a cent at most.
LEMMA Rounding ==
    ASSUME NEW x \in Int, Cent \in Nat \ {0}
    PROVE  /\ Round2(x) \in Int
           /\ 2 * Round2(x) <= 2 * x + Cent
           /\ 2 * x < 2 * Round2(x) + Cent
<1> DEFINE q == (2 * x + Cent) \div (2 * Cent)
<1>1. q \in Int /\ (2 * Cent) * q <= 2 * x + Cent /\ 2 * x + Cent < (2 * Cent) * q + 2 * Cent
  OBVIOUS
<1>2. Round2(x) = q * Cent
  BY DEF Round2
<1> HIDE DEF q
<1>3. q * Cent \in Int /\ (2 * Cent) * q = 2 * (q * Cent)
  BY <1>1
<1> QED BY <1>1, <1>2, <1>3

-----------------------------------------------------------------------------
(***************************************************************************)
(* ScanPipeline: what a scan knows.                                        *)
(***************************************************************************)
ScanIInv ==
    /\ ScanTypeOK
    /\ soft \subseteq DOMAIN SoftWeight
    /\ step = "fetch" => frames = {}

LEMMA ScanInitOK == ScanInit => ScanIInv
<1> SUFFICES ASSUME ScanInit PROVE ScanIInv
  OBVIOUS
<1>1. step \in {Steps[i] : i \in DOMAIN Steps}
  <2>1. 1 \in DOMAIN Steps /\ Steps[1] = "fetch"
    BY DEF Steps
  <2> QED BY <2>1 DEF ScanInit
<1> QED BY <1>1 DEF ScanInit, ScanIInv, ScanTypeOK

LEMMA StepNames ==
    {Steps[i] : i \in DOMAIN Steps} = {"fetch", "indicators", "qqe", "smc", "structure", "score"}
<1>1. DOMAIN Steps = 1..6 /\ \A i \in DOMAIN Steps : i \in {1, 2, 3, 4, 5, 6}
  BY DEF Steps
<1>2. /\ Steps[1] = "fetch" /\ Steps[2] = "indicators" /\ Steps[3] = "qqe" /\ Steps[4] = "smc"
      /\ Steps[5] = "structure" /\ Steps[6] = "score"
  BY DEF Steps
<1>3. 1 \in DOMAIN Steps /\ 2 \in DOMAIN Steps /\ 3 \in DOMAIN Steps /\ 4 \in DOMAIN Steps
      /\ 5 \in DOMAIN Steps /\ 6 \in DOMAIN Steps
  BY <1>1
<1>4. \A i \in DOMAIN Steps :
          Steps[i] \in {"fetch", "indicators", "qqe", "smc", "structure", "score"}
  BY <1>1, <1>2
<1> QED BY <1>2, <1>3, <1>4

LEMMA ScanStep == ScanIInv /\ [ScanNext]_scanVars => ScanIInv'
<1> SUFFICES ASSUME ScanIInv, [ScanNext]_scanVars PROVE ScanIInv'
  OBVIOUS
<1>t. ScanTypeOK /\ soft \subseteq DOMAIN SoftWeight /\ (step = "fetch" => frames = {})
  BY DEF ScanIInv
<1>s. {Steps[i] : i \in DOMAIN Steps} \cup {"done", "failed"} =
          {"fetch", "indicators", "qqe", "smc", "structure", "score", "done", "failed"}
  BY StepNames
<1> USE DEF ScanIInv
<1>1. CASE UNCHANGED scanVars
  BY <1>1, <1>t DEF scanVars, ScanTypeOK
<1>2. ASSUME NEW S \in Fetched, FetchFrames(S) PROVE ScanIInv'
  <2>1. frames = {} /\ step' = "indicators" /\ frames' = Backfilled(S)
        /\ UNCHANGED <<indicators, mature, band, labels, signals, blocks, soft, broken>>
    BY <1>2, <1>t DEF FetchFrames
  <2>2. Backfilled(S) \subseteq Timeframe
    BY ScanAssumption DEF Backfilled, Timeframe
  <2>3. /\ indicators = {} /\ blocks = {} /\ band = "none"
        /\ \A tf \in StructureFrames : labels[tf] = "unknown"
        /\ \A tf \in MomentumFrames : signals[tf] = "error"
    BY <2>1, <1>t DEF ScanTypeOK
  <2> QED BY <2>1, <2>2, <2>3, <1>s, <1>t DEF ScanTypeOK
<1>3. CASE FetchNothing
  BY <1>3, <1>s, <1>t DEF FetchNothing, ScanTypeOK
<1>4. CASE ComputeIndicators
  <2>1. /\ indicators' \subseteq frames /\ step' = "qqe" /\ mature' \in BOOLEAN
        /\ band' \in CASE "weekly" \notin indicators' -> {"none"}
                       [] "weekly" \in indicators' /\ ~mature' -> {"bear"}
                       [] "weekly" \in indicators' /\ mature' -> {"bull", "bear"}
        /\ UNCHANGED <<frames, labels, signals, blocks, soft, broken>>
    BY <1>4 DEF ComputeIndicators
  <2>2. /\ band' \in {"bull", "bear", "none"} /\ (band' # "none" => "weekly" \in indicators')
        /\ band' = "bull" => mature'
    <3>1. CASE "weekly" \notin indicators'
      BY <2>1, <3>1
    <3>2. CASE "weekly" \in indicators' /\ ~mature'
      BY <2>1, <3>2
    <3>3. CASE "weekly" \in indicators' /\ mature'
      BY <2>1, <3>3
    <3> QED BY <2>1, <3>1, <3>2, <3>3
  <2> QED BY <2>1, <2>2, <1>s, <1>t DEF ScanTypeOK
<1>5. CASE ComputeQqe
  <2>1. /\ step' = "smc" /\ UNCHANGED <<frames, indicators, mature, band, labels, blocks, soft, broken>>
        /\ signals' \in [MomentumFrames -> Signal \cup {"error"}]
        /\ \A tf \in MomentumFrames \ frames : signals'[tf] = "error"
    BY <1>5 DEF ComputeQqe, Outcome
  <2> QED BY <2>1, <1>s, <1>t DEF ScanTypeOK
<1>6. CASE AnalyzeSmc
  <2>1. /\ step' = "structure" /\ UNCHANGED <<frames, indicators, mature, band, labels, signals, soft, broken>>
        /\ blocks' \subseteq Block /\ (blocks' # {} => "4h" \in frames)
    BY <1>6 DEF AnalyzeSmc
  <2> QED BY <2>1, <1>s, <1>t DEF ScanTypeOK
<1>7. CASE ClassifyStructure
  <2>1. /\ step' = "score" /\ UNCHANGED <<frames, indicators, mature, band, signals, blocks, soft, broken>>
        /\ labels' \in [StructureFrames -> Label \cup {"unknown"}]
        /\ \A tf \in StructureFrames \ frames : labels'[tf] = "unknown"
    BY <1>7 DEF ClassifyStructure, Outcome
  <2> QED BY <2>1, <1>s, <1>t DEF ScanTypeOK
<1>8. CASE ScoreSetup
  <2>1. /\ step' = "done" /\ UNCHANGED <<frames, indicators, mature, band, labels, signals, blocks>>
        /\ broken' \subseteq {"score", "plan", "verdict"}
        /\ soft' \in IF "score" \in broken' THEN {{}} ELSE {{}, Possible}
    BY <1>8 DEF ScoreSetup
  <2>2. soft' \subseteq DOMAIN SoftWeight /\ ("score" \in broken' => soft' = {})
    BY <2>1 DEF Possible
  <2> QED BY <2>1, <2>2, <1>s, <1>t DEF ScanTypeOK
<1>9. CASE ScanAgain
  BY <1>9, <1>s DEF ScanAgain, ScanTypeOK
<1> QED BY <1>1, <1>2, <1>3, <1>4, <1>5, <1>6, <1>7, <1>8, <1>9 DEF ScanNext

-----------------------------------------------------------------------------
(***************************************************************************)
(* Directions and votes.                                                   *)
(***************************************************************************)
LEMMA DirectionIs ==
    /\ ScanDirection \in {"LONG", "SHORT", NoDirection} /\ NoDirection = "NEUTRAL"
    /\ ScanDirection = "LONG" =>
           /\ band = "bull" /\ \A tf \in StructureFrames : labels[tf] \in Bullish
           /\ \A tf \in MomentumFrames : Trend(tf) = "GREEN"
    /\ ScanDirection = "SHORT" =>
           /\ band = "bear" /\ \A tf \in StructureFrames : labels[tf] \in Bearish
           /\ \A tf \in MomentumFrames : Trend(tf) = "RED"
BY DEF ScanDirection, NoDirection

LEMMA ThreeElements ==
    ASSUME NEW a, NEW b, NEW c, a # b, a # c, b # c
    PROVE  IsFiniteSet({a, b, c}) /\ Cardinality({a, b, c}) = 3
<1>1. IsFiniteSet({a}) /\ Cardinality({a}) = 1
  BY FS_Singleton
<1>2. IsFiniteSet({a} \cup {b}) /\ Cardinality({a} \cup {b}) = 2
  BY <1>1, FS_AddElement
<1>3. IsFiniteSet({a} \cup {b} \cup {c}) /\ Cardinality({a} \cup {b} \cup {c}) = 3
  BY <1>2, FS_AddElement
<1>4. {a} \cup {b} \cup {c} = {a, b, c}
  OBVIOUS
<1> QED BY <1>3, <1>4

LEMMA FramesAreThree ==
    /\ IsFiniteSet(StructureFrames) /\ Cardinality(StructureFrames) = 3
    /\ IsFiniteSet(MomentumFrames) /\ Cardinality(MomentumFrames) = 3
BY ThreeElements DEF StructureFrames, MomentumFrames

\* Two parts of three.
LEMMA PartsOfThree ==
    ASSUME NEW S, IsFiniteSet(S), Cardinality(S) = 3,
           NEW A \in SUBSET S, NEW B \in SUBSET S, A \cap B = {}
    PROVE  /\ Cardinality(A) \in 0..3 /\ Cardinality(B) \in 0..3
           /\ Cardinality(A) + Cardinality(B) <= 3
           /\ A = S => Cardinality(A) = 3 /\ Cardinality(B) = 0
<1>1. IsFiniteSet(A) /\ IsFiniteSet(B) /\ Cardinality(A) \in Nat /\ Cardinality(B) \in Nat
  BY FS_Subset, FS_CardinalityType
<1>2. Cardinality(A \cup B) = Cardinality(A) + Cardinality(B)
  <2>1. Cardinality(A \cup B) = Cardinality(A) + Cardinality(B) - Cardinality(A \cap B)
    BY <1>1, FS_Union
  <2>2. Cardinality(A \cap B) = 0
    BY FS_EmptySet
  <2> QED BY <1>1, <2>1, <2>2
<1>3. Cardinality(A \cup B) <= 3
  BY FS_Subset
<1>4. A = S => B = {}
  OBVIOUS
<1> QED BY <1>1, <1>2, <1>3, <1>4, FS_EmptySet

Greens == {tf \in MomentumFrames : Trend(tf) = "GREEN"}
Reds == {tf \in MomentumFrames : Trend(tf) = "RED"}
Ups == {tf \in StructureFrames : labels[tf] \in Bullish}
Downs == {tf \in StructureFrames : labels[tf] \in Bearish}

LEMMA SignalCounts ==
    /\ Cardinality(Greens) \in 0..3 /\ Cardinality(Reds) \in 0..3
    /\ Cardinality(Ups) \in 0..3 /\ Cardinality(Downs) \in 0..3
    /\ Cardinality(Greens) + Cardinality(Reds) <= 3
    /\ Cardinality(Ups) + Cardinality(Downs) <= 3
    /\ ScanDirection = "LONG" =>
           /\ Cardinality(Greens) = 3 /\ Cardinality(Reds) = 0
           /\ Cardinality(Ups) = 3 /\ Cardinality(Downs) = 0
    /\ ScanDirection = "SHORT" =>
           /\ Cardinality(Greens) = 0 /\ Cardinality(Reds) = 3
           /\ Cardinality(Ups) = 0 /\ Cardinality(Downs) = 3
<1>1. /\ Greens \in SUBSET MomentumFrames /\ Reds \in SUBSET MomentumFrames /\ Greens \cap Reds = {}
      /\ Ups \in SUBSET StructureFrames /\ Downs \in SUBSET StructureFrames /\ Ups \cap Downs = {}
  BY DEF Greens, Reds, Ups, Downs, Bullish, Bearish
<1>2. ScanDirection = "LONG" => Greens = MomentumFrames /\ Ups = StructureFrames
  BY DirectionIs DEF Greens, Ups
<1>3. ScanDirection = "SHORT" => Reds = MomentumFrames /\ Downs = StructureFrames
  BY DirectionIs DEF Reds, Downs
<1>4. /\ Cardinality(Greens) \in 0..3 /\ Cardinality(Reds) \in 0..3
      /\ Cardinality(Greens) + Cardinality(Reds) <= 3
      /\ Greens = MomentumFrames => Cardinality(Greens) = 3 /\ Cardinality(Reds) = 0
  BY <1>1, FramesAreThree, PartsOfThree
<1>5. Reds = MomentumFrames => Cardinality(Reds) = 3 /\ Cardinality(Greens) = 0
  BY <1>1, FramesAreThree, PartsOfThree
<1>6. /\ Cardinality(Ups) \in 0..3 /\ Cardinality(Downs) \in 0..3
      /\ Cardinality(Ups) + Cardinality(Downs) <= 3
      /\ Ups = StructureFrames => Cardinality(Ups) = 3 /\ Cardinality(Downs) = 0
  BY <1>1, FramesAreThree, PartsOfThree
<1>7. Downs = StructureFrames => Cardinality(Downs) = 3 /\ Cardinality(Ups) = 0
  BY <1>1, FramesAreThree, PartsOfThree
<1> QED BY <1>2, <1>3, <1>4, <1>5, <1>6, <1>7

LEMMA VotesAre ==
    /\ LongVotes \in 0..7 /\ ShortVotes \in 0..7 /\ LongVotes + ShortVotes <= 7
    /\ ScanDirection = "LONG" => LongVotes = 7 /\ ShortVotes = 0
    /\ ScanDirection = "SHORT" => LongVotes = 0 /\ ShortVotes = 7
<1>1. /\ LongVotes = (IF band = "bull" THEN 1 ELSE 0) + Cardinality(Ups) + Cardinality(Greens)
      /\ ShortVotes = (IF band = "bear" THEN 1 ELSE 0) + Cardinality(Downs) + Cardinality(Reds)
  BY DEF LongVotes, ShortVotes, Votes, Ups, Downs, Greens, Reds
<1>2. /\ ScanDirection = "LONG" => band = "bull"
      /\ ScanDirection = "SHORT" => band = "bear"
  BY DirectionIs
<1> HIDE DEF Ups, Downs, Greens, Reds
<1> QED BY SMTT(30), <1>1, <1>2, SignalCounts

LEMMA BiasIs ==
    /\ ScanDirection # NoDirection => Bias = ScanDirection
    /\ Bias = "LONG" => LongVotes > ShortVotes + 1
    /\ Bias = "SHORT" => ShortVotes > LongVotes + 1
<1>1. CASE ScanDirection # NoDirection
  <2>1. Bias = ScanDirection
    BY <1>1 DEF Bias
  <2> QED BY <1>1, <2>1, VotesAre, DirectionIs
<1>2. CASE ScanDirection = NoDirection
  <2>1. Bias = "LONG" => LongVotes >= 5
    BY <1>2 DEF Bias, BIAS_SUPERMAJORITY, NoDirection
  <2>2. Bias = "SHORT" => ShortVotes >= 5
    BY <1>2 DEF Bias, BIAS_SUPERMAJORITY, NoDirection
  <2> QED BY <1>2, <2>1, <2>2, VotesAre
<1> QED BY <1>1, <1>2

-----------------------------------------------------------------------------
(***************************************************************************)
(* The properties of a finished scan, one by one.                          *)
(***************************************************************************)
LEMMA GateNames == DOMAIN Gates = {"regime", "structure", "momentum", "zone", "risk"}
BY DEF Gates

LEMMA GatesHold == ReadyMeansAllGates
<1> SUFFICES ASSUME "verdict" \notin broken
             PROVE  Actionable <=> \A g \in DOMAIN Gates : Gates[g]
  BY DEF ReadyMeansAllGates
<1>1. Actionable <=> ScanDirection # NoDirection /\ EntryActionable /\ RiskGate
  BY DirectionIs DEF Actionable, Verdict
<1>2. (\A g \in DOMAIN Gates : Gates[g]) <=>
          Gates.regime /\ Gates.structure /\ Gates.momentum /\ Gates.zone /\ Gates.risk
  BY GateNames
<1>3. /\ Gates.zone = EntryActionable /\ Gates.risk = RiskGate
      /\ Gates.regime = ((Bias = "LONG" /\ band = "bull") \/ (Bias = "SHORT" /\ band = "bear"))
      /\ Gates.structure = (\/ Bias = "LONG" /\ \A tf \in StructureFrames : labels[tf] \in Bullish
                            \/ Bias = "SHORT" /\ \A tf \in StructureFrames : labels[tf] \in Bearish)
      /\ Gates.momentum = (\/ Bias = "LONG" /\ \A tf \in MomentumFrames : Trend(tf) = "GREEN"
                           \/ Bias = "SHORT" /\ \A tf \in MomentumFrames : Trend(tf) = "RED")
  BY DEF Gates
<1>4. EntryActionable => ScanDirection # NoDirection
  BY DEF EntryActionable
<1>5. CASE ScanDirection = NoDirection
  BY <1>1, <1>2, <1>3, <1>4, <1>5
<1>6. CASE ScanDirection # NoDirection
  <2>1. Bias = ScanDirection
    BY <1>6, BiasIs
  <2>2. Gates.regime /\ Gates.structure /\ Gates.momentum
    BY <1>3, <1>6, <2>1, DirectionIs
  <2> QED BY <1>1, <1>2, <1>3, <1>6, <2>2
<1> QED BY <1>5, <1>6

LEMMA EvidenceHolds == ScanTypeOK => DecidedOnEvidence
<1> SUFFICES ASSUME ScanTypeOK, TradeDecision
             PROVE  /\ "weekly" \in indicators /\ StructureFrames \cup MomentumFrames \subseteq frames
                    /\ \A tf \in MomentumFrames : signals[tf] # "error"
                    /\ \A tf \in StructureFrames : labels[tf] # "unknown"
                    /\ blocks # {} /\ broken \subseteq {"verdict"}
                    /\ ScanDirection = "LONG" => mature
  BY DEF DecidedOnEvidence
<1>1. ScanDirection \in {"LONG", "SHORT"} /\ Candidates # {}
  BY DirectionIs DEF TradeDecision, EntryActionable
<1>2. blocks # {}
  BY <1>1 DEF Candidates, CandidatesFor
<1>3. band # "none"
  BY <1>1, DirectionIs
<1>4. ASSUME NEW tf \in StructureFrames PROVE labels[tf] # "unknown"
  BY <1>1, DirectionIs DEF Bullish, Bearish
<1>5. ASSUME NEW tf \in MomentumFrames PROVE signals[tf] # "error"
  <2>1. Trend(tf) \in {"GREEN", "RED"}
    BY <1>1, DirectionIs
  <2> QED BY <2>1 DEF Trend
<1>6. broken \subseteq {"verdict"}
  <2>1. "plan" \notin broken /\ Score >= 10
    BY DEF TradeDecision, SCORE_TRADE_THRESHOLD
  <2>2. "score" \notin broken
    BY <2>1 DEF Score
  <2> QED BY <2>1, <2>2 DEF ScanTypeOK
<1>7. ScanDirection = "LONG" => mature
  BY DirectionIs DEF ScanTypeOK
<1> QED BY <1>2, <1>3, <1>4, <1>5, <1>6, <1>7 DEF ScanTypeOK

LEMMA SixAreFinite ==
    ASSUME NEW a, NEW b, NEW c, NEW d, NEW e, NEW f
    PROVE  IsFiniteSet({a, b, c, d, e, f})
<1>1. IsFiniteSet({a} \cup {b})
  BY FS_Singleton, FS_AddElement
<1>2. IsFiniteSet({a} \cup {b} \cup {c} \cup {d})
  BY <1>1, FS_AddElement
<1>3. IsFiniteSet({a} \cup {b} \cup {c} \cup {d} \cup {e} \cup {f})
  BY <1>2, FS_AddElement
<1>4. {a} \cup {b} \cup {c} \cup {d} \cup {e} \cup {f} = {a, b, c, d, e, f}
  OBVIOUS
<1> QED BY <1>3, <1>4

LEMMA PointsAreNat ==
    ASSUME NEW S \in SUBSET DOMAIN SoftWeight
    PROVE  Points(S) \in Nat
<1>1. IsFiniteSet(DOMAIN SoftWeight)
  <2> DEFINE A == {"weekly_structure", "daily_structure", "btc_d_aligned", "weekly_200ma",
                   "usdt_d_favourable", "fear_greed_aligned"}
             B == {"fvg_at_zone", "liquidity_grab_before_ote", "trend_line_at_zone", "target_2r",
                   "h4_structure", "daily_rsi_confirms"}
             C == {"h4_rsi_confirms", "bb_not_squeezing", "m15_structure", "rsi_divergence",
                   "chart_pattern", "ema_ribbon"}
  <2>1. DOMAIN SoftWeight = A \cup B \cup C
    BY DEF SoftWeight
  <2>2. IsFiniteSet(A) /\ IsFiniteSet(B) /\ IsFiniteSet(C)
    BY SixAreFinite
  <2> HIDE DEF A, B, C
  <2> QED BY <2>1, <2>2, FS_Union
<1>2. IsFiniteSet(S) /\ IsFiniteSet({s \in S : SoftWeight[s] = 2})
  BY <1>1, FS_Subset
<1> QED BY <1>2, FS_CardinalityType DEF Points

LEMMA ReadyPlans == soft \subseteq DOMAIN SoftWeight => ReadyHasPlan
<1> SUFFICES ASSUME soft \subseteq DOMAIN SoftWeight, Actionable, broken = {} PROVE TradeDecision
  BY DEF ReadyHasPlan
<1>1. EntryActionable /\ ScanDirection # NoDirection
  BY DirectionIs DEF Actionable, Verdict
<1>2. HardPoints = 11
  BY <1>1 DEF HardPoints
<1>3. Points(soft) \in Nat
  BY PointsAreNat
<1> QED BY <1>1, <1>2, <1>3 DEF TradeDecision, Score, SCORE_TRADE_THRESHOLD

-----------------------------------------------------------------------------
(***************************************************************************)
(* The stop.                                                               *)
(***************************************************************************)
\* Among blocks there is one that is nearest, then lowest, then narrowest.
LEMMA NearestIsOne ==
    ASSUME NEW S \in SUBSET Block, S # {}, NEW direction
    PROVE  NearestBlock(S, direction) \in S
<1> DEFINE D(b) == Distance(b, direction)
<1>1. \A b \in S : b.low \in Nat /\ b.high \in Nat /\ D(b) \in Nat
  <2>1. \A b \in S : b.low \in Nat /\ b.high \in Nat
    BY ScanAssumption
  <2>2. SpotPrice \in Nat
    BY ScanAssumption
  <2> QED BY <2>1, <2>2 DEF Distance
<1> HIDE DEF D
<1> DEFINE Ds == {D(b) : b \in S}
<1>2. PICK d \in Ds : \A e \in Ds : d <= e
  <2>1. Ds \in SUBSET Nat /\ Ds # {}
    BY <1>1
  <2> HIDE DEF Ds
  <2> QED BY <2>1, LeastNat
<1> DEFINE S2 == {b \in S : D(b) = d}
<1> DEFINE Ls == {b.low : b \in S2}
<1>3. PICK l \in Ls : \A e \in Ls : l <= e
  <2>1. Ls \in SUBSET Nat /\ Ls # {}
    BY <1>1, <1>2
  <2> HIDE DEF Ls
  <2> QED BY <2>1, LeastNat
<1> DEFINE S3 == {b \in S2 : b.low = l}
<1> DEFINE Hs == {b.high : b \in S3}
<1>4. PICK h \in Hs : \A e \in Hs : h <= e
  <2>1. Hs \in SUBSET Nat /\ Hs # {}
    BY <1>1, <1>3
  <2> HIDE DEF Hs
  <2> QED BY <2>1, LeastNat
<1>5. PICK b \in S : D(b) = d /\ b.low = l /\ b.high = h
  BY <1>4
<1> DEFINE least(x, y) == \/ D(x) < D(y)
                          \/ D(x) = D(y) /\ x.low < y.low
                          \/ D(x) = D(y) /\ x.low = y.low /\ x.high <= y.high
<1>6. ASSUME NEW c \in S PROVE least(b, c)
  <2>1. D(b) \in Nat /\ D(c) \in Nat /\ b.low \in Nat /\ c.low \in Nat /\ b.high \in Nat /\ c.high \in Nat
    BY <1>1
  <2>2. D(b) <= D(c)
    BY <1>2, <1>5
  <2>3. D(b) = D(c) => b.low <= c.low
    BY <1>3, <1>5
  <2>4. D(b) = D(c) /\ b.low = c.low => b.high <= c.high
    BY <1>4, <1>5
  <2> QED BY <2>1, <2>2, <2>3, <2>4
<1>7. NearestBlock(S, direction) = CHOOSE x \in S : \A c \in S : least(x, c)
  BY DEF NearestBlock, D
<1> HIDE DEF least
<1> QED BY <1>6, <1>7

LEMMA EntryIsBlock ==
    ASSUME ScanTypeOK, EntryActionable
    PROVE  EntryBlock \in blocks /\ EntryBlock \in Block /\ EntryBlock \in Candidates
<1>1. Candidates \in SUBSET Block /\ Candidates # {} /\ Candidates \subseteq blocks
  BY DEF ScanTypeOK, EntryActionable, Candidates, CandidatesFor
<1>2. EntryBlock \in Candidates
  BY <1>1, NearestIsOne DEF EntryBlock
<1> QED BY <1>1, <1>2

\* The stop is at least a cent away from the entry, on its side.
LEMMA StopIsAway ==
    ASSUME NEW C \in Nat, C > 0, NEW entry \in Nat, entry >= 2 * C, NEW offset \in Nat,
           NEW fallback \in Nat, NEW floor \in Nat, fallback >= floor,
           NEW first \in Int, NEW stop \in Int, NEW out \in Int,
           out = (IF offset > C THEN offset ELSE C)
    PROVE  /\ first = (IF entry - out > C THEN entry - out ELSE C)
              /\ stop = (IF entry - first < floor
                         THEN (IF entry - fallback > C THEN entry - fallback ELSE C) ELSE first)
              => stop + C <= entry /\ first <= entry
           /\ first = entry + out
              /\ stop = (IF first - entry < floor THEN entry + fallback ELSE first)
              => stop >= entry + C /\ first >= entry
OBVIOUS

LEMMA TargetsAreOrdered ==
    ASSUME Cent \in Nat \ {0}, NEW entry \in Int, NEW stop \in Int, NEW risk \in Int, risk >= Cent
    PROVE  /\ stop + risk = entry =>
                  Round2(stop) < entry /\ entry < Round2(entry + risk)
                  /\ Round2(entry + risk) < Round2(entry + 2 * risk)
           /\ stop = entry + risk =>
                  Round2(stop) > entry /\ entry > Round2(entry - risk)
                  /\ Round2(entry - risk) > Round2(entry - 2 * risk)
<1> DEFINE near(x) == /\ Round2(x) \in Int
                      /\ 2 * Round2(x) <= 2 * x + Cent
                      /\ 2 * x < 2 * Round2(x) + Cent
<1>1. /\ entry + risk \in Int /\ entry + 2 * risk \in Int
      /\ entry - risk \in Int /\ entry - 2 * risk \in Int
  OBVIOUS
<1>2. \A x \in Int : near(x)
  BY Rounding
<1> HIDE DEF near
<1>3. near(stop) /\ near(entry + risk) /\ near(entry + 2 * risk)
      /\ near(entry - risk) /\ near(entry - 2 * risk)
  BY <1>1, <1>2
<1> QED BY <1>3 DEF near

LEMMA LevelsTyped ==
    ASSUME ScanTypeOK, EntryActionable
    PROVE  PriceLevels.entry = EntryBlock.low /\ PriceLevels.stop \in Int
<1>1. PICK entry \in Nat : entry = EntryBlock.low
  BY EntryIsBlock, ScanAssumption
<1>2. Cent \in Nat \ {0} /\ Cent \in Int /\ Atr \in Nat /\ SpotPrice \in Nat
  BY ScanAssumption
<1>3. \A x \in Int : AtLeastCent(x) \in Int
  BY <1>2 DEF AtLeastCent
<1>4. \A x \in Int : Round2(x) \in Int
  BY <1>2, Rounding
<1> DEFINE offset == IF Atr > 0 THEN (3 * Atr) \div 2 ELSE SpotPrice \div 200
           fallback == IF Atr > 0 /\ (3 * Atr) \div 2 > entry \div 100 THEN (3 * Atr) \div 2 ELSE entry \div 100
           away(o) == AtLeastCent(IF ScanDirection = "LONG" THEN entry - o ELSE entry + o)
           first == away(AtLeastCent(offset))
           stop == IF Gap(entry, first) < entry \div 100 THEN away(fallback) ELSE first
<1>5. offset \in Int /\ fallback \in Int
  BY <1>2
<1>6. \A o \in Int : away(o) \in Int
  BY <1>3
<1>7. stop \in Int
  <2> HIDE DEF offset, fallback, away
  <2> QED BY <1>3, <1>5, <1>6
<1>8. PriceLevels.entry = entry /\ PriceLevels.stop = Round2(stop)
  BY <1>1 DEF PriceLevels, LevelsFrom
<1> HIDE DEF stop
<1> QED BY <1>1, <1>4, <1>7, <1>8

LEMMA StopHolds ==
    ASSUME ScanTypeOK, \A b \in Block : b.low >= 2 * Cent
    PROVE  StopProtects
<1> SUFFICES ASSUME EntryActionable PROVE StopOnLossSide(ScanDirection, PriceLevels)
  BY DEF StopProtects
<1>1. ScanDirection \in Direction
  BY DirectionIs DEF EntryActionable, Direction
<1>2. PICK entry \in Nat : entry = EntryBlock.low /\ entry >= 2 * Cent
  BY EntryIsBlock, ScanAssumption
<1>3. Cent \in Nat \ {0} /\ Cent \in Nat /\ Cent > 0 /\ Atr \in Nat /\ SpotPrice \in Nat
  BY ScanAssumption
<1>4. PICK offset \in Nat : offset = (IF Atr > 0 THEN (3 * Atr) \div 2 ELSE SpotPrice \div 200)
  BY <1>3
<1>5. PICK floor \in Nat : floor = entry \div 100
  OBVIOUS
<1>6. PICK fallback \in Nat :
          /\ fallback >= floor
          /\ fallback = (IF Atr > 0 /\ (3 * Atr) \div 2 > floor THEN (3 * Atr) \div 2 ELSE floor)
  BY <1>3
<1>7. PICK out \in Int : out = AtLeastCent(offset) /\ out = (IF offset > Cent THEN offset ELSE Cent)
  BY <1>3 DEF AtLeastCent
<1>8. CASE ScanDirection = "LONG"
  <2>1. PICK first \in Int : first = (IF entry - out > Cent THEN entry - out ELSE Cent)
    <3>1. (IF entry - out > Cent THEN entry - out ELSE Cent) \in Int
      BY <1>3
    <3> QED BY <3>1
  <2>2. PICK stop \in Int :
            stop = (IF entry - first < floor
                    THEN (IF entry - fallback > Cent THEN entry - fallback ELSE Cent) ELSE first)
    <3>1. (IF entry - fallback > Cent THEN entry - fallback ELSE Cent) \in Int
      BY <1>3
    <3> QED BY <3>1
  <2>3. stop + Cent <= entry /\ first <= entry
    BY <1>2, <1>3, <1>6, <1>7, <2>1, <2>2, StopIsAway
  <2>4. PICK risk \in Int : stop + risk = entry /\ risk >= Cent
    BY <1>3, <2>3
  <2>5. Gap(entry, first) = entry - first /\ Gap(entry, stop) = risk
    BY <1>3, <2>3, <2>4 DEF Gap
  <2>6. PriceLevels = [entry |-> entry, stop |-> Round2(stop), tp1 |-> Round2(entry + risk),
                       tp2 |-> Round2(entry + 2 * risk)]
    BY <1>2, <1>4, <1>5, <1>6, <1>7, <1>8, <2>1, <2>2, <2>5 DEF PriceLevels, LevelsFrom, AtLeastCent
  <2>7. /\ Round2(stop) < entry /\ entry < Round2(entry + risk)
        /\ Round2(entry + risk) < Round2(entry + 2 * risk)
    <3>1. Cent \in Nat \ {0} /\ entry \in Int /\ stop + risk = entry /\ risk >= Cent
      BY <1>3, <2>4
    <3> QED BY <3>1, TargetsAreOrdered, Zenon
  <2> QED BY <1>8, <2>6, <2>7 DEF StopOnLossSide
<1>9. CASE ScanDirection = "SHORT"
  <2>1. PICK first \in Int : first = entry + out
    OBVIOUS
  <2>2. PICK stop \in Int : stop = (IF first - entry < floor THEN entry + fallback ELSE first)
    OBVIOUS
  <2>3. stop >= entry + Cent /\ first >= entry
    BY <1>2, <1>3, <1>6, <1>7, <2>1, <2>2, StopIsAway
  <2>4. PICK risk \in Int : stop = entry + risk /\ risk >= Cent
    BY <1>3, <2>3
  <2>5. Gap(entry, first) = first - entry /\ Gap(entry, stop) = risk
    BY <1>3, <2>3, <2>4 DEF Gap
  <2>6. AtLeastCent(entry + out) = first /\ AtLeastCent(entry + fallback) = entry + fallback
    BY <1>2, <1>3, <1>7, <2>1 DEF AtLeastCent
  <2>7. PriceLevels = [entry |-> entry, stop |-> Round2(stop), tp1 |-> Round2(entry - risk),
                       tp2 |-> Round2(entry - 2 * risk)]
    BY <1>2, <1>4, <1>5, <1>6, <1>7, <1>9, <2>2, <2>5, <2>6 DEF PriceLevels, LevelsFrom
  <2>8. /\ Round2(stop) > entry /\ entry > Round2(entry - risk)
        /\ Round2(entry - risk) > Round2(entry - 2 * risk)
    <3>1. Cent \in Nat \ {0} /\ entry \in Int /\ stop = entry + risk /\ risk >= Cent
      BY <1>3, <2>4
    <3> QED BY <3>1, TargetsAreOrdered, Zenon
  <2> QED BY <1>9, <2>7, <2>8 DEF StopOnLossSide
<1> QED BY <1>1, <1>8, <1>9 DEF Direction

\* A verdict needs its five gates and a trade the evidence behind them, a LONG a band of
\* twenty weeks as well; a READY setup has a plan unless score or plan failed, and score
\* and verdict share the bias, whichever steps of the scan failed and whatever the prices
\* are (verdict.py, confluence.py, trade_plan.py).
THEOREM VerdictHolds ==
    ScanSpec => [](ReadyMeansAllGates /\ DecidedOnEvidence /\ ReadyHasPlan /\ BiasIsShared)
<1>1. ScanIInv => ReadyMeansAllGates /\ DecidedOnEvidence /\ ReadyHasPlan /\ BiasIsShared
  BY GatesHold, EvidenceHolds, ReadyPlans, BiasIs DEF ScanIInv, BiasIsShared
<1> QED BY <1>1, ScanInitOK, ScanStep, PTL DEF ScanSpec

LEMMA ScanIInvImplies ==
    ASSUME ScanIInv, \A b \in Block : b.low >= 2 * Cent
    PROVE  ScanInv
BY GatesHold, EvidenceHolds, ReadyPlans, BiasIs, StopHolds DEF ScanIInv, ScanInv, BiasIsShared

\* All of what a finished scan satisfies.  The stop and the targets are rounded to cents
\* (_extract_price_levels), so that the stop is on the side of the loss takes order blocks
\* of two cents and more.
THEOREM ScanHolds ==
    ASSUME \A b \in Block : b.low >= 2 * Cent
    PROVE  ScanSpec => []ScanInv
<1>1. ScanIInv => ScanInv
  BY ScanIInvImplies
<1> QED BY <1>1, ScanInitOK, ScanStep, PTL DEF ScanSpec

-----------------------------------------------------------------------------
(***************************************************************************)
(* DcaAdvice: the engine's first rule that applies.                        *)
(***************************************************************************)
LEMMA MinIsLeast ==
    ASSUME NEW S \in SUBSET Nat, S # {}
    PROVE  Min(S) \in S /\ \A m \in S : Min(S) <= m
BY LeastNat DEF Min

\* The rules that hold, as conditions of their own.
When(p, plan, i) == Rules(p, plan)[i].when

LEMMA RulesAre ==
    ASSUME NEW p, NEW plan
    PROVE  /\ DOMAIN Rules(p, plan) = 1..14
           /\ When(p, plan, 1) <=> ~Sided(p)
           /\ When(p, plan, 2) <=> NearLiquidation(p, 2)
           /\ When(p, plan, 3) <=> ~HasScan
           /\ When(p, plan, 6) <=> (plan.direction = Opposite(p) /\ Conflicts(p) >= 3)
           /\ When(p, plan, 7) <=> (p.side = "LONG" /\ band = "bear")
           /\ When(p, plan, 8) <=> ({"daily", "4h"} \subseteq AgainstMomentum(p))
           /\ When(p, plan, 10) <=> ~Aligned(p)
           /\ When(p, plan, 12) <=> (InZone(p, plan) /\ Oversold(p))
           /\ When(p, plan, 13) <=> InZone(p, plan)
           /\ When(p, plan, 14) <=> TRUE
<1>1. DOMAIN Rules(p, plan) = 1..14
  BY DEF Rules
<1>2. When(p, plan, 1) <=> (~Sided(p))
  BY DEF Rules, When, Rule
<1>3. When(p, plan, 2) <=> (NearLiquidation(p, 2))
  BY DEF Rules, When, Rule
<1>4. When(p, plan, 3) <=> (~HasScan)
  BY DEF Rules, When, Rule
<1>5. When(p, plan, 6) <=> (plan.direction = Opposite(p) /\ Conflicts(p) >= 3)
  BY DEF Rules, When, Rule
<1>6. When(p, plan, 7) <=> (p.side = "LONG" /\ band = "bear")
  BY DEF Rules, When, Rule
<1>7. When(p, plan, 8) <=> ({"daily", "4h"} \subseteq AgainstMomentum(p))
  BY DEF Rules, When, Rule
<1>8. When(p, plan, 10) <=> (~Aligned(p))
  BY DEF Rules, When, Rule
<1>9. When(p, plan, 12) <=> (InZone(p, plan) /\ Oversold(p))
  BY DEF Rules, When, Rule
<1>10. When(p, plan, 13) <=> (InZone(p, plan))
  BY DEF Rules, When, Rule
<1>11. When(p, plan, 14) <=> (TRUE)
  BY DEF Rules, When, Rule
<1> QED BY <1>1, <1>2, <1>3, <1>4, <1>5, <1>6, <1>7, <1>8, <1>9, <1>10, <1>11

\* The advice is that of the first rule whose condition holds.
LEMMA FirstRule ==
    ASSUME NEW p, NEW plan
    PROVE  \E i \in 1..14 : /\ evaluate_dca(p, plan) = Rules(p, plan)[i]
                            /\ When(p, plan, i)
                            /\ \A j \in 1..14 : j < i => ~When(p, plan, j)
<1> DEFINE S == {i \in DOMAIN Rules(p, plan) : When(p, plan, i)}
<1>1. S \in SUBSET Nat /\ S # {} /\ S \subseteq 1..14
  <2>1. 14 \in DOMAIN Rules(p, plan) /\ When(p, plan, 14)
    BY RulesAre
  <2> QED BY <2>1, RulesAre
<1>2. evaluate_dca(p, plan) = Rules(p, plan)[Min(S)]
  BY DEF evaluate_dca, When
<1>3. \A j \in 1..14 : When(p, plan, j) => j \in S
  BY RulesAre
<1> DEFINE i == Min(S)
<1>4. i \in S /\ \A m \in S : i <= m
  <2> HIDE DEF S
  <2> QED BY <1>1, MinIsLeast
<1>5. When(p, plan, i) /\ i \in 1..14
  BY <1>1, <1>4
<1>6. ASSUME NEW j \in 1..14, j < i PROVE ~When(p, plan, j)
  <2> HIDE DEF S, i
  <2> QED BY <1>1, <1>3, <1>4, <1>6
<1> HIDE DEF S, i
<1>7. evaluate_dca(p, plan) = Rules(p, plan)[i]
  BY <1>2 DEF i
<1> QED BY <1>5, <1>6, <1>7

\* What an advice says of the rules before it.
LEMMA AdviceIs ==
    ASSUME NEW p, NEW plan
    PROVE  LET advice == evaluate_dca(p, plan)
           IN  /\ advice.action = "ADD" =>
                      /\ Sided(p) /\ ~NearLiquidation(p, 2) /\ HasScan
                      /\ Aligned(p) /\ InZone(p, plan)
               /\ advice.action = "CLOSE" =>
                      /\ Sided(p)
                      /\ \/ NearLiquidation(p, 2)
                         \/ HasScan /\ plan.direction = Opposite(p) /\ Conflicts(p) >= 3
               /\ advice.action = "REDUCE" =>
                      \/ advice.reason \in {"doubled", "first target"}
                      \/ p.side = "LONG" /\ band = "bear"
                      \/ {"daily", "4h"} \subseteq AgainstMomentum(p)
               /\ advice.reason # "unknown side" => Sided(p)
<1>1. PICK i \in 1..14 : /\ evaluate_dca(p, plan) = Rules(p, plan)[i]
                         /\ When(p, plan, i)
                         /\ \A j \in 1..14 : j < i => ~When(p, plan, j)
  BY FirstRule
<1> DEFINE advice == evaluate_dca(p, plan)
<1>e. /\ i = 1 \/ i = 2 \/ i = 3 \/ i = 4 \/ i = 5 \/ i = 6 \/ i = 7 \/ i = 8 \/ i = 9
         \/ i = 10 \/ i = 11 \/ i = 12 \/ i = 13 \/ i = 14
      /\ advice = Rules(p, plan)[i]
  BY <1>1
<1>r. /\ Rules(p, plan)[1].reason = "unknown side" /\ Rules(p, plan)[1].action = "HOLD"
      /\ Rules(p, plan)[2].action = "CLOSE" /\ Rules(p, plan)[3].action = "HOLD"
      /\ Rules(p, plan)[4].reason = "doubled" /\ Rules(p, plan)[4].action = "REDUCE"
      /\ Rules(p, plan)[5].reason = "first target" /\ Rules(p, plan)[5].action = "REDUCE"
      /\ Rules(p, plan)[6].action = "CLOSE" /\ Rules(p, plan)[7].action = "REDUCE"
      /\ Rules(p, plan)[8].action = "REDUCE" /\ Rules(p, plan)[9].action = "HOLD"
      /\ Rules(p, plan)[10].action = "HOLD" /\ Rules(p, plan)[11].action = "HOLD"
      /\ Rules(p, plan)[12].action = "ADD" /\ Rules(p, plan)[13].action \in {"error", "ADD"}
      /\ Rules(p, plan)[14].action = "HOLD"
  BY DEF Rules, Rule
<1>2. i # 1 => Sided(p)
  BY <1>1, RulesAre
<1>3. i > 3 => HasScan /\ ~NearLiquidation(p, 2)
  BY <1>1, RulesAre
<1>4. i > 10 => Aligned(p)
  BY <1>1, RulesAre
<1>5. advice.action = "ADD" => i \in {12, 13}
  BY <1>e, <1>r
<1>6. advice.action = "CLOSE" => i \in {2, 6}
  BY <1>e, <1>r
<1>7. advice.action = "REDUCE" => i \in {4, 5, 7, 8}
  BY <1>e, <1>r
<1>8. advice.reason # "unknown side" => i # 1
  BY <1>e, <1>r
<1>9. i \in {4, 5} => advice.reason \in {"doubled", "first target"}
  BY <1>e, <1>r
<1>10. i \in {12, 13} => InZone(p, plan)
  BY <1>1, RulesAre
<1>11. /\ i = 2 => NearLiquidation(p, 2)
       /\ i = 6 => plan.direction = Opposite(p) /\ Conflicts(p) >= 3
       /\ i = 7 => p.side = "LONG" /\ band = "bear"
       /\ i = 8 => {"daily", "4h"} \subseteq AgainstMomentum(p)
  BY <1>1, RulesAre
<1> HIDE DEF advice
<1>12. advice.action = "ADD" =>
          /\ Sided(p) /\ ~NearLiquidation(p, 2) /\ HasScan /\ Aligned(p) /\ InZone(p, plan)
  BY <1>2, <1>3, <1>4, <1>5, <1>10
<1>13. advice.action = "CLOSE" =>
          /\ Sided(p)
          /\ NearLiquidation(p, 2) \/ (HasScan /\ plan.direction = Opposite(p) /\ Conflicts(p) >= 3)
  BY <1>2, <1>3, <1>6, <1>11
<1>14. advice.action = "REDUCE" =>
          \/ advice.reason \in {"doubled", "first target"}
          \/ p.side = "LONG" /\ band = "bear"
          \/ {"daily", "4h"} \subseteq AgainstMomentum(p)
  BY <1>7, <1>9, <1>11
<1> QED BY <1>2, <1>8, <1>12, <1>13, <1>14 DEF advice

-----------------------------------------------------------------------------
(***************************************************************************)
(* DcaAdvice: the plan and the counts against a position.                  *)
(***************************************************************************)
LEMMA PlanIs ==
    /\ Plan.direction # NoDirection =>
           /\ HasScan /\ TradeDecision /\ Plan.direction = ScanDirection
           /\ ScanDirection \in Direction
    /\ Plan.direction = NoDirection => Plan.low = 1 /\ Plan.high = 0
<1>1. TradeDecision => ScanDirection # NoDirection /\ ScanDirection \in Direction
  BY DirectionIs DEF TradeDecision, EntryActionable, Direction
<1>2. CASE HasScan /\ TradeDecision
  <2>1. Plan.direction = ScanDirection
    BY <1>2 DEF Plan
  <2> QED BY <1>1, <1>2, <2>1
<1>3. CASE ~(HasScan /\ TradeDecision)
  BY <1>3 DEF Plan
<1> QED BY <1>2, <1>3

\* A direction is never against its own side and always against the other.
LEMMA SideCounts ==
    ASSUME NEW p, Sided(p), ScanDirection \in Direction
    PROVE  /\ ScanDirection = p.side =>
                  /\ AgainstMomentum(p) = {} /\ AgainstStructure(p) = {} /\ Conflicts(p) = 0
                  /\ Aligned(p) /\ ~AgainstRegime(p)
           /\ ScanDirection # p.side =>
                  /\ ScanDirection = Opposite(p) /\ Inferred = Opposite(p) /\ Conflicts(p) = 6
                  /\ ~Aligned(p) /\ AgainstRegime(p)
<1>0. p.side \in {"LONG", "SHORT"} /\ ScanDirection \in {"LONG", "SHORT"}
  BY DEF Sided, Direction
<1>1. /\ p.side = "LONG" => AgainstMomentum(p) = Reds /\ AgainstStructure(p) = Downs
      /\ p.side = "SHORT" => AgainstMomentum(p) = Greens /\ AgainstStructure(p) = Ups
  BY DEF AgainstMomentum, AgainstStructure, AgainstColour, AgainstZones, Reds, Downs, Greens, Ups
<1>2. /\ ScanDirection = "LONG" => Reds = {} /\ Downs = {} /\ band = "bull"
      /\ ScanDirection = "SHORT" => Greens = {} /\ Ups = {} /\ band = "bear"
  BY DirectionIs DEF Reds, Downs, Greens, Ups, Bullish, Bearish
<1>3. Conflicts(p) = Cardinality(AgainstMomentum(p)) + Cardinality(AgainstStructure(p))
  BY DEF Conflicts
<1>4. MomentumFrames # {}
  BY DEF MomentumFrames
<1>5. CASE ScanDirection = p.side
  <2>1. AgainstMomentum(p) = {} /\ AgainstStructure(p) = {}
    BY <1>0, <1>1, <1>2, <1>5
  <2>2. Conflicts(p) = 0
    BY <1>3, <2>1, FS_EmptySet
  <2>3. Aligned(p)
    BY <1>0, <1>4, <1>5, DirectionIs DEF Aligned, WithColour
  <2>4. ~AgainstRegime(p)
    BY <1>0, <1>2, <1>5 DEF AgainstRegime
  <2> QED BY <1>5, <2>1, <2>2, <2>3, <2>4
<1>6. CASE ScanDirection # p.side
  <2>1. ScanDirection = Opposite(p)
    BY <1>0, <1>6 DEF Opposite
  <2>2. Conflicts(p) = 6
    BY <1>0, <1>1, <1>3, <1>6, SignalCounts
  <2>3. Inferred = ScanDirection
    <3>1. SignalsFor(Bullish, "GREEN") = Cardinality(Greens) + Cardinality(Ups)
          /\ SignalsFor(Bearish, "RED") = Cardinality(Reds) + Cardinality(Downs)
      BY DEF SignalsFor, Greens, Ups, Reds, Downs
    <3>2. CASE ScanDirection = "LONG"
      <4>1. SignalsFor(Bullish, "GREEN") = 6 /\ SignalsFor(Bearish, "RED") = 0
        BY <3>1, <3>2, SignalCounts
      <4> QED BY <3>2, <4>1 DEF Inferred
    <3>3. CASE ScanDirection = "SHORT"
      <4>1. SignalsFor(Bullish, "GREEN") = 0 /\ SignalsFor(Bearish, "RED") = 6
        BY <3>1, <3>3, SignalCounts
      <4> QED BY <3>3, <4>1 DEF Inferred
    <3> QED BY <1>0, <3>2, <3>3
  <2>4. ~Aligned(p)
    BY <1>0, <1>6, DirectionIs DEF Aligned, WithColour
  <2>5. AgainstRegime(p)
    BY <1>0, <1>2, <1>6 DEF AgainstRegime
  <2> QED BY <1>6, <2>1, <2>2, <2>3, <2>4, <2>5
<1> QED BY <1>5, <1>6

-----------------------------------------------------------------------------
(***************************************************************************)
(* DcaAdvice: the properties, one by one.                                  *)
(***************************************************************************)
LEMMA CloserIsNear ==
    ASSUME NEW p \in Position, NearLiquidation(p, 2)
    PROVE  NearLiquidation(p, 5)
<1>1. PICK mark \in Nat : mark = Mark(p)
  BY AdviceAssumption DEF Mark
<1>2. p.liquidation \in Nat
  BY AdviceAssumption
<1>3. PICK gap \in Int : gap = Gap(Mark(p), p.liquidation)
  BY <1>1, <1>2 DEF Gap
<1>4. p.liquidation > 0 /\ gap * 100 < 2 * mark
  BY <1>1, <1>3 DEF NearLiquidation
<1>5. gap * 100 < 5 * mark
  BY <1>4
<1> QED BY <1>1, <1>3, <1>4, <1>5 DEF NearLiquidation

\* An alert at DANGER, or none.
LEMMA DangerIs ==
    ASSUME NEW p \in Position, Sided(p)
    PROVE  /\ NearLiquidation(p, 2) => InDanger(p)
           /\ HasScan /\ Inferred = Opposite(p) /\ Conflicts(p) >= 3 => InDanger(p)
           /\ ~NearLiquidation(p, 2) /\ AgainstMomentum(p) = {} /\ AgainstStructure(p) = {}
              /\ ~(Conflicts(p) >= 3) => ~InDanger(p)
<1> DEFINE E == evaluate_position_alerts(p)
<1>1. E = LiquidationAlerts(p)
          \cup IF HasScan THEN MomentumAlerts(p) \cup StructureAlerts(p) \cup ConfluenceAlerts(p) ELSE {}
  BY DEF evaluate_position_alerts
<1>2. InDanger(p) <=> \E a \in E : a.severity = "DANGER"
  BY DEF InDanger, Severities
<1> HIDE DEF E
<1>3. ASSUME NearLiquidation(p, 2) PROVE InDanger(p)
  <2>1. AlertOf("LIQ_DISTANCE", NearLiquidation(p, 2)) \in LiquidationAlerts(p)
    BY <1>3, CloserIsNear DEF LiquidationAlerts
  <2>2. AlertOf("LIQ_DISTANCE", NearLiquidation(p, 2)).severity = "DANGER"
    BY <1>3 DEF AlertOf
  <2> QED BY <1>1, <1>2, <2>1, <2>2
<1>4. ASSUME HasScan, Inferred = Opposite(p), Conflicts(p) >= 3 PROVE InDanger(p)
  <2>1. AlertOf("CONFLUENCE", Conflicts(p) >= 3) \in ConfluenceAlerts(p)
    BY <1>4 DEF ConfluenceAlerts
  <2>2. AlertOf("CONFLUENCE", Conflicts(p) >= 3).severity = "DANGER"
    BY <1>4 DEF AlertOf
  <2> QED BY <1>1, <1>2, <1>4, <2>1, <2>2
<1>5. ASSUME ~NearLiquidation(p, 2), AgainstMomentum(p) = {}, AgainstStructure(p) = {},
             ~(Conflicts(p) >= 3)
      PROVE  ~InDanger(p)
  <2>1. \A a \in LiquidationAlerts(p) : a = AlertOf("LIQ_DISTANCE", NearLiquidation(p, 2))
    BY DEF LiquidationAlerts
  <2>2. \A a \in ConfluenceAlerts(p) : a = AlertOf("CONFLUENCE", Conflicts(p) >= 3)
    BY DEF ConfluenceAlerts
  <2>3. MomentumAlerts(p) = {} /\ StructureAlerts(p) = {}
    BY <1>5 DEF MomentumAlerts, StructureAlerts
  <2>4. /\ AlertOf("LIQ_DISTANCE", NearLiquidation(p, 2)).severity = "WARNING"
        /\ AlertOf("CONFLUENCE", Conflicts(p) >= 3).severity = "WARNING"
    BY <1>5 DEF AlertOf
  <2>5. \A a \in E : a \in LiquidationAlerts(p) \/ a \in ConfluenceAlerts(p)
    BY <1>1, <2>3
  <2> QED BY <1>2, <2>1, <2>2, <2>4, <2>5
<1> QED BY <1>3, <1>4, <1>5

\* In the zone of the plan a price has not passed its stop, unless a SHORT's zone has.
LEMMA ZoneBeforeStop ==
    ASSUME ScanTypeOK, StopProtects, HasScan, NEW p \in Position, Plan.direction # NoDirection,
           InZone(p, Plan)
    PROVE  /\ ScanDirection = "LONG" => Mark(p) > PriceLevels.stop
           /\ ScanDirection = "SHORT" /\ EntryBlock.high < PriceLevels.stop => Mark(p) < PriceLevels.stop
<1>1. HasScan /\ TradeDecision
  BY PlanIs
<1>2. EntryActionable /\ Done
  BY <1>1 DEF TradeDecision, HasScan, Done
<1>3. Plan.low = EntryBlock.low /\ Plan.high = EntryBlock.high
  BY <1>1 DEF Plan
<1>4. PICK mark \in Nat : mark = Mark(p)
  BY AdviceAssumption DEF Mark
<1>5. EntryBlock.low \in Nat /\ EntryBlock.high \in Nat
  BY <1>2, EntryIsBlock, ScanAssumption
<1>6. EntryBlock.low <= mark /\ mark <= EntryBlock.high
  BY <1>3, <1>4 DEF InZone
<1>7. PriceLevels.entry = EntryBlock.low /\ PriceLevels.stop \in Int
  BY <1>2, <1>5, LevelsTyped
<1>8. ScanDirection = "LONG" => PriceLevels.stop < PriceLevels.entry
  BY <1>2 DEF StopProtects, StopOnLossSide
<1> QED BY <1>4, <1>5, <1>6, <1>7, <1>8

LEMMA AddHolds ==
    ASSUME ScanTypeOK, StopProtects, NEW p \in Position
    PROVE  AddIsBacked(p, evaluate_dca(p, Plan))
<1> SUFFICES ASSUME evaluate_dca(p, Plan).action = "ADD"
             PROVE  /\ ScanDirection = p.side /\ ~AgainstRegime(p) /\ ~InDanger(p)
                    /\ Conflicts(p) = 0
                    /\ p.side = "LONG" => Mark(p) > PriceLevels.stop
                    /\ p.side = "SHORT" /\ EntryBlock.high < PriceLevels.stop =>
                           Mark(p) < PriceLevels.stop
  BY DEF AddIsBacked
<1>1. Sided(p) /\ ~NearLiquidation(p, 2) /\ HasScan /\ Aligned(p) /\ InZone(p, Plan)
  BY AdviceIs
<1>2. Plan.direction # NoDirection
  <2>1. SUFFICES ASSUME Plan.low = 1, Plan.high = 0 PROVE FALSE
    BY PlanIs
  <2>2. Mark(p) \in Nat
    BY AdviceAssumption DEF Mark
  <2> QED BY <1>1, <2>1, <2>2 DEF InZone
<1>3. ScanDirection \in Direction
  BY <1>2, PlanIs
<1>4. ScanDirection = p.side
  BY <1>1, <1>3, SideCounts
<1>5. ~AgainstRegime(p) /\ AgainstMomentum(p) = {} /\ AgainstStructure(p) = {} /\ Conflicts(p) = 0
  BY <1>1, <1>3, <1>4, SideCounts
<1>6. ~InDanger(p)
  <2>1. ~(Conflicts(p) >= 3)
    BY <1>5
  <2> QED BY <1>1, <1>5, <2>1, DangerIs
<1> QED BY <1>1, <1>2, <1>4, <1>5, <1>6, ZoneBeforeStop

LEMMA CloseHolds ==
    ASSUME NEW p \in Position
    PROVE  CloseIsDanger(p, evaluate_dca(p, Plan))
<1> SUFFICES ASSUME evaluate_dca(p, Plan).action = "CLOSE" PROVE InDanger(p)
  BY DEF CloseIsDanger
<1>1. /\ Sided(p)
      /\ NearLiquidation(p, 2) \/ (HasScan /\ Plan.direction = Opposite(p) /\ Conflicts(p) >= 3)
  BY AdviceIs
<1>2. CASE NearLiquidation(p, 2)
  BY <1>1, <1>2, DangerIs
<1>3. CASE HasScan /\ Plan.direction = Opposite(p) /\ Conflicts(p) >= 3
  <2>1. Opposite(p) # NoDirection /\ Opposite(p) # p.side
    BY <1>1 DEF Opposite, NoDirection, Sided, Direction
  <2>2. ScanDirection \in Direction /\ ScanDirection = Opposite(p)
    BY <1>3, <2>1, PlanIs
  <2>3. Inferred = Opposite(p)
    BY <1>1, <2>1, <2>2, SideCounts
  <2> QED BY <1>1, <1>3, <2>3, DangerIs
<1> QED BY <1>1, <1>2, <1>3

LEMMA RulingHolds ==
    ASSUME ScanTypeOK, StopProtects, NEW p \in Position
    PROVE  RulingIsTrue(p, evaluate_dca(p, Plan), Plan)
<1> DEFINE advice == evaluate_dca(p, Plan)
           ruling == Ruling(p, advice, Plan)
<1>1. ASSUME ruling = "add in zone" PROVE ScanDirection = p.side
  <2>1. advice.action = "ADD"
    BY <1>1 DEF Ruling
  <2> QED BY <2>1, AddHolds DEF AddIsBacked
<1>2. ASSUME ruling = "hold, add in zone" PROVE ScanDirection = p.side
  <2>1. ~AgainstRegime(p) /\ DcaZone(advice.reason, Plan)
    BY <1>2 DEF Ruling
  <2>2. advice.reason # "unknown side" /\ Plan.direction # NoDirection
    BY <2>1 DEF DcaZone, HasZone
  <2>3. Sided(p)
    BY <2>2, AdviceIs
  <2>4. ScanDirection \in Direction
    BY <2>2, PlanIs
  <2> QED BY <2>1, <2>3, <2>4, SideCounts
<1>3. ASSUME ruling = "momentum flipped" PROVE Cardinality(AgainstMomentum(p)) >= 2
  <2>1. advice.action = "REDUCE" /\ ~AgainstRegime(p) /\ advice.reason \notin {"doubled", "first target"}
    BY <1>3 DEF Ruling
  <2>2. {"daily", "4h"} \subseteq AgainstMomentum(p)
    BY <2>1, AdviceIs DEF AgainstRegime
  <2>3. IsFiniteSet(AgainstMomentum(p))
    BY FramesAreThree, FS_Subset DEF AgainstMomentum
  <2>4. Cardinality({"daily", "4h"}) = 2
    <3>1. IsFiniteSet({"daily"}) /\ Cardinality({"daily"}) = 1
      BY FS_Singleton
    <3>2. Cardinality({"daily"} \cup {"4h"}) = 2
      BY <3>1, FS_AddElement
    <3>3. {"daily"} \cup {"4h"} = {"daily", "4h"}
      OBVIOUS
    <3> QED BY <3>2, <3>3
  <2> QED BY <2>2, <2>3, <2>4, FS_Subset, FS_CardinalityType
<1>4. ASSUME ruling = "wrong side of the band" PROVE Alignment(p) = "COUNTER_REGIME"
  <2>1. HasScan /\ AgainstRegime(p)
    BY <1>4 DEF Ruling
  <2>2. Sided(p) /\ band # "none"
    BY <2>1 DEF AgainstRegime, Sided, Direction
  <2> QED BY <2>1, <2>2 DEF Alignment
<1> QED BY <1>1, <1>2, <1>3, <1>4 DEF RulingIsTrue

LEMMA LadderHolds ==
    ASSUME NEW p \in Position, Sided(p)
    PROVE  LadderInOrder(p)
<1>1. PICK rsi \in Int : rsi = Rsi(p) /\ (rsi = NoRsi \/ rsi >= 0) /\ NoRsi = -1
  BY AdviceAssumption DEF Rsi, NoRsi
<1>2. /\ p.side = "LONG" => RsiThresholds(p) = <<30, 24, 16>>
      /\ p.side # "LONG" => RsiThresholds(p) = <<80, 92, 95>>
  BY DEF RsiThresholds
<1>3. ASSUME NEW i \in 1..3
      PROVE  /\ RsiThresholds(p)[i] \in Int
             /\ \A j \in 1..3 : i < j =>
                    /\ p.side = "LONG" => RsiThresholds(p)[j] < RsiThresholds(p)[i]
                    /\ p.side # "LONG" => RsiThresholds(p)[i] < RsiThresholds(p)[j]
  BY <1>2
<1>4. ASSUME NEW i \in 1..3, NEW j \in 1..3, i < j, Reached(p, j) PROVE Reached(p, i)
  BY <1>1, <1>3, <1>4 DEF Reached
<1>5. ASSUME NextEntry(p) # 0, Rsi(p) # NoRsi
      PROVE  IF p.side = "LONG" THEN RsiThresholds(p)[NextEntry(p)] < Rsi(p)
             ELSE RsiThresholds(p)[NextEntry(p)] > Rsi(p)
  <2> DEFINE pending == {i \in 1..3 : ~Reached(p, i)}
  <2>1. pending # {} /\ NextEntry(p) = Min(pending)
    BY <1>5 DEF NextEntry
  <2>2. NextEntry(p) \in pending
    <3>1. pending \in SUBSET Nat
      OBVIOUS
    <3> HIDE DEF pending
    <3> QED BY <2>1, <3>1, MinIsLeast
  <2>3. PICK n \in 1..3 : n = NextEntry(p) /\ ~Reached(p, n)
    BY <2>2
  <2> QED BY <1>1, <1>3, <1>5, <2>3 DEF Reached
<1> QED BY <1>4, <1>5 DEF LadderInOrder

\* The engine, the alerts and the desk agree about every position a scan may meet, whatever
\* its side, its profit and its prices (dca_service.py, position_alert_service.py,
\* position_desk_service.py); that the price has not passed the stop takes, as the stop
\* itself, order blocks of two cents and more.
THEOREM AdviceHolds ==
    ASSUME \A b \in Block : b.low >= 2 * Cent
    PROVE  ScanSpec => []DcaInv
<1>1. ScanIInv => DcaInv
  <2> SUFFICES ASSUME ScanIInv, NEW p \in Position
               PROVE  /\ AddIsBacked(p, evaluate_dca(p, Plan))
                      /\ CloseIsDanger(p, evaluate_dca(p, Plan))
                      /\ RulingIsTrue(p, evaluate_dca(p, Plan), Plan)
                      /\ Sided(p) => LadderInOrder(p)
    BY DEF DcaInv
  <2>1. ScanTypeOK /\ StopProtects
    BY ScanIInvImplies DEF ScanIInv, ScanInv
  <2> QED BY <2>1, AddHolds, CloseHolds, RulingHolds, LadderHolds
<1> QED BY <1>1, ScanInitOK, ScanStep, PTL DEF ScanSpec

-----------------------------------------------------------------------------
(* The comparison of two stored scans. *)

\* What the comparison of a part with itself finds.
LEMMA SamePart ==
    ASSUME NEW Value, NEW part \in Part(Value)
    PROVE  /\ Changed(part, part) = {}
           /\ Value \subseteq Int => \A m \in Moved(part, part) : m = 0
BY DEF Part, Changed, Moved

\* A number moved as far in one direction as in the other, and a part changed
\* in both or in neither.
LEMMA BothWays ==
    ASSUME NEW Value, NEW old \in Part(Value), NEW new \in Part(Value)
    PROVE  /\ Value \subseteq Int => Moved(old, new) = Moved(new, old)
           /\ \A x \in Changed(old, new) : <<x[2], x[1]>> \in Changed(new, old)
           /\ (Changed(old, new) = {}) <=> (Changed(new, old) = {})
<1>1. ASSUME NEW x \in Changed(old, new) PROVE <<x[2], x[1]>> \in Changed(new, old)
  BY DEF Changed
<1>2. ASSUME NEW x \in Changed(new, old) PROVE <<x[2], x[1]>> \in Changed(old, new)
  BY DEF Changed
<1>3. ASSUME Value \subseteq Int PROVE Moved(old, new) = Moved(new, old)
  <2> DEFINE far(a, b) == IF a < b THEN b - a ELSE a - b
  <2>1. \A a \in old, b \in new : far(a, b) = far(b, a)
    BY <1>3 DEF Part
  <2>2. Moved(old, new) = {far(x[1], x[2]) : x \in old \X new}
    BY DEF Moved
  <2>3. Moved(new, old) = {far(x[1], x[2]) : x \in new \X old}
    BY DEF Moved
  <2> HIDE DEF far
  <2>4. ASSUME NEW m \in Moved(old, new) PROVE m \in Moved(new, old)
    <3>1. PICK a \in old, b \in new : m = far(a, b)
      BY <2>2
    <3>2. <<b, a>> \in new \X old /\ m = far(<<b, a>>[1], <<b, a>>[2])
      BY <3>1, <2>1
    <3> QED BY <3>2, <2>3
  <2>5. ASSUME NEW m \in Moved(new, old) PROVE m \in Moved(old, new)
    <3>1. PICK b \in new, a \in old : m = far(b, a)
      BY <2>3
    <3>2. <<a, b>> \in old \X new /\ m = far(<<a, b>>[1], <<a, b>>[2])
      BY <3>1, <2>1
    <3> QED BY <3>2, <2>2
  <2> QED BY <2>4, <2>5
<1> QED BY <1>1, <1>2, <1>3

\* Two values that differ are a change.
LEMMA DifferentParts ==
    ASSUME NEW Value, NEW old \in Part(Value), NEW new \in Part(Value),
           old # {}, new # {}, old # new
    PROVE  \E x \in Changed(old, new) : TRUE
<1>1. PICK a \in old, b \in new : TRUE
  OBVIOUS
<1>2. old = {a} /\ new = {b}
  BY DEF Part
<1>3. <<a, b>> \in old \X new /\ <<a, b>>[1] # <<a, b>>[2]
  BY <1>2
<1> QED BY <1>3 DEF Changed

LEMMA ResultParts ==
    ASSUME NEW r \in Result
    PROVE  /\ r.total \in Part(Int) /\ r.volume \in Part(Int)
           /\ \A k \in CATEGORY_KEYS : r.scores[k] \in Part(Int)
           /\ \A tf \in QQE_TIMEFRAMES : r.qqe[tf] \in Part(STRING)
           /\ \A tf \in STRUCTURE_TIMEFRAMES : r.structure[tf] \in Part(STRING)
           /\ r.direction \in Part(STRING) /\ r.decision \in Part(BOOLEAN)
           /\ \A l \in PlanLevels : r.levels[l] \in Part(Int)
           /\ r.patterns \in Seq([name : STRING, confirmed : BOOLEAN])
           /\ \A tf \in INDICATOR_TIMEFRAMES :
                /\ r.squeeze[tf] \in Part(BOOLEAN) /\ r.rsi[tf] \in Part(Int)
                /\ r.cross[tf] \in Part(STRING) /\ r.macd[tf] \in Part(STRING)
                /\ r.align[tf] \in Part(STRING)
<1>1. r \in StoredResult
  BY ScanDiffAssumption
<1> HIDE DEF Part
<1> QED BY <1>1 DEF StoredResult

LEMMA ElementOf ==
    ASSUME NEW S, NEW s \in Seq(S), NEW i \in DOMAIN s
    PROVE  s[i] \in S
OBVIOUS

\* The pattern of a name is the last one of that name, and it is confirmed or not.
LEMMA ConfirmedIs ==
    ASSUME NEW r \in Result, NEW name \in PatternNames(r)
    PROVE  Confirmed(r, name) \in BOOLEAN
<1> DEFINE s == r.patterns
<1>1. s \in Seq([name : STRING, confirmed : BOOLEAN])
  BY ResultParts
<1> DEFINE At == {i \in DOMAIN s : s[i].name = name}
           Back == {Len(s) - i : i \in At}
<1>2. Len(s) \in Nat /\ DOMAIN s = 1 .. Len(s)
  BY <1>1
<1>3. At \subseteq 1 .. Len(s) /\ At # {}
  BY <1>2 DEF PatternNames
<1>4. Back \in SUBSET Nat /\ Back # {}
  <2> HIDE DEF s, At
  <2>1. \A i \in At : Len(s) - i \in Nat
    BY <1>2, <1>3
  <2>2. PICK i \in At : TRUE
    BY <1>3
  <2>3. Len(s) - i \in Back
    BY <2>2
  <2> QED BY <2>1, <2>3
<1>5. PICK b \in Back : \A c \in Back : b <= c
  BY <1>4, LeastNat
<1>6. PICK i \in At : b = Len(s) - i
  OBVIOUS
<1>7. \A k \in At : k <= i
  <2> TAKE k \in At
  <2>1. Len(s) - i <= Len(s) - k
    BY <1>5, <1>6
  <2>2. i \in 1 .. Len(s) /\ k \in 1 .. Len(s)
    BY <1>3
  <2> HIDE DEF s, At
  <2> QED BY <2>1, <2>2, <1>2
<1> DEFINE Last(j) == /\ s[j].name = name
                      /\ \A k \in DOMAIN s : s[k].name = name => k <= j
<1>8. i \in DOMAIN s /\ Last(i)
  BY <1>7
<1> DEFINE last == CHOOSE j \in DOMAIN s : Last(j)
<1>9. last \in DOMAIN s
  BY <1>8
<1>10. s[last].confirmed \in BOOLEAN
  <2> HIDE DEF last, s
  <2>1. s[last] \in [name : STRING, confirmed : BOOLEAN]
    BY <1>1, <1>9, ElementOf
  <2> QED BY <2>1
<1>11. Confirmed(r, name) = s[last].confirmed
  BY DEF Confirmed
<1> QED BY <1>10, <1>11

\* Each comparator finds nothing in a scan compared with itself.
LEMMA SelfIsSame ==
    ASSUME NEW r \in Result
    PROVE  diff_scans(r, r) = {}
<1>1. diff_score(r, r) = {}
  <2>1. \A m \in Moved(r.total, r.total) : m = 0
    BY ResultParts, SamePart
  <2>2. \A k \in CATEGORY_KEYS : \A m \in Moved(r.scores[k], r.scores[k]) : m = 0
    BY ResultParts, SamePart
  <2>3. {m \in Moved(r.total, r.total) : m >= 5} = {}
    BY <2>1
  <2>4. \A k \in CATEGORY_KEYS : {m \in Moved(r.scores[k], r.scores[k]) : m >= 50} = {}
    BY <2>2
  <2> QED BY <2>3, <2>4 DEF diff_score
<1>2. diff_qqe_signals(r, r) = {}
  <2>1. \A tf \in QQE_TIMEFRAMES : Changed(r.qqe[tf], r.qqe[tf]) = {}
    BY ResultParts, SamePart
  <2> QED BY <2>1 DEF diff_qqe_signals
<1>3. diff_structure(r, r) = {}
  <2>1. \A tf \in STRUCTURE_TIMEFRAMES : Changed(r.structure[tf], r.structure[tf]) = {}
    BY ResultParts, SamePart
  <2> QED BY <2>1 DEF diff_structure
<1>4. diff_trade_plan(r, r) = {}
  <2>1. Changed(r.direction, r.direction) = {} /\ Changed(r.decision, r.decision) = {}
    BY ResultParts, SamePart
  <2>2. \A l \in PlanLevels : \A m \in Moved(r.levels[l], r.levels[l]) : m = 0
    BY ResultParts, SamePart
  <2>3. \A l \in PlanLevels : ~ LevelChanged(r.levels[l], r.levels[l])
    BY <2>2 DEF LevelChanged
  <2> QED BY <2>1, <2>3 DEF diff_trade_plan
<1>5. diff_patterns(r, r) = {}
  BY DEF diff_patterns
<1>6. diff_indicators(r, r) = {}
  <2>1. ASSUME NEW tf \in INDICATOR_TIMEFRAMES
        PROVE  /\ Changed(r.squeeze[tf], r.squeeze[tf]) = {}
               /\ Changed(r.cross[tf], r.cross[tf]) = {}
    BY ResultParts, SamePart
  <2>2. ASSUME NEW tf \in INDICATOR_TIMEFRAMES
        PROVE  {y \in r.rsi[tf] \X r.rsi[tf] : RsiListed(y[1], y[2])} = {}
    <3>1. ASSUME NEW v \in r.rsi[tf] PROVE ~ RsiListed(v, v)
      <4>1. v \in Int
        BY ResultParts DEF Part
      <4>2. \A m \in Moved({v}, {v}) : m = 0
        BY <4>1 DEF Moved
      <4> QED BY <4>1, <4>2 DEF RsiListed, RsiCrossed
    <3>2. \A x, y \in r.rsi[tf] : x = y
      BY ResultParts DEF Part
    <3> QED BY <3>1, <3>2
  <2> QED BY <2>1, <2>2 DEF diff_indicators
<1>7. diff_volume(r, r) = {}
  <2>1. \A x, y \in r.volume : x = y /\ x \in Int
    BY ResultParts DEF Part
  <2>2. {y \in r.volume \X r.volume :
           y[1] > 0 /\ (y[2] >= 2 * y[1] \/ 2 * y[2] <= y[1])} = {}
    BY <2>1
  <2> QED BY <2>2 DEF diff_volume
<1>8. diff_macd(r, r) = {}
  <2>1. \A tf \in INDICATOR_TIMEFRAMES : Changed(r.macd[tf], r.macd[tf]) = {}
    BY ResultParts, SamePart
  <2> QED BY <2>1 DEF diff_macd
<1>9. diff_ema_alignment(r, r) = {}
  <2>1. \A tf \in INDICATOR_TIMEFRAMES : Changed(r.align[tf], r.align[tf]) = {}
    BY ResultParts, SamePart
  <2> QED BY <2>1 DEF diff_ema_alignment
<1> QED BY <1>1, <1>2, <1>3, <1>4, <1>5, <1>6, <1>7, <1>8, <1>9 DEF diff_scans

\* The first word of the field of an entry tells which comparator made it.
LEMMA FieldOf ==
    ASSUME NEW p, NEW c
    PROVE  /\ \A e \in diff_score(p, c) : e.field[1] = "score"
           /\ \A e \in diff_qqe_signals(p, c) : e.field[1] = "qqe_signals"
           /\ \A e \in diff_structure(p, c) : e.field[1] = "structure"
           /\ \A e \in diff_trade_plan(p, c) : e.field[1] = "trade_plan"
           /\ \A e \in diff_indicators(p, c) : e.field[1] \in {"bb_squeeze", "rsi", "ema_cross"}
           /\ \A e \in diff_volume(p, c) : e.field[1] = "volume"
           /\ \A e \in diff_macd(p, c) : e.field[1] = "macd_cross"
           /\ \A e \in diff_ema_alignment(p, c) : e.field[1] = "ema_alignment"
<1>1. ASSUME NEW e \in diff_score(p, c) PROVE e.field[1] = "score"
  <2> DEFINE total(d) == _entry(<<"score", "total">>,
                IF d > 500 THEN "major" ELSE IF d >= 100 THEN "minor" ELSE "info", "")
             category(k, d) == _entry(<<"score", k>>, IF d >= 200 THEN "minor" ELSE "info", "")
             moves(k) == {m \in Moved(p.scores[k], c.scores[k]) : m >= 50}
  <2>1. diff_score(p, c) = {total(d) : d \in {m \in Moved(p.total, c.total) : m >= 5}}
                             \cup UNION {{category(k, d) : d \in moves(k)} : k \in CATEGORY_KEYS}
    BY DEF diff_score
  <2>2. \A d, k : total(d).field[1] = "score" /\ category(k, d).field[1] = "score"
    BY DEF _entry
  <2> HIDE DEF total, category, moves
  <2> QED BY <2>1, <2>2
<1>2. ASSUME NEW e \in diff_qqe_signals(p, c) PROVE e.field[1] = "qqe_signals"
  <2>1. PICK what, severity : e = _entry(<<"qqe_signals", what>>, severity, "")
    BY DEF diff_qqe_signals
  <2> QED BY <2>1 DEF _entry
<1>3. ASSUME NEW e \in diff_structure(p, c) PROVE e.field[1] = "structure"
  <2>1. PICK tf \in STRUCTURE_TIMEFRAMES : e = _entry(<<"structure", tf>>, "major", "")
    BY DEF diff_structure
  <2> QED BY <2>1 DEF _entry
<1>4. ASSUME NEW e \in diff_trade_plan(p, c) PROVE e.field[1] = "trade_plan"
  <2>1. PICK what, severity : e = _entry(<<"trade_plan", what>>, severity, "")
    BY DEF diff_trade_plan
  <2> QED BY <2>1 DEF _entry
<1>5. ASSUME NEW e \in diff_indicators(p, c)
      PROVE  e.field[1] \in {"bb_squeeze", "rsi", "ema_cross"}
  <2>1. PICK kind \in {"bb_squeeze", "rsi", "ema_cross"} :
           \E what, severity : e = _entry(<<kind, what>>, severity, "")
    BY DEF diff_indicators
  <2>2. PICK what, severity : e = _entry(<<kind, what>>, severity, "")
    BY <2>1
  <2> QED BY <2>2 DEF _entry
<1>6. ASSUME NEW e \in diff_volume(p, c) PROVE e.field[1] = "volume"
  <2>1. e = _entry(<<"volume", "daily">>, "info", "")
    BY DEF diff_volume
  <2> QED BY <2>1 DEF _entry
<1>7. ASSUME NEW e \in diff_macd(p, c) PROVE e.field[1] = "macd_cross"
  <2>1. PICK tf \in INDICATOR_TIMEFRAMES : e = _entry(<<"macd_cross", tf>>, "minor", "")
    BY DEF diff_macd
  <2> QED BY <2>1 DEF _entry
<1>8. ASSUME NEW e \in diff_ema_alignment(p, c) PROVE e.field[1] = "ema_alignment"
  <2>1. PICK tf \in INDICATOR_TIMEFRAMES : e = _entry(<<"ema_alignment", tf>>, "minor", "")
    BY DEF diff_ema_alignment
  <2> QED BY <2>1 DEF _entry
<1> QED BY <1>1, <1>2, <1>3, <1>4, <1>5, <1>6, <1>7, <1>8

\* The comparators that take no side name the same changes in both directions.
LEMMA ScoreMirror ==
    ASSUME NEW p \in Result, NEW c \in Result
    PROVE  diff_score(p, c) = diff_score(c, p)
<1> DEFINE T(a, b) == {_entry(<<"score", "total">>,
                IF d > 500 THEN "major" ELSE IF d >= 100 THEN "minor" ELSE "info", "")
                : d \in {m \in Moved(a.total, b.total) : m >= 5}}
           M(a, b, k) == {_entry(<<"score", k>>, IF d >= 200 THEN "minor" ELSE "info", "")
                : d \in {m \in Moved(a.scores[k], b.scores[k]) : m >= 50}}
<1>1. T(p, c) = T(c, p)
  <2>1. Moved(p.total, c.total) = Moved(c.total, p.total)
    BY ResultParts, BothWays
  <2> QED BY <2>1
<1>2. ASSUME NEW k \in CATEGORY_KEYS PROVE M(p, c, k) = M(c, p, k)
  <2>1. Moved(p.scores[k], c.scores[k]) = Moved(c.scores[k], p.scores[k])
    BY ResultParts, BothWays
  <2> QED BY <2>1
<1>3. \A a, b : diff_score(a, b) = T(a, b) \cup UNION {M(a, b, k) : k \in CATEGORY_KEYS}
  BY DEF diff_score
<1> HIDE DEF T, M
<1>4. {M(p, c, k) : k \in CATEGORY_KEYS} = {M(c, p, k) : k \in CATEGORY_KEYS}
  BY <1>2
<1> QED BY <1>1, <1>3, <1>4

LEMMA QqeMirror ==
    ASSUME NEW p \in Result, NEW c \in Result
    PROVE  diff_qqe_signals(p, c) \subseteq diff_qqe_signals(c, p)
<1> DEFINE entry(tf, x) == _entry(<<"qqe_signals", tf>>, _qqe_severity(x[1], x[2]), "")
           changes(a, b, tf) == Changed(a.qqe[tf], b.qqe[tf])
<1>1. \A a, b : diff_qqe_signals(a, b) =
                  UNION {{entry(tf, x) : x \in changes(a, b, tf)} : tf \in QQE_TIMEFRAMES}
  BY DEF diff_qqe_signals
<1>2. ASSUME NEW tf \in QQE_TIMEFRAMES, NEW x \in changes(p, c, tf)
      PROVE  \E y \in changes(c, p, tf) : entry(tf, y) = entry(tf, x)
  <2>1. <<x[2], x[1]>> \in changes(c, p, tf)
    BY ResultParts, BothWays
  <2>2. _qqe_severity(x[1], x[2]) = _qqe_severity(x[2], x[1])
    BY DEF _qqe_severity
  <2>3. entry(tf, <<x[2], x[1]>>) = entry(tf, x)
    BY <2>2
  <2> QED BY <2>1, <2>3
<1> HIDE DEF entry, changes
<1> QED BY <1>1, <1>2

LEMMA LabelMirror ==
    ASSUME NEW p \in Result, NEW c \in Result
    PROVE  /\ diff_structure(p, c) \subseteq diff_structure(c, p)
           /\ diff_ema_alignment(p, c) \subseteq diff_ema_alignment(c, p)
<1>1. diff_structure(p, c) \subseteq diff_structure(c, p)
  <2> DEFINE changes(a, b, tf) == Changed(a.structure[tf], b.structure[tf])
             entry(tf) == _entry(<<"structure", tf>>, "major", "")
  <2>1. \A a, b : diff_structure(a, b) =
          UNION {{entry(tf) : x \in changes(a, b, tf)} : tf \in STRUCTURE_TIMEFRAMES}
    BY DEF diff_structure
  <2>2. \A tf \in STRUCTURE_TIMEFRAMES : (changes(p, c, tf) = {}) <=> (changes(c, p, tf) = {})
    BY ResultParts, BothWays
  <2> HIDE DEF changes, entry
  <2> QED BY <2>1, <2>2
<1>2. diff_ema_alignment(p, c) \subseteq diff_ema_alignment(c, p)
  <2> DEFINE changes(a, b, tf) == Changed(a.align[tf], b.align[tf])
             entry(tf) == _entry(<<"ema_alignment", tf>>, "minor", "")
  <2>1. \A a, b : diff_ema_alignment(a, b) =
          UNION {{entry(tf) : x \in changes(a, b, tf)} : tf \in INDICATOR_TIMEFRAMES}
    BY DEF diff_ema_alignment
  <2>2. \A tf \in INDICATOR_TIMEFRAMES : (changes(p, c, tf) = {}) <=> (changes(c, p, tf) = {})
    BY ResultParts, BothWays
  <2> HIDE DEF changes, entry
  <2> QED BY <2>1, <2>2
<1> QED BY <1>1, <1>2

LEMMA PlanMirror ==
    ASSUME NEW p \in Result, NEW c \in Result
    PROVE  diff_trade_plan(p, c) \subseteq diff_trade_plan(c, p)
<1>1. /\ (Changed(p.direction, c.direction) = {}) <=> (Changed(c.direction, p.direction) = {})
      /\ (Changed(p.decision, c.decision) = {}) <=> (Changed(c.decision, p.decision) = {})
  <2>1. (Changed(p.direction, c.direction) = {}) <=> (Changed(c.direction, p.direction) = {})
    BY ResultParts, BothWays
  <2>2. (Changed(p.decision, c.decision) = {}) <=> (Changed(c.decision, p.decision) = {})
    BY ResultParts, BothWays
  <2> QED BY <2>1, <2>2
<1>2. \A l \in PlanLevels : LevelChanged(p.levels[l], c.levels[l])
                              <=> LevelChanged(c.levels[l], p.levels[l])
  <2>1. \A l \in PlanLevels : Moved(p.levels[l], c.levels[l]) = Moved(c.levels[l], p.levels[l])
    BY ResultParts, BothWays
  <2> QED BY <2>1 DEF LevelChanged
<1> QED BY <1>1, <1>2 DEF diff_trade_plan

LEMMA IndicatorMirror ==
    ASSUME NEW p \in Result, NEW c \in Result,
           NEW e \in diff_indicators(p, c), e.field[1] # "rsi"
    PROVE  e \in diff_indicators(c, p)
<1> DEFINE rsi(tf, x) ==
             _entry(<<"rsi", tf>>, IF RsiCrossed(x[1], x[2]) THEN "minor" ELSE "info", "")
           squeeze(tf) == _entry(<<"bb_squeeze", tf>>, "minor", "")
           cross(tf) == _entry(<<"ema_cross", tf>>, "minor", "")
           moves(a, b, tf) == {y \in a.rsi[tf] \X b.rsi[tf] : RsiListed(y[1], y[2])}
           squeezes(a, b, tf) == Changed(a.squeeze[tf], b.squeeze[tf])
           crosses(a, b, tf) == Changed(a.cross[tf], b.cross[tf])
<1>1. \A a, b : diff_indicators(a, b) =
         UNION {{squeeze(tf) : x \in squeezes(a, b, tf)} \cup {rsi(tf, x) : x \in moves(a, b, tf)}
                \cup {cross(tf) : x \in crosses(a, b, tf)} : tf \in INDICATOR_TIMEFRAMES}
  BY DEF diff_indicators
<1>2. \A tf, x : rsi(tf, x).field[1] = "rsi"
  BY DEF _entry
<1>3. \A tf \in INDICATOR_TIMEFRAMES :
        /\ (squeezes(p, c, tf) = {}) <=> (squeezes(c, p, tf) = {})
        /\ (crosses(p, c, tf) = {}) <=> (crosses(c, p, tf) = {})
  <2>1. \A tf \in INDICATOR_TIMEFRAMES : (squeezes(p, c, tf) = {}) <=> (squeezes(c, p, tf) = {})
    BY ResultParts, BothWays
  <2>2. \A tf \in INDICATOR_TIMEFRAMES : (crosses(p, c, tf) = {}) <=> (crosses(c, p, tf) = {})
    BY ResultParts, BothWays
  <2> QED BY <2>1, <2>2
<1> HIDE DEF rsi, squeeze, cross, moves, squeezes, crosses
<1>4. PICK tf \in INDICATOR_TIMEFRAMES : \/ e = squeeze(tf) /\ squeezes(p, c, tf) # {}
                                         \/ \E x \in moves(p, c, tf) : e = rsi(tf, x)
                                         \/ e = cross(tf) /\ crosses(p, c, tf) # {}
  BY <1>1
<1>5. \/ e = squeeze(tf) /\ squeezes(c, p, tf) # {}
      \/ e = cross(tf) /\ crosses(c, p, tf) # {}
  BY <1>2, <1>3, <1>4
<1> QED BY <1>1, <1>5

\* What is new in one direction is invalidated in the other, and what is
\* confirmed in one is unconfirmed in the other.
PatternKey(e) ==
    <<"patterns", IF e.field[2] \in {"new", "invalidated"} THEN "set" ELSE "flag", e.about>>
LEMMA PatternMirror ==
    ASSUME NEW p \in Result, NEW c \in Result, NEW e \in diff_patterns(p, c)
    PROVE  /\ e.field[1] = "patterns"
           /\ \E d \in diff_patterns(c, p) :
                d.field[1] = "patterns" /\ PatternKey(d) = PatternKey(e)
<1> DEFINE was == PatternNames(p)
           is == PatternNames(c)
           impact(name) == IF name \in HIGH_IMPACT_PATTERNS THEN "major" ELSE "minor"
<1>1. PICK name :
        \/ name \in is \ was /\ e = _entry(<<"patterns", "new">>, impact(name), name)
        \/ name \in was \ is /\ e = _entry(<<"patterns", "invalidated">>, impact(name), name)
        \/ /\ name \in was \cap is /\ e = _entry(<<"patterns", "confirmed">>, "minor", name)
           /\ Confirmed(p, name) = FALSE /\ Confirmed(c, name) # FALSE
        \/ /\ name \in was \cap is /\ e = _entry(<<"patterns", "unconfirmed">>, "info", name)
           /\ Confirmed(p, name) = TRUE /\ Confirmed(c, name) # TRUE
  BY DEF diff_patterns
<1>2. CASE name \in is \ was /\ e = _entry(<<"patterns", "new">>, impact(name), name)
  <2>1. _entry(<<"patterns", "invalidated">>, impact(name), name) \in diff_patterns(c, p)
    BY <1>2 DEF diff_patterns
  <2> QED BY <1>2, <2>1 DEF _entry, PatternKey
<1>3. CASE name \in was \ is /\ e = _entry(<<"patterns", "invalidated">>, impact(name), name)
  <2>1. _entry(<<"patterns", "new">>, impact(name), name) \in diff_patterns(c, p)
    BY <1>3 DEF diff_patterns
  <2> QED BY <1>3, <2>1 DEF _entry, PatternKey
<1>4. CASE /\ name \in was \cap is /\ e = _entry(<<"patterns", "confirmed">>, "minor", name)
           /\ Confirmed(p, name) = FALSE /\ Confirmed(c, name) # FALSE
  <2>1. Confirmed(c, name) = TRUE /\ Confirmed(p, name) # TRUE
    BY <1>4, ConfirmedIs
  <2>2. _entry(<<"patterns", "unconfirmed">>, "info", name) \in diff_patterns(c, p)
    BY <1>4, <2>1 DEF diff_patterns
  <2> QED BY <1>4, <2>2 DEF _entry, PatternKey
<1>5. CASE /\ name \in was \cap is /\ e = _entry(<<"patterns", "unconfirmed">>, "info", name)
           /\ Confirmed(p, name) = TRUE /\ Confirmed(c, name) # TRUE
  <2>1. Confirmed(c, name) = FALSE /\ Confirmed(p, name) # FALSE
    BY <1>5, ConfirmedIs
  <2>2. _entry(<<"patterns", "confirmed">>, "minor", name) \in diff_patterns(c, p)
    BY <1>5, <2>1 DEF diff_patterns
  <2> QED BY <1>5, <2>2 DEF _entry, PatternKey
<1> QED BY <1>1, <1>2, <1>3, <1>4, <1>5

\* What a comparison names, the one in the other direction names as well.
DirectedFields == {"rsi", "macd_cross", "volume"}
FieldKey(e) ==
    IF e.field[1] = "patterns" THEN PatternKey(e) ELSE <<e.field[1], e.field[2], "">>
LEMMA EntryMirror ==
    ASSUME NEW p \in Result, NEW c \in Result,
           NEW e \in diff_scans(p, c), e.field[1] \notin DirectedFields
    PROVE  \E d \in diff_scans(c, p) :
              d.field[1] \notin DirectedFields /\ FieldKey(d) = FieldKey(e)
<1>1. CASE e \in diff_patterns(p, c)
  <2>1. PICK d \in diff_patterns(c, p) :
          /\ e.field[1] = "patterns" /\ d.field[1] = "patterns"
          /\ PatternKey(d) = PatternKey(e)
    BY <1>1, PatternMirror
  <2>2. d \in diff_scans(c, p)
    BY DEF diff_scans
  <2> QED BY <2>1, <2>2 DEF FieldKey, DirectedFields
<1>2. CASE e \notin diff_patterns(p, c)
  <2>1. e \notin diff_volume(p, c) /\ e \notin diff_macd(p, c)
    BY FieldOf DEF DirectedFields
  <2>2. e \in diff_indicators(p, c) => e.field[1] # "rsi"
    BY DEF DirectedFields
  <2>3. e \in diff_scans(c, p)
    BY <1>2, <2>1, <2>2, ScoreMirror, QqeMirror, LabelMirror, PlanMirror, IndicatorMirror
       DEF diff_scans
  <2> QED BY <2>3
<1> QED BY <1>1, <1>2

LEMMA MirrorHolds ==
    ASSUME NEW p \in Result, NEW c \in Result
    PROVE  DiffIsSymmetric(p, c)
<1>1. \A E : Undirected(E) = {FieldKey(e) : e \in {d \in E : d.field[1] \notin DirectedFields}}
  BY DEF Undirected, FieldKey, PatternKey, DirectedFields
<1>2. ASSUME NEW a \in Result, NEW b \in Result, NEW key \in Undirected(diff_scans(a, b))
      PROVE  key \in Undirected(diff_scans(b, a))
  <2>1. PICK e \in diff_scans(a, b) : e.field[1] \notin DirectedFields /\ key = FieldKey(e)
    BY <1>1, <1>2
  <2>2. PICK d \in diff_scans(b, a) : d.field[1] \notin DirectedFields /\ key = FieldKey(d)
    BY <2>1, EntryMirror
  <2> QED BY <1>1, <2>2
<1>3. Undirected(diff_scans(p, c)) = Undirected(diff_scans(c, p))
  BY <1>2
<1> QED BY <1>3, SelfIsSame DEF DiffIsSymmetric

-----------------------------------------------------------------------------
(* The timeline. *)

LEMMA TimelineShape ==
    ASSUME ScanDiffTypeOK, ScanDiffAssumption
    PROVE  /\ Len(saved) \in Nat /\ ScansListed \in Seq(Result)
           /\ Len(ScansListed) \in Nat /\ DOMAIN ScansListed = 1 .. Len(ScansListed)
           /\ Len(ScansListed) <= ScanLimit /\ Len(ScansListed) <= Len(saved)
           /\ \A i \in 1 .. Len(ScansListed) : ScansListed[i] = saved[i] /\ ScansListed[i] \in Result
           /\ Len(saved) <= ScanLimit => Len(ScansListed) = Len(saved)
           /\ DOMAIN get_scan_changes = 1 .. Len(ScansListed) - 1
           /\ \A i \in 1 .. Len(ScansListed) - 1 :
                 get_scan_changes[i] = diff_scans(ScansListed[i], ScansListed[i + 1])
           /\ Len(ScansListed) > 0 => Len(get_scan_changes) = Len(ScansListed) - 1
<1> DEFINE top == IF Len(saved) < ScanLimit THEN Len(saved) ELSE ScanLimit
           n == Len(ScansListed)
<1>1. saved \in Seq(Result) /\ Len(saved) \in Nat /\ ScanLimit \in Nat
  BY DEF ScanDiffTypeOK, ScanDiffAssumption
<1>2. top \in 0 .. Len(saved) /\ top <= ScanLimit
  BY <1>1
<1>3. ScansListed = SubSeq(saved, 1, top)
  BY DEF ScansListed
<1>4. /\ ScansListed \in Seq(Result) /\ n = top
      /\ \A i \in 1 .. n : ScansListed[i] = saved[i] /\ ScansListed[i] \in Result
  <2> HIDE DEF top
  <2> QED BY <1>1, <1>2, <1>3
<1>5. /\ DOMAIN get_scan_changes = 1 .. n - 1
      /\ \A i \in 1 .. n - 1 :
            get_scan_changes[i] = diff_scans(ScansListed[i], ScansListed[i + 1])
  BY DEF get_scan_changes
<1>6. ASSUME n > 0 PROVE Len(get_scan_changes) = n - 1
  <2> DEFINE Rng == {get_scan_changes[i] : i \in 1 .. n - 1}
  <2>1. n - 1 \in Nat
    BY <1>4, <1>2, <1>1, <1>6
  <2>2. get_scan_changes \in [1 .. n - 1 -> Rng]
    BY DEF get_scan_changes
  <2>3. get_scan_changes \in Seq(Rng)
    BY <2>1, <2>2, SeqDef
  <2>4. DOMAIN get_scan_changes = 1 .. Len(get_scan_changes) /\ Len(get_scan_changes) \in Nat
    BY <2>3
  <2> HIDE DEF n
  <2> QED BY <2>1, <2>4, <1>5
<1>7. /\ n <= ScanLimit /\ n <= Len(saved) /\ n \in Nat
      /\ Len(saved) <= ScanLimit => n = Len(saved)
  <2> HIDE DEF n
  <2> QED BY <1>1, <1>2, <1>4
<1>8. DOMAIN ScansListed = 1 .. n
  BY <1>4
<1> HIDE DEF top
<1> QED BY <1>1, <1>4, <1>5, <1>6, <1>7, <1>8

LEMMA TimelineEnd ==
    ASSUME ScanDiffTypeOK, ScanDiffAssumption
    PROVE  TimelineEndsWithDiff(get_scan_changes)
<1> SUFFICES ASSUME Len(saved) \in 2 .. ScanLimit
             PROVE  get_scan_changes[Len(get_scan_changes)] = get_scan_diff
  BY DEF TimelineEndsWithDiff
<1> DEFINE n == Len(saved)
<1>1. n \in Nat /\ ScanLimit \in Nat /\ n >= 2 /\ n <= ScanLimit
  BY TimelineShape DEF ScanDiffAssumption
<1>2. Len(ScansListed) = n /\ Len(get_scan_changes) = n - 1
  BY <1>1, TimelineShape
<1>3. get_scan_changes[n - 1] = diff_scans(ScansListed[n - 1], ScansListed[n - 1 + 1])
  BY <1>1, <1>2, TimelineShape
<1>4. n - 1 + 1 = n
  BY <1>1
<1>5. ScansListed[n - 1] = saved[n - 1] /\ ScansListed[n] = saved[n]
  BY <1>1, <1>2, TimelineShape
<1> QED BY <1>2, <1>3, <1>4, <1>5 DEF get_scan_diff

\* A story that ends with another value than it began turned somewhere.
LEMMA Turn ==
    ASSUME NEW n \in Nat, n > 0, NEW f, f[1] # f[n]
    PROVE  \E i \in 1 .. n - 1 : f[i] # f[i + 1]
<1> DEFINE S == {i \in 1 .. n : f[i] # f[1]}
<1>1. S \in SUBSET Nat /\ S # {}
  OBVIOUS
<1>2. PICK j \in S : \A k \in S : j <= k
  BY <1>1, LeastNat
<1>3. j \in 1 .. n /\ f[j] # f[1] /\ j # 1
  OBVIOUS
<1>4. j - 1 \in 1 .. n - 1 /\ j - 1 + 1 = j /\ j - 1 \notin S
  BY <1>2, <1>3
<1>5. f[j - 1] = f[1]
  BY <1>4
<1> QED BY <1>3, <1>4, <1>5

LEMMA FunctionLength ==
    ASSUME NEW n \in Nat, NEW f, f = [i \in 1 .. n |-> f[i]]
    PROVE  Len(f) = n
<1> DEFINE Rng == {f[i] : i \in 1 .. n}
<1>1. f \in [1 .. n -> Rng]
  OBVIOUS
<1>2. f \in Seq(Rng)
  BY <1>1, SeqDef
<1>3. DOMAIN f = 1 .. Len(f) /\ Len(f) \in Nat
  BY <1>2
<1> QED BY <1>1, <1>3

\* The step at which a part turned, with both values there.
LEMMA TurnFound ==
    ASSUME ScanDiffTypeOK, ScanDiffAssumption, NEW Value, NEW story,
           story = [i \in DOMAIN ScansListed |-> story[i]],
           \A i \in DOMAIN ScansListed : story[i] \in Part(Value), Turned(story)
    PROVE  \E i \in 1 .. Len(ScansListed) - 1 : Changed(story[i], story[i + 1]) # {}
<1> DEFINE n == Len(ScansListed)
<1>1. n \in Nat /\ DOMAIN ScansListed = 1 .. n
  BY TimelineShape
<1>2. Len(story) = n /\ DOMAIN story = 1 .. n
  <2> HIDE DEF n
  <2> QED BY <1>1, FunctionLength
<1>3. n > 0 /\ story[1] # story[n] /\ \A i \in 1 .. n : story[i] # {}
  BY <1>1, <1>2 DEF Turned
<1>4. PICK i \in 1 .. n - 1 : story[i] # story[i + 1]
  <2> HIDE DEF n
  <2> QED BY <1>1, <1>3, Turn
<1>5. i \in 1 .. n /\ i + 1 \in 1 .. n
  BY <1>1
<1>6. story[i] \in Part(Value) /\ story[i + 1] \in Part(Value) /\ story[i] # {} /\ story[i + 1] # {}
  BY <1>1, <1>3, <1>5
<1>7. Changed(story[i], story[i + 1]) # {}
  BY <1>4, <1>6, DifferentParts
<1> QED BY <1>7

\* A label that changed between two scans is named.
LEMMA ChangeIsNamed ==
    ASSUME NEW p, NEW c
    PROVE  /\ \A tf \in QQE_TIMEFRAMES : Changed(p.qqe[tf], c.qqe[tf]) # {}
                => \E e \in diff_scans(p, c) : e.field = <<"qqe_signals", tf>>
           /\ \A tf \in STRUCTURE_TIMEFRAMES : Changed(p.structure[tf], c.structure[tf]) # {}
                => \E e \in diff_scans(p, c) : e.field = <<"structure", tf>>
           /\ \A tf \in INDICATOR_TIMEFRAMES : Changed(p.squeeze[tf], c.squeeze[tf]) # {}
                => \E e \in diff_scans(p, c) : e.field = <<"bb_squeeze", tf>>
           /\ \A tf \in INDICATOR_TIMEFRAMES : Changed(p.align[tf], c.align[tf]) # {}
                => \E e \in diff_scans(p, c) : e.field = <<"ema_alignment", tf>>
           /\ Changed(p.direction, c.direction) # {}
                => \E e \in diff_scans(p, c) : e.field = <<"trade_plan", "direction">>
           /\ Changed(p.decision, c.decision) # {}
                => \E e \in diff_scans(p, c) : e.field = <<"trade_plan", "trade_decision">>
<1>1. \A f, severity, about : _entry(f, severity, about).field = f
  BY DEF _entry
<1>2. ASSUME NEW tf \in QQE_TIMEFRAMES, Changed(p.qqe[tf], c.qqe[tf]) # {}
      PROVE  \E e \in diff_scans(p, c) : e.field = <<"qqe_signals", tf>>
  <2>1. PICK x \in Changed(p.qqe[tf], c.qqe[tf]) : TRUE
    BY <1>2
  <2> DEFINE entry(t, y) == _entry(<<"qqe_signals", t>>, _qqe_severity(y[1], y[2]), "")
             changes(t) == Changed(p.qqe[t], c.qqe[t])
  <2>2. diff_qqe_signals(p, c) = UNION {{entry(t, y) : y \in changes(t)} : t \in QQE_TIMEFRAMES}
    BY DEF diff_qqe_signals
  <2>3. x \in changes(tf)
    BY <2>1
  <2>4. entry(tf, x).field = <<"qqe_signals", tf>>
    BY <1>1
  <2> HIDE DEF entry, changes
  <2>5. entry(tf, x) \in diff_scans(p, c)
    BY <2>2, <2>3 DEF diff_scans
  <2> QED BY <2>4, <2>5
<1>3. ASSUME NEW tf \in STRUCTURE_TIMEFRAMES, Changed(p.structure[tf], c.structure[tf]) # {}
      PROVE  \E e \in diff_scans(p, c) : e.field = <<"structure", tf>>
  <2>1. _entry(<<"structure", tf>>, "major", "") \in diff_structure(p, c)
    BY <1>3 DEF diff_structure
  <2> QED BY <1>1, <2>1 DEF diff_scans
<1>4. ASSUME NEW tf \in INDICATOR_TIMEFRAMES, Changed(p.squeeze[tf], c.squeeze[tf]) # {}
      PROVE  \E e \in diff_scans(p, c) : e.field = <<"bb_squeeze", tf>>
  <2> DEFINE squeezes(t) == {_entry(<<"bb_squeeze", t>>, "minor", "")
                                : x \in Changed(p.squeeze[t], c.squeeze[t])}
             squeeze(t) == _entry(<<"bb_squeeze", t>>, "minor", "")
             others(t) ==
               {_entry(<<"rsi", t>>, IF RsiCrossed(x[1], x[2]) THEN "minor" ELSE "info", "")
                  : x \in {y \in p.rsi[t] \X c.rsi[t] : RsiListed(y[1], y[2])}}
               \cup {_entry(<<"ema_cross", t>>, "minor", "") : x \in Changed(p.cross[t], c.cross[t])}
  <2>0. diff_indicators(p, c) = UNION {squeezes(t) \cup others(t) : t \in INDICATOR_TIMEFRAMES}
    BY DEF diff_indicators
  <2>1. squeeze(tf) \in squeezes(tf) /\ squeeze(tf).field = <<"bb_squeeze", tf>>
    BY <1>1, <1>4
  <2> HIDE DEF squeeze, squeezes, others
  <2>2. squeeze(tf) \in diff_indicators(p, c)
    BY <2>0, <2>1
  <2> QED BY <2>1, <2>2 DEF diff_scans
<1>5. ASSUME NEW tf \in INDICATOR_TIMEFRAMES, Changed(p.align[tf], c.align[tf]) # {}
      PROVE  \E e \in diff_scans(p, c) : e.field = <<"ema_alignment", tf>>
  <2>1. _entry(<<"ema_alignment", tf>>, "minor", "") \in diff_ema_alignment(p, c)
    BY <1>5 DEF diff_ema_alignment
  <2> QED BY <1>1, <2>1 DEF diff_scans
<1>6. ASSUME Changed(p.direction, c.direction) # {}
      PROVE  \E e \in diff_scans(p, c) : e.field = <<"trade_plan", "direction">>
  <2>1. _entry(<<"trade_plan", "direction">>, "major", "") \in diff_trade_plan(p, c)
    BY <1>6 DEF diff_trade_plan
  <2> QED BY <1>1, <2>1 DEF diff_scans
<1>7. ASSUME Changed(p.decision, c.decision) # {}
      PROVE  \E e \in diff_scans(p, c) : e.field = <<"trade_plan", "trade_decision">>
  <2>1. _entry(<<"trade_plan", "trade_decision">>, "major", "") \in diff_trade_plan(p, c)
    BY <1>7 DEF diff_trade_plan
  <2> QED BY <1>1, <2>1 DEF diff_scans
<1> QED BY <1>2, <1>3, <1>4, <1>5, <1>6, <1>7

LEMMA TurnsListed ==
    ASSUME ScanDiffTypeOK, ScanDiffAssumption
    PROVE  TurnIsListed(get_scan_changes)
<1> DEFINE L == ScansListed
           n == Len(L)
<1>1. DOMAIN L = 1 .. n /\ n \in Nat /\ \A i \in 1 .. n : L[i] \in Result
  BY TimelineShape
<1>2. ASSUME NEW i \in 1 .. n - 1, NEW field, \E e \in diff_scans(L[i], L[i + 1]) : e.field = field
      PROVE  Names(get_scan_changes, field)
  <2>1. i \in DOMAIN get_scan_changes /\ get_scan_changes[i] = diff_scans(L[i], L[i + 1])
    BY TimelineShape
  <2> QED BY <1>2, <2>1 DEF Names
<1>3. ASSUME NEW tf \in QQE_TIMEFRAMES, Turned(Story(LAMBDA r : r.qqe[tf]))
      PROVE  Names(get_scan_changes, <<"qqe_signals", tf>>)
  <2> DEFINE story == [i \in DOMAIN L |-> L[i].qqe[tf]]
  <2>1. Turned(story)
    BY <1>3 DEF Story
  <2>2. \A i \in DOMAIN L : story[i] \in Part(STRING)
    BY <1>1, ResultParts
  <2>3. \A i \in DOMAIN L : story[i] = L[i].qqe[tf]
    OBVIOUS
  <2>4. story = [i \in DOMAIN L |-> story[i]]
    OBVIOUS
  <2> HIDE DEF story
  <2>5. PICK i \in 1 .. n - 1 : Changed(story[i], story[i + 1]) # {}
    BY <2>1, <2>2, <2>4, TurnFound
  <2>6. i \in DOMAIN L /\ i + 1 \in DOMAIN L
    BY <1>1
  <2>7. Changed(L[i].qqe[tf], L[i + 1].qqe[tf]) # {}
    BY <2>3, <2>5, <2>6
  <2>8. \E e \in diff_scans(L[i], L[i + 1]) : e.field = <<"qqe_signals", tf>>
    BY <2>7, ChangeIsNamed
  <2> QED BY <1>2, <2>8
<1>4. ASSUME NEW tf \in STRUCTURE_TIMEFRAMES, Turned(Story(LAMBDA r : r.structure[tf]))
      PROVE  Names(get_scan_changes, <<"structure", tf>>)
  <2> DEFINE story == [i \in DOMAIN L |-> L[i].structure[tf]]
  <2>1. Turned(story)
    BY <1>4 DEF Story
  <2>2. \A i \in DOMAIN L : story[i] \in Part(STRING)
    BY <1>1, ResultParts
  <2>3. \A i \in DOMAIN L : story[i] = L[i].structure[tf]
    OBVIOUS
  <2>4. story = [i \in DOMAIN L |-> story[i]]
    OBVIOUS
  <2> HIDE DEF story
  <2>5. PICK i \in 1 .. n - 1 : Changed(story[i], story[i + 1]) # {}
    BY <2>1, <2>2, <2>4, TurnFound
  <2>6. i \in DOMAIN L /\ i + 1 \in DOMAIN L
    BY <1>1
  <2>7. Changed(L[i].structure[tf], L[i + 1].structure[tf]) # {}
    BY <2>3, <2>5, <2>6
  <2>8. \E e \in diff_scans(L[i], L[i + 1]) : e.field = <<"structure", tf>>
    BY <2>7, ChangeIsNamed
  <2> QED BY <1>2, <2>8
<1>5. ASSUME NEW tf \in INDICATOR_TIMEFRAMES, Turned(Story(LAMBDA r : r.squeeze[tf]))
      PROVE  Names(get_scan_changes, <<"bb_squeeze", tf>>)
  <2> DEFINE story == [i \in DOMAIN L |-> L[i].squeeze[tf]]
  <2>1. Turned(story)
    BY <1>5 DEF Story
  <2>2. \A i \in DOMAIN L : story[i] \in Part(BOOLEAN)
    BY <1>1, ResultParts
  <2>3. \A i \in DOMAIN L : story[i] = L[i].squeeze[tf]
    OBVIOUS
  <2>4. story = [i \in DOMAIN L |-> story[i]]
    OBVIOUS
  <2> HIDE DEF story
  <2>5. PICK i \in 1 .. n - 1 : Changed(story[i], story[i + 1]) # {}
    BY <2>1, <2>2, <2>4, TurnFound
  <2>6. i \in DOMAIN L /\ i + 1 \in DOMAIN L
    BY <1>1
  <2>7. Changed(L[i].squeeze[tf], L[i + 1].squeeze[tf]) # {}
    BY <2>3, <2>5, <2>6
  <2>8. \E e \in diff_scans(L[i], L[i + 1]) : e.field = <<"bb_squeeze", tf>>
    BY <2>7, ChangeIsNamed
  <2> QED BY <1>2, <2>8
<1>6. ASSUME NEW tf \in INDICATOR_TIMEFRAMES, Turned(Story(LAMBDA r : r.align[tf]))
      PROVE  Names(get_scan_changes, <<"ema_alignment", tf>>)
  <2> DEFINE story == [i \in DOMAIN L |-> L[i].align[tf]]
  <2>1. Turned(story)
    BY <1>6 DEF Story
  <2>2. \A i \in DOMAIN L : story[i] \in Part(STRING)
    BY <1>1, ResultParts
  <2>3. \A i \in DOMAIN L : story[i] = L[i].align[tf]
    OBVIOUS
  <2>4. story = [i \in DOMAIN L |-> story[i]]
    OBVIOUS
  <2> HIDE DEF story
  <2>5. PICK i \in 1 .. n - 1 : Changed(story[i], story[i + 1]) # {}
    BY <2>1, <2>2, <2>4, TurnFound
  <2>6. i \in DOMAIN L /\ i + 1 \in DOMAIN L
    BY <1>1
  <2>7. Changed(L[i].align[tf], L[i + 1].align[tf]) # {}
    BY <2>3, <2>5, <2>6
  <2>8. \E e \in diff_scans(L[i], L[i + 1]) : e.field = <<"ema_alignment", tf>>
    BY <2>7, ChangeIsNamed
  <2> QED BY <1>2, <2>8
<1>7. ASSUME Turned(Story(LAMBDA r : r.direction))
      PROVE  Names(get_scan_changes, <<"trade_plan", "direction">>)
  <2> DEFINE story == [i \in DOMAIN L |-> L[i].direction]
  <2>1. Turned(story)
    BY <1>7 DEF Story
  <2>2. \A i \in DOMAIN L : story[i] \in Part(STRING)
    BY <1>1, ResultParts
  <2>3. \A i \in DOMAIN L : story[i] = L[i].direction
    OBVIOUS
  <2>4. story = [i \in DOMAIN L |-> story[i]]
    OBVIOUS
  <2> HIDE DEF story
  <2>5. PICK i \in 1 .. n - 1 : Changed(story[i], story[i + 1]) # {}
    BY <2>1, <2>2, <2>4, TurnFound
  <2>6. i \in DOMAIN L /\ i + 1 \in DOMAIN L
    BY <1>1
  <2>7. Changed(L[i].direction, L[i + 1].direction) # {}
    BY <2>3, <2>5, <2>6
  <2>8. \E e \in diff_scans(L[i], L[i + 1]) : e.field = <<"trade_plan", "direction">>
    BY <2>7, ChangeIsNamed
  <2> QED BY <1>2, <2>8
<1>8. ASSUME Turned(Story(LAMBDA r : r.decision))
      PROVE  Names(get_scan_changes, <<"trade_plan", "trade_decision">>)
  <2> DEFINE story == [i \in DOMAIN L |-> L[i].decision]
  <2>1. Turned(story)
    BY <1>8 DEF Story
  <2>2. \A i \in DOMAIN L : story[i] \in Part(BOOLEAN)
    BY <1>1, ResultParts
  <2>3. \A i \in DOMAIN L : story[i] = L[i].decision
    OBVIOUS
  <2>4. story = [i \in DOMAIN L |-> story[i]]
    OBVIOUS
  <2> HIDE DEF story
  <2>5. PICK i \in 1 .. n - 1 : Changed(story[i], story[i + 1]) # {}
    BY <2>1, <2>2, <2>4, TurnFound
  <2>6. i \in DOMAIN L /\ i + 1 \in DOMAIN L
    BY <1>1
  <2>7. Changed(L[i].decision, L[i + 1].decision) # {}
    BY <2>3, <2>5, <2>6
  <2>8. \E e \in diff_scans(L[i], L[i + 1]) : e.field = <<"trade_plan", "trade_decision">>
    BY <2>7, ChangeIsNamed
  <2> QED BY <1>2, <2>8
<1> QED BY <1>3, <1>4, <1>5, <1>6, <1>7, <1>8 DEF TurnIsListed

\* A number that moved by more than five points a step on the whole moved by more
\* than five points in one of them.
LEMMA LargeStep ==
    ASSUME NEW n \in Nat, n > 0, NEW v, \A i \in 1 .. n : v[i] \in Int,
           v[n] - v[1] > 500 * (n - 1) \/ v[1] - v[n] > 500 * (n - 1)
    PROVE  \E i \in 1 .. n - 1 : v[i + 1] - v[i] > 500 \/ v[i] - v[i + 1] > 500
<1> DEFINE far(i) == v[i] - v[1] > 500 * (i - 1) \/ v[1] - v[i] > 500 * (i - 1)
           S == {i \in 1 .. n : far(i)}
<1>1. S \in SUBSET Nat /\ S # {}
  <2>1. n \in S
    OBVIOUS
  <2> QED BY <2>1
<1>2. PICK j \in S : \A k \in S : j <= k
  <2> HIDE DEF S
  <2> QED BY <1>1, LeastNat
<1>3. j \in 1 .. n /\ far(j)
  OBVIOUS
<1>4. j # 1
  <2>1. ~ far(1)
    OBVIOUS
  <2> QED BY <1>3, <2>1
<1>5. PICK i \in 1 .. n - 1 : j = i + 1
  <2>1. j - 1 \in 1 .. n - 1 /\ j = (j - 1) + 1
    BY <1>3, <1>4
  <2> QED BY <2>1
<1>6. ~ far(i)
  <2>1. i \in 1 .. n /\ ~ (j <= i)
    BY <1>5
  <2> QED BY <1>2, <2>1
<1>7. PICK a, b, f : a = v[i] /\ b = v[i + 1] /\ f = v[1]
  OBVIOUS
<1>8. a \in Int /\ b \in Int /\ f \in Int /\ i \in Int
  BY <1>5, <1>7
<1>9. ~ (a - f > 500 * (i - 1)) /\ ~ (f - a > 500 * (i - 1))
  BY <1>6, <1>7
<1>10. b - f > 500 * i \/ f - b > 500 * i
  BY <1>3, <1>5, <1>7, <1>8
<1>11. b - a > 500 \/ a - b > 500
  BY <1>8, <1>9, <1>10
<1> QED BY <1>7, <1>11

LEMMA LargeMoveListed ==
    ASSUME ScanDiffTypeOK, ScanDiffAssumption
    PROVE  LargeMoveIsMajor(get_scan_changes)
<1> DEFINE L == ScansListed
           n == Len(L)
           t == [i \in DOMAIN L |-> L[i].total]
<1>1. DOMAIN L = 1 .. n /\ n \in Nat /\ \A i \in 1 .. n : L[i] \in Result
  BY TimelineShape
<1>2. Len(t) = n
  <2>1. t = [i \in 1 .. n |-> t[i]]
    BY <1>1
  <2> HIDE DEF t, n
  <2> QED BY <1>1, <2>1, FunctionLength
<1>3. \A i \in 1 .. n : t[i] = L[i].total /\ t[i] \in Part(Int)
  BY <1>1, ResultParts
<1> SUFFICES ASSUME Turned(t), \E m \in Moved(t[1], t[Len(t)]) : m > 500 * (Len(t) - 1)
             PROVE  \E i \in DOMAIN get_scan_changes : \E e \in get_scan_changes[i] :
                       e.field = <<"score", "total">> /\ e.severity = "major"
  BY DEF LargeMoveIsMajor, Story
<1>4. n > 0 /\ \A i \in 1 .. n : t[i] # {}
  BY <1>1, <1>2 DEF Turned
<1> HIDE DEF t
<1> DEFINE v == [i \in 1 .. n |-> CHOOSE x \in t[i] : TRUE]
<1>5. \A i \in 1 .. n : v[i] \in Int /\ t[i] = {v[i]}
  <2>1. ASSUME NEW i \in 1 .. n PROVE v[i] \in Int /\ t[i] = {v[i]}
    <3>1. v[i] \in t[i]
      BY <1>4
    <3>2. t[i] \in Part(Int)
      BY <1>3
    <3> HIDE DEF v
    <3> QED BY <3>1, <3>2 DEF Part
  <2> QED BY <2>1
<1> HIDE DEF v
<1>6. 1 \in 1 .. n /\ n \in 1 .. n
  BY <1>1, <1>4
<1>7. v[n] - v[1] > 500 * (n - 1) \/ v[1] - v[n] > 500 * (n - 1)
  <2>1. PICK m \in Moved({v[1]}, {v[n]}) : m > 500 * (n - 1)
    BY <1>2, <1>5, <1>6
  <2>2. m = v[n] - v[1] \/ m = v[1] - v[n]
    BY DEF Moved
  <2> QED BY <2>1, <2>2
<1>8. PICK i \in 1 .. n - 1 : v[i + 1] - v[i] > 500 \/ v[i] - v[i + 1] > 500
  <2> HIDE DEF n
  <2> QED BY <1>1, <1>4, <1>5, <1>7, LargeStep
<1>9. i \in 1 .. n /\ i + 1 \in 1 .. n
  BY <1>1
<1>10. L[i].total = {v[i]} /\ L[i + 1].total = {v[i + 1]} /\ v[i] \in Int /\ v[i + 1] \in Int
  BY <1>3, <1>5, <1>9
<1> DEFINE d == IF v[i] < v[i + 1] THEN v[i + 1] - v[i] ELSE v[i] - v[i + 1]
<1>11. d > 500 /\ d >= 5
  BY <1>8, <1>10
<1>12. d \in Moved(L[i].total, L[i + 1].total)
  <2>1. <<v[i], v[i + 1]>> \in {v[i]} \X {v[i + 1]}
    OBVIOUS
  <2> QED BY <1>10, <2>1 DEF Moved
<1> DEFINE entry(x) == _entry(<<"score", "total">>,
              IF x > 500 THEN "major" ELSE IF x >= 100 THEN "minor" ELSE "info", "")
<1>13. entry(d).field = <<"score", "total">> /\ entry(d).severity = "major"
  <2> HIDE DEF d
  <2> QED BY <1>11 DEF _entry
<1>14. entry(d) \in diff_score(L[i], L[i + 1])
  <2>1. {entry(x) : x \in {m \in Moved(L[i].total, L[i + 1].total) : m >= 5}}
           \subseteq diff_score(L[i], L[i + 1])
    BY DEF diff_score
  <2> HIDE DEF entry, d
  <2> QED BY <1>11, <1>12, <2>1
<1>15. i \in DOMAIN get_scan_changes /\ entry(d) \in get_scan_changes[i]
  <2> HIDE DEF entry, d
  <2>1. i \in DOMAIN get_scan_changes /\ get_scan_changes[i] = diff_scans(L[i], L[i + 1])
    BY TimelineShape
  <2> QED BY <1>14, <2>1 DEF diff_scans
<1> QED BY <1>13, <1>15

\* A pattern is announced when the newer scan has it and the older has not, and
\* its end when it is the other way round.
LEMMA Announcements ==
    ASSUME NEW p, NEW c
    PROVE  /\ \A e \in diff_scans(p, c) : e.field = <<"patterns", "new">>
                => e.about \in PatternNames(c) /\ e.about \notin PatternNames(p)
           /\ \A name \in PatternNames(p) : name \notin PatternNames(c)
                => \E e \in diff_scans(p, c) :
                      e.field = <<"patterns", "invalidated">> /\ e.about = name
<1>1. ASSUME NEW e \in diff_scans(p, c), e.field = <<"patterns", "new">>
      PROVE  e.about \in PatternNames(c) /\ e.about \notin PatternNames(p)
  <2>1. e.field[1] = "patterns" /\ e.field[2] = "new"
    BY <1>1
  <2>2. e \in diff_patterns(p, c)
    BY <2>1, FieldOf DEF diff_scans
  <2> DEFINE impact(name) == IF name \in HIGH_IMPACT_PATTERNS THEN "major" ELSE "minor"
  <2>3. PICK name :
          \/ /\ name \in PatternNames(c) \ PatternNames(p)
             /\ e = _entry(<<"patterns", "new">>, impact(name), name)
          \/ e = _entry(<<"patterns", "invalidated">>, impact(name), name)
          \/ e = _entry(<<"patterns", "confirmed">>, "minor", name)
          \/ e = _entry(<<"patterns", "unconfirmed">>, "info", name)
    BY <2>2 DEF diff_patterns
  <2> QED BY <2>1, <2>3 DEF _entry
<1>2. ASSUME NEW name \in PatternNames(p), name \notin PatternNames(c)
      PROVE  \E e \in diff_scans(p, c) :
                e.field = <<"patterns", "invalidated">> /\ e.about = name
  <2> DEFINE impact == IF name \in HIGH_IMPACT_PATTERNS THEN "major" ELSE "minor"
  <2>1. _entry(<<"patterns", "invalidated">>, impact, name) \in diff_patterns(p, c)
    BY <1>2 DEF diff_patterns
  <2>2. _entry(<<"patterns", "invalidated">>, impact, name) \in diff_scans(p, c)
    BY <2>1 DEF diff_scans
  <2> QED BY <2>2 DEF _entry
<1> QED BY <1>1, <1>2

LEMMA AnnouncementsEnd ==
    ASSUME ScanDiffTypeOK, ScanDiffAssumption
    PROVE  AnnouncedOnce(get_scan_changes)
<1> DEFINE L == ScansListed
           n == Len(L)
           has(name, i) == name \in PatternNames(L[i])
<1>1. n \in Nat /\ DOMAIN get_scan_changes = 1 .. n - 1
  BY TimelineShape
<1>2. \A i \in 1 .. n - 1 : get_scan_changes[i] = diff_scans(L[i], L[i + 1])
  BY TimelineShape
<1> SUFFICES ASSUME NEW i \in DOMAIN get_scan_changes, NEW k \in DOMAIN get_scan_changes,
                    NEW e \in get_scan_changes[i],
                    i < k /\ e.field = <<"patterns", "new">> /\ e \in get_scan_changes[k]
             PROVE  \E m \in i + 1 .. k - 1 : \E d \in get_scan_changes[m] :
                       d.field = <<"patterns", "invalidated">> /\ d.about = e.about
  BY DEF AnnouncedOnce
<1>0. i \in 1 .. n - 1 /\ k \in 1 .. n - 1
  BY <1>1
<1>3. has(e.about, i + 1) /\ ~ has(e.about, k)
  BY <1>2, <1>0, Announcements
<1> DEFINE S == {j \in i + 1 .. k : ~ has(e.about, j)}
<1>4. S \in SUBSET Nat /\ S # {}
  <2>1. k \in S
    BY <1>1, <1>0, <1>3
  <2> QED BY <1>1, <1>0, <2>1
<1>5. PICK j \in S : \A m \in S : j <= m
  <2> HIDE DEF S
  <2> QED BY <1>4, LeastNat
<1>6. j \in i + 1 .. k /\ ~ has(e.about, j)
  OBVIOUS
<1>7. j # i + 1
  BY <1>3, <1>6
<1>8. PICK m \in i + 1 .. k - 1 : j = m + 1
  <2>1. j - 1 \in i + 1 .. k - 1 /\ j = (j - 1) + 1
    BY <1>1, <1>0, <1>6, <1>7
  <2> QED BY <2>1
<1>9. has(e.about, m)
  <2>1. m \in i + 1 .. k /\ ~ (j <= m)
    BY <1>1, <1>0, <1>8
  <2>2. m \notin S
    BY <1>5, <2>1
  <2> QED BY <2>1, <2>2
<1>10. m \in 1 .. n - 1
  BY <1>1, <1>0, <1>8
<1>11. \E d \in diff_scans(L[m], L[m + 1]) :
          d.field = <<"patterns", "invalidated">> /\ d.about = e.about
  BY ZenonT(30), <1>6, <1>8, <1>9, Announcements
<1> QED BY <1>2, <1>8, <1>10, <1>11

\* The type of the stored scans, for every set of results and every limit.
LEMMA ScanDiffTyped == ScanDiffSpec => []ScanDiffTypeOK
<1>1. ScanDiffInit => ScanDiffTypeOK
  BY DEF ScanDiffInit, ScanDiffTypeOK
<1>2. ScanDiffTypeOK /\ [ScanDiffNext]_scanDiffVars => ScanDiffTypeOK'
  <2> SUFFICES ASSUME ScanDiffTypeOK, [ScanDiffNext]_scanDiffVars
               PROVE  ScanDiffTypeOK'
    OBVIOUS
  <2>1. ASSUME NEW result \in Result, SaveScan(result) PROVE ScanDiffTypeOK'
    BY <2>1 DEF SaveScan, ScanDiffTypeOK
  <2>2. ASSUME NEW i \in DOMAIN saved, DeleteScan(i) PROVE ScanDiffTypeOK'
    <3>1. saved \in Seq(Result) /\ Len(saved) \in Nat /\ i \in 1 .. Len(saved)
      BY DEF ScanDiffTypeOK
    <3>2. SubSeq(saved, 1, i - 1) \in Seq(Result)
      BY <3>1
    <3>3. SubSeq(saved, i + 1, Len(saved)) \in Seq(Result)
      BY <3>1
    <3>4. saved' \in Seq(Result)
      BY <2>2, <3>2, <3>3, ConcatProperties DEF DeleteScan
    <3> QED BY <3>4 DEF ScanDiffTypeOK
  <2>3. CASE UNCHANGED scanDiffVars
    BY <2>3 DEF scanDiffVars, ScanDiffTypeOK
  <2> QED BY <2>1, <2>2, <2>3 DEF ScanDiffNext
<1> QED BY <1>1, <1>2, PTL DEF ScanDiffSpec

\* Comparing two stored scans in either direction names the same parts, the last
\* difference is the end of the timeline, and the timeline names every label that
\* turned, marks a large move of the score and ends a pattern before it begins
\* anew (DiffInv): whatever the scans hold and in whatever order they are stored
\* and deleted.
THEOREM DiffHolds == ScanDiffSpec => []DiffInv
<1>1. ScanDiffTypeOK => DiffInv
  <2> SUFFICES ASSUME ScanDiffTypeOK PROVE DiffInv
    OBVIOUS
  <2>1. TimelineHolds(get_scan_changes)
    BY ScanDiffAssumption, TimelineEnd, TurnsListed, LargeMoveListed, AnnouncementsEnd
       DEF TimelineHolds
  <2>2. ASSUME Len(saved) >= 2
        PROVE  DiffIsSymmetric(saved[Len(saved) - 1], saved[Len(saved)])
    <3>1. saved \in Seq(Result) /\ Len(saved) \in Nat
      BY DEF ScanDiffTypeOK
    <3>2. saved[Len(saved) - 1] \in Result /\ saved[Len(saved)] \in Result
      BY <2>2, <3>1
    <3> QED BY <3>2, MirrorHolds
  <2> QED BY <2>1, <2>2 DEF DiffInv
<1> QED BY <1>1, ScanDiffTyped, PTL

=============================================================================
