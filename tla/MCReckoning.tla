---------------------------- MODULE MCReckoning -----------------------------
(***************************************************************************)
(* Small instances for TLC of what the backend computes and keeps for one  *)
(* user, in parts that share no state: a behaviour is one of exactly one   *)
(* of them, chosen at the start.                                           *)
(***************************************************************************)
EXTENDS ClosedPositions, MonthlyGoals, DcaAdvice, DcaShadow, DcaMetrics, DcaReplay, Trading,
        ScanDiff, MacroCache

\* ClosedPositions.
NoFilter ==
    [from |-> Unset, to |-> Unset, symbol |-> "any", side |-> "any", pnlMin |-> -1000,
     leverageMin |-> Unset, leverageMax |-> Unset, durationMin |-> Unset, durationMax |-> Unset]
MCFilter ==
    {NoFilter, [NoFilter EXCEPT !.from = 13, !.to = 29], [NoFilter EXCEPT !.from = 14, !.to = 28],
     [NoFilter EXCEPT !.leverageMin = 5, !.durationMax = 14],
     [NoFilter EXCEPT !.side = "long", !.durationMin = 2],
     [NoFilter EXCEPT !.symbol = "btc", !.pnlMin = 0]}
T(id, symbol, side, pnl, open, close, lever) ==
    [id |-> id, symbol |-> symbol, side |-> side, pnl |-> pnl, open |-> open, close |-> close,
     leverage |-> lever]
MCTrade ==
    {T(1, "btc", "long", 3, 0, 1, 5), T(2, "btc", "short", -2, 0, 13, 0),
     T(3, "eth", "long", -1, Unset, 14, 10), T(Unset, "eth", "short", 0, 12, Unset, 20),
     T(5, "btc", "long", 2, 13, 28, 6), T(Unset, "eth", "long", 0, 13, 27, 0),
     T(1, "eth", "long", 1, 0, 27, -1)}

\* MonthlyGoals.
MCWallets == {[USDT |-> 0, STETH |-> 1], [USDT |-> 10, STETH |-> 1]}

\* DcaAdvice.
MCFetched == {Timeframe, Timeframe \ {"weekly"}, {"daily"}}
B(t, l, h) == [type |-> t, low |-> l, high |-> h]
MCBlock == {B("bullish", 960, 980), B("bearish", 990, 1010), B("bearish", 1010, 1030)}
P(side, mark, pnl, liquidation, rsi, squeeze) ==
    [side |-> side, mark |-> mark, entry |-> 1000, pnl |-> pnl, liquidation |-> liquidation,
     rsi |-> rsi, squeeze |-> squeeze]
MCPosition ==
    {P("LONG", 970, -5, 0, 28, FALSE), P("LONG", 970, 0, 940, 50, FALSE),
     P("LONG", 1000, 100, 900, 70, FALSE), P("LONG", 0, 0, 990, 50, FALSE),
     P("SHORT", 1000, -5, 0, 93, FALSE), P("SHORT", 960, 10, 1200, 50, TRUE),
     P("SHORT", 1005, 0, 1010, 28, FALSE), P("other", 1000, 0, 0, 50, FALSE)}

\* DcaShadow.
MCAdvice ==
    {[original |-> "ADD", score |-> 12, safe |-> TRUE, size |-> 10, portfolio |-> 100, exposure |-> 15],
     [original |-> "CLOSE", score |-> 0, safe |-> FALSE, size |-> 0, portfolio |-> 0, exposure |-> 0]}

\* DcaMetrics.
V(net, start, end, levels) ==
    [net |-> net, start |-> start, end |-> end, notional |-> 10, levels |-> levels]
MCValidated ==
    {V(3, 0, 2, {1, 2, 3}), V(-2, 1, 1, {1}), V(-4, 0, 3, {1, 3}), V(0, 2, 4, {2}), V(1, 0, 1, {1, 2})}

\* DcaReplay.
SS(d, r, m) == [direction |-> d, rsi |-> r, mark |-> m]
MCScan == {SS("LONG", 50, 10), SS("LONG", 23, 12), SS("SHORT", 93, 8)}
MCRequestEnd == {OpenEnd, 49}

\* Trading.
MCOrder ==
    {[id |-> "o1", type |-> "market", side |-> "buy", amount |-> 2, priced |-> FALSE, reduce_only |-> FALSE,
      leverage |-> 5],
     [id |-> "o2", type |-> "limit", side |-> "sell", amount |-> 1, priced |-> TRUE, reduce_only |-> TRUE,
      leverage |-> 0]}
MCClose == {[id |-> "c1", side |-> "long"]}
MCCancel == {[id |-> "x1", order |-> "o2", symbol |-> TRUE]}
MCLeverage == {[id |-> "l1", leverage |-> 3]}

\* ScanDiff.
MCFull ==
    [total |-> {1500}, scores |-> [k \in CATEGORY_KEYS |-> {400}],
     qqe |-> [tf \in QQE_TIMEFRAMES |-> {"GREEN"}],
     structure |-> [tf \in STRUCTURE_TIMEFRAMES |-> {"HH"}],
     direction |-> {"LONG"}, decision |-> {TRUE}, levels |-> [l \in PlanLevels |-> {10000}],
     patterns |-> << >>,
     squeeze |-> [tf \in INDICATOR_TIMEFRAMES |-> {FALSE}],
     rsi |-> [tf \in INDICATOR_TIMEFRAMES |-> {5000}],
     cross |-> [tf \in INDICATOR_TIMEFRAMES |-> {"golden"}],
     macd |-> [tf \in INDICATOR_TIMEFRAMES |-> {"above"}],
     align |-> [tf \in INDICATOR_TIMEFRAMES |-> {"bullish"}],
     volume |-> {100}]
MCPattern(n, c) == [name |-> n, confirmed |-> c]

\* The scans of one behaviour differ in one part.
MCStories ==
    {{[MCFull EXCEPT !.total = t] : t \in {{}, {1500}, {1504}, {2000}, {2101}}},
     {[MCFull EXCEPT !.scores["risk"] = t] : t \in {{}, {400}, {449}, {600}}},
     {[MCFull EXCEPT !.qqe["4h"] = q] : q \in {{}, {"GREEN"}, {"GREEN-STRONG"}, {"Neutral"}, {"RED"}}},
     {[MCFull EXCEPT !.structure["1h"] = q, !.squeeze["4h"] = b] :
        q \in {{}, {"HH"}, {"LL"}}, b \in {{TRUE}, {FALSE}}},
     {[MCFull EXCEPT !.direction = d, !.decision = b] :
        d \in {{}, {"LONG"}, {"SHORT"}}, b \in {{TRUE}, {FALSE}}},
     {[MCFull EXCEPT !.levels["entry"] = l] : l \in {{}, {10000}, {10001}}},
     {[MCFull EXCEPT !.patterns = p] :
        p \in {<< >>, <<MCPattern("double_top", FALSE)>>, <<MCPattern("double_top", TRUE)>>,
               <<MCPattern("double_top", TRUE), MCPattern("wedge", FALSE), MCPattern("double_top", FALSE)>>}},
     {[MCFull EXCEPT !.rsi["daily"] = q] : q \in {{}, {2900}, {3000}, {3050}, {7000}}},
     {[MCFull EXCEPT !.macd["4h"] = q] : q \in {{}, {"above"}, {"bullish"}, {"bearish"}}},
     {[MCFull EXCEPT !.align["4h"] = q, !.cross["4h"] = c] :
        q \in {{}, {"bullish"}, {"bearish"}}, c \in {{"golden"}, {"death"}}},
     {[MCFull EXCEPT !.volume = v] : v \in {{}, {0}, {50}, {100}}} \cup {_parse_result}}
MCResult == UNION MCStories
MCDiffNext ==
    \/ \E s \in MCStories : \E r \in s :
        (\A i \in DOMAIN saved : saved[i] \in s) /\ SaveScan(r)
    \/ \E i \in DOMAIN saved : DeleteScan(i)

\* MacroCache.
MCReading == [btc |-> <<55>>, dxy |-> <<119>>, dxy_fallback |-> <<98, 104>>]
MCPublished == [s \in Feed |-> IF s \in {"btc", "dxy"} THEN 1 ELSE 2]
MCDown == {Feed \ {"btc", "dxy", "dxy_fallback"}, Feed \ {"fg"}, Feed \ {"sp500"}}

CONSTANT Subjects    \* the parts that are looked at

VARIABLE subject

MCVars ==
    <<subject, closedVars, goalVars, scanVars, shadowVars, metricsVars, replayVars,
      tradingVars, scanDiffVars, macroVars>>

MCInit ==
    /\ subject \in Subjects
    /\ ClosedInit
    /\ subject # "closed positions" => filter = NoFilter
    /\ GoalInit
    /\ ScanInit
    /\ ShadowInit
    /\ MetricsInit
    /\ ReplayInit
    /\ subject # "validation" => held = "LONG"
    /\ TradingInit
    /\ subject # "trading" => tradingEnabled /\ apiKeys
    /\ ScanDiffInit
    /\ MacroInit /\ down \in MCDown
    /\ subject # "macro" => "fg" \notin down

MCNext ==
    /\ UNCHANGED subject
    /\ \/ /\ subject = "closed positions" /\ ClosedNext
          /\ UNCHANGED <<goalVars, scanVars, shadowVars, metricsVars, replayVars, tradingVars,
                         scanDiffVars, macroVars>>
       \/ /\ subject = "goals" /\ GoalNext
          /\ UNCHANGED <<closedVars, scanVars, shadowVars, metricsVars, replayVars,
                         tradingVars, scanDiffVars, macroVars>>
       \/ /\ subject = "scan" /\ ScanNext
          /\ UNCHANGED <<closedVars, goalVars, shadowVars, metricsVars, replayVars,
                         tradingVars, scanDiffVars, macroVars>>
       \/ /\ subject = "shadow" /\ ShadowNext
          /\ UNCHANGED <<closedVars, goalVars, scanVars, metricsVars, replayVars, tradingVars,
                         scanDiffVars, macroVars>>
       \/ /\ subject = "metrics" /\ MetricsNext
          /\ UNCHANGED <<closedVars, goalVars, scanVars, shadowVars, replayVars, tradingVars,
                         scanDiffVars, macroVars>>
       \/ /\ subject = "validation" /\ ReplayNext
          /\ UNCHANGED <<closedVars, goalVars, scanVars, shadowVars, metricsVars, tradingVars,
                         scanDiffVars, macroVars>>
       \/ /\ subject = "trading" /\ TradingNext
          /\ UNCHANGED <<closedVars, goalVars, scanVars, shadowVars, metricsVars, replayVars,
                         scanDiffVars, macroVars>>
       \/ /\ subject = "diff" /\ MCDiffNext
          /\ UNCHANGED <<closedVars, goalVars, scanVars, shadowVars, metricsVars, replayVars,
                         tradingVars, macroVars>>
       \/ /\ subject = "macro" /\ MacroNext
          /\ UNCHANGED <<closedVars, goalVars, scanVars, shadowVars, metricsVars, replayVars,
                         tradingVars, scanDiffVars>>

MCSpec == MCInit /\ [][MCNext]_MCVars

=============================================================================
