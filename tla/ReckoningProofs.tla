--------------------------- MODULE ReckoningProofs ---------------------------
(***************************************************************************)
(* Proofs about the shadow mode of the DCA engine, the trading routes and  *)
(* the cache of macro data, which share no state.                          *)
(***************************************************************************)
EXTENDS DcaShadow, Trading, MacroCache, FiniteSetTheorems, TLAPS

-----------------------------------------------------------------------------
(***************************************************************************)
(* DcaShadow: what the sessions keep.                                      *)
(***************************************************************************)
Ruling ==
    [at: {"switches", "limits", "cooldown", "persist", "commit"}, symbol: ShadowSymbol,
     advice: Recommendation, timestamp: Nat, blocked: SUBSET AddGates]

AuditRow ==
    [symbol: ShadowSymbol, original: {"ADD", "CLOSE", "REDUCE", "HOLD"}, timestamp: Nat,
     outcome: {"would_allow", "would_block", "would_close", "would_reduce", "no_action"},
     blocked: SUBSET AddGates]

ShadowType ==
    /\ hour \in Nat
    /\ audit \in Seq(AuditRow)
    /\ rulings \in [Evaluator -> Ruling \cup {NoEvaluation}]

\* Times are not of the future, and the outcome is that of the advice.
Dated ==
    /\ \A i \in DOMAIN audit :
           /\ audit[i].timestamp <= hour
           /\ audit[i].outcome = "would_allow" => audit[i].original = "ADD"
           /\ audit[i].outcome = "would_close" => audit[i].original = "CLOSE"
    /\ \A e \in Evaluator : ~ AtStep(e, "idle") =>
           /\ rulings[e] \in Ruling /\ rulings[e].timestamp <= hour
           /\ rulings[e].advice.original # "ADD" => rulings[e].at \in {"persist", "commit"}

\* The rows that a limit counts in a window, and the sessions whose ruling may still add one:
\* those that passed the limit, and those that would pass it now.
CountedIn(window) ==
    {i \in DOMAIN audit : AllowedAdd(audit[i]) /\ audit[i].timestamp \in window}

MayPass(e, W, limit, gate) ==
    IF rulings[e].at \in {"switches", "limits"}
    THEN Cardinality(CountedIn(W[rulings[e].timestamp])) < limit
    ELSE gate \notin rulings[e].blocked

ComingIn(h, W, limit, gate) ==
    {e \in Evaluator : /\ ~ AtStep(e, "idle")
                       /\ rulings[e].advice.original = "ADD"
                       /\ rulings[e].timestamp \in W[h]
                       /\ MayPass(e, W, limit, gate)}

\* The windows of the two limits, by the hour they end with.
HourWindow == [h \in Nat |-> (h - 1)..h]
DayWindow == [h \in Nat |-> Midnight(h)..h]

\* At an hour of a window, what the window holds so far is inside the window that ends then.
IsWindow(W) ==
    \A h, t, s \in Nat : t \in W[h] /\ s \in W[h] /\ s <= t => s \in W[t]

LimitHolds(W, limit, gate) ==
    \A h \in Nat :
        Cardinality(CountedIn(W[h])) + Cardinality(ComingIn(h, W, limit, gate)) <= limit + InFlight

ShadowLimits ==
    /\ LimitHolds(HourWindow, ADD_HOURLY_LIMIT, "hourly_add_limit")
    /\ LimitHolds(DayWindow, ADD_DAILY_LIMIT, "daily_add_limit")

\* What came after a CLOSE within its cooldown, and the sessions that asked before it.
AfterClose(i) ==
    {j \in DOMAIN audit : /\ j > i
                          /\ AllowedAdd(audit[j])
                          /\ audit[j].symbol = audit[i].symbol
                          /\ audit[j].timestamp <= audit[i].timestamp + CLOSE_COOLDOWN_HOURS}

AskedBefore(i) ==
    {e \in Evaluator : /\ rulings[e].at \in {"persist", "commit"}
                       /\ rulings[e].advice.original = "ADD"
                       /\ rulings[e].symbol = audit[i].symbol
                       /\ rulings[e].timestamp <= audit[i].timestamp + CLOSE_COOLDOWN_HOURS
                       /\ "close_cooldown_24h" \notin rulings[e].blocked}

CooldownHolds ==
    \A i \in DOMAIN audit : audit[i].outcome = "would_close" =>
        Cardinality(AfterClose(i)) + Cardinality(AskedBefore(i)) <= InFlight

\* The inductive invariant.
ShadowIInv == ShadowType /\ Dated /\ ShadowLimits /\ CooldownHolds

-----------------------------------------------------------------------------
\* A session that is not idle has a ruling.
LEMMA RulingFacts ==
    ASSUME ShadowType, Dated, NEW e \in Evaluator, ~ AtStep(e, "idle")
    PROVE  /\ rulings[e] \in Ruling /\ rulings[e].advice \in Recommendation
           /\ rulings[e].timestamp \in Nat /\ rulings[e].timestamp <= hour
           /\ rulings[e].blocked \subseteq AddGates
           /\ rulings[e].advice.original \in {"ADD", "CLOSE", "REDUCE", "HOLD"}
BY ShadowAssumption DEF Dated, Ruling

LEMMA IdleFacts ==
    /\ NoEvaluation.at = "idle"
    /\ \A r \in Ruling : r.at # "idle" /\ r # NoEvaluation
BY DEF NoEvaluation, Ruling

LEMMA CountsFinite ==
    ASSUME ShadowType, NEW window
    PROVE  /\ IsFiniteSet(CountedIn(window)) /\ Cardinality(CountedIn(window)) \in Nat
           /\ CountedIn(window) \subseteq DOMAIN audit
<1>1. IsFiniteSet(DOMAIN audit)
  BY FS_Interval DEF ShadowType
<1>2. CountedIn(window) \in SUBSET DOMAIN audit
  BY DEF CountedIn
<1> QED BY <1>1, <1>2, FS_Subset, FS_CardinalityType

LEMMA SessionsFinite ==
    ASSUME NEW S \in SUBSET Evaluator
    PROVE  /\ IsFiniteSet(S) /\ Cardinality(S) \in Nat
           /\ Cardinality(S) <= Cardinality(Evaluator) /\ Cardinality(Evaluator) \in Nat
           /\ S # Evaluator => Cardinality(S) <= InFlight
<1>1. /\ IsFiniteSet(S) /\ Cardinality(S) \in Nat
      /\ Cardinality(S) <= Cardinality(Evaluator) /\ Cardinality(Evaluator) \in Nat
  BY ShadowAssumption, FS_Subset, FS_CardinalityType
<1>2. Cardinality(S) = Cardinality(Evaluator) => S = Evaluator
  BY ShadowAssumption, FS_Subset
<1> QED BY <1>1, <1>2 DEF InFlight

LEMMA HourWindowIs == IsWindow(HourWindow)
BY DEF IsWindow, HourWindow

\* Within a day the midnight is the same.
LEMMA MidnightIs ==
    ASSUME NEW h \in Nat
    PROVE  /\ Midnight(h) \in Nat /\ Midnight(h) <= h
           /\ \A t \in Nat : t \in Midnight(h)..h => Midnight(t) = Midnight(h)
<1> Day \in Nat /\ Day > 0
  BY ShadowAssumption
<1>1. \A n \in Nat : /\ n % Day \in 0..(Day - 1) /\ n \div Day \in Nat
                     /\ n = Day * (n \div Day) + (n % Day)
  OBVIOUS
<1> DEFINE q == h \div Day
<1>2. Midnight(h) = Day * q /\ q \in Nat /\ Day * q \in Nat
  BY <1>1 DEF Midnight
<1>3. Midnight(h) <= h /\ h < Day * q + Day
  BY <1>1, <1>2
<1>4. ASSUME NEW t \in Nat, t \in Midnight(h)..h PROVE Midnight(t) = Midnight(h)
  <2> DEFINE p == t \div Day
  <2>1. Midnight(t) = Day * p /\ p \in Nat /\ Day * p \in Nat /\ Day * p <= t /\ t < Day * p + Day
    BY <1>1 DEF Midnight
  <2>2. Day * q <= t /\ t < Day * q + Day
    BY <1>2, <1>3, <1>4
  <2> HIDE DEF p, q
  <2>3. ASSUME NEW a \in Nat, NEW b \in Nat, a < b PROVE Day * a + Day <= Day * b
    <3>1. PICK c \in Nat : b = a + 1 + c
      <4> b - a - 1 \in Nat /\ b = a + 1 + (b - a - 1)
        BY <2>3
      <4> QED OBVIOUS
    <3>2. Day * b = Day * a + Day + Day * c /\ Day * c \in Nat /\ Day * a \in Nat
      BY <3>1
    <3> QED BY <3>2
  <2>4. ~ (p < q) /\ ~ (q < p)
    BY <1>2, <2>1, <2>2, <2>3
  <2>5. p = q
    BY <1>2, <2>1, <2>4
  <2> QED BY <1>2, <2>1, <2>5
<1> QED BY <1>2, <1>3, <1>4

LEMMA DayWindowIs == IsWindow(DayWindow)
<1> SUFFICES ASSUME NEW h \in Nat, NEW t \in Nat, NEW s \in Nat, t \in DayWindow[h],
                    s \in DayWindow[h], s <= t
             PROVE  s \in DayWindow[t]
  BY DEF IsWindow
<1>1. Midnight(t) = Midnight(h) /\ Midnight(h) \in Nat /\ Midnight(h) <= s
  BY MidnightIs DEF DayWindow
<1> QED BY <1>1 DEF DayWindow

LEMMA ShadowInitHolds == ShadowInit => ShadowType /\ Dated /\ CooldownHolds
<1> SUFFICES ASSUME ShadowInit PROVE ShadowType /\ Dated /\ CooldownHolds
  OBVIOUS
<1>1. hour = 0 /\ audit = <<>> /\ DOMAIN audit = {}
  BY DEF ShadowInit
<1>2. \A e \in Evaluator : rulings[e] = NoEvaluation /\ AtStep(e, "idle")
  BY IdleFacts DEF ShadowInit, AtStep
<1>3. ShadowType
  BY <1>1 DEF ShadowType, ShadowInit
<1> QED BY <1>1, <1>2, <1>3 DEF Dated, CooldownHolds

\* The next state of one session: what all the others do not notice.
RulesOnly(e, ruling) ==
    /\ rulings' = [rulings EXCEPT ![e] = ruling]
    /\ UNCHANGED <<hour, audit>>

\* The next state of a session that goes on with an evaluation.
GoesOn(e, ruling, from, to, failed) ==
    /\ RulesOnly(e, ruling) /\ rulings[e].at = from /\ rulings[e] \in Ruling
    /\ ruling.advice = rulings[e].advice /\ ruling.symbol = rulings[e].symbol
    /\ ruling.timestamp = rulings[e].timestamp
    /\ ruling.at = to /\ ruling.blocked = rulings[e].blocked \cup failed

LEMMA BeginIs ==
    ASSUME ShadowType, NEW e \in Evaluator, NEW symbol \in ShadowSymbol,
           NEW r \in Recommendation, Begin(e, symbol, r)
    PROVE  \E ruling \in Ruling :
               /\ RulesOnly(e, ruling)
               /\ ruling.advice = r /\ ruling.symbol = symbol /\ ruling.timestamp = hour
               /\ ruling.at = IF r.original = "ADD" THEN "switches" ELSE "persist"
<1> DEFINE ruling ==
        [at |-> IF r.original = "ADD" THEN "switches" ELSE "persist",
         symbol |-> symbol, advice |-> r, timestamp |-> hour,
         blocked |-> IF r.original = "ADD" THEN FailedChecks(r) ELSE {}]
<1>1. FailedChecks(r) \subseteq AddGates
  BY DEF FailedChecks
<1>2. ruling \in Ruling
  BY <1>1 DEF Ruling, ShadowType
<1>3. RulesOnly(e, ruling)
  BY DEF Begin, RulesOnly
<1> QED BY <1>2, <1>3

LEMMA QueryIs ==
    ASSUME ShadowType, Dated, NEW e \in Evaluator, NEW from, from # "idle", 
           NEW to \in {"limits", "cooldown", "persist"},
           NEW failed \in SUBSET AddGates, Query(e, from, to, failed)
    PROVE  \E ruling \in Ruling : GoesOn(e, ruling, from, to, failed)
<1>1. rulings[e] \in Ruling /\ rulings[e].at = from
  BY RulingFacts DEF Query, AtStep
<1> DEFINE ruling == [rulings[e] EXCEPT !.at = to, !.blocked = @ \cup failed]
<1>2. /\ ruling.advice = rulings[e].advice /\ ruling.symbol = rulings[e].symbol
      /\ ruling.timestamp = rulings[e].timestamp
      /\ ruling.at = to /\ ruling.blocked = rulings[e].blocked \cup failed
      /\ ruling \in Ruling
  BY <1>1 DEF Ruling
<1>3. RulesOnly(e, ruling)
  BY <1>1 DEF Query, RulesOnly, ShadowType
<1> HIDE DEF ruling
<1> QED BY <1>1, <1>2, <1>3 DEF GoesOn

LEMMA FlushIs ==
    ASSUME ShadowType, Dated, NEW e \in Evaluator, _persist_decision(e)
    PROVE  \E ruling \in Ruling : GoesOn(e, ruling, "persist", "commit", {})
<1>1. rulings[e] \in Ruling /\ rulings[e].at = "persist"
  BY RulingFacts DEF _persist_decision, AtStep
<1> DEFINE ruling == [rulings[e] EXCEPT !.at = "commit"]
<1>2. /\ ruling.advice = rulings[e].advice /\ ruling.symbol = rulings[e].symbol
      /\ ruling.timestamp = rulings[e].timestamp
      /\ ruling.at = "commit" /\ ruling.blocked = rulings[e].blocked
      /\ ruling \in Ruling
  BY <1>1 DEF Ruling
<1>3. RulesOnly(e, ruling)
  BY <1>1 DEF _persist_decision, RulesOnly, ShadowType
<1> HIDE DEF ruling
<1> QED BY <1>1, <1>2, <1>3 DEF GoesOn

\* The row that a commit appends.
RowOf(ruling) ==
    [symbol |-> ruling.symbol, original |-> ruling.advice.original, timestamp |-> ruling.timestamp,
     outcome |-> ShadowOutcome(ruling.advice.original, ruling.blocked), blocked |-> ruling.blocked]

LEMMA OutcomeIs ==
    ASSUME NEW original \in {"ADD", "CLOSE", "REDUCE", "HOLD"}, NEW blocked
    PROVE  /\ ShadowOutcome(original, blocked) \in
                  {"would_allow", "would_block", "would_close", "would_reduce", "no_action"}
           /\ ShadowOutcome(original, blocked) = "would_allow" <=> original = "ADD" /\ blocked = {}
           /\ ShadowOutcome(original, blocked) = "would_close" <=> original = "CLOSE"
<1>1. CASE original = "ADD"
  BY <1>1 DEF ShadowOutcome
<1>2. CASE original = "CLOSE"
  BY <1>2 DEF ShadowOutcome
<1>3. CASE original = "REDUCE"
  BY <1>3 DEF ShadowOutcome
<1>4. CASE original = "HOLD"
  BY <1>4 DEF ShadowOutcome
<1> QED BY <1>1, <1>2, <1>3, <1>4

LEMMA CommitIs ==
    ASSUME ShadowType, Dated, NEW e \in Evaluator, Commit(e)
    PROVE  /\ rulings[e] \in Ruling /\ rulings[e].at = "commit" /\ ~ AtStep(e, "idle")
           /\ rulings' = [rulings EXCEPT ![e] = NoEvaluation]
           /\ hour' = hour
           /\ RowOf(rulings[e]) \in AuditRow /\ audit' = Append(audit, RowOf(rulings[e]))
           /\ DOMAIN audit = 1..Len(audit) /\ Len(audit) \in Nat
           /\ DOMAIN audit' = DOMAIN audit \cup {Len(audit) + 1}
           /\ audit'[Len(audit) + 1] = RowOf(rulings[e])
           /\ \A i \in DOMAIN audit : audit'[i] = audit[i]
<1>1. rulings[e].at = "commit" /\ ~ AtStep(e, "idle")
  BY DEF Commit, AtStep
<1>2. rulings[e] \in Ruling /\ rulings[e].advice.original \in {"ADD", "CLOSE", "REDUCE", "HOLD"}
  BY <1>1, RulingFacts
<1>3. RowOf(rulings[e]) \in AuditRow
  BY <1>2, OutcomeIs DEF RowOf, AuditRow, Ruling
<1>4. audit' = Append(audit, RowOf(rulings[e]))
  BY DEF Commit, RowOf
<1> QED BY <1>1, <1>2, <1>3, <1>4 DEF Commit, ShadowType

-----------------------------------------------------------------------------
\* What a step of one session leaves of the others.
LEMMA OthersKept ==
    ASSUME ShadowType, NEW e \in Evaluator, NEW ruling, RulesOnly(e, ruling),
           NEW W, NEW limit, NEW gate
    PROVE  /\ rulings'[e] = ruling /\ audit' = audit /\ hour' = hour
           /\ \A x \in Evaluator \ {e} : rulings'[x] = rulings[x]
           /\ \A window : CountedIn(window)' = CountedIn(window)
           /\ \A h : \A x \in Evaluator \ {e} :
                  x \in ComingIn(h, W, limit, gate)' <=> x \in ComingIn(h, W, limit, gate)
           /\ \A i : /\ AfterClose(i)' = AfterClose(i)
                     /\ \A x \in Evaluator \ {e} : x \in AskedBefore(i)' <=> x \in AskedBefore(i)
<1>1. /\ rulings'[e] = ruling /\ audit' = audit /\ hour' = hour
      /\ \A x \in Evaluator \ {e} : rulings'[x] = rulings[x]
  BY DEF RulesOnly, ShadowType
<1>2. \A window : CountedIn(window)' = CountedIn(window)
  BY <1>1 DEF CountedIn
<1>3. ASSUME NEW h, NEW x \in Evaluator \ {e}
      PROVE  x \in ComingIn(h, W, limit, gate)' <=> x \in ComingIn(h, W, limit, gate)
  <2>1. AtStep(x, "idle")' <=> AtStep(x, "idle")
    BY <1>1 DEF AtStep
  <2>2. MayPass(x, W, limit, gate)' <=> MayPass(x, W, limit, gate)
    <3>1. rulings'[x] = rulings[x]
      BY <1>1
    <3>2. CountedIn(W[rulings[x].timestamp])' = CountedIn(W[rulings[x].timestamp])
      BY <1>1 DEF CountedIn
    <3> QED BY <3>1, <3>2, <1>1 DEF MayPass, CountedIn
  <2> QED BY <1>1, <2>1, <2>2 DEF ComingIn
<1>4. ASSUME NEW i
      PROVE  /\ AfterClose(i)' = AfterClose(i)
             /\ \A x \in Evaluator \ {e} : x \in AskedBefore(i)' <=> x \in AskedBefore(i)
  BY <1>1 DEF AfterClose, AskedBefore
<1> QED BY <1>1, <1>2, <1>3, <1>4

\* A limit that counts no more rows and awaits no more sessions than before still holds.
LEMMA LimitQuiet ==
    ASSUME ShadowType, ShadowType', NEW W, NEW limit \in Nat, NEW gate,
           LimitHolds(W, limit, gate),
           \A h \in Nat : /\ CountedIn(W[h])' = CountedIn(W[h])
                          /\ ComingIn(h, W, limit, gate)' \subseteq ComingIn(h, W, limit, gate)
    PROVE  LimitHolds(W, limit, gate)'
<1> SUFFICES ASSUME NEW h \in Nat
             PROVE  Cardinality(CountedIn(W[h])') + Cardinality(ComingIn(h, W, limit, gate)')
                        <= limit + InFlight
  BY DEF LimitHolds, InFlight
<1>1. /\ ComingIn(h, W, limit, gate) \in SUBSET Evaluator
      /\ ComingIn(h, W, limit, gate)' \in SUBSET ComingIn(h, W, limit, gate)
      /\ ComingIn(h, W, limit, gate)' \in SUBSET Evaluator
  BY DEF ComingIn
<1>2. /\ Cardinality(ComingIn(h, W, limit, gate)') <= Cardinality(ComingIn(h, W, limit, gate))
      /\ Cardinality(ComingIn(h, W, limit, gate)') \in Nat
      /\ Cardinality(ComingIn(h, W, limit, gate)) \in Nat
  BY <1>1, SessionsFinite, FS_Subset
<1>3. Cardinality(CountedIn(W[h])) \in Nat /\ InFlight \in Int
  BY SMTT(30), CountsFinite, ShadowAssumption, FS_CardinalityType DEF InFlight
<1>4. Cardinality(CountedIn(W[h])) + Cardinality(ComingIn(h, W, limit, gate)) <= limit + InFlight
  BY DEF LimitHolds
<1> QED BY <1>2, <1>3, <1>4

LEMMA CooldownQuiet ==
    ASSUME ShadowType, CooldownHolds, audit' = audit,
           \A i \in DOMAIN audit : /\ AfterClose(i)' = AfterClose(i)
                                   /\ audit[i].outcome = "would_close" =>
                                          AskedBefore(i)' \subseteq AskedBefore(i)
    PROVE  CooldownHolds'
<1> SUFFICES ASSUME NEW i \in DOMAIN audit, audit[i].outcome = "would_close"
             PROVE  Cardinality(AfterClose(i)') + Cardinality(AskedBefore(i)') <= InFlight
  BY DEF CooldownHolds, InFlight
<1>1. AskedBefore(i)' \in SUBSET AskedBefore(i) /\ AskedBefore(i) \in SUBSET Evaluator
  BY DEF AskedBefore
<1>2. /\ Cardinality(AskedBefore(i)') <= Cardinality(AskedBefore(i))
      /\ Cardinality(AskedBefore(i)) \in Nat /\ Cardinality(AskedBefore(i)') \in Nat
  BY <1>1, SessionsFinite, FS_Subset, FS_CardinalityType
<1>3. Cardinality(AfterClose(i)) \in Nat /\ InFlight \in Int
  <2>1. IsFiniteSet(DOMAIN audit)
    BY FS_Interval DEF ShadowType
  <2>2. AfterClose(i) \in SUBSET DOMAIN audit
    BY DEF AfterClose
  <2> QED BY <2>1, <2>2, FS_Subset, FS_CardinalityType, ShadowAssumption DEF InFlight
<1> QED BY <1>2, <1>3 DEF CooldownHolds

\* The beginning of an ADD is awaited by a limit only if the limit is not reached at that time.
LEMMA BeginLimit ==
    ASSUME ShadowType, ShadowType', Dated, NEW e \in Evaluator, NEW ruling \in Ruling,
           RulesOnly(e, ruling), ruling.timestamp = hour,
           ruling.at = IF ruling.advice.original = "ADD" THEN "switches" ELSE "persist",
           NEW W, IsWindow(W), NEW limit \in Nat, NEW gate, LimitHolds(W, limit, gate)
    PROVE  LimitHolds(W, limit, gate)'
<1> SUFFICES ASSUME NEW h \in Nat
             PROVE  Cardinality(CountedIn(W[h])') + Cardinality(ComingIn(h, W, limit, gate)')
                        <= limit + InFlight
  BY DEF LimitHolds, InFlight
<1>1. /\ rulings'[e] = ruling /\ audit' = audit /\ hour' = hour
      /\ CountedIn(W[h])' = CountedIn(W[h])
      /\ CountedIn(W[hour])' = CountedIn(W[hour])
      /\ \A x \in Evaluator \ {e} :
             x \in ComingIn(h, W, limit, gate)' <=> x \in ComingIn(h, W, limit, gate)
  BY OthersKept
<1>2. /\ Cardinality(CountedIn(W[h])) \in Nat /\ InFlight \in Int
      /\ IsFiniteSet(CountedIn(W[hour])) /\ Cardinality(CountedIn(W[hour])) \in Nat
  BY CountsFinite, ShadowAssumption, FS_CardinalityType DEF InFlight
<1>3. /\ ComingIn(h, W, limit, gate) \in SUBSET Evaluator
      /\ ComingIn(h, W, limit, gate)' \in SUBSET Evaluator
  BY DEF ComingIn
<1>4. CASE e \in ComingIn(h, W, limit, gate)'
  <2>1. /\ ruling.advice.original = "ADD" /\ hour \in W[h]
        /\ Cardinality(CountedIn(W[hour])) < limit
    <3>1. ruling.advice.original = "ADD" /\ hour \in W[h] /\ MayPass(e, W, limit, gate)'
      BY <1>4, <1>1 DEF ComingIn
    <3>2. Cardinality(CountedIn(W[hour])') < limit
      <4>1. rulings'[e].at = "switches" /\ rulings'[e].timestamp = hour'
        BY <3>1, <1>1
      <4> QED BY <3>1, <4>1 DEF MayPass
    <3> QED BY <3>1, <3>2, <1>1
  <2>2. CountedIn(W[h]) \in SUBSET CountedIn(W[hour])
    <3> SUFFICES ASSUME NEW i \in CountedIn(W[h]) PROVE i \in CountedIn(W[hour])
      OBVIOUS
    <3>1. /\ i \in DOMAIN audit /\ AllowedAdd(audit[i]) /\ audit[i].timestamp \in W[h]
          /\ audit[i] \in AuditRow
      BY DEF CountedIn, ShadowType
    <3>2. audit[i].timestamp \in Nat /\ audit[i].timestamp <= hour /\ hour \in Nat
      BY <3>1 DEF Dated, AuditRow, ShadowType
    <3>3. audit[i].timestamp \in W[hour]
      BY <3>1, <3>2, <2>1 DEF IsWindow
    <3> QED BY <3>1, <3>3 DEF CountedIn
  <2>3. Cardinality(CountedIn(W[h])) <= Cardinality(CountedIn(W[hour]))
    BY <2>2, <1>2, FS_Subset
  <2>4. /\ Cardinality(ComingIn(h, W, limit, gate)') <= Cardinality(Evaluator)
        /\ Cardinality(ComingIn(h, W, limit, gate)') \in Nat /\ Cardinality(Evaluator) \in Nat
    BY <1>3, SessionsFinite
  <2> QED BY <1>1, <1>2, <2>1, <2>3, <2>4 DEF InFlight
<1>5. CASE e \notin ComingIn(h, W, limit, gate)'
  <2>1. ComingIn(h, W, limit, gate)' \in SUBSET ComingIn(h, W, limit, gate)
    BY <1>5, <1>1, <1>3
  <2>2. /\ Cardinality(ComingIn(h, W, limit, gate)') <= Cardinality(ComingIn(h, W, limit, gate))
        /\ Cardinality(ComingIn(h, W, limit, gate)') \in Nat
        /\ Cardinality(ComingIn(h, W, limit, gate)) \in Nat
    BY <2>1, <1>3, SessionsFinite, FS_Subset
  <2> QED BY <1>1, <1>2, <2>2 DEF LimitHolds
<1> QED BY <1>4, <1>5

\* A session that goes on is awaited by a limit only if it was before.
LEMMA MoveLimit ==
    ASSUME ShadowType, ShadowType', NEW e \in Evaluator, ~ AtStep(e, "idle"),
           NEW ruling \in Ruling, RulesOnly(e, ruling),
           ruling.advice = rulings[e].advice, ruling.timestamp = rulings[e].timestamp,
           NEW W, NEW limit \in Nat, NEW gate, LimitHolds(W, limit, gate),
           \/ ruling.at \in {"switches", "limits"} /\ rulings[e].at \in {"switches", "limits"}
           \/ /\ ruling.at \notin {"switches", "limits"}
              /\ rulings[e].at \in {"switches", "limits"}
              /\ gate \notin ruling.blocked =>
                     Cardinality(CountedIn(W[rulings[e].timestamp])) < limit
           \/ /\ ruling.at \notin {"switches", "limits"}
              /\ rulings[e].at \notin {"switches", "limits"}
              /\ rulings[e].blocked \subseteq ruling.blocked
    PROVE  LimitHolds(W, limit, gate)'
<1>1. /\ rulings'[e] = ruling /\ audit' = audit
      /\ \A window : CountedIn(window)' = CountedIn(window)
      /\ \A h : \A x \in Evaluator \ {e} :
             x \in ComingIn(h, W, limit, gate)' <=> x \in ComingIn(h, W, limit, gate)
  BY OthersKept
<1>2. MayPass(e, W, limit, gate)' => MayPass(e, W, limit, gate)
  <2>1. CountedIn(W[rulings[e].timestamp])' = CountedIn(W[rulings[e].timestamp])
    <3>1. rulings'[e].timestamp = rulings[e].timestamp
      BY <1>1
    <3> QED BY <3>1, <1>1 DEF CountedIn
  <2> QED BY <1>1, <2>1 DEF MayPass
<1>3. ASSUME NEW h \in Nat
      PROVE  ComingIn(h, W, limit, gate)' \subseteq ComingIn(h, W, limit, gate)
  <2>1. e \in ComingIn(h, W, limit, gate)' => e \in ComingIn(h, W, limit, gate)
    BY <1>1, <1>2 DEF ComingIn
  <2>2. ComingIn(h, W, limit, gate)' \subseteq Evaluator
    BY DEF ComingIn
  <2> QED BY <1>1, <2>1, <2>2
<1>4. \A h \in Nat : CountedIn(W[h])' = CountedIn(W[h])
  BY <1>1 DEF CountedIn
<1> QED BY <1>3, <1>4, LimitQuiet

LEMMA RollbackLimit ==
    ASSUME ShadowType, ShadowType', NEW e \in Evaluator, RulesOnly(e, NoEvaluation),
           NEW W, NEW limit \in Nat, NEW gate, LimitHolds(W, limit, gate)
    PROVE  LimitHolds(W, limit, gate)'
<1>1. /\ rulings'[e] = NoEvaluation /\ audit' = audit
      /\ \A h : \A x \in Evaluator \ {e} :
             x \in ComingIn(h, W, limit, gate)' <=> x \in ComingIn(h, W, limit, gate)
  BY OthersKept
<1>2. ASSUME NEW h \in Nat
      PROVE  ComingIn(h, W, limit, gate)' \subseteq ComingIn(h, W, limit, gate)
  <2>1. e \notin ComingIn(h, W, limit, gate)'
    BY <1>1, IdleFacts DEF ComingIn, AtStep
  <2>2. ComingIn(h, W, limit, gate)' \subseteq Evaluator
    BY DEF ComingIn
  <2> QED BY <1>1, <2>1, <2>2
<1>3. \A h \in Nat : CountedIn(W[h])' = CountedIn(W[h])
  BY <1>1 DEF CountedIn
<1> QED BY <1>2, <1>3, LimitQuiet

\* The row of a commit was awaited, and now is counted instead.
LEMMA CommitLimit ==
    ASSUME ShadowType, ShadowType', Dated, NEW e \in Evaluator, Commit(e),
           NEW W, NEW limit \in Nat, NEW gate, LimitHolds(W, limit, gate)
    PROVE  LimitHolds(W, limit, gate)'
<1> DEFINE row == RowOf(rulings[e])
           last == Len(audit) + 1
<1>1. /\ rulings[e] \in Ruling /\ rulings[e].at = "commit" /\ ~ AtStep(e, "idle")
      /\ rulings' = [rulings EXCEPT ![e] = NoEvaluation]
      /\ DOMAIN audit = 1..Len(audit) /\ Len(audit) \in Nat
      /\ DOMAIN audit' = DOMAIN audit \cup {last}
      /\ audit'[last] = row
      /\ \A i \in DOMAIN audit : audit'[i] = audit[i]
  BY CommitIs
<1>l. last \notin DOMAIN audit
  BY <1>1
<1>2. row.timestamp = rulings[e].timestamp
      /\ (AllowedAdd(row) => rulings[e].advice.original = "ADD" /\ rulings[e].blocked = {})
  <2>1. rulings[e].advice.original \in {"ADD", "CLOSE", "REDUCE", "HOLD"}
    BY <1>1, RulingFacts
  <2> QED BY <2>1, OutcomeIs DEF RowOf, AllowedAdd
<1> HIDE DEF row, last
<1>3. ASSUME NEW window
      PROVE  CountedIn(window)' = IF AllowedAdd(row) /\ row.timestamp \in window
                                  THEN CountedIn(window) \cup {last} ELSE CountedIn(window)
  BY <1>1 DEF CountedIn, AllowedAdd
<1>4. /\ rulings'[e] = NoEvaluation
      /\ \A x \in Evaluator \ {e} : rulings'[x] = rulings[x]
  BY <1>1 DEF ShadowType
<1>5. ASSUME NEW x \in Evaluator \ {e}, MayPass(x, W, limit, gate)'
      PROVE  MayPass(x, W, limit, gate)
  <2> DEFINE window == W[rulings[x].timestamp]
  <2>1. rulings'[x] = rulings[x]
    BY <1>4
  <2>2. IsFiniteSet(CountedIn(window)) /\ Cardinality(CountedIn(window)) \in Nat
    BY CountsFinite
  <2>3. /\ Cardinality(CountedIn(window)) <= Cardinality(CountedIn(window)')
        /\ Cardinality(CountedIn(window)') \in Nat
    <3>1. \/ CountedIn(window)' = CountedIn(window)
          \/ CountedIn(window)' = CountedIn(window) \cup {last}
      <4>1. window' = window
        BY <2>1
      <4> HIDE DEF window
      <4>2. CountedIn(window)' = IF AllowedAdd(row) /\ row.timestamp \in window
                                  THEN CountedIn(window) \cup {last} ELSE CountedIn(window)
        BY <1>1, <4>1 DEF CountedIn, AllowedAdd
      <4> QED BY <4>2
    <3> HIDE DEF window
    <3> QED BY <3>1, <2>2, FS_AddElement
  <2>4. CASE rulings[x].at \in {"switches", "limits"}
    <3>1. Cardinality(CountedIn(window)') < limit
      BY <1>5, <2>1, <2>4 DEF MayPass
    <3> HIDE DEF window
    <3>2. Cardinality(CountedIn(window)) < limit
      BY <3>1, <2>2, <2>3
    <3> USE DEF window
    <3> QED BY <3>2, <2>4 DEF MayPass
  <2>5. CASE rulings[x].at \notin {"switches", "limits"}
    BY <1>5, <2>1, <2>5 DEF MayPass
  <2> QED BY <2>4, <2>5
<1> SUFFICES ASSUME NEW h \in Nat
             PROVE  Cardinality(CountedIn(W[h])') + Cardinality(ComingIn(h, W, limit, gate)')
                        <= limit + InFlight
  BY DEF LimitHolds, InFlight
<1>6. /\ ComingIn(h, W, limit, gate) \in SUBSET Evaluator
      /\ ComingIn(h, W, limit, gate)' \in SUBSET (ComingIn(h, W, limit, gate) \ {e})
  <2>1. e \notin ComingIn(h, W, limit, gate)'
    BY <1>4, IdleFacts DEF ComingIn, AtStep
  <2>2. ASSUME NEW x \in Evaluator \ {e}, x \in ComingIn(h, W, limit, gate)'
        PROVE  x \in ComingIn(h, W, limit, gate)
    BY <2>2, <1>4, <1>5 DEF ComingIn, AtStep
  <2>3. ComingIn(h, W, limit, gate)' \subseteq Evaluator
    BY DEF ComingIn
  <2> QED BY <2>1, <2>2, <2>3 DEF ComingIn
<1>7. /\ IsFiniteSet(ComingIn(h, W, limit, gate))
      /\ Cardinality(ComingIn(h, W, limit, gate)) \in Nat
      /\ IsFiniteSet(ComingIn(h, W, limit, gate) \ {e})
      /\ Cardinality(ComingIn(h, W, limit, gate)') \in Nat
      /\ Cardinality(ComingIn(h, W, limit, gate)')
             <= Cardinality(ComingIn(h, W, limit, gate) \ {e})
      /\ Cardinality(ComingIn(h, W, limit, gate) \ {e}) =
             IF e \in ComingIn(h, W, limit, gate)
             THEN Cardinality(ComingIn(h, W, limit, gate)) - 1
             ELSE Cardinality(ComingIn(h, W, limit, gate))
  BY <1>6, SessionsFinite, FS_RemoveElement, FS_Subset, FS_CardinalityType
<1>8. /\ IsFiniteSet(CountedIn(W[h])) /\ Cardinality(CountedIn(W[h])) \in Nat
      /\ last \notin CountedIn(W[h]) /\ InFlight \in Int
  BY CountsFinite, <1>1, <1>l, ShadowAssumption, FS_CardinalityType DEF InFlight
<1>9. Cardinality(CountedIn(W[h])) + Cardinality(ComingIn(h, W, limit, gate)) <= limit + InFlight
  BY DEF LimitHolds
<1>10. CASE AllowedAdd(row) /\ row.timestamp \in W[h]
  <2>1. e \in ComingIn(h, W, limit, gate)
    BY <1>1, <1>2, <1>10 DEF ComingIn, MayPass
  <2>2. Cardinality(CountedIn(W[h])') = Cardinality(CountedIn(W[h])) + 1
    <3>1. CountedIn(W[h])' = CountedIn(W[h]) \cup {last}
      BY <1>3, <1>10
    <3> QED BY <3>1, <1>8, FS_AddElement
  <2> QED BY <2>1, <2>2, <1>7, <1>8, <1>9
<1>11. CASE ~ (AllowedAdd(row) /\ row.timestamp \in W[h])
  <2>1. CountedIn(W[h])' = CountedIn(W[h])
    BY <1>3, <1>11
  <2> QED BY <2>1, <1>7, <1>8, <1>9
<1> QED BY <1>10, <1>11

-----------------------------------------------------------------------------
\* A session that goes on has asked before a CLOSE only if it had before.
LEMMA CooldownMove ==
    ASSUME ShadowType, CooldownHolds, NEW e \in Evaluator, NEW ruling, RulesOnly(e, ruling),
           \A i \in DOMAIN audit : audit[i].outcome = "would_close" =>
               (e \in AskedBefore(i)' => e \in AskedBefore(i))
    PROVE  CooldownHolds'
<1>1. /\ audit' = audit
      /\ \A i : /\ AfterClose(i)' = AfterClose(i)
                /\ \A x \in Evaluator \ {e} : x \in AskedBefore(i)' <=> x \in AskedBefore(i)
  BY OthersKept
<1>2. ASSUME NEW i \in DOMAIN audit, audit[i].outcome = "would_close"
      PROVE  AskedBefore(i)' \subseteq AskedBefore(i)
  <2>1. AskedBefore(i)' \subseteq Evaluator
    BY DEF AskedBefore
  <2>2. e \in AskedBefore(i)' => e \in AskedBefore(i)
    BY <1>2
  <2> QED BY <1>1, <2>1, <2>2
<1> QED BY <1>1, <1>2, CooldownQuiet

\* A session that is not about to flush or to commit has not asked.
LEMMA NotAsked ==
    ASSUME ShadowType, CooldownHolds, NEW e \in Evaluator, NEW ruling, RulesOnly(e, ruling),
           ruling.at \in {"persist", "commit"} => ruling.advice.original # "ADD"
    PROVE  CooldownHolds'
<1>1. rulings'[e] = ruling
  BY OthersKept
<1>2. \A i \in DOMAIN audit : e \notin AskedBefore(i)'
  BY <1>1 DEF AskedBefore
<1> QED BY <1>2, CooldownMove

LEMMA AskCooldownHolds ==
    ASSUME ShadowType, Dated, CooldownHolds, NEW e \in Evaluator, AskCooldown(e)
    PROVE  CooldownHolds'
<1>f. PICK failed : failed = FailedCooldown(rulings[e].symbol, rulings[e].timestamp)
  OBVIOUS
<1>1. failed \in SUBSET AddGates
  BY <1>f DEF FailedCooldown, AddGates
<1>2. Query(e, "cooldown", "persist", failed)
  BY <1>f DEF AskCooldown
<1>3. PICK ruling \in Ruling : GoesOn(e, ruling, "cooldown", "persist", failed)
  BY <1>1, <1>2, QueryIs
<1>4. rulings'[e] = ruling /\ audit' = audit
  BY <1>3, OthersKept DEF GoesOn
<1>5. ASSUME NEW i \in DOMAIN audit, audit[i].outcome = "would_close"
      PROVE  e \notin AskedBefore(i)'
  <2> SUFFICES ASSUME e \in AskedBefore(i)' PROVE FALSE
    OBVIOUS
  <2>1. /\ ruling.symbol = audit[i].symbol
        /\ ruling.timestamp <= audit[i].timestamp + CLOSE_COOLDOWN_HOURS
        /\ "close_cooldown_24h" \notin ruling.blocked
    BY <1>4 DEF AskedBefore
  <2>2. audit[i].timestamp \in Nat /\ ruling.timestamp \in Nat /\ CLOSE_COOLDOWN_HOURS \in Nat
    <3>1. audit[i] \in AuditRow
      BY DEF ShadowType
    <3>2. audit[i].timestamp \in Nat
      BY <3>1 DEF AuditRow
    <3>3. ruling.timestamp \in Nat
      BY DEF Ruling
    <3> QED BY <3>2, <3>3, ShadowAssumption DEF CLOSE_COOLDOWN_HOURS
  <2>3. audit[i].timestamp >= ruling.timestamp - CLOSE_COOLDOWN_HOURS
    BY <2>1, <2>2
  <2>4. RecentClose(audit, ruling.symbol, ruling.timestamp)
    BY <1>5, <2>1, <2>3 DEF RecentClose
  <2>5. "close_cooldown_24h" \in failed
    BY <1>f, <1>3, <2>4 DEF FailedCooldown, GoesOn
  <2> QED BY <1>3, <2>1, <2>5 DEF GoesOn
<1> QED BY <1>3, <1>5, CooldownMove DEF GoesOn

LEMMA CommitCooldown ==
    ASSUME ShadowType, ShadowType', Dated, CooldownHolds, NEW e \in Evaluator, Commit(e)
    PROVE  CooldownHolds'
<1> DEFINE row == RowOf(rulings[e])
<1>p. PICK last : last = Len(audit) + 1
  OBVIOUS
<1>1. /\ rulings[e] \in Ruling /\ rulings[e].at = "commit" /\ ~ AtStep(e, "idle")
      /\ rulings' = [rulings EXCEPT ![e] = NoEvaluation]
      /\ DOMAIN audit = 1..Len(audit) /\ Len(audit) \in Nat
      /\ DOMAIN audit' = DOMAIN audit \cup {last}
      /\ audit'[last] = row
      /\ \A i \in DOMAIN audit : audit'[i] = audit[i]
  BY <1>p, CommitIs
<1>l. last \notin DOMAIN audit /\ last \in Nat /\ DOMAIN audit \subseteq Nat
      /\ \A i \in DOMAIN audit : last > i /\ ~ (i > last)
  BY <1>1, <1>p
<1>2. /\ row.timestamp = rulings[e].timestamp /\ row.symbol = rulings[e].symbol
      /\ (AllowedAdd(row) => rulings[e].advice.original = "ADD" /\ rulings[e].blocked = {})
  <2>1. rulings[e].advice.original \in {"ADD", "CLOSE", "REDUCE", "HOLD"}
    BY <1>1, RulingFacts
  <2> QED BY <2>1, OutcomeIs DEF RowOf, AllowedAdd
<1> HIDE DEF row
<1>3. /\ rulings'[e] = NoEvaluation
      /\ \A x \in Evaluator \ {e} : rulings'[x] = rulings[x]
  BY <1>1 DEF ShadowType
<1>4. ASSUME NEW i \in DOMAIN audit, audit'[i].outcome = "would_close"
      PROVE  Cardinality(AfterClose(i)') + Cardinality(AskedBefore(i)') <= InFlight
  <2> DEFINE within == /\ AllowedAdd(row) /\ row.symbol = audit[i].symbol
                       /\ row.timestamp <= audit[i].timestamp + CLOSE_COOLDOWN_HOURS
  <2>1. AfterClose(i)' = IF within THEN AfterClose(i) \cup {last} ELSE AfterClose(i)
    BY <1>1, <1>l DEF AfterClose, AllowedAdd
  <2>2. within => e \in AskedBefore(i)
    BY <1>1, <1>2 DEF AskedBefore
  <2> HIDE DEF within
  <2>3. /\ AskedBefore(i) \in SUBSET Evaluator
        /\ AskedBefore(i)' \in SUBSET (AskedBefore(i) \ {e})
    <3>1. e \notin AskedBefore(i)'
      BY <1>3 DEF AskedBefore, NoEvaluation
    <3>2. \A x \in Evaluator \ {e} : x \in AskedBefore(i)' => x \in AskedBefore(i)
      BY <1>1, <1>3 DEF AskedBefore
    <3> QED BY <3>1, <3>2 DEF AskedBefore
  <2>4. /\ Cardinality(AskedBefore(i)) \in Nat
        /\ IsFiniteSet(AskedBefore(i) \ {e})
        /\ Cardinality(AskedBefore(i)') \in Nat
        /\ Cardinality(AskedBefore(i)') <= Cardinality(AskedBefore(i) \ {e})
        /\ Cardinality(AskedBefore(i) \ {e}) =
               IF e \in AskedBefore(i) THEN Cardinality(AskedBefore(i)) - 1
               ELSE Cardinality(AskedBefore(i))
    BY <2>3, SessionsFinite, FS_RemoveElement, FS_Subset, FS_CardinalityType
  <2>5. /\ IsFiniteSet(AfterClose(i)) /\ Cardinality(AfterClose(i)) \in Nat
        /\ last \notin AfterClose(i) /\ InFlight \in Int
    <3>1. IsFiniteSet(DOMAIN audit) /\ AfterClose(i) \in SUBSET DOMAIN audit
      BY <1>1, FS_Interval DEF AfterClose
    <3> QED BY <3>1, <1>l, FS_Subset, FS_CardinalityType, ShadowAssumption DEF InFlight
  <2>6. Cardinality(AfterClose(i)) + Cardinality(AskedBefore(i)) <= InFlight
    BY <1>1, <1>4 DEF CooldownHolds
  <2>7. CASE within
    <3>1. Cardinality(AfterClose(i)') = Cardinality(AfterClose(i)) + 1
      BY <2>1, <2>7, <2>5, FS_AddElement
    <3> QED BY <3>1, <2>2, <2>4, <2>5, <2>6, <2>7
  <2>8. CASE ~ within
    BY <2>1, <2>4, <2>5, <2>6, <2>8
  <2> QED BY <2>7, <2>8
<1>5. Cardinality(AfterClose(last)') + Cardinality(AskedBefore(last)') <= InFlight
  <2>1. AfterClose(last)' = {}
    BY <1>1, <1>l DEF AfterClose
  <2>2. AskedBefore(last)' \in SUBSET Evaluator /\ e \notin AskedBefore(last)'
    BY <1>3 DEF AskedBefore, NoEvaluation
  <2>3. /\ Cardinality(AskedBefore(last)') \in Nat
        /\ Cardinality(AskedBefore(last)') <= InFlight
    <3>1. AskedBefore(last)' # Evaluator
      BY <2>2
    <3> QED BY <2>2, <3>1, SessionsFinite
  <2>4. InFlight \in Int
    BY ShadowAssumption, FS_CardinalityType DEF InFlight
  <2> QED BY <2>1, <2>3, <2>4, FS_EmptySet
<1> QED BY <1>1, <1>4, <1>5 DEF CooldownHolds, InFlight

-----------------------------------------------------------------------------
LEMMA MoveType ==
    ASSUME ShadowType, Dated, NEW e \in Evaluator, NEW ruling, RulesOnly(e, ruling),
           \/ ruling = NoEvaluation
           \/ /\ ruling \in Ruling /\ ruling.timestamp <= hour
              /\ ruling.advice.original # "ADD" => ruling.at \in {"persist", "commit"}
    PROVE  ShadowType' /\ Dated'
<1>1. /\ rulings'[e] = ruling /\ audit' = audit /\ hour' = hour
      /\ \A x \in Evaluator \ {e} : rulings'[x] = rulings[x]
  BY OthersKept
<1>2. ShadowType'
  <2>1. ruling \in Ruling \cup {NoEvaluation}
    OBVIOUS
  <2> QED BY <1>1, <2>1 DEF ShadowType, RulesOnly
<1>3. ASSUME NEW x \in Evaluator, ~ AtStep(x, "idle")'
      PROVE  /\ rulings'[x] \in Ruling /\ rulings'[x].timestamp <= hour
             /\ rulings'[x].advice.original # "ADD" => rulings'[x].at \in {"persist", "commit"}
  <2>1. CASE x = e
    BY <1>1, <1>3, <2>1, IdleFacts DEF AtStep
  <2>2. CASE x # e
    BY <1>1, <1>3, <2>2 DEF AtStep, Dated
  <2> QED BY <2>1, <2>2
<1> QED BY <1>1, <1>2, <1>3 DEF Dated

LEMMA CommitType ==
    ASSUME ShadowType, Dated, NEW e \in Evaluator, Commit(e)
    PROVE  ShadowType' /\ Dated'
<1>p. PICK last : last = Len(audit) + 1
  OBVIOUS
<1>1. /\ rulings[e] \in Ruling /\ ~ AtStep(e, "idle")
      /\ rulings' = [rulings EXCEPT ![e] = NoEvaluation] /\ hour' = hour
      /\ RowOf(rulings[e]) \in AuditRow /\ audit' = Append(audit, RowOf(rulings[e]))
      /\ DOMAIN audit' = DOMAIN audit \cup {last}
      /\ audit'[last] = RowOf(rulings[e])
      /\ \A i \in DOMAIN audit : audit'[i] = audit[i]
  BY <1>p, CommitIs
<1>2. ShadowType'
  BY <1>1 DEF ShadowType
<1>3. /\ rulings'[e] = NoEvaluation
      /\ \A x \in Evaluator \ {e} : rulings'[x] = rulings[x]
  BY <1>1 DEF ShadowType
<1>4. ASSUME NEW i \in DOMAIN audit'
      PROVE  /\ audit'[i].timestamp <= hour
             /\ audit'[i].outcome = "would_allow" => audit'[i].original = "ADD"
             /\ audit'[i].outcome = "would_close" => audit'[i].original = "CLOSE"
  <2>1. CASE i \in DOMAIN audit
    BY <1>1, <2>1 DEF Dated
  <2>2. CASE i = last
    <3>1. rulings[e].timestamp <= hour /\ rulings[e].advice.original \in {"ADD", "CLOSE", "REDUCE", "HOLD"}
      BY <1>1, RulingFacts
    <3>2. audit'[i] = RowOf(rulings[e])
      BY <1>1, <2>2
    <3> QED BY <3>1, <3>2, OutcomeIs DEF RowOf
  <2> QED BY <1>1, <2>1, <2>2
<1>5. ASSUME NEW x \in Evaluator, ~ AtStep(x, "idle")'
      PROVE  /\ rulings'[x] \in Ruling /\ rulings'[x].timestamp <= hour
             /\ rulings'[x].advice.original # "ADD" => rulings'[x].at \in {"persist", "commit"}
  BY <1>3, <1>5, IdleFacts DEF AtStep, Dated
<1> QED BY <1>1, <1>2, <1>4, <1>5 DEF Dated

\* A gate of a limit fails as soon as its window holds as many rows as the limit.
LEMMA GatesCount ==
    ASSUME NEW now \in Nat
    PROVE  /\ "hourly_add_limit" \notin FailedLimits(now)
                  => ~ (Cardinality(CountedIn(HourWindow[now])) >= ADD_HOURLY_LIMIT)
           /\ "daily_add_limit" \notin FailedLimits(now)
                  => ~ (Cardinality(CountedIn(DayWindow[now])) >= ADD_DAILY_LIMIT)
<1>1. /\ HourWindow[now] = (now - 1)..now /\ DayWindow[now] = Midnight(now)..now
      /\ CountedIn((now - 1)..now) =
             {i \in DOMAIN audit : AllowedAdd(audit[i]) /\ audit[i].timestamp \in (now - 1)..now}
      /\ CountedIn(Midnight(now)..now) =
             {i \in DOMAIN audit : AllowedAdd(audit[i]) /\ audit[i].timestamp \in Midnight(now)..now}
  BY DEF HourWindow, DayWindow, CountedIn
<1>2. /\ "hourly_add_limit" \in AddGates /\ "daily_add_limit" \in AddGates
  BY DEF AddGates
<1> QED BY <1>1, <1>2 DEF FailedLimits, _allowed_add_count

LEMMA LimitsAre == ADD_HOURLY_LIMIT \in Nat /\ ADD_DAILY_LIMIT \in Nat
BY ShadowAssumption

-----------------------------------------------------------------------------
(***************************************************************************)
(* DcaShadow: the steps.                                                   *)
(***************************************************************************)
LEMMA BeginPreserves ==
    ASSUME ShadowIInv, NEW e \in Evaluator, NEW symbol \in ShadowSymbol,
           NEW r \in Recommendation, Begin(e, symbol, r)
    PROVE  ShadowIInv'
<1>t. ShadowType /\ Dated /\ ShadowLimits /\ CooldownHolds
  BY DEF ShadowIInv
<1>1. PICK ruling \in Ruling :
          /\ RulesOnly(e, ruling)
          /\ ruling.advice = r /\ ruling.symbol = symbol /\ ruling.timestamp = hour
          /\ ruling.at = IF r.original = "ADD" THEN "switches" ELSE "persist"
  BY <1>t, BeginIs
<1>2. ShadowType' /\ Dated'
  <2>1. ruling.timestamp <= hour
    BY <1>1, <1>t DEF ShadowType
  <2> QED BY <1>1, <1>t, <2>1, MoveType
<1>3. ShadowLimits'
  BY <1>1, <1>2, <1>t, BeginLimit, HourWindowIs, DayWindowIs, LimitsAre DEF ShadowLimits
<1>4. CooldownHolds'
  BY <1>1, <1>t, NotAsked
<1> QED BY <1>2, <1>3, <1>4 DEF ShadowIInv

\* The queries on the way to a ruling.
LEMMA QueryPreserves ==
    ASSUME ShadowIInv, NEW e \in Evaluator,
           AskSwitches(e) \/ AskLimits(e) \/ AskCooldown(e)
    PROVE  ShadowIInv'
<1>t. ShadowType /\ Dated /\ ShadowLimits /\ CooldownHolds
  BY DEF ShadowIInv
<1>a. rulings[e].at \in {"switches", "limits", "cooldown"} /\ ~ AtStep(e, "idle")
  BY DEF AskSwitches, AskLimits, AskCooldown, AtStep
<1>b. /\ rulings[e] \in Ruling /\ rulings[e].timestamp \in Nat /\ rulings[e].timestamp <= hour
      /\ rulings[e].advice.original = "ADD"
  BY <1>a, <1>t, RulingFacts DEF Dated
<1>1. ASSUME AskSwitches(e) PROVE ShadowIInv'
  <2>f. PICK failed : failed = FailedSwitches(rulings[e].symbol)
    OBVIOUS
  <2>1. failed \in SUBSET AddGates /\ Query(e, "switches", "limits", failed)
    BY <1>1, <2>f DEF AskSwitches, FailedSwitches, AddGates
  <2>2. PICK ruling \in Ruling : GoesOn(e, ruling, "switches", "limits", failed)
    BY <1>t, <2>1, QueryIs
  <2>3. ShadowType' /\ Dated'
    BY <1>t, <1>b, <2>2, MoveType DEF GoesOn
  <2>4. ShadowLimits'
    BY <1>t, <1>a, <2>2, <2>3, MoveLimit, LimitsAre DEF ShadowLimits, GoesOn
  <2>5. CooldownHolds'
    BY <1>t, <2>2, NotAsked DEF GoesOn
  <2> QED BY <2>3, <2>4, <2>5 DEF ShadowIInv
<1>2. ASSUME AskLimits(e) PROVE ShadowIInv'
  <2>f. PICK failed : failed = FailedLimits(rulings[e].timestamp)
    OBVIOUS
  <2>1. failed \in SUBSET AddGates /\ Query(e, "limits", "cooldown", failed)
    BY <1>2, <2>f DEF AskLimits, FailedLimits
  <2>2. PICK ruling \in Ruling : GoesOn(e, ruling, "limits", "cooldown", failed)
    BY <1>t, <2>1, QueryIs
  <2>3. ShadowType' /\ Dated'
    BY <1>t, <1>b, <2>2, MoveType DEF GoesOn
  <2>4. ShadowLimits'
    <3>1. /\ "hourly_add_limit" \notin ruling.blocked =>
                Cardinality(CountedIn(HourWindow[rulings[e].timestamp])) < ADD_HOURLY_LIMIT
          /\ "daily_add_limit" \notin ruling.blocked =>
                Cardinality(CountedIn(DayWindow[rulings[e].timestamp])) < ADD_DAILY_LIMIT
      <4>1. /\ Cardinality(CountedIn(HourWindow[rulings[e].timestamp])) \in Nat
            /\ Cardinality(CountedIn(DayWindow[rulings[e].timestamp])) \in Nat
        BY <1>t, CountsFinite
      <4> QED BY <4>1, <1>b, <2>2, <2>f, GatesCount, LimitsAre DEF GoesOn
    <3> QED BY <1>t, <1>a, <2>2, <2>3, <3>1, MoveLimit, LimitsAre DEF ShadowLimits, GoesOn
  <2>5. CooldownHolds'
    BY <1>t, <2>2, NotAsked DEF GoesOn
  <2> QED BY <2>3, <2>4, <2>5 DEF ShadowIInv
<1>3. ASSUME AskCooldown(e) PROVE ShadowIInv'
  <2>f. PICK failed : failed = FailedCooldown(rulings[e].symbol, rulings[e].timestamp)
    OBVIOUS
  <2>1. failed \in SUBSET AddGates /\ Query(e, "cooldown", "persist", failed)
    BY <1>3, <2>f DEF AskCooldown, FailedCooldown, AddGates
  <2>2. PICK ruling \in Ruling : GoesOn(e, ruling, "cooldown", "persist", failed)
    BY <1>t, <2>1, QueryIs
  <2>3. ShadowType' /\ Dated'
    BY <1>t, <1>b, <2>2, MoveType DEF GoesOn
  <2>4. ShadowLimits'
    BY <1>t, <1>a, <2>2, <2>3, MoveLimit, LimitsAre DEF ShadowLimits, GoesOn
  <2>5. CooldownHolds'
    BY <1>t, <1>3, AskCooldownHolds
  <2> QED BY <2>3, <2>4, <2>5 DEF ShadowIInv
<1> QED BY <1>1, <1>2, <1>3

LEMMA EndPreserves ==
    ASSUME ShadowIInv, NEW e \in Evaluator,
           _persist_decision(e) \/ Commit(e) \/ Rollback(e)
    PROVE  ShadowIInv'
<1>t. ShadowType /\ Dated /\ ShadowLimits /\ CooldownHolds
  BY DEF ShadowIInv
<1>1. ASSUME _persist_decision(e) PROVE ShadowIInv'
  <2>1. PICK ruling \in Ruling : GoesOn(e, ruling, "persist", "commit", {})
    BY <1>t, <1>1, FlushIs
  <2>2. ~ AtStep(e, "idle")
    BY <2>1 DEF GoesOn, AtStep
  <2>3. ShadowType' /\ Dated'
    BY <1>t, <2>1, <2>2, RulingFacts, MoveType DEF GoesOn
  <2>4. ShadowLimits'
    BY <1>t, <2>1, <2>2, <2>3, MoveLimit, LimitsAre DEF ShadowLimits, GoesOn
  <2>5. CooldownHolds'
    <3>1. rulings'[e] = ruling /\ audit' = audit
      BY <1>t, <2>1, OthersKept DEF GoesOn
    <3>2. \A i \in DOMAIN audit : e \in AskedBefore(i)' => e \in AskedBefore(i)
      BY <2>1, <3>1 DEF AskedBefore, GoesOn
    <3> QED BY <1>t, <2>1, <3>2, CooldownMove DEF GoesOn
  <2> QED BY <2>3, <2>4, <2>5 DEF ShadowIInv
<1>2. ASSUME Commit(e) PROVE ShadowIInv'
  <2>1. ShadowType' /\ Dated'
    BY <1>t, <1>2, CommitType
  <2>2. ShadowLimits'
    BY <1>t, <1>2, <2>1, CommitLimit, LimitsAre DEF ShadowLimits
  <2>3. CooldownHolds'
    BY <1>t, <1>2, <2>1, CommitCooldown
  <2> QED BY <2>1, <2>2, <2>3 DEF ShadowIInv
<1>3. ASSUME Rollback(e) PROVE ShadowIInv'
  <2>1. RulesOnly(e, NoEvaluation)
    BY <1>3 DEF Rollback, RulesOnly
  <2>2. ShadowType' /\ Dated'
    BY <1>t, <2>1, MoveType
  <2>3. ShadowLimits'
    BY <1>t, <2>1, <2>2, RollbackLimit, LimitsAre DEF ShadowLimits
  <2>4. CooldownHolds'
    BY <1>t, <2>1, IdleFacts, NotAsked
  <2> QED BY <2>2, <2>3, <2>4 DEF ShadowIInv
<1> QED BY <1>1, <1>2, <1>3

\* The clock and the switches: rows and rulings are as they were.
LEMMA RowsKeptPreserve ==
    ASSUME ShadowIInv, audit' = audit, rulings' = rulings, hour' \in Nat, hour <= hour'
    PROVE  ShadowIInv'
<1>t. ShadowType /\ Dated /\ ShadowLimits /\ CooldownHolds
  BY DEF ShadowIInv
<1>1. ShadowType'
  BY <1>t DEF ShadowType
<1>2. Dated'
  <2>1. \A i \in DOMAIN audit : audit[i].timestamp \in Nat
    <3>1. \A i \in DOMAIN audit : audit[i] \in AuditRow
      BY <1>t DEF ShadowType
    <3> QED BY <3>1 DEF AuditRow
  <2>2. \A e \in Evaluator : ~ AtStep(e, "idle") => rulings[e].timestamp \in Nat
    BY <1>t, RulingFacts
  <2> QED BY <1>t, <2>1, <2>2 DEF Dated, AtStep, ShadowType
<1>3. ShadowLimits'
  BY <1>t DEF ShadowLimits, LimitHolds, CountedIn, ComingIn, MayPass, AtStep
<1>4. CooldownHolds'
  BY <1>t DEF CooldownHolds, AfterClose, AskedBefore
<1> QED BY <1>1, <1>2, <1>3, <1>4 DEF ShadowIInv

LEMMA ShadowStep == ShadowIInv /\ [ShadowNext]_shadowVars => ShadowIInv'
<1> SUFFICES ASSUME ShadowIInv, [ShadowNext]_shadowVars PROVE ShadowIInv'
  OBVIOUS
<1>0. hour \in Nat
  BY DEF ShadowIInv, ShadowType
<1>1. CASE \E e \in Evaluator : \E symbol \in ShadowSymbol, r \in Recommendation :
               Begin(e, symbol, r)
  BY <1>1, BeginPreserves
<1>2. CASE \E e \in Evaluator : AskSwitches(e) \/ AskLimits(e) \/ AskCooldown(e)
  BY <1>2, QueryPreserves
<1>3. CASE \E e \in Evaluator : _persist_decision(e) \/ Commit(e) \/ Rollback(e)
  BY <1>3, EndPreserves
<1>4. CASE (\E s \in Switches : Switch(s)) \/ Hour \/ UNCHANGED shadowVars
  BY <1>0, <1>4, RowsKeptPreserve DEF Switch, Hour, shadowVars
<1> QED BY <1>1, <1>2, <1>3, <1>4 DEF ShadowNext

LEMMA WindowsAreBounded ==
    ASSUME ShadowIInv, NEW h \in Nat
    PROVE  /\ Cardinality(CountedIn((h - 1)..h)) <= ADD_HOURLY_LIMIT + InFlight
           /\ Cardinality(CountedIn(Midnight(h)..h)) <= ADD_DAILY_LIMIT + InFlight
<1>1. /\ Cardinality(CountedIn((h - 1)..h))
             + Cardinality(ComingIn(h, HourWindow, ADD_HOURLY_LIMIT, "hourly_add_limit"))
                 <= ADD_HOURLY_LIMIT + InFlight
      /\ Cardinality(CountedIn(Midnight(h)..h))
             + Cardinality(ComingIn(h, DayWindow, ADD_DAILY_LIMIT, "daily_add_limit"))
                 <= ADD_DAILY_LIMIT + InFlight
  <2>1. HourWindow[h] = (h - 1)..h /\ DayWindow[h] = Midnight(h)..h
    BY DEF HourWindow, DayWindow
  <2>2. /\ Cardinality(CountedIn(HourWindow[h]))
               + Cardinality(ComingIn(h, HourWindow, ADD_HOURLY_LIMIT, "hourly_add_limit"))
                   <= ADD_HOURLY_LIMIT + InFlight
        /\ Cardinality(CountedIn(DayWindow[h]))
               + Cardinality(ComingIn(h, DayWindow, ADD_DAILY_LIMIT, "daily_add_limit"))
                   <= ADD_DAILY_LIMIT + InFlight
    BY DEF ShadowIInv, ShadowLimits, LimitHolds
  <2> QED BY <2>1, <2>2
<1>2. /\ Cardinality(ComingIn(h, HourWindow, ADD_HOURLY_LIMIT, "hourly_add_limit")) \in Nat
      /\ Cardinality(ComingIn(h, DayWindow, ADD_DAILY_LIMIT, "daily_add_limit")) \in Nat
  <2>1. /\ ComingIn(h, HourWindow, ADD_HOURLY_LIMIT, "hourly_add_limit") \in SUBSET Evaluator
        /\ ComingIn(h, DayWindow, ADD_DAILY_LIMIT, "daily_add_limit") \in SUBSET Evaluator
    BY DEF ComingIn
  <2> QED BY <2>1, SessionsFinite
<1>3. /\ Cardinality(CountedIn((h - 1)..h)) \in Nat
      /\ Cardinality(CountedIn(Midnight(h)..h)) \in Nat /\ InFlight \in Int
  BY CountsFinite, ShadowAssumption, FS_CardinalityType DEF ShadowIInv, InFlight
<1> QED BY <1>1, <1>2, <1>3, LimitsAre

LEMMA ShadowInvHolds == ShadowIInv => ShadowInv
<1> SUFFICES ASSUME ShadowIInv PROVE ShadowInv
  OBVIOUS
<1>t. ShadowType /\ Dated /\ CooldownHolds /\ hour \in Nat
  BY DEF ShadowIInv, ShadowType
<1>1. AddsBounded
  BY <1>t, WindowsAreBounded DEF AddsBounded, CountedIn, _allowed_add_count
<1>2. ClosesCoolDown
  <2> SUFFICES ASSUME NEW i \in DOMAIN audit, audit[i].outcome = "would_close"
               PROVE  Cardinality(AfterClose(i)) <= InFlight
    BY DEF ClosesCoolDown, AfterClose
  <2>1. Cardinality(AfterClose(i)) + Cardinality(AskedBefore(i)) <= InFlight
    BY <1>t DEF CooldownHolds
  <2>2. Cardinality(AskedBefore(i)) \in Nat
    <3>1. AskedBefore(i) \in SUBSET Evaluator
      BY DEF AskedBefore
    <3> QED BY <3>1, SessionsFinite
  <2>3. Cardinality(AfterClose(i)) \in Nat /\ InFlight \in Int
    <3>1. IsFiniteSet(DOMAIN audit) /\ AfterClose(i) \in SUBSET DOMAIN audit
      BY <1>t, FS_Interval DEF AfterClose, ShadowType
    <3> QED BY <3>1, FS_Subset, FS_CardinalityType, ShadowAssumption DEF InFlight
  <2> QED BY <2>1, <2>2, <2>3
<1>3. AuditMatchesGate
  <2> SUFFICES ASSUME NEW h \in 0..hour
               PROVE  list_shadow_history("would_allow", Midnight(h), h, 200)
                          = CountedIn(Midnight(h)..h)
    BY DEF AuditMatchesGate, CountedIn, _allowed_add_count
  <2>1. h \in Nat
    BY <1>t
  <2> DEFINE rows == {i \in DOMAIN audit : audit[i].outcome = "would_allow"
                                           /\ audit[i].timestamp \in Midnight(h)..h}
             newer(i) == {j \in rows : audit[j].timestamp > audit[i].timestamp
                                  \/ (audit[j].timestamp = audit[i].timestamp /\ j > i)}
  <2>2. rows = CountedIn(Midnight(h)..h)
    BY <1>t DEF CountedIn, AllowedAdd, Dated
  <2>3. /\ IsFiniteSet(rows) /\ Cardinality(rows) \in Nat
        /\ Cardinality(rows) <= ADD_DAILY_LIMIT + InFlight
    <3> HIDE DEF rows
    <3> QED BY <1>t, <2>1, <2>2, CountsFinite, WindowsAreBounded
  <2>4. Cardinality(rows) < 200
    <3> HIDE DEF rows
    <3> QED BY <2>3, ShadowAssumption, FS_CardinalityType DEF InFlight
  <2>5. ASSUME NEW i \in rows PROVE Cardinality(newer(i)) < 200
    <3>1. newer(i) \in SUBSET rows
      OBVIOUS
    <3> HIDE DEF rows, newer
    <3> QED BY <3>1, <2>3, <2>4, FS_Subset, FS_CardinalityType
  <2>6. list_shadow_history("would_allow", Midnight(h), h, 200)
            = {i \in rows : Cardinality(newer(i)) < 200}
    BY DEF list_shadow_history
  <2>7. {i \in rows : Cardinality(newer(i)) < 200} = rows
    <3> HIDE DEF rows, newer
    <3> QED BY <2>5
  <2> QED BY <2>2, <2>6, <2>7
<1> QED BY <1>1, <1>2, <1>3 DEF ShadowInv

\* For any sessions, symbols, advice, limits and length of a day: within any hour and any day
\* the limits on ADDs are exceeded by no more than the rulings that ran beside each other, a
\* CLOSE cools its symbol down up to those, and the audit lists the ADDs that the gates counted.
THEOREM ShadowDecidesRightly == ShadowSpec => []ShadowInv
<1>1. ShadowInit => ShadowIInv
  <2> SUFFICES ASSUME ShadowInit PROVE ShadowIInv
    OBVIOUS
  <2>1. ShadowType /\ Dated /\ CooldownHolds
    BY ShadowInitHolds
  <2>2. DOMAIN audit = {} /\ \A e \in Evaluator : AtStep(e, "idle")
    BY IdleFacts DEF ShadowInit, AtStep
  <2>3. ASSUME NEW W, NEW limit \in Nat \ {0}, NEW gate PROVE LimitHolds(W, limit, gate)
    <3> SUFFICES ASSUME NEW h \in Nat
                 PROVE  Cardinality(CountedIn(W[h])) + Cardinality(ComingIn(h, W, limit, gate))
                            <= limit + InFlight
      BY DEF LimitHolds
    <3>1. CountedIn(W[h]) = {} /\ ComingIn(h, W, limit, gate) = {}
      BY <2>2 DEF CountedIn, ComingIn
    <3>2. Cardinality(CountedIn(W[h])) = 0 /\ Cardinality(ComingIn(h, W, limit, gate)) = 0
      BY <3>1, FS_EmptySet
    <3>3. InFlight >= -1 /\ InFlight \in Int
      BY ShadowAssumption, FS_CardinalityType DEF InFlight
    <3> QED BY <3>2, <3>3
  <2> QED BY <2>1, <2>3, ShadowAssumption DEF ShadowIInv, ShadowLimits
<1>2. ShadowIInv /\ [ShadowNext]_shadowVars => ShadowIInv'
  BY ShadowStep
<1>3. ShadowIInv => ShadowInv
  BY ShadowInvHolds
<1> QED BY <1>1, <1>2, <1>3, PTL DEF ShadowSpec

-----------------------------------------------------------------------------
(***************************************************************************)
(* Trading: what the exchange and the requests keep.                       *)
(***************************************************************************)
TradeId == Ids(TradeRequest)
Trader == TradeId \cup {"other"}
TradeHow == {"order", "close", "reduce"}
TradeRow == [by: Trader, how: TradeHow, from: Int, to: Int]

Ask ==
    [at: {"idle", "done", "leverage", "order", "cancel", "close", "positions"}]
    \cup [at: {"reduce"}, contracts: Nat]

TradingType ==
    /\ position \in Int /\ lost \in Nat
    /\ trades \in Seq(TradeRow)
    /\ resting \subseteq OrderRequest
    /\ asks \in [TradeId -> Ask]
    /\ answers \in [TradeId -> {NoAnswer, 200, 400, 404, 429, 502, 503}]

\* Each trade starts from where the one before it ended.
TradesChain ==
    /\ \A i \in DOMAIN trades : i + 1 \in DOMAIN trades => trades[i + 1].from = trades[i].to
    /\ trades # <<>> => trades[Len(trades)].to = position

\* Without the switch or without keys nothing gets past the first check.
NothingPasses ==
    /\ tradingEnabled \in BOOLEAN /\ apiKeys \in BOOLEAN
    /\ ~ tradingEnabled \/ ~ apiKeys =>
           /\ \A id \in TradeId : asks[id].at \in {"idle", "done"}
           /\ resting = {}
           /\ \A i \in DOMAIN trades : trades[i].by = "other"

\* An order is on the exchange, or has been executed, once its request has ended.
OrderOf(r) ==
    /\ asks[r.id].at \in {"idle", "leverage", "order", "done"}
    /\ asks[r.id].at # "done" => TradesOf(r.id) = {} /\ r \notin resting /\ answers[r.id] = NoAnswer
    /\ \A i, j \in TradesOf(r.id) : i = j
    /\ r \in resting => TradesOf(r.id) = {}
    /\ TradesOf(r.id) # {} \/ r \in resting => answers[r.id] \in {200, 502}
    /\ answers[r.id] = 200 /\ r.type = "market" => TradesOf(r.id) # {}

\* A close that goes on after a trade of its own has lost the answer to it.
CloseOf(r) ==
    /\ asks[r.id].at \in {"idle", "close", "positions", "reduce", "done"}
    /\ asks[r.id].at # "done" => answers[r.id] = NoAnswer
    /\ asks[r.id].at \in {"idle", "close"} => TradesOf(r.id) = {}
    /\ asks[r.id].at \in {"positions", "reduce"} =>
           \A i, j \in TradesOf(r.id) : i = j /\ trades[i].to = 0 /\ lost > 0
    /\ answers[r.id] = 200 => TradesOf(r.id) # {}
    /\ TradesOf(r.id) # {} => answers[r.id] = 200 \/ lost > 0

CloseReduces(r) ==
    \A i \in TradesOf(r.id) :
        Shrinks(trades[i]) /\ Opposed(trades[i].from, Signed(ClosingSide(r.side), 1))

SecondOf(r) ==
    \A i, j \in TradesOf(r.id) : i < j =>
        /\ TradesOf(r.id) = {i, j} /\ lost > 0
        /\ \E k \in (i + 1)..(j - 1) : trades[k].by # r.id /\ ~ Shrinks(trades[k])

\* An order that was cancelled had been placed, so that it does not come again.
CancelOf(r) ==
    answers[r.id] = 200 =>
        \E o \in OrderRequest : o.id = r.order /\ asks[o.id].at = "done" /\ o \notin resting

\* The inductive invariant.
TradingIInv ==
    /\ TradingType /\ TradesChain /\ NothingPasses
    /\ \A r \in OrderRequest : OrderOf(r)
    /\ \A r \in CloseRequest : CloseOf(r) /\ CloseReduces(r) /\ SecondOf(r)
    /\ \A r \in CancelRequest : CancelOf(r)

\* A step of the request a, or of another client of the account.
StepOf(a) ==
    /\ lost' \in Nat /\ lost' >= lost
    /\ \A id \in TradeId \ {a} : asks'[id] = asks[id] /\ answers'[id] = answers[id]
    /\ trades' = trades \/ \E how \in TradeHow, to \in Int : MovePosition(a, how, to)
    /\ \A o \in resting' \ resting : o.id = a /\ asks[a].at = "order"
    /\ a \in TradeId /\ asks[a].at = "done" => asks'[a].at = "done"

-----------------------------------------------------------------------------
LEMMA OpposedIs ==
    ASSUME NEW a \in Int, NEW b \in Int
    PROVE  Opposed(a, b) <=> (a > 0 /\ b < 0) \/ (a < 0 /\ b > 0)
<1>1. CASE a > 0 /\ b < 0
  <2>1. a * b < 0
    BY <1>1
  <2> QED BY <1>1, <2>1 DEF Opposed
<1>2. CASE a < 0 /\ b > 0
  <2>1. a * b < 0
    BY <1>2
  <2> QED BY <1>2, <2>1 DEF Opposed
<1>3. CASE (a >= 0 /\ b >= 0) \/ (a <= 0 /\ b <= 0)
  <2>1. ~ (a * b < 0)
    BY <1>3
  <2> QED BY <1>3, <2>1 DEF Opposed
<1> QED BY <1>1, <1>2, <1>3

\* No two requests have the same id, whatever they ask for.
LEMMA IdsApart ==
    /\ \A q, r \in TradeRequest : q.id = r.id => q = r
    /\ \A r \in TradeRequest : r.id \in TradeId /\ r.id # "other" /\ r.id \in Trader
    /\ \A o \in OrderRequest :
           /\ \A c \in CloseRequest : o.id # c.id
           /\ \A x \in CancelRequest : o.id # x.id
           /\ \A l \in LeverageRequest : o.id # l.id
    /\ \A c \in CloseRequest :
           /\ \A x \in CancelRequest : c.id # x.id
           /\ \A l \in LeverageRequest : c.id # l.id
    /\ \A x \in CancelRequest, l \in LeverageRequest : x.id # l.id
<1>1. /\ \A q, r \in TradeRequest : q.id = r.id => q = r
      /\ \A r \in TradeRequest : r.id \in TradeId /\ r.id # "other" /\ r.id \in Trader
  BY TradingAssumption DEF TradeId, Trader, Ids, TradeRequest
<1>2. /\ \A o \in OrderRequest :
             "type" \in DOMAIN o /\ "side" \in DOMAIN o /\ "order" \notin DOMAIN o
      /\ \A c \in CloseRequest :
             "type" \notin DOMAIN c /\ "side" \in DOMAIN c /\ "order" \notin DOMAIN c
      /\ \A x \in CancelRequest :
             "type" \notin DOMAIN x /\ "side" \notin DOMAIN x /\ "order" \in DOMAIN x
      /\ \A l \in LeverageRequest :
             "type" \notin DOMAIN l /\ "side" \notin DOMAIN l /\ "order" \notin DOMAIN l
  <2>1. \A o \in OrderRequest :
            DOMAIN o = {"id", "type", "side", "amount", "priced", "reduce_only", "leverage"}
    BY TradingAssumption
  <2>2. \A c \in CloseRequest : DOMAIN c = {"id", "side"}
    BY TradingAssumption
  <2>3. \A x \in CancelRequest : DOMAIN x = {"id", "order", "symbol"}
    BY TradingAssumption
  <2>4. \A l \in LeverageRequest : DOMAIN l = {"id", "leverage"}
    BY TradingAssumption
  <2> QED BY <2>1, <2>2, <2>3, <2>4
<1>3. /\ \A o \in OrderRequest :
             /\ \A c \in CloseRequest : o # c
             /\ \A x \in CancelRequest : o # x
             /\ \A l \in LeverageRequest : o # l
      /\ \A c \in CloseRequest :
             /\ \A x \in CancelRequest : c # x
             /\ \A l \in LeverageRequest : c # l
      /\ \A x \in CancelRequest, l \in LeverageRequest : x # l
  BY <1>2
<1> QED BY <1>1, <1>3 DEF TradeRequest

\* A trade is one row more, in the place last.
Appended(last, by, how, to) ==
    /\ last = Len(trades) + 1 /\ last \notin DOMAIN trades
    /\ DOMAIN trades = 1..Len(trades) /\ DOMAIN trades' = DOMAIN trades \cup {last}
    /\ trades'[last].by = by /\ trades'[last].how = how
    /\ trades'[last].from = position /\ trades'[last].to = to
    /\ trades' \in Seq(TradeRow) /\ trades' # <<>> /\ Len(trades') = last
    /\ \A i \in DOMAIN trades : trades'[i] = trades[i]
    /\ TradesOf(by)' = TradesOf(by) \cup {last}
    /\ \A id : id # by => TradesOf(id)' = TradesOf(id)
    /\ position' = to

\* A trade is one row more; the rows before it stay.
LEMMA TradeAppends ==
    ASSUME TradingType, NEW by \in Trader, NEW how \in TradeHow, NEW to \in Int,
           MovePosition(by, how, to)
    PROVE  \E last \in Nat : Appended(last, by, how, to)
<1> DEFINE row == [by |-> by, how |-> how, from |-> position, to |-> to]
<1>p. PICK last : last = Len(trades) + 1
  OBVIOUS
<1>1. row \in TradeRow
  BY DEF TradingType, TradeRow
<1>2. trades' = Append(trades, row) /\ trades \in Seq(TradeRow) /\ position' = to
  BY DEF MovePosition, TradingType
<1> HIDE DEF row
<1>3. /\ last \in Nat /\ last \notin DOMAIN trades /\ DOMAIN trades = 1..Len(trades)
      /\ DOMAIN trades' = DOMAIN trades \cup {last} /\ trades'[last] = row
      /\ trades' \in Seq(TradeRow) /\ trades' # <<>> /\ Len(trades') = last
      /\ \A i \in DOMAIN trades : trades'[i] = trades[i]
  BY <1>1, <1>2, <1>p
<1>4. row.by = by /\ row.how = how /\ row.from = position /\ row.to = to
  BY DEF row
<1>5. /\ TradesOf(by)' = TradesOf(by) \cup {last}
      /\ \A id : id # by => TradesOf(id)' = TradesOf(id)
  BY <1>3, <1>4 DEF TradesOf
<1> QED BY <1>2, <1>3, <1>4, <1>5, <1>p DEF Appended

LEMMA ChainAppends ==
    ASSUME TradingType, TradesChain, NEW by \in Trader, NEW how \in TradeHow, NEW to \in Int,
           MovePosition(by, how, to)
    PROVE  TradesChain'
<1>p. PICK last \in Nat : Appended(last, by, how, to)
  BY TradeAppends
<1>1. /\ last = Len(trades) + 1 /\ last \notin DOMAIN trades
      /\ DOMAIN trades = 1..Len(trades) /\ DOMAIN trades' = DOMAIN trades \cup {last}
      /\ trades'[last].from = position /\ trades'[last].to = to
      /\ trades' # <<>> /\ Len(trades') = last
      /\ \A i \in DOMAIN trades : trades'[i] = trades[i]
      /\ position' = to
  BY <1>p DEF Appended
<1>2. Len(trades) \in Nat /\ (Len(trades) # 0 => trades # <<>>)
  BY DEF TradingType
<1>3. ASSUME NEW i \in DOMAIN trades', i + 1 \in DOMAIN trades'
      PROVE  trades'[i + 1].from = trades'[i].to
  <2>1. CASE i + 1 \in DOMAIN trades
    <3>1. i \in DOMAIN trades
      BY <1>1, <1>2, <1>3, <2>1
    <3> QED BY <1>1, <2>1, <3>1 DEF TradesChain
  <2>2. CASE i + 1 = last
    <3>1. i \in DOMAIN trades /\ i = Len(trades) /\ trades # <<>>
      BY <1>1, <1>2, <2>2
    <3>2. trades[i].to = position
      BY <3>1 DEF TradesChain
    <3>3. trades'[i].to = position /\ trades'[last].from = position
      BY <1>1, <3>1, <3>2
    <3> QED BY <2>2, <3>3
  <2> QED BY <1>1, <1>3, <2>1, <2>2
<1> QED BY <1>1, <1>3 DEF TradesChain

LEMMA OthersTrades ==
    ASSUME TradingType, NEW a \in Trader, StepOf(a), NEW id \in TradeId, id # a
    PROVE  /\ asks'[id] = asks[id] /\ answers'[id] = answers[id]
           /\ TradesOf(id)' = TradesOf(id)
           /\ \A i \in DOMAIN trades : i \in DOMAIN trades' /\ trades'[i] = trades[i]
           /\ lost \in Nat /\ lost' \in Nat /\ lost' >= lost
<1>1. asks'[id] = asks[id] /\ answers'[id] = answers[id] /\ lost \in Nat /\ lost' \in Nat /\ lost' >= lost
  BY DEF StepOf, TradingType
<1>2. CASE trades' = trades
  BY <1>1, <1>2 DEF TradesOf
<1>3. CASE \E how \in TradeHow, to \in Int : MovePosition(a, how, to)
  <2> PICK how \in TradeHow, to \in Int : MovePosition(a, how, to)
    BY <1>3
  <2>p. PICK last \in Nat : Appended(last, a, how, to)
    BY TradeAppends
  <2>1. /\ DOMAIN trades' = DOMAIN trades \cup {last}
        /\ \A i \in DOMAIN trades : trades'[i] = trades[i]
        /\ \A x : x # a => TradesOf(x)' = TradesOf(x)
    BY <2>p DEF Appended
  <2> QED BY <1>1, <2>1
<1> QED BY <1>2, <1>3 DEF StepOf

\* What a close did twice stays as it is.
LEMMA SecondKept ==
    ASSUME TradingType, NEW r \in CloseRequest, SecondOf(r),
           TradesOf(r.id)' = TradesOf(r.id),
           \A i \in DOMAIN trades : i \in DOMAIN trades' /\ trades'[i] = trades[i],
           lost \in Nat, lost' \in Nat, lost' >= lost
    PROVE  SecondOf(r)'
<1> SUFFICES ASSUME NEW i \in TradesOf(r.id), NEW j \in TradesOf(r.id), i < j
             PROVE  /\ TradesOf(r.id) = {i, j} /\ lost' > 0
                    /\ \E k \in (i + 1)..(j - 1) : trades'[k].by # r.id /\ ~ Shrinks(trades'[k])
  BY DEF SecondOf
<1>1. /\ TradesOf(r.id) = {i, j} /\ lost > 0
      /\ \E k \in (i + 1)..(j - 1) : trades[k].by # r.id /\ ~ Shrinks(trades[k])
  BY DEF SecondOf
<1>2. PICK k \in (i + 1)..(j - 1) : trades[k].by # r.id /\ ~ Shrinks(trades[k])
  BY <1>1
<1>3. i \in 1..Len(trades) /\ j \in 1..Len(trades) /\ Len(trades) \in Nat
      /\ DOMAIN trades = 1..Len(trades)
  BY DEF TradesOf, TradingType
<1>4. k \in DOMAIN trades
  BY <1>2, <1>3
<1>5. trades'[k] = trades[k]
  BY <1>4
<1> QED BY <1>1, <1>2, <1>5

\* What a step leaves of the requests that do not make it.
LEMMA OthersStay ==
    ASSUME TradingIInv, NEW a \in Trader, StepOf(a)
    PROVE  /\ \A r \in OrderRequest : r.id # a => OrderOf(r)'
           /\ \A r \in CloseRequest : r.id # a => (CloseOf(r) /\ CloseReduces(r) /\ SecondOf(r))'
           /\ \A r \in CancelRequest : r.id # a => CancelOf(r)'
<1>t. TradingType
  BY DEF TradingIInv
<1>1. ASSUME NEW r \in OrderRequest, r.id # a PROVE OrderOf(r)'
  <2>1. r.id \in TradeId
    BY IdsApart DEF TradeRequest
  <2>2. /\ asks'[r.id] = asks[r.id] /\ answers'[r.id] = answers[r.id]
        /\ TradesOf(r.id)' = TradesOf(r.id)
    BY <1>t, <1>1, <2>1, OthersTrades
  <2>3. r \in resting' => r \in resting
    BY <1>1 DEF StepOf
  <2>4. OrderOf(r)
    BY DEF TradingIInv
  <2> QED BY <2>2, <2>3, <2>4 DEF OrderOf
<1>2. ASSUME NEW r \in CloseRequest, r.id # a
      PROVE  (CloseOf(r) /\ CloseReduces(r) /\ SecondOf(r))'
  <2>1. r.id \in TradeId
    BY IdsApart DEF TradeRequest
  <2>2. /\ asks'[r.id] = asks[r.id] /\ answers'[r.id] = answers[r.id]
        /\ TradesOf(r.id)' = TradesOf(r.id)
        /\ \A i \in DOMAIN trades : i \in DOMAIN trades' /\ trades'[i] = trades[i]
        /\ lost \in Nat /\ lost' \in Nat /\ lost' >= lost
    BY <1>t, <1>2, <2>1, OthersTrades
  <2>3. CloseOf(r) /\ CloseReduces(r) /\ SecondOf(r)
    BY DEF TradingIInv
  <2>4. TradesOf(r.id) \subseteq DOMAIN trades
    BY DEF TradesOf
  <2>5. CloseOf(r)'
    BY <2>2, <2>3, <2>4 DEF CloseOf
  <2>6. CloseReduces(r)'
    BY <2>2, <2>3, <2>4 DEF CloseReduces
  <2>7. SecondOf(r)'
    BY <1>t, <2>2, <2>3, <2>4, SecondKept
  <2> QED BY <2>5, <2>6, <2>7
<1>3. ASSUME NEW r \in CancelRequest, r.id # a PROVE CancelOf(r)'
  <2>1. r.id \in TradeId
    BY IdsApart DEF TradeRequest
  <2>2. answers'[r.id] = answers[r.id]
    BY <1>t, <1>3, <2>1, OthersTrades
  <2>3. CancelOf(r)
    BY DEF TradingIInv
  <2> SUFFICES ASSUME answers'[r.id] = 200 PROVE CancelOf(r)'
    BY DEF CancelOf
  <2>4. PICK o \in OrderRequest : o.id = r.order /\ asks[o.id].at = "done" /\ o \notin resting
    BY <2>2, <2>3 DEF CancelOf
  <2>5. o.id \in TradeId
    BY IdsApart DEF TradeRequest
  <2>6. asks'[o.id].at = "done"
    BY <2>4, <2>5 DEF StepOf
  <2>7. o \notin resting'
    BY <2>4 DEF StepOf
  <2> QED BY <2>4, <2>6, <2>7 DEF CancelOf
<1> QED BY <1>1, <1>2, <1>3

-----------------------------------------------------------------------------
Statuses == {NoAnswer, 200, 400, 404, 429, 502, 503}
Moves(id) == NoTrade \/ \E how \in TradeHow, to \in Int : MovePosition(id, how, to)

LEMMA GoIs ==
    ASSUME TradingType, NEW id \in TradeId, NEW ask \in Ask, Go(id, ask)
    PROVE  /\ asks'[id] = ask /\ answers' = answers
           /\ \A x \in TradeId \ {id} : asks'[x] = asks[x] /\ answers'[x] = answers[x]
           /\ asks' \in [TradeId -> Ask] /\ answers' \in [TradeId -> Statuses]
BY DEF Go, TradingType, Statuses

LEMMA AnswerIs ==
    ASSUME TradingType, NEW id \in TradeId, NEW status \in Statuses, Answer(id, status)
    PROVE  /\ asks'[id].at = "done" /\ answers'[id] = status
           /\ \A x \in TradeId \ {id} : asks'[x] = asks[x] /\ answers'[x] = answers[x]
           /\ asks' \in [TradeId -> Ask] /\ answers' \in [TradeId -> Statuses]
<1>1. [at |-> "done"] \in Ask
  BY DEF Ask
<1> QED BY <1>1 DEF Answer, TradingType, Statuses

LEMMA ErrorStatusIs ==
    ASSUME NEW error PROVE ErrorStatus(error) \in {429, 502} /\ ErrorStatus("timeout") = 502
BY DEF ErrorStatus

LEMMA MovesKeep ==
    ASSUME TradingType, TradesChain, NEW id \in Trader, Moves(id)
    PROVE  position' \in Int /\ trades' \in Seq(TradeRow) /\ TradesChain'
<1>1. CASE NoTrade
  BY <1>1 DEF NoTrade, TradingType, TradesChain
<1>2. CASE \E how \in TradeHow, to \in Int : MovePosition(id, how, to)
  <2> PICK how \in TradeHow, to \in Int : MovePosition(id, how, to)
    BY <1>2
  <2>1. TradesChain'
    BY ChainAppends
  <2>2. PICK last \in Nat : Appended(last, id, how, to)
    BY TradeAppends
  <2> QED BY <2>1, <2>2 DEF Appended
<1> QED BY <1>1, <1>2 DEF Moves

\* What every call of a request keeps.
LEMMA CallKeeps ==
    ASSUME TradingType, TradesChain, NEW r \in TradeRequest, asks[r.id].at # "done",
           (\E ask \in Ask : Go(r.id, ask)) \/ (\E status \in Statuses : Answer(r.id, status)),
           Moves(r.id), Lose \/ UNCHANGED lost, resting' \subseteq OrderRequest,
           \A o \in resting' \ resting : o.id = r.id /\ asks[r.id].at = "order"
    PROVE  StepOf(r.id) /\ TradingType' /\ TradesChain'
<1>1. r.id \in TradeId /\ r.id \in Trader
  BY IdsApart DEF Trader
<1>2. position' \in Int /\ trades' \in Seq(TradeRow) /\ TradesChain'
  BY <1>1, MovesKeep
<1>3. /\ \A x \in TradeId \ {r.id} : asks'[x] = asks[x] /\ answers'[x] = answers[x]
      /\ asks' \in [TradeId -> Ask] /\ answers' \in [TradeId -> Statuses]
  BY <1>1, GoIs, AnswerIs
<1>4. lost' \in Nat /\ lost' >= lost
  BY DEF Lose, TradingType
<1>5. StepOf(r.id)
  BY <1>1, <1>3, <1>4 DEF StepOf, Moves, NoTrade
<1>6. TradingType'
  BY <1>2, <1>3, <1>4 DEF TradingType, Statuses
<1> QED BY <1>2, <1>5, <1>6

LEMMA PassedStays ==
    ASSUME NothingPasses, tradingEnabled, apiKeys, UNCHANGED <<tradingEnabled, apiKeys>>
    PROVE  NothingPasses'
BY DEF NothingPasses

\* A request that is under way has passed the checks.
LEMMA UnderWay ==
    ASSUME NothingPasses, NEW id \in TradeId, asks[id].at \notin {"idle", "done"}
    PROVE  tradingEnabled /\ apiKeys
BY DEF NothingPasses

\* A step of a request keeps the invariant when it keeps what concerns the request itself.
LEMMA RequestStep ==
    ASSUME TradingIInv, NEW r \in TradeRequest, StepOf(r.id), TradingType', TradesChain',
           NothingPasses',
           r \in OrderRequest => OrderOf(r)',
           r \in CloseRequest => (CloseOf(r) /\ CloseReduces(r) /\ SecondOf(r))',
           r \in CancelRequest => CancelOf(r)'
    PROVE  TradingIInv'
<1>1. \A q \in TradeRequest : q # r => q.id # r.id
  BY IdsApart
<1>2. r.id \in Trader
  BY IdsApart DEF Trader
<1>3. \A q \in OrderRequest : OrderOf(q)'
  BY <1>1, <1>2, OthersStay DEF TradeRequest
<1>4. \A q \in CloseRequest : (CloseOf(q) /\ CloseReduces(q) /\ SecondOf(q))'
  BY <1>1, <1>2, OthersStay DEF TradeRequest
<1>5. \A q \in CancelRequest : CancelOf(q)'
  BY <1>1, <1>2, OthersStay DEF TradeRequest
<1> QED BY <1>3, <1>4, <1>5 DEF TradingIInv

\* What every route checks first.
LEMMA ArriveIs ==
    ASSUME TradingIInv, NEW r \in TradeRequest, NEW valid \in BOOLEAN,
           NEW first \in {"leverage", "order", "cancel", "close"}, Arrive(r, valid, first)
    PROVE  /\ StepOf(r.id) /\ TradingType' /\ TradesChain' /\ NothingPasses'
           /\ asks[r.id].at = "idle" /\ trades' = trades /\ resting' = resting /\ lost' = lost
           /\ TradesOf(r.id)' = TradesOf(r.id)
           /\ \/ asks'[r.id].at = first /\ answers'[r.id] = answers[r.id]
              \/ asks'[r.id].at = "done" /\ answers'[r.id] \in {400, 404, 503}
<1>t. TradingType /\ TradesChain /\ NothingPasses
  BY DEF TradingIInv
<1>i. r.id \in TradeId
  BY IdsApart
<1>1. /\ asks[r.id].at = "idle" /\ NoTrade /\ resting' = resting /\ lost' = lost
      /\ UNCHANGED <<tradingEnabled, apiKeys>>
  BY DEF Arrive, At, Unanswered
<1>2. trades' = trades /\ TradesOf(r.id)' = TradesOf(r.id)
  BY <1>1 DEF NoTrade, TradesOf
<1>3. \/ Answer(r.id, 503) \/ Answer(r.id, 400) \/ Answer(r.id, 404)
      \/ tradingEnabled /\ apiKeys /\ Go(r.id, [at |-> first])
  <2>1. tradingEnabled \in BOOLEAN /\ apiKeys \in BOOLEAN
    BY <1>t DEF NothingPasses
  <2>2. CASE ~ tradingEnabled
    BY <2>2 DEF Arrive
  <2>3. CASE tradingEnabled /\ ~ valid
    BY <2>3 DEF Arrive
  <2>4. CASE tradingEnabled /\ valid /\ ~ apiKeys
    BY <2>4 DEF Arrive
  <2>5. CASE tradingEnabled /\ valid /\ apiKeys
    BY <2>5 DEF Arrive
  <2> QED BY <2>1, <2>2, <2>3, <2>4, <2>5
<1>4. [at |-> first] \in Ask /\ {503, 400, 404} \subseteq Statuses
  BY DEF Ask, Statuses
<1>5. StepOf(r.id) /\ TradingType' /\ TradesChain'
  <2>1. resting' \subseteq OrderRequest
    BY <1>1, <1>t DEF TradingType
  <2>2. (\E ask \in Ask : Go(r.id, ask)) \/ (\E status \in Statuses : Answer(r.id, status))
    BY <1>3, <1>4
  <2> QED BY <1>t, <1>1, <2>1, <2>2, CallKeeps DEF Moves
<1>6. \/ asks'[r.id].at = first /\ answers'[r.id] = answers[r.id] /\ tradingEnabled /\ apiKeys
      \/ asks'[r.id].at = "done" /\ answers'[r.id] \in {400, 404, 503}
  BY <1>t, <1>i, <1>3, <1>4, GoIs, AnswerIs
<1>7. NothingPasses'
  <2>1. \A id \in TradeId \ {r.id} : asks'[id] = asks[id]
    BY <1>5 DEF StepOf
  <2>2. CASE tradingEnabled /\ apiKeys
    BY <1>t, <1>1, <2>2, PassedStays
  <2>3. CASE ~ (tradingEnabled /\ apiKeys)
    BY <1>t, <1>1, <1>2, <1>6, <2>1, <2>3 DEF NothingPasses
  <2> QED BY <2>2, <2>3
<1> QED BY <1>1, <1>2, <1>5, <1>6, <1>7

LEMMA ArrivePreserves ==
    ASSUME TradingIInv,
           \/ \E r \in OrderRequest : place_order(r)
           \/ \E r \in CancelRequest : cancel_order(r)
           \/ \E r \in CloseRequest : close_position(r)
           \/ \E r \in LeverageRequest : set_leverage(r)
    PROVE  TradingIInv'
<1>1. ASSUME NEW r \in OrderRequest, place_order(r) PROVE TradingIInv'
  <2>0. (r.type = "limit" => r.priced) \in BOOLEAN /\ r \in TradeRequest
    BY DEF TradeRequest
  <2>1. PICK valid \in BOOLEAN, first \in {"leverage", "order"} : Arrive(r, valid, first)
    BY <1>1, <2>0 DEF place_order
  <2>2. /\ StepOf(r.id) /\ TradingType' /\ TradesChain' /\ NothingPasses'
        /\ asks[r.id].at = "idle" /\ resting' = resting
        /\ TradesOf(r.id)' = TradesOf(r.id)
        /\ \/ asks'[r.id].at = first /\ answers'[r.id] = answers[r.id]
           \/ asks'[r.id].at = "done" /\ answers'[r.id] \in {400, 404, 503}
    BY <2>0, <2>1, ArriveIs
  <2>3. OrderOf(r)
    BY DEF TradingIInv
  <2>4. OrderOf(r)'
    BY <2>2, <2>3 DEF OrderOf, NoAnswer
  <2>5. r \notin CloseRequest /\ r \notin CancelRequest
    BY IdsApart
  <2> QED BY <2>0, <2>2, <2>4, <2>5, RequestStep
<1>2. ASSUME NEW r \in CancelRequest, cancel_order(r) PROVE TradingIInv'
  <2>0. r.symbol \in BOOLEAN /\ r \in TradeRequest
    BY TradingAssumption DEF TradeRequest
  <2>2. /\ StepOf(r.id) /\ TradingType' /\ TradesChain' /\ NothingPasses'
        /\ asks[r.id].at = "idle" /\ resting' = resting
        /\ \/ asks'[r.id].at = "cancel" /\ answers'[r.id] = answers[r.id]
           \/ asks'[r.id].at = "done" /\ answers'[r.id] \in {400, 404, 503}
    BY <1>2, <2>0, ArriveIs DEF cancel_order
  <2>3. CancelOf(r)
    BY DEF TradingIInv
  <2>4. CancelOf(r)'
    <3> SUFFICES ASSUME answers'[r.id] = 200 PROVE CancelOf(r)'
      BY DEF CancelOf
    <3>1. PICK o \in OrderRequest : o.id = r.order /\ asks[o.id].at = "done" /\ o \notin resting
      BY <2>2, <2>3 DEF CancelOf
    <3>2. o.id \in TradeId /\ o.id # r.id
      BY IdsApart DEF TradeRequest
    <3>3. asks'[o.id].at = "done"
      BY <2>2, <3>1, <3>2 DEF StepOf
    <3> QED BY <2>2, <3>1, <3>3 DEF CancelOf
  <2>5. r \notin CloseRequest /\ r \notin OrderRequest
    BY IdsApart
  <2> QED BY <2>0, <2>2, <2>4, <2>5, RequestStep
<1>3. ASSUME NEW r \in CloseRequest, close_position(r) PROVE TradingIInv'
  <2>0. r \in TradeRequest
    BY DEF TradeRequest
  <2>2. /\ StepOf(r.id) /\ TradingType' /\ TradesChain' /\ NothingPasses'
        /\ asks[r.id].at = "idle"
        /\ TradesOf(r.id)' = TradesOf(r.id)
        /\ \/ asks'[r.id].at = "close" /\ answers'[r.id] = answers[r.id]
           \/ asks'[r.id].at = "done" /\ answers'[r.id] \in {400, 404, 503}
    BY ZenonT(30), <1>3, <2>0, ArriveIs DEF close_position
  <2>3. CloseOf(r)
    BY DEF TradingIInv
  <2>4. TradesOf(r.id)' = {}
    BY <2>2, <2>3 DEF CloseOf
  <2>5. (CloseOf(r) /\ CloseReduces(r) /\ SecondOf(r))'
    BY <2>2, <2>3, <2>4 DEF CloseOf, NoAnswer, CloseReduces, SecondOf
  <2>6. r \notin OrderRequest /\ r \notin CancelRequest
    BY IdsApart
  <2> QED BY <2>0, <2>2, <2>5, <2>6, RequestStep
<1>4. ASSUME NEW r \in LeverageRequest, set_leverage(r) PROVE TradingIInv'
  <2>0. r \in TradeRequest
    BY DEF TradeRequest
  <2>2. StepOf(r.id) /\ TradingType' /\ TradesChain' /\ NothingPasses'
    BY <1>4, <2>0, ArriveIs DEF set_leverage
  <2>3. r \notin OrderRequest /\ r \notin CancelRequest /\ r \notin CloseRequest
    BY IdsApart
  <2> QED BY <2>0, <2>2, <2>3, RequestStep
<1> QED BY <1>1, <1>2, <1>3, <1>4

-----------------------------------------------------------------------------
(***************************************************************************)
(* Trading: orders, leverage and cancellations.                            *)
(***************************************************************************)
LEMMA TradeKinds == "order" \in TradeHow /\ "close" \in TradeHow /\ "reduce" \in TradeHow
BY DEF TradeHow

LEMMA NoTradeIs ==
    ASSUME NoTrade PROVE trades' = trades /\ \A id : TradesOf(id)' = TradesOf(id) /\ Moves(id)
BY DEF NoTrade, TradesOf, Moves

LEMMA AfterIsInt ==
    ASSUME TradingType, NEW side, NEW amount \in Nat, NEW reduceOnly
    PROVE  After(side, amount, reduceOnly) \in Int
BY DEF TradingType, After, Signed

LEMMA LeveragePreserves ==
    ASSUME TradingIInv,
           \/ \E r \in OrderRequest : LeverageBeforeOrder(r)
           \/ \E r \in LeverageRequest : SetLeverage(r)
    PROVE  TradingIInv'
<1>t. TradingType /\ TradesChain /\ NothingPasses
  BY DEF TradingIInv
<1>1. ASSUME NEW r \in OrderRequest, LeverageBeforeOrder(r) PROVE TradingIInv'
  <2>0. r \in TradeRequest /\ r.id \in TradeId
    BY IdsApart DEF TradeRequest
  <2>1. /\ asks[r.id].at = "leverage" /\ Go(r.id, [at |-> "order"]) /\ NoTrade
        /\ Lose \/ UNCHANGED lost
        /\ resting' = resting /\ UNCHANGED <<tradingEnabled, apiKeys>>
    BY <1>1 DEF LeverageBeforeOrder, At, Unanswered
  <2>2. [at |-> "order"] \in Ask
    BY DEF Ask
  <2>3. StepOf(r.id) /\ TradingType' /\ TradesChain'
    BY <1>t, <2>0, <2>1, <2>2, NoTradeIs, CallKeeps DEF TradingType
  <2>4. NothingPasses'
    BY <1>t, <2>0, <2>1, UnderWay, PassedStays
  <2>5. asks'[r.id].at = "order" /\ answers'[r.id] = answers[r.id]
    BY <1>t, <2>0, <2>1, <2>2, GoIs
  <2>6. OrderOf(r)'
    <3>1. OrderOf(r)
      BY DEF TradingIInv
    <3> QED BY <2>1, <2>5, <3>1, NoTradeIs DEF OrderOf
  <2>7. r \notin CloseRequest /\ r \notin CancelRequest
    BY IdsApart
  <2> QED BY <2>0, <2>3, <2>4, <2>6, <2>7, RequestStep
<1>2. ASSUME NEW r \in LeverageRequest, SetLeverage(r) PROVE TradingIInv'
  <2>0. r \in TradeRequest /\ r.id \in TradeId
    BY IdsApart DEF TradeRequest
  <2>1. /\ asks[r.id].at = "leverage" /\ NoTrade /\ (Lose \/ UNCHANGED lost)
        /\ resting' = resting /\ UNCHANGED <<tradingEnabled, apiKeys>>
    BY <1>2 DEF SetLeverage, At, Unanswered
  <2>2. \E status \in Statuses : Answer(r.id, status)
    <3>1. /\ 200 \in Statuses /\ ErrorStatus("timeout") \in Statuses
          /\ \A error : ErrorStatus(error) \in Statuses
      BY ErrorStatusIs DEF Statuses
    <3> QED BY <1>2, <3>1 DEF SetLeverage
  <2>3. StepOf(r.id) /\ TradingType' /\ TradesChain'
    BY <1>t, <2>0, <2>1, <2>2, NoTradeIs, CallKeeps DEF TradingType
  <2>4. NothingPasses'
    BY <1>t, <2>0, <2>1, UnderWay, PassedStays
  <2>5. r \notin CloseRequest /\ r \notin CancelRequest /\ r \notin OrderRequest
    BY IdsApart
  <2> QED BY <2>0, <2>3, <2>4, <2>5, RequestStep
<1> QED BY <1>1, <1>2

\* An order that is executed has one trade, one that rests has none.
LEMMA ExecuteIs ==
    ASSUME TradingType, NEW r \in OrderRequest, Execute(r), r \notin resting, TradesOf(r.id) = {}
    PROVE  /\ Moves(r.id) /\ resting' \subseteq OrderRequest
           /\ \A o \in resting' \ resting : o = r
           /\ \A i, j \in TradesOf(r.id)' : i = j
           /\ r \in resting' => TradesOf(r.id)' = {}
           /\ r.type = "market" => TradesOf(r.id)' # {}
<1>0. r.id \in Trader /\ r.amount \in Nat
  <2>1. r \in [id: STRING, type: {"limit", "market"}, side: {"buy", "sell"}, amount: Nat \ {0},
               priced: BOOLEAN, reduce_only: BOOLEAN, leverage: Nat]
    BY TradingAssumption
  <2> QED BY <2>1, IdsApart DEF TradeRequest
<1>1. CASE r.type = "market"
  <2>p. PICK to \in Int : MovePosition(r.id, "order", to) /\ UNCHANGED resting
    BY <1>0, <1>1, AfterIsInt DEF Execute
  <2>1. PICK last \in Nat : Appended(last, r.id, "order", to)
    BY <1>0, <2>p, TradeKinds, TradeAppends
  <2>2. TradesOf(r.id)' = {last}
    BY <2>1 DEF Appended
  <2>3. Moves(r.id)
    BY <2>p, TradeKinds DEF Moves
  <2> QED BY <2>p, <2>2, <2>3 DEF TradingType
<1>2. CASE r.type # "market"
  <2>1. NoTrade /\ resting' = resting \cup {r}
    BY <1>2 DEF Execute
  <2>2. TradesOf(r.id)' = {} /\ Moves(r.id)
    BY <2>1, NoTradeIs
  <2> QED BY <1>2, <2>1, <2>2 DEF TradingType
<1> QED BY <1>1, <1>2

LEMMA CreatePreserves ==
    ASSUME TradingIInv, NEW r \in OrderRequest, CreateOrder(r)
    PROVE  TradingIInv'
<1>t. TradingType /\ TradesChain /\ NothingPasses /\ OrderOf(r)
  BY DEF TradingIInv
<1>0. r \in TradeRequest /\ r.id \in TradeId /\ r \notin CloseRequest /\ r \notin CancelRequest
  BY IdsApart DEF TradeRequest
<1>1. /\ asks[r.id].at = "order" /\ (Lose \/ UNCHANGED lost)
      /\ UNCHANGED <<tradingEnabled, apiKeys>>
      /\ TradesOf(r.id) = {} /\ r \notin resting
  BY <1>t DEF CreateOrder, At, Unanswered, OrderOf
<1>2. NothingPasses'
  BY <1>t, <1>0, <1>1, UnderWay, PassedStays
<1>3. ASSUME Execute(r), NEW status \in {200, 502}, Answer(r.id, status)
      PROVE  TradingIInv'
  <2>1. /\ Moves(r.id) /\ resting' \subseteq OrderRequest
        /\ \A o \in resting' \ resting : o = r
        /\ \A i, j \in TradesOf(r.id)' : i = j
        /\ r \in resting' => TradesOf(r.id)' = {}
        /\ r.type = "market" => TradesOf(r.id)' # {}
    BY <1>t, <1>1, <1>3, ExecuteIs
  <2>2. status \in Statuses
    BY DEF Statuses
  <2>3. StepOf(r.id) /\ TradingType' /\ TradesChain'
    BY <1>t, <1>0, <1>1, <1>3, <2>1, <2>2, CallKeeps
  <2>4. asks'[r.id].at = "done" /\ answers'[r.id] = status
    BY <1>t, <1>0, <1>3, <2>2, AnswerIs
  <2>5. OrderOf(r)'
    BY <2>1, <2>4 DEF OrderOf
  <2> QED BY <1>0, <1>2, <2>3, <2>5, RequestStep
<1>4. ASSUME NoTrade, resting' = resting, NEW status \in {429, 502}, Answer(r.id, status)
      PROVE  TradingIInv'
  <2>1. status \in Statuses
    BY DEF Statuses
  <2>2. StepOf(r.id) /\ TradingType' /\ TradesChain'
    BY <1>t, <1>0, <1>1, <1>4, <2>1, NoTradeIs, CallKeeps DEF TradingType
  <2>3. asks'[r.id].at = "done" /\ answers'[r.id] = status
    BY <1>t, <1>0, <1>4, <2>1, AnswerIs
  <2>4. TradesOf(r.id)' = {}
    BY <1>1, <1>4, NoTradeIs
  <2>5. OrderOf(r)'
    BY <1>1, <1>4, <2>3, <2>4 DEF OrderOf
  <2> QED BY <1>0, <1>2, <2>2, <2>5, RequestStep
<1> QED BY ZenonT(30), <1>3, <1>4, ErrorStatusIs DEF CreateOrder

LEMMA CancelPreserves ==
    ASSUME TradingIInv, NEW r \in CancelRequest, CancelOrder(r)
    PROVE  TradingIInv'
<1>t. TradingType /\ TradesChain /\ NothingPasses /\ \A o \in OrderRequest : OrderOf(o)
  BY DEF TradingIInv
<1>0. r \in TradeRequest /\ r.id \in TradeId /\ r \notin CloseRequest /\ r \notin OrderRequest
  BY IdsApart DEF TradeRequest
<1> DEFINE found == {o \in resting : o.id = r.order}
<1>1. /\ asks[r.id].at = "cancel" /\ NoTrade
      /\ UNCHANGED <<tradingEnabled, apiKeys>> /\ (Lose \/ UNCHANGED lost)
  BY DEF CancelOrder, At, Unanswered
<1>2. \E status \in Statuses : /\ Answer(r.id, status)
                               /\ \/ found # {} /\ resting' = resting \ found
                                  \/ status # 200 /\ resting' = resting
  <2>1. /\ 200 \in Statuses /\ ErrorStatus("timeout") \in Statuses
        /\ \A error : ErrorStatus(error) \in Statuses /\ ErrorStatus(error) # 200
    BY ErrorStatusIs DEF Statuses
  <2> HIDE DEF found
  <2>2. \/ found # {} /\ resting' = resting \ found /\ Answer(r.id, 200)
        \/ found # {} /\ resting' = resting \ found /\ Answer(r.id, ErrorStatus("timeout"))
        \/ \E error : Answer(r.id, ErrorStatus(error)) /\ resting' = resting
    BY DEF CancelOrder, found
  <2> QED BY <2>1, <2>2
<1>3. PICK status \in Statuses : /\ Answer(r.id, status)
                                 /\ \/ found # {} /\ resting' = resting \ found
                                    \/ status # 200 /\ resting' = resting
  BY <1>2
<1>4. resting' \subseteq resting
  BY <1>3
<1>5. StepOf(r.id) /\ TradingType' /\ TradesChain'
  BY <1>t, <1>0, <1>1, <1>3, <1>4, NoTradeIs, CallKeeps DEF TradingType
<1>6. NothingPasses'
  BY <1>t, <1>0, <1>1, UnderWay, PassedStays
<1>7. asks'[r.id].at = "done" /\ answers'[r.id] = status
  BY <1>t, <1>0, <1>3, AnswerIs
<1>8. CancelOf(r)'
  <2> SUFFICES ASSUME status = 200 PROVE CancelOf(r)'
    BY <1>7 DEF CancelOf
  <2>1. found # {} /\ resting' = resting \ found
    BY <1>3
  <2>2. PICK o \in resting : o.id = r.order
    BY <2>1
  <2>3. o \in OrderRequest /\ o.id \in TradeId /\ o.id # r.id
    BY <1>t, IdsApart DEF TradingType, TradeRequest
  <2>4. asks[o.id].at = "done"
    BY <1>t, <2>3 DEF OrderOf
  <2>5. asks'[o.id].at = "done"
    BY <1>5, <2>3, <2>4 DEF StepOf
  <2>6. o \notin resting'
    BY <2>1, <2>2
  <2> QED BY <2>2, <2>3, <2>5, <2>6 DEF CancelOf
<1> QED BY <1>0, <1>5, <1>6, <1>8, RequestStep

-----------------------------------------------------------------------------
(***************************************************************************)
(* Trading: fills, other clients and closing a position.                   *)
(***************************************************************************)
LEMMA FillPreserves ==
    ASSUME TradingIInv, NEW r \in OrderRequest, RestingFills(r)
    PROVE  TradingIInv'
<1>t. TradingType /\ TradesChain /\ NothingPasses /\ OrderOf(r)
  BY DEF TradingIInv
<1>0. /\ r \in TradeRequest /\ r.id \in TradeId /\ r \notin CloseRequest /\ r \notin CancelRequest
      /\ r.id \in Trader /\ r.amount \in Nat
  <2>1. r \in [id: STRING, type: {"limit", "market"}, side: {"buy", "sell"}, amount: Nat \ {0},
               priced: BOOLEAN, reduce_only: BOOLEAN, leverage: Nat]
    BY TradingAssumption
  <2>2. r.amount \in Nat
    BY <2>1
  <2> QED BY <2>2, IdsApart DEF TradeRequest
<1>1. /\ r \in resting /\ resting' = resting \ {r}
      /\ UNCHANGED <<tradingEnabled, apiKeys, asks, answers, lost>>
      /\ TradesOf(r.id) = {} /\ asks[r.id].at = "done" /\ answers[r.id] \in {200, 502}
  BY <1>t DEF RestingFills, Unanswered, OrderOf
<1>2. NothingPasses'
  <2>1. tradingEnabled /\ apiKeys
    BY <1>t, <1>1 DEF NothingPasses
  <2> QED BY <1>t, <1>1, <2>1, PassedStays
<1>3. NoTrade \/ \E to \in Int : MovePosition(r.id, "order", to)
  BY <1>t, <1>0, AfterIsInt DEF RestingFills
<1>4. Moves(r.id)
  BY <1>3, TradeKinds DEF Moves
<1>5. position' \in Int /\ trades' \in Seq(TradeRow) /\ TradesChain'
  BY <1>t, <1>0, <1>4, MovesKeep
<1>6. TradingType'
  BY <1>t, <1>1, <1>5 DEF TradingType
<1>7. StepOf(r.id)
  BY <1>t, <1>1, <1>4 DEF StepOf, Moves, NoTrade, TradingType
<1>8. \A i, j \in TradesOf(r.id)' : i = j
  <2>1. CASE NoTrade
    BY <1>1, <2>1, NoTradeIs
  <2>2. CASE \E to \in Int : MovePosition(r.id, "order", to)
    <3>1. PICK to \in Int : MovePosition(r.id, "order", to)
      BY <2>2
    <3>2. PICK last \in Nat : Appended(last, r.id, "order", to)
      BY <1>t, <1>0, <3>1, TradeKinds, TradeAppends
    <3> QED BY <1>1, <3>2 DEF Appended
  <2> QED BY <1>3, <2>1, <2>2
<1>9. OrderOf(r)'
  <2>1. answers'[r.id] = 200 /\ r.type = "market" => TradesOf(r.id)' # {}
    BY <1>t, <1>1 DEF OrderOf
  <2> QED BY <1>1, <1>8, <2>1 DEF OrderOf
<1> QED BY <1>0, <1>2, <1>5, <1>6, <1>7, <1>9, RequestStep

LEMMA OtherPreserves ==
    ASSUME TradingIInv, NEW to \in (-MaxPosition)..MaxPosition, OtherTrade(to)
    PROVE  TradingIInv'
<1>t. TradingType /\ TradesChain /\ NothingPasses
  BY DEF TradingIInv
<1>1. /\ MovePosition("other", "order", to)
      /\ UNCHANGED <<tradingEnabled, apiKeys, resting, asks, answers, lost>>
  BY DEF OtherTrade
<1>2. "other" \in Trader /\ to \in Int /\ "other" \notin TradeId
  BY TradingAssumption DEF Trader, TradeId
<1>3. Moves("other")
  BY <1>1, <1>2, TradeKinds DEF Moves
<1>4. position' \in Int /\ trades' \in Seq(TradeRow) /\ TradesChain'
  BY <1>t, <1>2, <1>3, MovesKeep
<1>5. TradingType'
  BY <1>t, <1>1, <1>4 DEF TradingType
<1>6. StepOf("other")
  BY <1>t, <1>1, <1>2, <1>3 DEF StepOf, Moves, NoTrade, TradingType
<1>7. NothingPasses'
  <2>1. PICK last \in Nat : Appended(last, "other", "order", to)
    BY <1>t, <1>1, <1>2, TradeKinds, TradeAppends
  <2>2. (\A i \in DOMAIN trades : trades[i].by = "other")
            => \A i \in DOMAIN trades' : trades'[i].by = "other"
    BY <2>1 DEF Appended
  <2> QED BY <1>t, <1>1, <2>2 DEF NothingPasses
<1>8. \A r \in TradeRequest : r.id # "other"
  BY IdsApart
<1> QED BY <1>2, <1>4, <1>5, <1>6, <1>7, <1>8, OthersStay DEF TradingIInv, TradeRequest

\* A further trade of a close: it reduces, and if it is the second, the position that the first
\* had brought to zero was opened between them.
LEMMA CloseTrades ==
    ASSUME TradingType, TradesChain, NEW r \in CloseRequest, CloseReduces(r),
           NEW last, NEW how, NEW to \in Int, Appended(last, r.id, how, to),
           AbsOf(to) < AbsOf(position), ~ Opposed(position, to),
           Opposed(position, Signed(ClosingSide(r.side), 1)),
           \A i, j \in TradesOf(r.id) : i = j /\ trades[i].to = 0 /\ lost > 0,
           lost' \in Nat, lost' >= lost
    PROVE  (CloseReduces(r) /\ SecondOf(r))' /\ TradesOf(r.id)' = TradesOf(r.id) \cup {last}
<1>1. /\ last = Len(trades) + 1 /\ last \notin DOMAIN trades /\ Len(trades) \in Nat
      /\ DOMAIN trades = 1..Len(trades) /\ DOMAIN trades' = DOMAIN trades \cup {last}
      /\ trades'[last].from = position /\ trades'[last].to = to
      /\ \A i \in DOMAIN trades : trades'[i] = trades[i]
      /\ TradesOf(r.id)' = TradesOf(r.id) \cup {last}
      /\ TradesOf(r.id) \subseteq DOMAIN trades
  BY DEF Appended, TradingType, TradesOf
<1>2. CloseReduces(r)'
  <2> SUFFICES ASSUME NEW i \in TradesOf(r.id)'
               PROVE  /\ Shrinks(trades'[i])
                      /\ Opposed(trades'[i].from, Signed(ClosingSide(r.side), 1))
    BY DEF CloseReduces
  <2>1. CASE i \in TradesOf(r.id)
    BY <1>1, <2>1 DEF CloseReduces
  <2>2. CASE i = last
    BY <1>1, <2>2 DEF Shrinks
  <2> QED BY <1>1, <2>1, <2>2
<1>3. SecondOf(r)'
  <2> SUFFICES ASSUME NEW i \in TradesOf(r.id)', NEW j \in TradesOf(r.id)', i < j
               PROVE  /\ TradesOf(r.id)' = {i, j} /\ lost' > 0
                      /\ \E k \in (i + 1)..(j - 1) : trades'[k].by # r.id /\ ~ Shrinks(trades'[k])
    BY DEF SecondOf
  <2>1. j = last /\ i \in TradesOf(r.id)
    BY <1>1
  <2>2. TradesOf(r.id) = {i} /\ trades[i].to = 0 /\ lost > 0
    BY <2>1
  <2>3. i \in DOMAIN trades /\ i \in Nat /\ i <= Len(trades)
    BY <1>1, <2>1
  <2>4. position # 0 /\ position \in Int
    <3>1. Signed(ClosingSide(r.side), 1) \in Int
      BY DEF Signed
    <3> QED BY <3>1, OpposedIs DEF TradingType
  <2>5. i # Len(trades)
    <3>1. trades # <<>>
      BY <2>3
    <3> QED BY <2>2, <2>4, <3>1 DEF TradesChain
  <2>6. /\ i + 1 \in DOMAIN trades /\ i + 1 \in (i + 1)..(j - 1)
        /\ trades'[i + 1] = trades[i + 1] /\ i + 1 \notin TradesOf(r.id)
    BY <1>1, <2>1, <2>2, <2>3, <2>5
  <2>7. trades[i + 1].from = 0 /\ trades[i + 1].by # r.id
    BY <2>2, <2>3, <2>6 DEF TradesChain, TradesOf
  <2>8. ~ Shrinks(trades[i + 1])
    <3>1. trades[i + 1] \in TradeRow
      BY <2>6 DEF TradingType
    <3>2. trades[i + 1].to \in Int
      BY <3>1 DEF TradeRow
    <3> QED BY <2>7, <3>2 DEF Shrinks, AbsOf
  <2>9. lost' > 0
    BY <2>2 DEF TradingType
  <2> QED BY <1>1, <2>1, <2>2, <2>6, <2>7, <2>8, <2>9
<1> QED BY <1>1, <1>2, <1>3

\* What a close that does not trade keeps.
LEMMA CloseIdles ==
    ASSUME TradingType, NEW r \in CloseRequest, CloseReduces(r), SecondOf(r), NoTrade,
           lost' \in Nat, lost' >= lost
    PROVE  (CloseReduces(r) /\ SecondOf(r))' /\ TradesOf(r.id)' = TradesOf(r.id)
<1>1. trades' = trades /\ TradesOf(r.id)' = TradesOf(r.id)
  BY NoTradeIs
<1>2. lost \in Nat
  BY DEF TradingType
<1>3. SecondOf(r)'
  BY <1>1, <1>2, SecondKept
<1>4. CloseReduces(r)'
  BY <1>1 DEF CloseReduces
<1> QED BY <1>1, <1>3, <1>4

\* Closing what is held reduces the position of the side asked for.
LEMMA HeldIs ==
    ASSUME TradingType, NEW r \in CloseRequest, Held(r.side)
    PROVE  /\ AbsOf(0) < AbsOf(position) /\ ~ Opposed(position, 0)
           /\ Opposed(position, Signed(ClosingSide(r.side), 1))
<1>1. position \in Int /\ r.side \in {"long", "short"}
  BY TradingAssumption DEF TradingType
<1>2. Signed(ClosingSide(r.side), 1) = IF r.side = "long" THEN -1 ELSE 1
  BY <1>1 DEF Signed, ClosingSide
<1>3. IF r.side = "long" THEN position > 0 ELSE position < 0
  BY DEF Held
<1> HIDE DEF ClosingSide
<1>4. Opposed(position, Signed(ClosingSide(r.side), 1))
  <2>1. Signed(ClosingSide(r.side), 1) \in Int
    BY <1>2
  <2> QED BY <1>1, <1>2, <1>3, <2>1, OpposedIs
<1>5. ~ Opposed(position, 0)
  BY <1>1, OpposedIs
<1>6. AbsOf(0) < AbsOf(position)
  BY <1>1, <1>3 DEF AbsOf
<1> QED BY <1>4, <1>5, <1>6

\* What is left of a position after an order against it.
LEMMA LeftOver ==
    ASSUME NEW p \in Int, NEW n \in Nat, NEW d \in Int,
           (p > 0 /\ n > 0 /\ d = -n) \/ (p < 0 /\ n > 0 /\ d = n),
           NEW to, to = IF n > AbsOf(p) THEN 0 ELSE p + d
    PROVE  to \in Int /\ AbsOf(to) < AbsOf(p) /\ ~ Opposed(p, to)
<1>1. CASE n > AbsOf(p)
  <2>1. to = 0 /\ AbsOf(0) < AbsOf(p)
    BY <1>1 DEF AbsOf
  <2> QED BY <2>1, OpposedIs
<1>2. CASE ~ (n > AbsOf(p)) /\ p > 0
  <2>1. to = p - n /\ n <= p /\ n > 0
    BY <1>2 DEF AbsOf
  <2>2. to \in Int /\ to >= 0 /\ to < p
    BY <1>2, <2>1
  <2>3. AbsOf(to) < AbsOf(p)
    BY <1>2, <2>2 DEF AbsOf
  <2> QED BY <1>2, <2>2, <2>3, OpposedIs
<1>3. CASE ~ (n > AbsOf(p)) /\ p < 0
  <2>1. to = p + n /\ n <= -p /\ n > 0
    BY <1>3 DEF AbsOf
  <2>2. to \in Int /\ to <= 0 /\ to > p
    BY <1>3, <2>1
  <2>3. AbsOf(to) < AbsOf(p)
    BY <1>3, <2>2 DEF AbsOf
  <2> QED BY <1>3, <2>2, <2>3, OpposedIs
<1> QED BY <1>1, <1>2, <1>3

\* So does an order that only reduces, however many contracts it names.
LEMMA ReducingIs ==
    ASSUME TradingType, NEW r \in CloseRequest, NEW amount \in Nat,
           Acceptable(ClosingSide(r.side), amount, TRUE),
           NEW to, to = After(ClosingSide(r.side), amount, TRUE)
    PROVE  /\ to \in Int /\ AbsOf(to) < AbsOf(position) /\ ~ Opposed(position, to)
           /\ Opposed(position, Signed(ClosingSide(r.side), 1))
<1>1. position \in Int /\ r.side \in {"long", "short"}
  BY TradingAssumption DEF TradingType
<1>p. PICK p \in Int : p = position
  BY <1>1
<1>d. PICK d \in Int : /\ d = Signed(ClosingSide(r.side), amount)
                       /\ d = IF r.side = "long" THEN -amount ELSE amount
  BY <1>1 DEF Signed, ClosingSide
<1>e. PICK e \in Int : /\ e = Signed(ClosingSide(r.side), 1)
                       /\ e = IF r.side = "long" THEN -1 ELSE 1
  BY <1>1 DEF Signed, ClosingSide
<1>3. Opposed(p, d) /\ to = IF amount > AbsOf(p) THEN 0 ELSE p + d
  BY <1>p, <1>d DEF Acceptable, After
<1>4. (p > 0 /\ r.side = "long" /\ amount > 0) \/ (p < 0 /\ r.side = "short" /\ amount > 0)
  BY <1>1, <1>d, <1>3, OpposedIs
<1>5. Opposed(p, e)
  BY <1>1, <1>e, <1>4, OpposedIs
<1>6. (p > 0 /\ amount > 0 /\ d = -amount) \/ (p < 0 /\ amount > 0 /\ d = amount)
  BY <1>1, <1>d, <1>4
<1>7. to \in Int /\ AbsOf(to) < AbsOf(p) /\ ~ Opposed(p, to)
  BY <1>3, <1>6, LeftOver
<1> QED BY <1>p, <1>e, <1>5, <1>7

\* What the steps of a close have in common: the request is past the checks and before its answer.
LEMMA CloseStep ==
    ASSUME TradingIInv, NEW r \in CloseRequest, asks[r.id].at \in {"close", "positions", "reduce"},
           (\E ask \in Ask : Go(r.id, ask)) \/ (\E status \in Statuses : Answer(r.id, status)),
           Moves(r.id), Lose \/ UNCHANGED lost, UNCHANGED <<tradingEnabled, apiKeys, resting>>,
           (CloseOf(r) /\ CloseReduces(r) /\ SecondOf(r))'
    PROVE  TradingIInv'
<1>t. TradingType /\ TradesChain /\ NothingPasses
  BY DEF TradingIInv
<1>0. r \in TradeRequest /\ r.id \in TradeId /\ r \notin OrderRequest /\ r \notin CancelRequest
  BY IdsApart DEF TradeRequest
<1>1. StepOf(r.id) /\ TradingType' /\ TradesChain'
  BY <1>t, <1>0, CallKeeps DEF TradingType
<1>2. NothingPasses'
  BY <1>t, <1>0, UnderWay, PassedStays
<1> QED BY <1>0, <1>1, <1>2, RequestStep

\* A trade of a close, whose answer arrives or not.
LEMMA CloseTradesStep ==
    ASSUME TradingIInv, NEW r \in CloseRequest, asks[r.id].at \in {"close", "reduce"},
           NEW how \in {"close", "reduce"}, NEW to \in Int, MovePosition(r.id, how, to),
           AbsOf(to) < AbsOf(position), ~ Opposed(position, to),
           Opposed(position, Signed(ClosingSide(r.side), 1)),
           UNCHANGED <<tradingEnabled, apiKeys, resting>>,
           \/ Answer(r.id, 200) /\ UNCHANGED lost
           \/ Answer(r.id, 502) /\ Lose
           \/ asks[r.id].at = "close" /\ to = 0 /\ Go(r.id, [at |-> "positions"]) /\ Lose
    PROVE  TradingIInv'
<1>t. TradingType /\ TradesChain /\ CloseOf(r) /\ CloseReduces(r)
  BY DEF TradingIInv
<1>0. r.id \in TradeId /\ r.id \in Trader /\ how \in TradeHow
  BY IdsApart, TradeKinds DEF TradeRequest
<1>p. PICK last \in Nat : Appended(last, r.id, how, to)
  BY <1>t, <1>0, TradeAppends
<1>1. \A i, j \in TradesOf(r.id) : i = j /\ trades[i].to = 0 /\ lost > 0
  BY <1>t DEF CloseOf
<1>2. lost \in Nat /\ lost' \in Nat /\ lost' >= lost /\ (Lose => lost' > 0)
  BY <1>t DEF Lose, TradingType
<1>3. (CloseReduces(r) /\ SecondOf(r))' /\ TradesOf(r.id)' = TradesOf(r.id) \cup {last}
  BY <1>t, <1>p, <1>1, <1>2, CloseTrades
<1>4. Moves(r.id)
  BY <1>0 DEF Moves
<1>5. CASE Answer(r.id, 200) \/ (Answer(r.id, 502) /\ Lose)
  <2>1. 200 \in Statuses /\ 502 \in Statuses
    BY DEF Statuses
  <2>2. asks'[r.id].at = "done" /\ (answers'[r.id] = 200 \/ (answers'[r.id] = 502 /\ lost' > 0))
    BY <1>t, <1>0, <1>2, <1>5, <2>1, AnswerIs
  <2>3. CloseOf(r)'
    BY <1>3, <2>2 DEF CloseOf
  <2>4. \E status \in Statuses : Answer(r.id, status)
    BY <1>5, <2>1
  <2> QED BY <1>3, <1>4, <2>3, <2>4, CloseStep
<1>6. CASE asks[r.id].at = "close" /\ to = 0 /\ Go(r.id, [at |-> "positions"]) /\ Lose
  <2>1. [at |-> "positions"] \in Ask
    BY DEF Ask
  <2>2. asks'[r.id].at = "positions" /\ answers'[r.id] = answers[r.id]
    BY <1>t, <1>0, <1>6, <2>1, GoIs
  <2>3. TradesOf(r.id)' = {last} /\ trades'[last].to = 0 /\ lost' > 0 /\ answers[r.id] = NoAnswer
    BY <1>t, <1>p, <1>2, <1>3, <1>6 DEF CloseOf, Appended
  <2>4. CloseOf(r)'
    BY <2>2, <2>3 DEF CloseOf, NoAnswer
  <2> QED BY <1>3, <1>4, <1>6, <2>1, <2>4, CloseStep
<1> QED BY <1>2, <1>5, <1>6

LEMMA ClosePreserves ==
    ASSUME TradingIInv, NEW r \in CloseRequest, ClosePosition(r)
    PROVE  TradingIInv'
<1>t. TradingType /\ CloseOf(r) /\ CloseReduces(r) /\ SecondOf(r)
  BY DEF TradingIInv
<1>0. asks[r.id].at = "close" /\ UNCHANGED <<tradingEnabled, apiKeys, resting>> /\ r.id \in TradeId
  BY IdsApart DEF ClosePosition, At, Unanswered, TradeRequest
<1>1. CASE /\ Held(r.side) /\ MovePosition(r.id, "close", 0)
           /\ \/ Answer(r.id, 200) /\ UNCHANGED lost
              \/ Go(r.id, [at |-> "positions"]) /\ Lose
  <2>1. /\ AbsOf(0) < AbsOf(position) /\ ~ Opposed(position, 0)
        /\ Opposed(position, Signed(ClosingSide(r.side), 1))
    BY <1>t, <1>1, HeldIs
  <2> QED BY <1>0, <1>1, <2>1, CloseTradesStep
<1>2. CASE NoTrade /\ Go(r.id, [at |-> "positions"]) /\ UNCHANGED lost
  <2>1. [at |-> "positions"] \in Ask
    BY DEF Ask
  <2>2. asks'[r.id].at = "positions" /\ answers'[r.id] = answers[r.id]
    BY <1>t, <1>0, <1>2, <2>1, GoIs
  <2>3. lost \in Nat /\ lost' \in Nat /\ lost' >= lost
    BY <1>t, <1>2 DEF TradingType
  <2>4. (CloseReduces(r) /\ SecondOf(r))' /\ TradesOf(r.id)' = TradesOf(r.id)
    BY <1>t, <1>2, <2>3, CloseIdles
  <2>5. TradesOf(r.id) = {} /\ answers[r.id] = NoAnswer
    BY <1>t, <1>0 DEF CloseOf
  <2>6. CloseOf(r)'
    BY <2>2, <2>4, <2>5 DEF CloseOf, NoAnswer
  <2> QED BY <1>0, <1>2, <2>1, <2>4, <2>6, NoTradeIs, CloseStep
<1> QED BY <1>1, <1>2 DEF ClosePosition

LEMMA FetchPreserves ==
    ASSUME TradingIInv, NEW r \in CloseRequest, FetchPositions(r)
    PROVE  TradingIInv'
<1>t. TradingType /\ CloseOf(r) /\ CloseReduces(r) /\ SecondOf(r)
  BY DEF TradingIInv
<1>0. /\ asks[r.id].at = "positions" /\ UNCHANGED <<tradingEnabled, apiKeys, resting, lost>>
      /\ NoTrade /\ r.id \in TradeId
  BY IdsApart DEF FetchPositions, At, Unanswered, TradeRequest
<1>1. lost \in Nat /\ lost' \in Nat /\ lost' >= lost
  BY <1>t, <1>0 DEF TradingType
<1>2. (CloseReduces(r) /\ SecondOf(r))' /\ TradesOf(r.id)' = TradesOf(r.id) /\ trades' = trades
  BY <1>t, <1>0, <1>1, CloseIdles, NoTradeIs
<1>3. CASE Go(r.id, [at |-> "reduce", contracts |-> AbsOf(position)])
  <2>1. [at |-> "reduce", contracts |-> AbsOf(position)] \in Ask
    BY <1>t DEF Ask, AbsOf, TradingType
  <2>2. asks'[r.id].at = "reduce" /\ answers'[r.id] = answers[r.id]
    BY <1>t, <1>0, <1>3, <2>1, GoIs
  <2>3. CloseOf(r)'
    BY <1>t, <1>0, <1>2, <2>2 DEF CloseOf
  <2> QED BY <1>0, <1>2, <1>3, <2>1, <2>3, NoTradeIs, CloseStep
<1>4. CASE \E status \in {404, 429, 502} : Answer(r.id, status)
  <2>1. PICK status \in {404, 429, 502} : Answer(r.id, status)
    BY <1>4
  <2>2. status \in Statuses
    BY DEF Statuses
  <2>3. asks'[r.id].at = "done" /\ answers'[r.id] = status
    BY <1>t, <1>0, <2>1, <2>2, AnswerIs
  <2>4. TradesOf(r.id) # {} => lost > 0
    BY <1>t, <1>0 DEF CloseOf
  <2>5. CloseOf(r)'
    BY <1>0, <1>2, <2>3, <2>4 DEF CloseOf
  <2> QED BY <1>0, <1>2, <2>1, <2>2, <2>5, NoTradeIs, CloseStep
<1> QED BY ZenonT(30), <1>3, <1>4, ErrorStatusIs DEF FetchPositions

LEMMA ReducePreserves ==
    ASSUME TradingIInv, NEW r \in CloseRequest, ReduceOrder(r)
    PROVE  TradingIInv'
<1>t. TradingType /\ CloseOf(r) /\ CloseReduces(r) /\ SecondOf(r)
  BY DEF TradingIInv
<1>0. asks[r.id].at = "reduce" /\ UNCHANGED <<tradingEnabled, apiKeys, resting>> /\ r.id \in TradeId
  BY IdsApart DEF ReduceOrder, At, Unanswered, TradeRequest
<1>p. PICK amount \in Nat : amount = asks[r.id].contracts
  <2>1. asks[r.id] \in Ask
    BY <1>t, <1>0 DEF TradingType
  <2> QED BY <1>0, <2>1 DEF Ask
<1> DEFINE to == After(ClosingSide(r.side), amount, TRUE)
<1>1. CASE /\ Acceptable(ClosingSide(r.side), amount, TRUE) /\ MovePosition(r.id, "reduce", to)
           /\ \/ Answer(r.id, 200) /\ UNCHANGED lost
              \/ Answer(r.id, 502) /\ Lose
  <2>1. /\ to \in Int /\ AbsOf(to) < AbsOf(position) /\ ~ Opposed(position, to)
        /\ Opposed(position, Signed(ClosingSide(r.side), 1))
    BY <1>t, <1>1, ReducingIs
  <2> HIDE DEF to
  <2> QED BY <1>0, <1>1, <2>1, CloseTradesStep
<1>2. CASE NoTrade /\ UNCHANGED lost /\ \E status \in {429, 502} : Answer(r.id, status)
  <2>1. PICK status \in {429, 502} : Answer(r.id, status)
    BY <1>2
  <2>2. status \in Statuses
    BY DEF Statuses
  <2>3. asks'[r.id].at = "done" /\ answers'[r.id] = status
    BY <1>t, <1>0, <2>1, <2>2, AnswerIs
  <2>4. lost \in Nat /\ lost' \in Nat /\ lost' >= lost
    BY <1>t, <1>2 DEF TradingType
  <2>5. (CloseReduces(r) /\ SecondOf(r))' /\ TradesOf(r.id)' = TradesOf(r.id)
    BY <1>t, <1>2, <2>4, CloseIdles
  <2>6. TradesOf(r.id) # {} => lost' > 0
    BY <1>t, <1>0, <1>2 DEF CloseOf
  <2>7. CloseOf(r)'
    BY <2>3, <2>5, <2>6 DEF CloseOf
  <2> QED BY <1>0, <1>2, <2>1, <2>2, <2>5, <2>7, NoTradeIs, CloseStep
<1> QED BY ZenonT(30), <1>p, <1>1, <1>2, ErrorStatusIs DEF ReduceOrder

-----------------------------------------------------------------------------
(***************************************************************************)
(* Trading: the theorem.                                                   *)
(***************************************************************************)
LEMMA TradingStart ==
    TradingInit => TradingIInv
<1> SUFFICES ASSUME TradingInit PROVE TradingIInv
  OBVIOUS
<1>1. /\ position \in Int /\ lost = 0 /\ trades = <<>> /\ resting = {}
      /\ tradingEnabled \in BOOLEAN /\ apiKeys \in BOOLEAN
  BY TradingAssumption DEF TradingInit
<1>2. /\ asks \in [TradeId -> [at: {"idle"}]]
      /\ answers = [id \in TradeId |-> NoAnswer]
  BY DEF TradingInit, TradeId
<1>3. \A id \in TradeId : asks[id] \in Ask /\ asks[id].at = "idle" /\ answers[id] = NoAnswer
  BY <1>2 DEF Ask
<1>4. TradingType
  BY <1>1, <1>2, <1>3 DEF TradingType
<1>5. \A id : TradesOf(id) = {}
  BY <1>1 DEF TradesOf
<1>6. TradesChain /\ NothingPasses
  BY <1>1, <1>3 DEF TradesChain, NothingPasses
<1>7. \A r \in TradeRequest : r.id \in TradeId
  BY IdsApart
<1>8. \A r \in OrderRequest : OrderOf(r)
  BY <1>1, <1>3, <1>5, <1>7 DEF OrderOf, NoAnswer, TradeRequest
<1>9. \A r \in CloseRequest : CloseOf(r) /\ CloseReduces(r) /\ SecondOf(r)
  BY <1>3, <1>5, <1>7 DEF CloseOf, CloseReduces, SecondOf, NoAnswer, TradeRequest
<1>10. \A r \in CancelRequest : CancelOf(r)
  BY <1>3, <1>7 DEF CancelOf, NoAnswer, TradeRequest
<1> QED BY <1>4, <1>6, <1>8, <1>9, <1>10 DEF TradingIInv

LEMMA TradingStep ==
    TradingIInv /\ [TradingNext]_tradingVars => TradingIInv'
<1> SUFFICES ASSUME TradingIInv, [TradingNext]_tradingVars PROVE TradingIInv'
  OBVIOUS
<1>1. CASE \/ \E r \in OrderRequest : place_order(r)
           \/ \E r \in CancelRequest : cancel_order(r)
           \/ \E r \in CloseRequest : close_position(r)
           \/ \E r \in LeverageRequest : set_leverage(r)
  BY <1>1, ArrivePreserves
<1>2. CASE \/ \E r \in OrderRequest : LeverageBeforeOrder(r)
           \/ \E r \in LeverageRequest : SetLeverage(r)
  BY <1>2, LeveragePreserves
<1>3. CASE \E r \in OrderRequest : CreateOrder(r)
  BY <1>3, CreatePreserves
<1>4. CASE \E r \in OrderRequest : RestingFills(r)
  BY <1>4, FillPreserves
<1>5. CASE \E r \in CancelRequest : CancelOrder(r)
  BY <1>5, CancelPreserves
<1>6. CASE \E r \in CloseRequest : ClosePosition(r)
  BY <1>6, ClosePreserves
<1>7. CASE \E r \in CloseRequest : FetchPositions(r)
  BY <1>7, FetchPreserves
<1>8. CASE \E r \in CloseRequest : ReduceOrder(r)
  BY <1>8, ReducePreserves
<1>9. CASE \E to \in (-MaxPosition)..MaxPosition : OtherTrade(to)
  BY <1>9, OtherPreserves
<1>10. CASE UNCHANGED tradingVars
  <2>1. UNCHANGED <<tradingEnabled, apiKeys, position, resting, trades, asks, answers, lost>>
    BY <1>10 DEF tradingVars
  <2>2. \A id : TradesOf(id)' = TradesOf(id)
    BY <2>1 DEF TradesOf
  <2>3. TradingType' /\ TradesChain' /\ NothingPasses'
    BY <2>1 DEF TradingIInv, TradingType, TradesChain, NothingPasses
  <2>4. \A r \in OrderRequest : OrderOf(r)'
    BY <2>1, <2>2 DEF TradingIInv, OrderOf
  <2>5. \A r \in CloseRequest : (CloseOf(r) /\ CloseReduces(r) /\ SecondOf(r))'
    <3> SUFFICES ASSUME NEW r \in CloseRequest
                 PROVE  CloseOf(r)' /\ CloseReduces(r)' /\ SecondOf(r)'
      OBVIOUS
    <3>1. CloseOf(r) /\ CloseReduces(r) /\ SecondOf(r)
      BY DEF TradingIInv
    <3>2. CloseOf(r)'
      BY <2>1, <2>2, <3>1 DEF CloseOf
    <3>3. CloseReduces(r)'
      BY <2>1, <2>2, <3>1 DEF CloseReduces
    <3>4. SecondOf(r)'
      BY <2>1, <2>2, <3>1 DEF SecondOf
    <3> QED BY <3>2, <3>3, <3>4
  <2>6. \A r \in CancelRequest : CancelOf(r)'
    BY <2>1 DEF TradingIInv, CancelOf
  <2> QED BY <2>3, <2>4, <2>5, <2>6 DEF TradingIInv
<1> QED BY <1>1, <1>2, <1>3, <1>4, <1>5, <1>6, <1>7, <1>8, <1>9, <1>10 DEF TradingNext

LEMMA TradingInvHolds ==
    TradingIInv => TradingInv
<1> SUFFICES ASSUME TradingIInv PROVE TradingInv
  OBVIOUS
<1>1. CloseOnlyReduces
  BY DEF TradingIInv, CloseReduces, CloseOnlyReduces
<1>2. SecondCloseIsOfAnother
  BY DEF TradingIInv, SecondOf, SecondCloseIsOfAnother
<1>3. ASSUME NEW r \in OrderRequest
      PROVE  /\ Cardinality(TradesOf(r.id)) <= 1
             /\ TradesOf(r.id) # {} \/ r \in resting => answers[r.id] \in {200, 502}
             /\ answers[r.id] = 200 /\ r.type = "market" => TradesOf(r.id) # {}
  <2>1. OrderOf(r)
    BY DEF TradingIInv
  <2>2. TradesOf(r.id) = {} \/ \E i : TradesOf(r.id) = {i}
    BY <2>1 DEF OrderOf
  <2>3. Cardinality(TradesOf(r.id)) <= 1
    <3>1. CASE TradesOf(r.id) = {}
      BY <3>1, FS_EmptySet
    <3>2. CASE \E i : TradesOf(r.id) = {i}
      <4>1. PICK i : TradesOf(r.id) = {i}
        BY <3>2
      <4>2. Cardinality({i}) = 1
        BY FS_Singleton
      <4> QED BY <4>1, <4>2
    <3> QED BY <2>2, <3>1, <3>2
  <2> QED BY <2>1, <2>3 DEF OrderOf
<1>4. ASSUME NEW r \in CancelRequest, answers[r.id] = 200
      PROVE  r.order \notin {o.id : o \in resting}
  <2>1. PICK o \in OrderRequest : o.id = r.order /\ o \notin resting
    BY <1>4 DEF TradingIInv, CancelOf
  <2>2. \A q \in resting : q \in TradeRequest
    BY DEF TradingIInv, TradingType, TradeRequest
  <2> QED BY <2>1, <2>2, IdsApart DEF TradeRequest
<1>5. \A r \in CloseRequest : /\ answers[r.id] = 200 => TradesOf(r.id) # {}
                              /\ TradesOf(r.id) # {} => answers[r.id] = 200 \/ lost > 0
  BY DEF TradingIInv, CloseOf
<1>6. ~ tradingEnabled \/ ~ apiKeys => \A i \in DOMAIN trades : trades[i].by = "other"
  BY DEF TradingIInv, NothingPasses
<1>7. AnswersAreTrue
  BY <1>3, <1>4, <1>5, <1>6 DEF AnswersAreTrue
<1> QED BY <1>1, <1>2, <1>7 DEF TradingInv

\* However requests, fills, other clients and lost answers interleave, and whatever is asked for
\* and held: a close never opens or turns a position, closes a second time only what was opened
\* in between, and no answer of the trading routes claims what the exchange did not do.
THEOREM TradingHolds ==
    TradingSpec => []TradingInv
<1>1. TradingInit => TradingIInv
  BY TradingStart
<1>2. TradingIInv /\ [TradingNext]_tradingVars => TradingIInv'
  BY TradingStep
<1>3. TradingIInv => TradingInv
  BY TradingInvHolds
<1> QED BY <1>1, <1>2, <1>3, PTL DEF TradingSpec

-----------------------------------------------------------------------------
(***************************************************************************)
(* MacroCache: its fields agree, and it never goes back.                   *)
(***************************************************************************)
\* A publication is numbered from one, so that a value that was read is no None.
\* What a task has brought is not newer than its source, and a change is the one
\* of the close it came with.
BroughtInv ==
    /\ \A s \in Feed : market[s] # None
    /\ \A t \in Task : cache[t].value # None =>
          cache[t].from \in FeedsOf(t) /\ cache[t].value <= market[cache[t].from]
    /\ \A v \in Visitor, t \in Task :
        LET o == got[v][t]
        IN  /\ o.kind = "ok" => o.value # None /\ o.from \in FeedsOf(t) /\ o.value <= market[o.from]
            /\ o.kind = "ok" /\ o.extra # None => o.extra = o.value

\* A refresh that no other one has overtaken knows nothing older than the cache, when
\* both know the same series.
NewerInv ==
    \A v \in Visitor \ overtaken, t \in Task :
        asked[v] = "refreshing" /\ got[v][t].kind = "ok" /\ cache[t].from = got[v][t].from
            => cache[t].value <= got[v][t].value

\* What a refresh brings was published since it began, or was what was published then.
BeganInv ==
    /\ \A v \in Visitor, s \in Feed : began[v][s] <= market[s]
    /\ \A v \in Visitor, t \in Task : got[v][t].kind = "ok" => began[v][got[v][t].from] <= got[v][t].value

MacroIInv ==
    /\ MacroTypeOK /\ BroughtInv /\ NewerInv /\ BeganInv
    /\ ChangeMatchesClose /\ EmptyIsExplained /\ KeptIsListed

LEMMA NoneIsPublication == None \in Publication /\ Publication = Nat /\ None = 0
BY DEF None, Publication

LEMMA OutcomeTypes ==
    /\ Pending \in FetchOutcome /\ Pending.kind = "pending"
    /\ Failed \in FetchOutcome /\ Failed.kind = "failed"
    /\ Blank \in Cell /\ Blank.value = None /\ Blank.error = FALSE /\ Blank.from = Nowhere
    /\ BlankPart \in SecondCell /\ BlankPart.value = None
    /\ Unread("raised") \in FetchOutcome /\ Unread("raised").kind = "raised"
BY NoneIsPublication DEF Pending, Failed, Unread, Blank, BlankPart, FetchOutcome, Cell, SecondCell, Origin

\* The series of a task.
LEMMA FeedsAre ==
    ASSUME NEW t \in Task
    PROVE  FeedsOf(t) \subseteq Feed /\ FeedsOf(t) \subseteq Origin /\ (t # "dxy" => FeedsOf(t) = {t})
BY DEF FeedsOf, Feed, Origin

LEMMA NoneOfAllIs == NoneOfAll \in [Feed -> Publication] /\ \A s \in Feed : NoneOfAll[s] = 0
BY NoneIsPublication DEF NoneOfAll

LEMMA RegimeType ==
    ASSUME NEW b, NEW d
    PROVE  compute_regime(b, d) \in {"unknown", "risk-on", "risk-off", "mixed"}
BY DEF compute_regime

LEMMA MacroInitOK == MacroInit => MacroIInv
<1> SUFFICES ASSUME MacroInit PROVE MacroIInv
  OBVIOUS
<1>0. /\ market = [s \in Feed |-> 1] /\ down \in SUBSET Feed
      /\ cache = [t \in Task |-> Blank] /\ second = [t \in TwoPart |-> BlankPart]
      /\ got = [v \in Visitor |-> [t \in Task |-> Pending]]
      /\ began = [v \in Visitor |-> NoneOfAll] /\ since = NoneOfAll
  BY DEF MacroInit
<1>1. MacroTypeOK
  <2>1. market \in [Feed -> Publication]
    BY <1>0, NoneIsPublication
  <2>2. cache \in [Task -> Cell] /\ second \in [TwoPart -> SecondCell]
    BY <1>0, OutcomeTypes
  <2>7. began \in [Visitor -> [Feed -> Publication]] /\ since \in [Feed -> Publication]
    BY <1>0, NoneOfAllIs
  <2>3. got \in [Visitor -> [Task -> FetchOutcome]]
    BY <1>0, OutcomeTypes
  <2>4. asked \in [Visitor -> {"idle", "refreshing"}]
    BY DEF MacroInit
  <2>5. overtaken \in SUBSET Visitor /\ reboots \in 0 .. MaxReboots
    BY MacroAssumption DEF MacroInit
  <2>6. regime \in {"none", "unknown", "risk-on", "risk-off", "mixed"} /\ fresh \in BOOLEAN
    BY DEF MacroInit
  <2> QED BY <2>1, <2>2, <2>3, <2>4, <2>5, <2>6, <2>7, <1>0 DEF MacroTypeOK
<1>2. BroughtInv /\ NewerInv
  BY <1>0, OutcomeTypes, NoneIsPublication DEF MacroInit, BroughtInv, NewerInv
<1>4. BeganInv
  BY <1>0, OutcomeTypes, NoneOfAllIs DEF BeganInv
<1>3. ChangeMatchesClose /\ EmptyIsExplained /\ KeptIsListed
  BY <1>0, OutcomeTypes DEF MacroInit, ChangeMatchesClose, EmptyIsExplained, KeptIsListed, Refreshed, ShownValue, TwoPart
<1> QED BY <1>1, <1>2, <1>3, <1>4 DEF MacroIInv

\* The cached fields alone.
LEMMA UnwrittenPreserves ==
    ASSUME MacroIInv, UNCHANGED <<cache, second, regime, since>>
    PROVE  ChangeMatchesClose' /\ EmptyIsExplained' /\ KeptIsListed'
BY DEF MacroIInv, ChangeMatchesClose, EmptyIsExplained, KeptIsListed, Refreshed, ShownValue, Listed

LEMMA PublishPreserves ==
    ASSUME MacroIInv, NEW f \in Feed, Publish(f)
    PROVE  MacroIInv'
<1>t. MacroTypeOK /\ BroughtInv /\ NewerInv /\ BeganInv
  BY DEF MacroIInv
<1>1. /\ market' = [market EXCEPT ![f] = market[f] + 1]
      /\ UNCHANGED <<down, cache, second, regime, fresh, asked, got, began, since, overtaken, reboots>>
  BY DEF Publish
<1>2. market' \in [Feed -> Nat] /\ \A s \in Feed : market'[s] >= market[s] /\ market[s] \in Nat
  BY <1>1, <1>t DEF MacroTypeOK, Publication
<1>3. MacroTypeOK'
  BY <1>1, <1>2, <1>t DEF MacroTypeOK, Publication
<1>4. ASSUME NEW s \in Feed PROVE market'[s] # None
  <2>1. market[s] # 0
    BY <1>t DEF BroughtInv, None
  <2> QED BY <2>1, <1>2 DEF None
<1>8. ASSUME NEW t \in Task, cache[t].value # None PROVE cache[t].value <= market'[cache[t].from]
  <2>1. cache[t].value \in Nat /\ cache[t].from \in Feed /\ cache[t].value <= market[cache[t].from]
    BY <1>8, <1>t, FeedsAre DEF MacroTypeOK, BroughtInv, Cell, Publication
  <2> QED BY <2>1, <1>2
<1>5. ASSUME NEW v \in Visitor, NEW t \in Task, got[v][t].kind = "ok"
      PROVE  got[v][t].value <= market'[got[v][t].from]
  <2>1. got[v][t].value \in Nat /\ got[v][t].from \in Feed /\ got[v][t].value <= market[got[v][t].from]
    BY <1>5, <1>t, FeedsAre DEF MacroTypeOK, BroughtInv, FetchOutcome, Publication
  <2> QED BY <2>1, <1>2
<1>6. BroughtInv'
  BY <1>1, <1>4, <1>5, <1>8, <1>t DEF BroughtInv
<1>7. NewerInv'
  BY <1>1, <1>t DEF NewerInv
<1>9. BeganInv'
  <2>1. ASSUME NEW v \in Visitor, NEW s \in Feed PROVE began[v][s] <= market'[s]
    <3>1. began[v][s] \in Nat /\ began[v][s] <= market[s]
      BY <1>t DEF MacroTypeOK, BeganInv, Publication
    <3> QED BY <3>1, <1>2
  <2> QED BY <2>1, <1>1, <1>t DEF BeganInv
<1> QED BY <1>1, <1>3, <1>6, <1>7, <1>9, UnwrittenPreserves DEF MacroIInv

LEMMA ExpirePreserves == ASSUME MacroIInv, Expire PROVE MacroIInv'
<1>1. MacroTypeOK' /\ BroughtInv' /\ NewerInv' /\ BeganInv'
  BY DEF Expire, MacroIInv, MacroTypeOK, BroughtInv, NewerInv, BeganInv
<1> QED BY <1>1, UnwrittenPreserves DEF Expire, MacroIInv

\* A request that starts, or ends with an error, holds nothing that was read.
LEMMA AroundPreserves ==
    ASSUME MacroIInv, NEW v \in Visitor, StartRefresh(v) \/ RefreshRaises(v)
    PROVE  MacroIInv'
<1>t. MacroTypeOK /\ BroughtInv /\ NewerInv /\ BeganInv
  BY DEF MacroIInv
<1>1. PICK o \in [Task -> FetchOutcome], a \in {"idle", "refreshing"} :
        /\ \A t \in Task : o[t].kind # "ok"
        /\ got' = [got EXCEPT ![v] = o] /\ asked' = [asked EXCEPT ![v] = a]
  <2>1. CASE StartRefresh(v)
    <3> DEFINE o == [t \in Task |-> IF FeedsOf(t) \subseteq down THEN Failed ELSE Pending]
    <3>1. o \in [Task -> FetchOutcome] /\ \A t \in Task : o[t].kind # "ok"
      BY OutcomeTypes
    <3>2. got' = [got EXCEPT ![v] = o] /\ asked' = [asked EXCEPT ![v] = "refreshing"]
      BY <2>1 DEF StartRefresh
    <3> HIDE DEF o
    <3> QED BY <3>1, <3>2
  <2>2. CASE RefreshRaises(v)
    <3>1. [t \in Task |-> Pending] \in [Task -> FetchOutcome]
      BY OutcomeTypes
    <3> QED BY <2>2, <3>1, OutcomeTypes DEF RefreshRaises
  <2> QED BY <2>1, <2>2
<1>2. overtaken' = overtaken \ {v} /\ UNCHANGED <<market, down, cache, second, regime, fresh, since, reboots>>
  BY DEF StartRefresh, RefreshRaises
<1>7. PICK b \in {market, NoneOfAll} : began' = [began EXCEPT ![v] = b]
  BY DEF StartRefresh, RefreshRaises
<1>8. b \in [Feed -> Publication] /\ \A s \in Feed : b[s] <= market[s]
  BY <1>t, NoneOfAllIs DEF MacroTypeOK, Publication
<1>9. began' \in [Visitor -> [Feed -> Publication]] /\ began'[v] = b /\ \A w \in Visitor \ {v} : began'[w] = began[w]
  BY <1>7, <1>8, <1>t DEF MacroTypeOK
<1>3. MacroTypeOK'
  BY <1>1, <1>2, <1>9, <1>t DEF MacroTypeOK
<1>4. \A w \in Visitor, t \in Task : got'[w][t].kind = "ok" => w # v /\ got'[w][t] = got[w][t]
  BY <1>1, <1>t DEF MacroTypeOK
<1>5. \A w \in Visitor \ {v} : asked'[w] = asked[w]
  BY <1>1, <1>t DEF MacroTypeOK
<1>6. BroughtInv' /\ NewerInv'
  BY <1>2, <1>4, <1>5, <1>t DEF BroughtInv, NewerInv
<1>10. BeganInv'
  BY <1>2, <1>4, <1>8, <1>9, <1>t DEF BeganInv
<1> QED BY <1>2, <1>3, <1>6, <1>10, UnwrittenPreserves DEF MacroIInv

LEMMA MacroFetchPreserves ==
    ASSUME MacroIInv, NEW v \in Visitor, NEW t \in Task,
           FetchAnswers(v, t) \/ FetchFails(v, t) \/ FetchRaises(v, t)
    PROVE  MacroIInv'
<1>t. MacroTypeOK /\ BroughtInv /\ NewerInv /\ BeganInv
  BY DEF MacroIInv
<1>m. \A s \in FeedsOf(t) : market[s] \in Nat /\ market[s] # None /\ s \in Feed /\ s \in Origin
  BY <1>t, FeedsAre DEF MacroTypeOK, BroughtInv, Publication
<1>1. PICK o \in FetchOutcome :
        /\ FetchEnds(v, t, o)
        /\ o.kind = "ok" => o.from \in FeedsOf(t) /\ o.value = market[o.from] /\ (o.extra # None => o.extra = o.value)
  <2>1. CASE FetchAnswers(v, t)
    <3>1. PICK s \in FeedsOf(t) : \E extra \in {None, market[s]} :
            FetchEnds(v, t, [kind |-> "ok", value |-> market[s], extra |-> extra, from |-> s])
      BY <2>1 DEF FetchAnswers
    <3>3. PICK extra \in {None, market[s]} :
            FetchEnds(v, t, [kind |-> "ok", value |-> market[s], extra |-> extra, from |-> s])
      BY <3>1
    <3>2. [kind |-> "ok", value |-> market[s], extra |-> extra, from |-> s] \in FetchOutcome
      BY <1>m, NoneIsPublication DEF FetchOutcome
    <3> QED BY <3>3, <3>2
  <2>2. CASE FetchFails(v, t)
    BY <2>2, OutcomeTypes DEF FetchFails
  <2>3. CASE FetchRaises(v, t)
    BY <2>3, OutcomeTypes DEF FetchRaises
  <2> QED BY <2>1, <2>2, <2>3
<1>2. /\ got' = [got EXCEPT ![v][t] = o]
      /\ UNCHANGED <<market, down, cache, second, regime, fresh, asked, began, since, overtaken, reboots>>
  BY <1>1 DEF FetchEnds
<1>3. /\ got' \in [Visitor -> [Task -> FetchOutcome]] /\ got'[v][t] = o
      /\ \A w \in Visitor, s \in Task : w # v \/ s # t => got'[w][s] = got[w][s]
  BY <1>1, <1>2, <1>t DEF MacroTypeOK
<1>4. MacroTypeOK'
  BY <1>2, <1>3, <1>t DEF MacroTypeOK
<1>5. o.kind = "ok" => /\ o.value # None /\ o.from \in FeedsOf(t) /\ o.value <= market[o.from]
                       /\ began[v][o.from] <= o.value
  BY <1>1, <1>m, <1>t DEF BeganInv
<1>8. o.kind = "ok" /\ cache[t].from = o.from => cache[t].value <= o.value
  <2>1. CASE cache[t].value = None
    BY <2>1, <1>1, <1>m DEF None
  <2>2. CASE cache[t].value # None
    BY <2>2, <1>1, <1>t DEF BroughtInv
  <2> QED BY <2>1, <2>2
<1>6. BroughtInv'
  <2>1. ASSUME NEW w \in Visitor, NEW s \in Task
        PROVE  /\ got'[w][s].kind = "ok" =>
                      got'[w][s].value # None /\ got'[w][s].from \in FeedsOf(s) /\ got'[w][s].value <= market'[got'[w][s].from]
               /\ got'[w][s].kind = "ok" /\ got'[w][s].extra # None
                    => got'[w][s].extra = got'[w][s].value
    <3>1. CASE w = v /\ s = t
      BY <3>1, <1>1, <1>2, <1>3, <1>5
    <3>2. CASE w # v \/ s # t
      BY <3>2, <1>2, <1>3, <1>t DEF BroughtInv
    <3> QED BY <3>1, <3>2
  <2> QED BY <2>1, <1>2, <1>t DEF BroughtInv
<1>7. NewerInv'
  BY <1>2, <1>3, <1>8, <1>t DEF NewerInv
<1>9. BeganInv'
  BY <1>2, <1>3, <1>5, <1>t DEF BeganInv
<1> QED BY <1>2, <1>4, <1>6, <1>7, <1>9, UnwrittenPreserves DEF MacroIInv

\* What a refresh writes, field by field.
LEMMA Written ==
    ASSUME MacroIInv, NEW v \in Visitor, WriteCache(v), NEW t \in Task
    PROVE  /\ cache'[t] \in Cell
           /\ got[v][t].kind = "ok" => /\ cache'[t].value = got[v][t].value /\ cache'[t].from = got[v][t].from
                                      /\ cache'[t].alone = (got[v][t].extra = None)
           /\ got[v][t].kind # "ok" => /\ cache'[t].value = cache[t].value /\ cache'[t].from = cache[t].from
                                      /\ cache'[t].error
<1>t. got[v][t] \in FetchOutcome /\ cache[t] \in Cell
  BY DEF MacroIInv, MacroTypeOK
<1>1. cache' = CacheAfter(v)
  BY DEF WriteCache
<1>2. CASE got[v][t].kind = "ok"
  BY <1>1, <1>2, <1>t DEF CacheAfter, Cell, FetchOutcome
<1>3. CASE got[v][t].kind # "ok"
  BY <1>1, <1>3, <1>t DEF CacheAfter, Cell
<1> QED BY <1>2, <1>3

LEMMA WritePreserves ==
    ASSUME MacroIInv, NEW v \in Visitor, WriteCache(v)
    PROVE  MacroIInv'
<1>t. MacroTypeOK /\ BroughtInv /\ NewerInv /\ BeganInv /\ ChangeMatchesClose
  BY DEF MacroIInv
<1>1. /\ cache' = CacheAfter(v) /\ second' = SecondAfter(v)
      /\ regime' = compute_regime(cache'["btc"], cache'["dxy"])
      /\ since' = began[v] /\ began' = [began EXCEPT ![v] = NoneOfAll]
      /\ fresh' = TRUE /\ asked' = [asked EXCEPT ![v] = "idle"]
      /\ got' = [got EXCEPT ![v] = [t \in Task |-> Pending]]
      /\ overtaken' = (overtaken \cup {w \in Visitor : asked[w] = "refreshing"}) \ {v}
      /\ UNCHANGED <<market, down, reboots>>
  BY DEF WriteCache
<1>2. cache' \in [Task -> Cell]
  <2>1. DOMAIN cache' = Task /\ cache' = [t \in Task |-> cache'[t]]
    BY <1>1 DEF CacheAfter
  <2> QED BY <2>1, Written
<1>3. ASSUME NEW t \in TwoPart
      PROVE  /\ second'[t] \in SecondCell
             /\ t # "fg" /\ second'[t].value # None => second'[t].value = cache'[t].value
             /\ second'[t].value = None => second'[t].error \/ cache'[t].alone
  <2>0. t \in Task
    BY DEF TwoPart, Task
  <2>1. got[v][t] \in FetchOutcome /\ second[t] \in SecondCell
    BY <2>0, <1>t DEF MacroTypeOK
  <2>2. CASE t = "fg"
    <3>1. second'[t] = LabelAfter(v)
      BY <2>2, <1>1 DEF SecondAfter
    <3>2. CASE got[v][t].extra # None
      <4>1. second'[t] = [second[t] EXCEPT !.value = got[v][t].extra]
        BY <2>2, <3>1, <3>2 DEF LabelAfter
      <4>2. got[v][t].extra \in Publication
        BY <2>1 DEF FetchOutcome
      <4>3. second'[t] \in SecondCell /\ second'[t].value = got[v][t].extra
        BY <4>1, <4>2, <2>1 DEF SecondCell
      <4> QED BY <4>3, <2>2, <3>2
    <3>3. CASE got[v][t].extra = None
      <4>1. second'[t] = [second[t] EXCEPT !.error = got[v][t].kind = "failed"]
        BY <2>2, <3>1, <3>3 DEF LabelAfter
      <4>2. got[v][t].kind \in {"ok", "failed"}
        BY <2>0, <2>1 DEF WriteCache, Ended, FetchOutcome
      <4>3. got[v][t].kind = "ok" => cache'[t].alone
        BY <2>0, <3>3, Written
      <4> QED BY <4>1, <4>2, <4>3, <2>1, <2>2 DEF SecondCell
    <3> QED BY <3>2, <3>3
  <2>3. CASE t # "fg" /\ got[v][t].kind = "ok"
    <3>1. second'[t] = [value |-> got[v][t].extra, error |-> FALSE]
      BY <2>3, <1>1 DEF SecondAfter, ChangeAfter
    <3>2. got[v][t].extra # None => got[v][t].extra = got[v][t].value
      BY <2>0, <2>3, <1>t DEF BroughtInv
    <3>3. cache'[t].value = got[v][t].value /\ cache'[t].alone = (got[v][t].extra = None)
      BY <2>0, <2>3, Written
    <3>4. got[v][t].extra \in Publication
      BY <2>1 DEF FetchOutcome
    <3>5. second'[t] \in SecondCell /\ second'[t].value = got[v][t].extra
      BY <3>1, <3>4 DEF SecondCell
    <3> QED BY <3>2, <3>3, <3>5
  <2>4. CASE t # "fg" /\ got[v][t].kind # "ok"
    <3>1. second'[t] = [second[t] EXCEPT !.error = TRUE]
      BY <2>4, <1>1 DEF SecondAfter, ChangeAfter
    <3>2. second[t].value # None => second[t].value = cache[t].value
      BY <2>4, <1>t DEF ChangeMatchesClose, ShownValue
    <3>3. cache'[t].value = cache[t].value
      BY <2>0, <2>4, Written
    <3> QED BY <3>1, <3>2, <3>3, <2>1 DEF SecondCell
  <2> QED BY <2>2, <2>3, <2>4
<1>4. second' \in [TwoPart -> SecondCell]
  <2>1. second' = [t \in TwoPart |-> second'[t]]
    BY <1>1 DEF SecondAfter
  <2> QED BY <2>1, <1>3
<1>5. [t \in Task |-> Pending] \in [Task -> FetchOutcome]
  BY OutcomeTypes
<1>13. began' \in [Visitor -> [Feed -> Publication]] /\ since' \in [Feed -> Publication]
  BY <1>1, <1>t, NoneOfAllIs DEF MacroTypeOK
<1>6. MacroTypeOK'
  BY <1>1, <1>2, <1>4, <1>5, <1>13, <1>t, RegimeType DEF MacroTypeOK
<1>7. \A w \in Visitor, t \in Task : got'[w][t].kind = "ok" => w # v /\ got'[w][t] = got[w][t]
  BY <1>1, <1>t, OutcomeTypes DEF MacroTypeOK
<1>8. BroughtInv'
  <2>1. ASSUME NEW t \in Task, cache'[t].value # None
        PROVE  cache'[t].from \in FeedsOf(t) /\ cache'[t].value <= market'[cache'[t].from]
    BY <2>1, <1>1, <1>t, Written DEF BroughtInv
  <2> QED BY <2>1, <1>1, <1>7, <1>t DEF BroughtInv
<1>9. NewerInv'
  <2>1. \A w \in Visitor : asked'[w] = "refreshing" => w \in overtaken'
    BY <1>1, <1>t DEF MacroTypeOK
  <2> QED BY <2>1 DEF NewerInv
<1>10. BeganInv'
  <2>1. ASSUME NEW w \in Visitor, NEW s \in Feed PROVE began'[w][s] <= market'[s]
    <3>1. CASE w = v
      BY <3>1, <1>1, <1>t, NoneOfAllIs DEF MacroTypeOK, Publication
    <3>2. CASE w # v
      BY <3>2, <1>1, <1>t DEF MacroTypeOK, BeganInv
    <3> QED BY <3>1, <3>2
  <2>2. \A w \in Visitor \ {v} : began'[w] = began[w]
    BY <1>1, <1>t DEF MacroTypeOK
  <2> QED BY <2>1, <2>2, <1>7, <1>t DEF BeganInv
<1>11. ChangeMatchesClose'
  BY <1>3 DEF ChangeMatchesClose, ShownValue
<1>12. EmptyIsExplained'
  <2>1. ASSUME NEW t \in Task, cache'[t].value = None PROVE cache'[t].error
    BY <2>1, <1>t, Written DEF BroughtInv
  <2> QED BY <2>1, <1>3 DEF EmptyIsExplained, ShownValue, Listed
<1>14. KeptIsListed'
  <2>1. ASSUME NEW t \in Task, ~cache'[t].error PROVE cache'[t].value >= since'[cache'[t].from]
    <3>1. got[v][t].kind = "ok" /\ cache'[t].value = got[v][t].value /\ cache'[t].from = got[v][t].from
      BY <2>1, Written
    <3>2. began[v][got[v][t].from] <= got[v][t].value
      BY <3>1, <1>t DEF BeganInv
    <3> QED BY <3>1, <3>2, <1>1
  <2> QED BY <2>1 DEF KeptIsListed, ShownValue, Listed
<1> QED BY <1>6, <1>8, <1>9, <1>10, <1>11, <1>12, <1>14 DEF MacroIInv

LEMMA RebootPreserves == ASSUME MacroIInv, Reboot PROVE MacroIInv'
<1>t. MacroTypeOK /\ BroughtInv
  BY DEF MacroIInv
<1>1. /\ cache' = [t \in Task |-> Blank] /\ second' = [t \in TwoPart |-> BlankPart]
      /\ regime' = "none" /\ fresh' = FALSE
      /\ began' = [v \in Visitor |-> NoneOfAll] /\ since' = NoneOfAll
      /\ asked' = [v \in Visitor |-> "idle"] /\ got' = [v \in Visitor |-> [t \in Task |-> Pending]]
      /\ overtaken' = {} /\ UNCHANGED <<market, down>>
      /\ reboots < MaxReboots /\ reboots' = reboots + 1
  BY DEF Reboot
<1>2. reboots' \in 0 .. MaxReboots
  BY <1>1, <1>t, MacroAssumption DEF MacroTypeOK
<1>3. MacroTypeOK'
  BY <1>1, <1>2, <1>t, OutcomeTypes, NoneOfAllIs DEF MacroTypeOK
<1>4. \A t \in Task : cache'[t].value = None
  BY <1>1, OutcomeTypes
<1>5. BroughtInv' /\ NewerInv'
  BY <1>1, <1>4, <1>t, OutcomeTypes DEF BroughtInv, NewerInv
<1>7. BeganInv'
  BY <1>1, <1>t, OutcomeTypes, NoneOfAllIs DEF BeganInv, MacroTypeOK, Publication
<1>6. ChangeMatchesClose' /\ EmptyIsExplained' /\ KeptIsListed'
  BY <1>1, <1>4, OutcomeTypes DEF ChangeMatchesClose, EmptyIsExplained, KeptIsListed, Refreshed, ShownValue, TwoPart
<1> QED BY <1>3, <1>5, <1>6, <1>7 DEF MacroIInv

LEMMA MacroStep == MacroIInv /\ [MacroNext]_macroVars => MacroIInv'
<1> SUFFICES ASSUME MacroIInv, [MacroNext]_macroVars PROVE MacroIInv'
  OBVIOUS
<1>1. CASE UNCHANGED macroVars
  BY <1>1 DEF macroVars, MacroIInv, MacroTypeOK, BroughtInv, NewerInv, BeganInv,
              ChangeMatchesClose, EmptyIsExplained, KeptIsListed, Refreshed, ShownValue, Listed
<1>2. CASE MacroNext
  BY <1>2, PublishPreserves, ExpirePreserves, AroundPreserves, MacroFetchPreserves, WritePreserves,
     RebootPreserves DEF MacroNext
<1> QED BY <1>1, <1>2

\* Whatever refreshes overlap, fail or end with an error, a change belongs to its
\* close, an empty field, label or change is explained, and a number listed without
\* an error is no older than the refresh that wrote last (refresh_macro_data).
THEOREM MacroFieldsAgree == MacroSpec => []MacroInv
<1>1. MacroIInv => MacroInv
  BY DEF MacroIInv, MacroInv
<1> QED BY MacroInitOK, MacroStep, <1>1, PTL DEF MacroSpec

\* One step never takes a value away, and takes it back to an older publication of
\* its series only when the refresh that writes had been overtaken; only the dollar
\* index changes its series (refresh_macro_data, _fetch_dxy).
THEOREM MacroNeverGoesBack == MacroSpec => NeverGoesBack
<1> DEFINE Overtook == \E v \in overtaken : asked[v] = "refreshing" /\ asked'[v] = "idle"
           Good(t) == \/ reboots' # reboots
                      \/ cache'[t].from = cache[t].from /\ cache'[t].value >= cache[t].value
                      \/ /\ cache'[t].value # None
                         /\ \/ cache[t].value = None
                            \/ t = "dxy" /\ cache'[t].from # cache[t].from
                            \/ Overtook
<1>1. MacroIInv /\ [MacroNext]_macroVars => (\A t \in Task : Good(t)) \/ UNCHANGED macroVars
  <2> SUFFICES ASSUME MacroIInv, MacroNext, NEW t \in Task PROVE Good(t)
    OBVIOUS
  <2>t. MacroTypeOK /\ BroughtInv /\ NewerInv /\ cache[t].value \in Nat
    BY DEF MacroIInv, MacroTypeOK, Cell, Publication
  <2>1. CASE cache' = cache
    BY <2>1, <2>t
  <2>2. CASE Reboot
    BY <2>2, <2>t DEF Reboot, MacroTypeOK
  <2>3. ASSUME NEW v \in Visitor, WriteCache(v) PROVE Good(t)
    <3>1. asked[v] = "refreshing" /\ asked'[v] = "idle"
      BY <2>3, <2>t DEF WriteCache, MacroTypeOK
    <3>2. CASE got[v][t].kind # "ok"
      BY <3>2, <2>3, <2>t, Written
    <3>3. CASE got[v][t].kind = "ok"
      <4>1. /\ cache'[t].value = got[v][t].value /\ cache'[t].from = got[v][t].from
            /\ got[v][t].value \in Nat /\ got[v][t].value # None /\ got[v][t].from \in FeedsOf(t)
        BY <3>3, <2>3, <2>t, Written DEF MacroTypeOK, BroughtInv, FetchOutcome, Publication
      <4>2. CASE v \in overtaken
        BY <4>1, <4>2, <3>1
      <4>3. CASE v \notin overtaken /\ cache[t].from = got[v][t].from
        <5>1. cache[t].value <= got[v][t].value
          BY <4>3, <3>1, <3>3, <2>t DEF NewerInv
        <5> QED BY <5>1, <4>1, <4>3, <2>t
      <4>4. CASE cache[t].from # got[v][t].from
        <5>1. cache[t].value # None => cache[t].from \in FeedsOf(t)
          BY <2>t DEF BroughtInv
        <5>2. cache[t].value = None \/ t = "dxy"
          BY <5>1, <4>1, <4>4, FeedsAre
        <5> QED BY <5>2, <4>1, <4>4
      <4> QED BY <4>2, <4>3, <4>4
    <3> QED BY <3>2, <3>3
  <2>4. cache' = cache \/ Reboot \/ \E v \in Visitor : WriteCache(v)
    BY DEF MacroNext, Publish, Expire, StartRefresh, RefreshRaises, FetchAnswers, FetchFails,
           FetchRaises, FetchEnds
  <2> QED BY <2>1, <2>2, <2>3, <2>4
<1> QED BY MacroInitOK, MacroStep, <1>1, PTL DEF MacroSpec, NeverGoesBack

=============================================================================
