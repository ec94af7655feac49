----------------------------- MODULE MonthlyGoals -----------------------------
(***************************************************************************)
(* Monthly profit goals and the account return: src/backend/services/      *)
(* goal_service.py, phase3_account_return.py, futures_settlement.py and    *)
(* the routes of src/backend/routes/goal.py.                               *)
(*                                                                         *)
(* Time is counted in ticks of which a day, a week and a month have a few, *)
(* in local time throughout; money in whole units, which the code's four   *)
(* decimals leave alone.  The return in percent is rounded as it is there. *)
(* The three reads of one computation are taken at one moment;             *)
(* everything between two computations interleaves.                        *)
(***************************************************************************)
EXTENDS Integers, Sequences, FiniteSets, SequencesExt, FiniteSetsExt, OrderedRows

CONSTANTS
    GoalVisitor,    \* concurrent requests of one user
    Wallets,        \* what the exchange may answer: equity per asset
    Transfer,       \* amounts of external flows
    BaseEquity,     \* base equities a user may enter
    Redeem,         \* percentages a user may want to redeem
    Target,         \* target_return_pct, in parts of a percent
    PARTS,          \* the parts of a percent
    ROUNDING,       \* the parts return_pct is rounded to (one ten-thousandth of a percent)
    MaxClock,       \* bound: ticks
    MaxEquities,    \* bound: snapshots
    MaxTransfers    \* bound: external flows

\* The assets in the order in which they are preferred.
Settlement == <<"USDT", "STETH">>
Ticks == [day |-> 2, week |-> 3, month |-> 4]

ASSUME GoalAssumption ==
    /\ Wallets \subseteq [Range(Settlement) -> Nat]
    /\ Transfer \subseteq Int \ {0} /\ BaseEquity \subseteq Nat \ {0}
    /\ Redeem \subseteq 0..100 /\ Target \subseteq Nat
    /\ {PARTS, ROUNDING} \subseteq Nat \ {0} /\ {MaxClock, MaxEquities, MaxTransfers} \subseteq Nat

VARIABLES
    clock,          \* ticks
    equities,       \* FuturesAccountSnapshot, by source_ts and id
    transfers,      \* external rows of CapitalFlowLedger
    covered,        \* all external streams are complete or unsupported
    goals,          \* MonthlyProfitGoal, by month
    goalRequest,    \* the requests under way
    goalWriter      \* who has flushed and not yet committed

goalVars == <<clock, equities, transfers, covered, goals, goalRequest, goalWriter>>

PeriodAt(t, kind) == t \div Ticks[kind]
MonthNow == PeriodAt(clock, "month")
Months == 0..PeriodAt(MaxClock, "month")

Nothing == 0 - 1      \* no base equity, no result
NoGoal == [status |-> "none", base |-> Nothing, redeem |-> 0, net |-> Nothing]
NoRequest == [pc |-> "idle", put |-> FALSE, rows |-> <<>>, results |-> <<>>, loaded |-> NoGoal, month |-> 0]
NoVisitor == "nobody"

GoalTypeOK ==
    /\ clock \in 0..MaxClock /\ covered \in BOOLEAN
    /\ equities \in Seq([ts : 0..MaxClock, asset : Range(Settlement), equity : Nat])
    /\ transfers \subseteq [at : 0..MaxClock, amount : Transfer]
    /\ \A m \in Months :
        /\ goals[m].status \in {"none", "open", "closed"} /\ goals[m].redeem \in Redeem \cup {0}
        /\ goals[m].base = Nothing \/ goals[m].base > 0
        /\ goals[m].status = "none" => goals[m] = NoGoal
        /\ goals[m].status = "closed" => m < MonthNow
    /\ goalWriter \in GoalVisitor \cup {NoVisitor}
    /\ \A v \in GoalVisitor : goalRequest[v].pc \in {"idle", "compute", "lookup", "store"}

GoalInit ==
    /\ clock = 0 /\ equities = <<>> /\ transfers = {} /\ covered = TRUE
    /\ goals = [m \in Months |-> NoGoal]
    /\ goalRequest = [v \in GoalVisitor |-> NoRequest] /\ goalWriter = NoVisitor

-----------------------------------------------------------------------------
(***************************************************************************)
(* The settlement asset and the endpoints of a series.                     *)
(***************************************************************************)
\* The sort keys of select_primary_futures_raw and choose_settlement_asset_for_series:
\* assets with equity first, then by preference.
Preferred(assets, equityOf) ==
    LET rank(a) == (IF equityOf[a] > 0 THEN 0 ELSE Len(Settlement))
                   + CHOOSE i \in DOMAIN Settlement : Settlement[i] = a
    IN  CHOOSE a \in assets : \A b \in assets : rank(a) <= rank(b)

Peak == [a \in {equities[i].asset : i \in DOMAIN equities} |->
            Max({equities[i].equity : i \in {j \in DOMAIN equities : equities[j].asset = a}})]

\* _load_equity_snapshots.
Series ==
    IF equities = <<>> THEN <<>>
    ELSE LET chosen == Preferred(DOMAIN Peak, Peak)
         IN  Selected(equities, {i \in DOMAIN equities : equities[i].asset = chosen})

\* pick_opening_ending_snapshots: the pair of places in the series.
NoEndpoints == <<0, 0>>
Endpoints(s) ==
    LET nonzero == {i \in DOMAIN s : s[i].equity # 0}
        last == Len(s)
        only == CHOOSE i \in nonzero : TRUE
    IN  CASE last < 2 -> NoEndpoints
          [] last >= 2 /\ nonzero = {} -> <<1, last>>
          [] last >= 2 /\ Cardinality(nonzero) = 1 ->
                <<only, IF only = last THEN last - 1 ELSE last>>
          [] last >= 2 /\ Cardinality(nonzero) > 1 -> <<Min(nonzero), Max(nonzero)>>

Sum(rows) == SumFunction([f \in rows |-> f.amount])

\* _load_external_flows: after the opening, up to the ending.
FlowsIn(from, to) == {f \in transfers : f.at > from /\ f.at <= to}

\* compute_account_return.
AccountReturn ==
    LET s == Series
        p == Endpoints(s)
    IN  IF ~covered \/ p = NoEndpoints \/ s[p[1]].equity = 0
        THEN [available |-> FALSE]
        ELSE [available |-> TRUE, from |-> s[p[1]].ts, to |-> s[p[2]].ts,
              net |-> s[p[2]].equity - s[p[1]].equity - Sum(FlowsIn(s[p[1]].ts, s[p[2]].ts))]

-----------------------------------------------------------------------------
(***************************************************************************)
(* A month of a goal.                                                      *)
(***************************************************************************)
\* The positive snapshots of a month (_positive_equity_snapshots, period_bounds).
InMonth(m) ==
    LET s == Series
    IN  Selected(s, {i \in DOMAIN s : PeriodAt(s[i].ts, "month") = m /\ s[i].equity > 0})

\* compute_month_progress.
Progress(base, m) ==
    LET s == InMonth(m)
        p == Endpoints(s)
        opening == IF base # Nothing THEN base ELSE s[p[1]].equity
        external == Sum(FlowsIn(s[p[1]].ts, s[p[2]].ts))
    IN  IF ~covered \/ p = NoEndpoints
        THEN [available |-> FALSE, opening |-> base, net |-> Nothing]
        ELSE [available |-> TRUE, opening |-> opening, net |-> s[p[2]].equity - opening - external]

\* The last snapshot of every period, in order (the endpoints of _profit_buckets).
BucketEnds(s, kind) ==
    InOrder({i \in DOMAIN s : i = Len(s) \/ PeriodAt(s[i].ts, kind) # PeriodAt(s[i + 1].ts, kind)})

\* Mutant of Buckets: a bucket opens with the first snapshot of its own period.
BucketsOwnFirst(base, m, kind) ==
    LET s == InMonth(m)
        ends == BucketEnds(s, kind)
        first(k) == Min({i \in DOMAIN s : PeriodAt(s[i].ts, kind) = PeriodAt(s[ends[k]].ts, kind)})
        opening(k) == IF k = 1 /\ base # Nothing THEN base ELSE s[first(k)].equity
    IN  [k \in DOMAIN ends |->
            s[ends[k]].equity - opening(k) - Sum(FlowsIn(s[first(k)].ts, s[ends[k]].ts))]

\* _profit_buckets: the net profit of every period of the month.
Buckets(base, m, kind) ==
    LET s == InMonth(m)
        ends == BucketEnds(s, kind)
        before(k) == IF k = 1 THEN 1 ELSE ends[k - 1]
        opening(k) == IF k = 1 /\ base # Nothing THEN base ELSE s[before(k)].equity
    IN  [k \in DOMAIN ends |->
            s[ends[k]].equity - opening(k) - Sum(FlowsIn(s[before(k)].ts, s[ends[k]].ts))]

\* return_pct of an available progress p; which of two equally near values it is rounded to
\* is up to the floats.
ReturnPct(p) ==
    LET parts == p.net * 100 * PARTS
        unit == p.opening * ROUNDING
        near == {n \in {parts \div unit, parts \div unit + 1} : 2 * (parts - n * unit) \in -unit..unit}
    IN  {n * ROUNDING : n \in near}

\* What snapshot_now shows of a goal with a return that was computed as p: the state goes by
\* the rounded return, the amount by the profit.  Amounts are in parts of a percent.
Shown(p, return, target) ==
    [state |-> IF return >= target THEN "AHEAD" ELSE "BEHIND",
     remaining |-> p.opening * target - p.net * 100 * PARTS]

-----------------------------------------------------------------------------
(***************************************************************************)
(* The world: time, and what a synchronisation stores.                     *)
(***************************************************************************)
Tick == clock < MaxClock /\ clock' = clock + 1
        /\ UNCHANGED <<equities, transfers, covered, goals, goalRequest, goalWriter>>

\* The snapshot of a synchronisation is that of the primary asset.
StoreSnapshot(wallet) ==
    /\ goalWriter = NoVisitor /\ Len(equities) < MaxEquities
    /\ LET asset == Preferred(DOMAIN wallet, wallet)
       IN  equities' = Append(equities, [ts |-> clock, asset |-> asset, equity |-> wallet[asset]])
    /\ UNCHANGED <<clock, transfers, covered, goals, goalRequest, goalWriter>>

\* A flow may be learnt of long after it happened.
StoreFlow(at, amount) ==
    /\ goalWriter = NoVisitor /\ Cardinality(transfers) < MaxTransfers /\ at <= clock
    /\ transfers' = transfers \cup {[at |-> at, amount |-> amount]}
    /\ UNCHANGED <<clock, equities, covered, goals, goalRequest, goalWriter>>

CoverageChanges ==
    /\ goalWriter = NoVisitor /\ covered' = ~covered
    /\ UNCHANGED <<clock, equities, transfers, goals, goalRequest, goalWriter>>

-----------------------------------------------------------------------------
(***************************************************************************)
(* Requests.  Both routes begin with close_stale_goals; SQLite knows no    *)
(* FOR UPDATE.                                                             *)
(***************************************************************************)
\* Mutant of Stale: closed months are closed again.
StaleOrClosed == {m \in Months : m < MonthNow /\ goals[m].status # "none"}

Stale == {m \in Months : m < MonthNow /\ goals[m].status = "open"}

SelectStale(v, put) ==
    /\ goalRequest[v].pc = "idle"
    /\ goalRequest' = [goalRequest EXCEPT ![v] = [NoRequest EXCEPT
            !.pc = IF Stale = {} /\ put THEN "lookup" ELSE IF Stale = {} THEN "idle" ELSE "compute",
            !.put = put, !.rows = [m \in Stale |-> goals[m]]]]
    /\ UNCHANGED <<clock, equities, transfers, covered, goals, goalWriter>>

\* The rows are computed in the order of their months.
ComputeStale(v) ==
    LET r == goalRequest[v]
        left == DOMAIN r.rows \ DOMAIN r.results
        m == Min(left)
    IN  /\ r.pc = "compute" /\ left # {}
        /\ goalRequest' = [goalRequest EXCEPT ![v].results =
                [n \in DOMAIN r.results \cup {m} |->
                    IF n = m THEN Progress(r.rows[m].base, m) ELSE r.results[n]]]
        /\ UNCHANGED <<clock, equities, transfers, covered, goals, goalWriter>>

Closable(r) == {m \in DOMAIN r.results : r.results[m].available}

ClosedWith(r) ==
    [m \in Months |-> IF m \in Closable(r)
                      THEN [goals[m] EXCEPT !.status = "closed", !.net = r.results[m].net]
                      ELSE goals[m]]

\* The flush takes the write lock.  A GET has only reads left and commits.
FlushStale(v) ==
    LET r == goalRequest[v]
    IN  /\ r.pc = "compute" /\ DOMAIN r.rows = DOMAIN r.results
        /\ Closable(r) # {} => goalWriter = NoVisitor
        /\ IF r.put
           THEN /\ goalRequest' = [goalRequest EXCEPT ![v].pc = "lookup"]
                /\ goalWriter' = IF Closable(r) # {} THEN v ELSE goalWriter
                /\ UNCHANGED goals
           ELSE /\ goalRequest' = [goalRequest EXCEPT ![v] = NoRequest]
                /\ goals' = ClosedWith(r)
                /\ UNCHANGED goalWriter
        /\ UNCHANGED <<clock, equities, transfers, covered>>

\* upsert_open_goal: the clock is read again.
LookUpGoal(v) ==
    /\ goalRequest[v].pc = "lookup"
    /\ goalRequest' = [goalRequest EXCEPT ![v].pc = "store", ![v].month = MonthNow,
                                          ![v].loaded = goals[MonthNow]]
    /\ UNCHANGED <<clock, equities, transfers, covered, goals, goalWriter>>

Given(base) == base # Nothing

\* The plan is inserted or changed, and committed with the months that were closed.
StoreGoal(v, base, redeem) ==
    LET r == goalRequest[v]
        m == r.month
        locked == IF Given(base) THEN base ELSE Progress(base, m).opening
        row == IF r.loaded = NoGoal
               THEN [status |-> "open", base |-> locked, redeem |-> redeem, net |-> Nothing]
               ELSE [goals[m] EXCEPT !.redeem = redeem, !.base = IF Given(base) THEN base ELSE @]
    IN  /\ r.pc = "store" /\ goalWriter \in {NoVisitor, v}
        /\ r.loaded.status # "closed" /\ (r.loaded = NoGoal => goals[m] = NoGoal)
        /\ goals' = [ClosedWith(r) EXCEPT ![m] = row]
        /\ goalRequest' = [goalRequest EXCEPT ![v] = NoRequest] /\ goalWriter' = NoVisitor
        /\ UNCHANGED <<clock, equities, transfers, covered>>

\* The month is closed (422) or was inserted by another request (unique constraint):
\* everything is rolled back, the months that were closed included.
StoreGoalFails(v) ==
    LET r == goalRequest[v]
    IN  /\ r.pc = "store" /\ goalWriter \in {NoVisitor, v}
        /\ r.loaded.status = "closed" \/ (r.loaded = NoGoal /\ goals[r.month] # NoGoal)
        /\ goalRequest' = [goalRequest EXCEPT ![v] = NoRequest]
        /\ goalWriter' = IF goalWriter = v THEN NoVisitor ELSE goalWriter
        /\ UNCHANGED <<clock, equities, transfers, covered, goals>>

GoalNext ==
    \/ Tick \/ CoverageChanges
    \/ \E w \in Wallets : StoreSnapshot(w)
    \/ \E at \in 0..MaxClock, amount \in Transfer : StoreFlow(at, amount)
    \/ \E v \in GoalVisitor :
        \/ \E put \in BOOLEAN : SelectStale(v, put)
        \/ ComputeStale(v) \/ FlushStale(v) \/ LookUpGoal(v) \/ StoreGoalFails(v)
        \/ \E base \in BaseEquity \cup {Nothing}, redeem \in Redeem : StoreGoal(v, base, redeem)

GoalSpec == GoalInit /\ [][GoalNext]_goalVars

-----------------------------------------------------------------------------
(***************************************************************************)
(* Properties.                                                             *)
(***************************************************************************)
\* A closed month is "an immutable declaration" (comment in close_stale_goals): no
\* later ledger row, snapshot or edit changes it.  Holds for one request at a time.
ClosedIsFinal ==
    [][\A m \in Months : goals[m].status = "closed" => goals'[m] = goals[m]]_goalVars

\* The daily, the weekly and the monthly profits each add up to the profit of the
\* month, whatever falls on a boundary ("additive equity-profit buckets").
BucketsMakeMonth ==
    \A m \in Months, base \in BaseEquity \cup {Nothing}, kind \in DOMAIN Ticks :
        Progress(base, m).available =>
            LET profits == Buckets(base, m, kind)
            IN  SumFunction(profits) = Progress(base, m).net

\* The state and the remaining amount come from two computations, of which one is rounded:
\* "Ahead of the monthly goal." may stand beside an amount that remains, of half a unit of
\* the rounding at most.  A goal that is shown as behind has something left, if its target
\* is given in whole units; otherwise it may be exceeded by as little (snapshot_now).
StateMatchesRemaining ==
    \A m \in Months, target \in Target :
        LET p == Progress(goals[m].base, m)
            unit == p.opening * ROUNDING
        IN  p.available => \A return \in ReturnPct(p) :
                LET shown == Shown(p, return, target)
                IN  /\ shown.state = "AHEAD" => 2 * shown.remaining <= unit
                    /\ shown.state = "BEHIND" => 2 * shown.remaining >= -unit
                    /\ shown.state = "BEHIND" /\ target % ROUNDING = 0 => shown.remaining > 0

\* The opening snapshot of a return is not later than its ending
\* (pick_opening_ending_snapshots: "From a chronological series").  Does not hold.
EndpointsInOrder == AccountReturn.available => AccountReturn.from <= AccountReturn.to

\* What every answer about a month satisfies: the buckets make up the month and the state
\* shown agrees with what remains.
GoalInv ==
    /\ GoalTypeOK
    /\ BucketsMakeMonth
    /\ StateMatchesRemaining

=============================================================================
