------------------------------- MODULE DcaShadow -------------------------------
(***************************************************************************)
(* The shadow mode of the DCA engine (services/dca_shadow_service.py): a   *)
(* recommendation is judged by ten gates and the ruling is kept as an      *)
(* audit row.  The rows are also what the gates read: ADDs allowed in the  *)
(* last hour and today, CLOSEs of the symbol in the last day.              *)
(*                                                                         *)
(* An evaluation takes its time, reads switches and rows in queries of     *)
(* their own and flushes its row; the row is seen when the session of the  *)
(* caller commits.  Evaluations of one user overlap.  SQLite gives one     *)
(* session at a time the right to write, from its flush to its commit.     *)
(*                                                                         *)
(* The module judges one user on one exchange.  Time is counted in hours.  *)
(***************************************************************************)
EXTENDS Integers, Sequences, FiniteSets

CONSTANTS
    Evaluator,          \* the sessions that evaluate
    ShadowSymbol,
    Recommendation,     \* what is judged: advice, its score and checklist, size and portfolio
    Switches,           \* the kill switches an operator sets: "global", "user" or a symbol
    Day,                \* hours of a day
    ADD_HOURLY_LIMIT,
    ADD_DAILY_LIMIT,
    MaxHour, MaxRows    \* bounds of the model

MIN_CONFLUENCE_SCORE == 10
MAX_ADD_SIZE_PERCENT == 10
DEFAULT_EXPOSURE_CAP_PERCENT == 25
CLOSE_COOLDOWN_HOURS == Day

ASSUME ShadowAssumption ==
    /\ Switches \subseteq {"global", "user"} \cup ShadowSymbol
    /\ Day \in Nat \ {0}
    /\ ADD_HOURLY_LIMIT \in Nat \ {0}
    /\ ADD_DAILY_LIMIT \in Nat \ {0}
    /\ IsFiniteSet(Evaluator)
    \* The ADDs that may be allowed in a day (the limit is 10) fit into one listing.
    /\ ADD_DAILY_LIMIT + Cardinality(Evaluator) <= 200
    /\ Recommendation \subseteq [original: {"ADD", "CLOSE", "REDUCE", "HOLD"}, score: Nat, safe: BOOLEAN,
                                 size: Nat, portfolio: Nat, exposure: Nat]

AddGates == {"dca_safe", "confluence_score", "kill_switch", "hourly_add_limit", "daily_add_limit",
             "close_cooldown_24h", "add_size_pct_portfolio", "exposure_cap"}

VARIABLES
    hour,               \* the clock
    switches,           \* the kill switches that are active
    audit,            \* committed audit rows, in the order of their commits
    rulings         \* per session: the evaluation under way

shadowVars == <<hour, switches, audit, rulings>>

NoEvaluation == [at |-> "idle"]
AtStep(e, step) == rulings[e].at = step

-----------------------------------------------------------------------------
(***************************************************************************)
(* What the gates read.                                                    *)
(***************************************************************************)
AllowedAdd(row) == row.original = "ADD" /\ row.outcome = "would_allow"

_allowed_add_count(rows, start, end) ==
    Cardinality({i \in DOMAIN rows : AllowedAdd(rows[i]) /\ rows[i].timestamp \in start..end})

Midnight(now) == now - (now % Day)

RecentClose(rows, symbol, now) ==
    \E i \in DOMAIN rows :
        /\ rows[i].symbol = symbol
        /\ rows[i].outcome = "would_close"
        /\ rows[i].timestamp >= now - CLOSE_COOLDOWN_HOURS

\* The gates on the recommendation alone.
FailedChecks(r) ==
    {g \in AddGates :
        \/ g = "dca_safe" /\ ~r.safe
        \/ g = "confluence_score" /\ r.score < MIN_CONFLUENCE_SCORE
        \/ g = "add_size_pct_portfolio" /\ ~(r.portfolio > 0 /\ r.size * 100 <= r.portfolio * MAX_ADD_SIZE_PERCENT)
        \/ g = "exposure_cap"
           /\ ~(r.portfolio > 0 /\ (r.exposure + r.size) * 100 <= r.portfolio * DEFAULT_EXPOSURE_CAP_PERCENT)}

FailedSwitches(symbol) == IF switches \cap {"global", "user", symbol} # {} THEN {"kill_switch"} ELSE {}

\* Mutant of FailedLimits: one more ADD than the limit passes.
FailedLimitsOffByOne(now) ==
    {g \in AddGates :
        \/ g = "hourly_add_limit" /\ _allowed_add_count(audit, now - 1, now) > ADD_HOURLY_LIMIT
        \/ g = "daily_add_limit" /\ _allowed_add_count(audit, Midnight(now), now) > ADD_DAILY_LIMIT}

FailedLimits(now) ==
    {g \in AddGates :
        \/ g = "hourly_add_limit" /\ _allowed_add_count(audit, now - 1, now) >= ADD_HOURLY_LIMIT
        \/ g = "daily_add_limit" /\ _allowed_add_count(audit, Midnight(now), now) >= ADD_DAILY_LIMIT}

FailedCooldown(symbol, now) == IF RecentClose(audit, symbol, now) THEN {"close_cooldown_24h"} ELSE {}

\* An ADD that no gate blocks is allowed; the other recommendations pass no gate.
ShadowOutcome(original, blocked) ==
    CASE original = "ADD" -> IF blocked = {} THEN "would_allow" ELSE "would_block"
      [] original = "CLOSE" -> "would_close"
      [] original = "REDUCE" -> "would_reduce"
      [] original = "HOLD" -> "no_action"

\* The newest rows of a listing, by the outcome and from the hour asked for.
list_shadow_history(outcome, start, end, limit) ==
    LET rows == {i \in DOMAIN audit : audit[i].outcome = outcome /\ audit[i].timestamp \in start..end}
        newer(i) == {j \in rows : audit[j].timestamp > audit[i].timestamp
                                  \/ (audit[j].timestamp = audit[i].timestamp /\ j > i)}
        kept == IF limit < 1 THEN 1 ELSE IF limit > 200 THEN 200 ELSE limit
    IN  {i \in rows : Cardinality(newer(i)) < kept}

-----------------------------------------------------------------------------
ShadowInit ==
    /\ hour = 0
    /\ switches = {}
    /\ audit = <<>>
    /\ rulings = [e \in Evaluator |-> NoEvaluation]

\* The time of the decision is taken when the evaluation begins.
Begin(e, symbol, r) ==
    /\ AtStep(e, "idle")
    /\ Len(audit) + Cardinality({other \in Evaluator : ~AtStep(other, "idle")}) < MaxRows
    /\ rulings' = [rulings EXCEPT ![e] =
           [at |-> IF r.original = "ADD" THEN "switches" ELSE "persist",
            symbol |-> symbol, advice |-> r, timestamp |-> hour,
            blocked |-> IF r.original = "ADD" THEN FailedChecks(r) ELSE {}]]
    /\ UNCHANGED <<hour, switches, audit>>

\* A query of an ADD: what it fails is kept, whatever changes after it.
Query(e, from, to, failed) ==
    /\ AtStep(e, from)
    /\ rulings' = [rulings EXCEPT ![e].at = to, ![e].blocked = @ \cup failed]
    /\ UNCHANGED <<hour, switches, audit>>

AskSwitches(e) ==
    AtStep(e, "switches") /\ Query(e, "switches", "limits", FailedSwitches(rulings[e].symbol))

AskLimits(e) ==
    AtStep(e, "limits") /\ Query(e, "limits", "cooldown", FailedLimits(rulings[e].timestamp))

AskCooldown(e) ==
    /\ AtStep(e, "cooldown")
    /\ Query(e, "cooldown", "persist", FailedCooldown(rulings[e].symbol, rulings[e].timestamp))

\* The flush waits for the session that holds the write lock.
_persist_decision(e) ==
    /\ AtStep(e, "persist")
    /\ \A other \in Evaluator : ~AtStep(other, "commit")
    /\ rulings' = [rulings EXCEPT ![e].at = "commit"]
    /\ UNCHANGED <<hour, switches, audit>>

Commit(e) ==
    /\ AtStep(e, "commit")
    /\ LET run == rulings[e]
       IN  audit' = Append(audit,
               [symbol |-> run.symbol, original |-> run.advice.original, timestamp |-> run.timestamp,
                outcome |-> ShadowOutcome(run.advice.original, run.blocked), blocked |-> run.blocked])
    /\ rulings' = [rulings EXCEPT ![e] = NoEvaluation]
    /\ UNCHANGED <<hour, switches>>

\* The caller fails after the flush: the row is rolled back.
Rollback(e) ==
    /\ AtStep(e, "commit")
    /\ rulings' = [rulings EXCEPT ![e] = NoEvaluation]
    /\ UNCHANGED <<hour, switches, audit>>

\* The switches are rows that an operator sets.
Switch(s) ==
    /\ switches' = IF s \in switches THEN switches \ {s} ELSE switches \cup {s}
    /\ UNCHANGED <<hour, audit, rulings>>

Hour ==
    /\ hour < MaxHour
    /\ hour' = hour + 1
    /\ UNCHANGED <<switches, audit, rulings>>

ShadowNext ==
    \/ \E e \in Evaluator :
           \/ \E symbol \in ShadowSymbol, r \in Recommendation : Begin(e, symbol, r)
           \/ AskSwitches(e) \/ AskLimits(e) \/ AskCooldown(e)
           \/ _persist_decision(e) \/ Commit(e) \/ Rollback(e)
    \/ \E s \in Switches : Switch(s)
    \/ Hour

ShadowSpec == ShadowInit /\ [][ShadowNext]_shadowVars

-----------------------------------------------------------------------------
(***************************************************************************)
(* Properties.                                                             *)
(***************************************************************************)
InFlight == Cardinality(Evaluator) - 1

\* The limits hold up to the rulings that ran beside the last ADD of the window: within any hour
\* and within any day at most as many ADDs more than the limit are allowed (_allowed_add_count).
AddsBounded ==
    \A h \in 0..hour :
        /\ _allowed_add_count(audit, h - 1, h) <= ADD_HOURLY_LIMIT + InFlight
        /\ _allowed_add_count(audit, Midnight(h), h) <= ADD_DAILY_LIMIT + InFlight

\* Once a CLOSE is committed, an ADD of its symbol within the cooldown is allowed only to the
\* rulings that were under way (_recent_close_for_symbol).
ClosesCoolDown ==
    \A i \in DOMAIN audit : audit[i].outcome = "would_close" =>
        Cardinality({j \in DOMAIN audit :
            /\ j > i
            /\ AllowedAdd(audit[j])
            /\ audit[j].symbol = audit[i].symbol
            /\ audit[j].timestamp <= audit[i].timestamp + CLOSE_COOLDOWN_HOURS}) <= InFlight

\* A reader of the audit can audit the limits: the ADDs that a gate counted are those the listing of
\* allowed decisions shows for the same time (list_shadow_history).
AuditMatchesGate ==
    \A h \in 0..hour :
        Cardinality(list_shadow_history("would_allow", Midnight(h), h, 200))
            = _allowed_add_count(audit, Midnight(h), h)

\* The shadow decisions are right: the three properties above.
ShadowInv == AddsBounded /\ ClosesCoolDown /\ AuditMatchesGate
================================================================================
