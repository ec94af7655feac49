------------------------------ MODULE MacroCache ------------------------------
(***************************************************************************)
(* The macro data of the dashboard (services/macro_service.py): one cache  *)
(* in memory, refreshed by the first requests that find it older than its  *)
(* time to live.  A refresh asks every source in a task of its own, awaits *)
(* the tasks one after the other and then writes the cache without giving  *)
(* up control.  Refreshes of several requests overlap.                     *)
(*                                                                         *)
(* A value is the number of its series' publication it was read from, None *)
(* before there is one.  Every task reads one series but "dxy", which asks *)
(* FRED for one dollar index and, when that fails, Yahoo for another.  A   *)
(* series that cannot be reached from here (geo-blocked, no API key) fails *)
(* at once in every refresh.                                               *)
(***************************************************************************)
EXTENDS Integers, Sequences

CONSTANTS
    Visitor,     \* requests of the macro page that may run at a time
    Reading,     \* Reading[s][n]: the number that series s, of "btc" or "dxy", published as n
    Published,   \* Published[s], bound: how often series s publishes
    MaxReboots   \* bound: restarts of the process

Task == {"btc", "usdt", "dxy", "fg", "bls", "fr", "cme", "sp500", "nasdaq"}
AwaitOrder == <<"btc", "usdt", "dxy", "fg", "bls", "fr", "cme", "sp500", "nasdaq">>
TwoPart == {"fg", "sp500", "nasdaq"}    \* an index and its label, a close and its change
Fragile == {"dxy", "fg", "bls", "fr"}   \* their parsers let some exceptions escape

\* FRED's DTWEXBGS is the series "dxy"; the fallback is the dollar index of ICE.
Feed == Task \cup {"dxy_fallback"}
FeedsOf(t) == IF t = "dxy" THEN {"dxy", "dxy_fallback"} ELSE {t}

ASSUME MacroAssumption == Published \in [Feed -> Nat \ {0}] /\ MaxReboots \in Nat

None == 0

VARIABLES
    market,      \* market[s]: what series s publishes now
    down,        \* the series that cannot be reached
    cache,       \* _cache of the main field of each task: its value, and whether it has an error;
                 \* (history) its series, and whether it came without a second part
    second,      \* _cache of the label and of the two changes
    regime,      \* _cache["regime"]
    fresh,       \* not is_stale()
    asked,       \* asked[v]: "idle" or "refreshing"
    got,         \* got[v][t]: what the task t of the refresh of v has brought
    began,       \* began[v]: what was published when the refresh of v began (history)
    since,       \* the same of the refresh that wrote last (history)
    overtaken,   \* the refreshes during which another one wrote (history)
    reboots

macroVars == <<market, down, cache, second, regime, fresh, asked, got, began, since, overtaken, reboots>>

Publication == Nat
Nowhere == "nowhere"    \* the series of what was not read
Origin == Feed \cup {Nowhere}
Cell == [value : Publication, error : BOOLEAN, from : Origin, alone : BOOLEAN]
SecondCell == [value : Publication, error : BOOLEAN]
FetchOutcome == [kind : {"pending", "ok", "failed", "raised"}, value : Publication, extra : Publication, from : Origin]

MacroTypeOK ==
    /\ market \in [Feed -> Publication] /\ down \in SUBSET Feed
    /\ cache \in [Task -> Cell] /\ second \in [TwoPart -> SecondCell]
    /\ regime \in {"none", "unknown", "risk-on", "risk-off", "mixed"}
    /\ fresh \in BOOLEAN
    /\ asked \in [Visitor -> {"idle", "refreshing"}]
    /\ got \in [Visitor -> [Task -> FetchOutcome]]
    /\ began \in [Visitor -> [Feed -> Publication]] /\ since \in [Feed -> Publication]
    /\ overtaken \in SUBSET Visitor /\ reboots \in 0 .. MaxReboots

Unread(kind) == [kind |-> kind, value |-> None, extra |-> None, from |-> Nowhere]
Pending == Unread("pending")
Failed == Unread("failed")
Blank == [value |-> None, error |-> FALSE, from |-> Nowhere, alone |-> FALSE]
BlankPart == [value |-> None, error |-> FALSE]
NoneOfAll == [s \in Feed |-> None]

MacroInit ==
    /\ market = [s \in Feed |-> 1] /\ down \in SUBSET Feed
    /\ cache = [t \in Task |-> Blank] /\ second = [t \in TwoPart |-> BlankPart]
    /\ regime = "none" /\ fresh = FALSE
    /\ asked = [v \in Visitor |-> "idle"] /\ got = [v \in Visitor |-> [t \in Task |-> Pending]]
    /\ began = [v \in Visitor |-> NoneOfAll] /\ since = NoneOfAll
    /\ overtaken = {} /\ reboots = 0

-----------------------------------------------------------------------------

\* Between 100 and 105, and between 40 and 50, a number is no clue.  The bounds are
\* the same whichever of the two dollar indices was read.
compute_regime(btc, dxy) ==
    LET btcRead == btc.value # None
        dxyRead == dxy.value # None
        number(cell) == Reading[cell.from][cell.value]
    IN  IF ~btcRead /\ ~dxyRead THEN "unknown"
        ELSE IF btcRead /\ number(btc) > 50 /\ dxyRead /\ number(dxy) < 100 THEN "risk-on"
        ELSE IF dxyRead /\ number(dxy) > 105 THEN "risk-off"
        ELSE IF btcRead /\ number(btc) < 40 THEN "risk-on"
        ELSE "mixed"

\* A series publishes a new number.
Publish(s) ==
    /\ s \notin down /\ market[s] < Published[s]
    /\ market' = [market EXCEPT ![s] = @ + 1]
    /\ UNCHANGED <<down, cache, second, regime, fresh, asked, got, began, since, overtaken, reboots>>

\* The time to live passes.
Expire ==
    /\ fresh /\ fresh' = FALSE
    /\ UNCHANGED <<market, down, cache, second, regime, asked, got, began, since, overtaken, reboots>>

\* A request that finds the data stale starts all fetches; one that does not
\* answers from the cache and changes nothing.
StartRefresh(v) ==
    /\ asked[v] = "idle" /\ ~fresh
    /\ asked' = [asked EXCEPT ![v] = "refreshing"]
    /\ got' = [got EXCEPT ![v] = [t \in Task |-> IF FeedsOf(t) \subseteq down THEN Failed ELSE Pending]]
    /\ began' = [began EXCEPT ![v] = market]
    /\ overtaken' = overtaken \ {v}
    /\ UNCHANGED <<market, down, cache, second, regime, fresh, since, reboots>>

FetchEnds(v, t, outcome) ==
    /\ asked[v] = "refreshing" /\ got[v][t].kind = "pending"
    /\ got' = [got EXCEPT ![v][t] = outcome]
    /\ UNCHANGED <<market, down, cache, second, regime, fresh, asked, began, since, overtaken, reboots>>

\* The source answers with what it publishes, perhaps without a label or with
\* one session only, from which there is no change to compute.  The fallback of
\* "dxy" answers when FRED did not.
FetchAnswers(v, t) ==
    \E s \in FeedsOf(t) \ down :
        \E extra \in IF t \in TwoPart THEN {None, market[s]} ELSE {None} :
            FetchEnds(v, t, [kind |-> "ok", value |-> market[s], extra |-> extra, from |-> s])

\* Every attempt failed, or the answer could not be used.
FetchFails(v, t) == FetchEnds(v, t, Failed)

\* The answer has a shape whose exception the parser does not catch.
FetchRaises(v, t) ==
    /\ t \in Fragile \ down
    /\ FetchEnds(v, t, Unread("raised"))

Ended(v, t) == got[v][t].kind # "pending"

\* Mutant of CacheAfter: a failure clears the value.
CacheCleared(v) ==
    [t \in Task |-> [value |-> got[v][t].value, error |-> got[v][t].kind # "ok", from |-> got[v][t].from,
                     alone |-> got[v][t].extra = None]]
CacheAfter(v) ==
    [t \in Task |-> IF got[v][t].kind = "ok"
                    THEN [value |-> got[v][t].value, error |-> FALSE, from |-> got[v][t].from,
                          alone |-> got[v][t].extra = None]
                    ELSE [cache[t] EXCEPT !.error = TRUE]]

\* The label is kept, with its error, when the answer has none; a change goes
\* with its close, also when it is missing.
LabelAfter(v) ==
    IF got[v]["fg"].extra # None THEN [second["fg"] EXCEPT !.value = got[v]["fg"].extra]
    ELSE [second["fg"] EXCEPT !.error = got[v]["fg"].kind = "failed"]
\* Mutant of ChangeAfter: a missing change leaves the one before.
ChangeKept(v, t) ==
    IF got[v][t].extra # None THEN [value |-> got[v][t].extra, error |-> FALSE]
    ELSE [second[t] EXCEPT !.error = got[v][t].kind = "failed"]
ChangeAfter(v, t) ==
    IF got[v][t].kind = "ok" THEN [value |-> got[v][t].extra, error |-> FALSE]
    ELSE [second[t] EXCEPT !.error = TRUE]

SecondAfter(v) ==
    [t \in TwoPart |-> IF t = "fg" THEN LabelAfter(v) ELSE ChangeAfter(v, t)]

\* All tasks are awaited: the cache, the regime and the time are written in one
\* step, however many of the sources failed.
WriteCache(v) ==
    /\ asked[v] = "refreshing"
    /\ \A t \in Task : Ended(v, t) /\ got[v][t].kind # "raised"
    /\ cache' = CacheAfter(v) /\ second' = SecondAfter(v)
    /\ regime' = compute_regime(cache'["btc"], cache'["dxy"])
    /\ fresh' = TRUE
    /\ asked' = [asked EXCEPT ![v] = "idle"]
    /\ got' = [got EXCEPT ![v] = [t \in Task |-> Pending]]
    /\ since' = began[v] /\ began' = [began EXCEPT ![v] = NoneOfAll]
    /\ overtaken' = (overtaken \cup {w \in Visitor : asked[w] = "refreshing"}) \ {v}
    /\ UNCHANGED <<market, down, reboots>>

\* The await of a task that raised ends the request with an error: what the
\* other tasks bring is lost.
RefreshRaises(v) ==
    /\ asked[v] = "refreshing"
    /\ \E i \in DOMAIN AwaitOrder :
        /\ got[v][AwaitOrder[i]].kind = "raised"
        /\ \A k \in 1 .. i - 1 : Ended(v, AwaitOrder[k])
    /\ asked' = [asked EXCEPT ![v] = "idle"]
    /\ got' = [got EXCEPT ![v] = [t \in Task |-> Pending]]
    /\ began' = [began EXCEPT ![v] = NoneOfAll]
    /\ overtaken' = overtaken \ {v}
    /\ UNCHANGED <<market, down, cache, second, regime, fresh, since, reboots>>

\* The process restarts: the cache is in memory.
Reboot ==
    /\ reboots < MaxReboots /\ reboots' = reboots + 1
    /\ cache' = [t \in Task |-> Blank] /\ second' = [t \in TwoPart |-> BlankPart]
    /\ regime' = "none" /\ fresh' = FALSE
    /\ asked' = [v \in Visitor |-> "idle"] /\ got' = [v \in Visitor |-> [t \in Task |-> Pending]]
    /\ began' = [v \in Visitor |-> NoneOfAll] /\ since' = NoneOfAll
    /\ overtaken' = {}
    /\ UNCHANGED <<market, down>>

MacroNext ==
    \/ \E s \in Feed : Publish(s)
    \/ Expire
    \/ \E v \in Visitor : StartRefresh(v) \/ WriteCache(v) \/ RefreshRaises(v)
    \/ \E v \in Visitor, t \in Task : FetchAnswers(v, t) \/ FetchFails(v, t) \/ FetchRaises(v, t)
    \/ Reboot

MacroSpec == MacroInit /\ [][MacroNext]_macroVars

-----------------------------------------------------------------------------
(* Properties. *)

\* What build_response shows, and the fields it lists with an error.
ShownValue(t) == cache[t].value
Listed(t) == cache[t].error
Refreshed == regime # "none"

\* A change in percent is never shown beside the close of another fetch
\* (macro_service.py:615).
ChangeMatchesClose ==
    \A t \in TwoPart \ {"fg"} : second[t].value # None => second[t].value = ShownValue(t)

\* Once a refresh has ended, a field without a value is explained: it has an error,
\* or it is the label or change of an answer that had none (macro_service.py:21).
EmptyIsExplained ==
    Refreshed =>
        /\ \A t \in Task : ShownValue(t) = None => Listed(t)
        /\ \A t \in TwoPart : second[t].value = None => second[t].error \/ cache[t].alone

\* A number that is listed without an error is no older than what its series
\* published when the refresh that wrote last began: a value kept from an earlier
\* refresh, or lost between two that overlap, is never passed off as a new one
\* (macro_service.py:565).
KeptIsListed ==
    \A t \in Task : ShownValue(t) # None /\ ~Listed(t) => ShownValue(t) >= since[cache[t].from]

\* The cached fields fit together.
MacroInv ==
    /\ MacroTypeOK
    /\ ChangeMatchesClose
    /\ EmptyIsExplained
    /\ KeptIsListed

\* A failure never takes a value away, and the page never goes back to an older
\* publication of the series it shows, unless the refresh that wrote it had been
\* overtaken by another.  Only the dollar index may come from another series than
\* before (macro_service.py:149, 565).
NeverGoesBack ==
    [][\A t \in Task :
          \/ reboots' # reboots
          \/ cache'[t].from = cache[t].from /\ cache'[t].value >= cache[t].value
          \/ /\ cache'[t].value # None
             /\ \/ cache[t].value = None
                \/ t = "dxy" /\ cache'[t].from # cache[t].from
                \/ \E v \in overtaken : asked[v] = "refreshing" /\ asked'[v] = "idle"]_macroVars

=============================================================================
