------------------------------- MODULE ScanDiff -------------------------------
(***************************************************************************)
(* What changed between the scans of one pair: the stored scans, the       *)
(* comparison of two of them (services/diff_service.py), the difference of *)
(* the newest two and the timeline of all (routes/scan_diff.py).           *)
(*                                                                         *)
(* A stored result holds what the scan could compute.  A part whose step   *)
(* failed, or which an older version did not store, is missing: every part *)
(* is a set with at most one element, so that a pair of values exists only *)
(* when both scans have one.  Only a missing list of patterns counts as an *)
(* empty one (diff_service.py:399).  Numbers are hundredths.               *)
(***************************************************************************)
EXTENDS Integers, Sequences, FiniteSets

CONSTANTS
    Result,       \* the results that may be stored
    ScanLimit,    \* the "limit" of the timeline
    MaxSaved      \* bound: the scans stored at a time

-----------------------------------------------------------------------------
(* What a stored result holds. *)

CATEGORY_KEYS == {"regime", "location", "confirmation", "volume_retest", "risk"}
QQE_TIMEFRAMES == {"daily", "4h", "1h"}
STRUCTURE_TIMEFRAMES == {"weekly", "daily", "4h", "1h", "15m"}
INDICATOR_TIMEFRAMES == {"daily", "4h"}
PlanLevels == {"entry", "stop_loss", "target_1", "target_2", "target_3"}

\* A part holds one value, or none.
Part(Value) == {part \in SUBSET Value : \A x, y \in part : x = y}
StoredResult ==
    [total : Part(Int), scores : [CATEGORY_KEYS -> Part(Int)],
     qqe : [QQE_TIMEFRAMES -> Part(STRING)],
     structure : [STRUCTURE_TIMEFRAMES -> Part(STRING)],
     direction : Part(STRING), decision : Part(BOOLEAN),
     levels : [PlanLevels -> Part(Int)],
     patterns : Seq([name : STRING, confirmed : BOOLEAN]),
     squeeze : [INDICATOR_TIMEFRAMES -> Part(BOOLEAN)],
     rsi : [INDICATOR_TIMEFRAMES -> Part(Int)],
     cross : [INDICATOR_TIMEFRAMES -> Part(STRING)],
     macd : [INDICATOR_TIMEFRAMES -> Part(STRING)],
     align : [INDICATOR_TIMEFRAMES -> Part(STRING)],
     volume : Part(Int)]

ASSUME ScanDiffAssumption ==
    Result \subseteq StoredResult /\ ScanLimit \in Nat \ {0} /\ MaxSaved \in Nat

VARIABLE saved    \* the results of the stored scans, the oldest first

scanDiffVars == <<saved>>

ScanDiffTypeOK == saved \in Seq(Result)

ScanDiffInit == saved = << >>

-----------------------------------------------------------------------------
(* What is compared. *)

HIGH_IMPACT_PATTERNS ==
    {"double_top", "double_bottom", "head_and_shoulders", "inverse_head_and_shoulders"}
_GREEN_SIGNALS == {"GREEN", "GREEN-STRONG"}
_RED_SIGNALS == {"RED", "RED-STRONG"}

\* A row whose JSON cannot be read is compared as if it held nothing.
_parse_result ==
    [total |-> {}, scores |-> [k \in CATEGORY_KEYS |-> {}],
     qqe |-> [tf \in QQE_TIMEFRAMES |-> {}],
     structure |-> [tf \in STRUCTURE_TIMEFRAMES |-> {}],
     direction |-> {}, decision |-> {}, levels |-> [l \in PlanLevels |-> {}],
     patterns |-> << >>,
     squeeze |-> [tf \in INDICATOR_TIMEFRAMES |-> {}],
     rsi |-> [tf \in INDICATOR_TIMEFRAMES |-> {}],
     cross |-> [tf \in INDICATOR_TIMEFRAMES |-> {}],
     macd |-> [tf \in INDICATOR_TIMEFRAMES |-> {}],
     align |-> [tf \in INDICATOR_TIMEFRAMES |-> {}],
     volume |-> {}]

_entry(field, severity, about) ==
    [field |-> field, severity |-> severity, about |-> about]

\* The old and the new value, when both are there and they differ.
Changed(old, new) == {x \in old \X new : x[1] # x[2]}

\* How far a number moved, when it is there twice.
Moved(old, new) == {IF x[1] < x[2] THEN x[2] - x[1] ELSE x[1] - x[2] : x \in old \X new}

-----------------------------------------------------------------------------
(* The comparators. *)

diff_score(prev, cur) ==
    {_entry(<<"score", "total">>,
            IF d > 500 THEN "major" ELSE IF d >= 100 THEN "minor" ELSE "info", "")
        : d \in {m \in Moved(prev.total, cur.total) : m >= 5}}
    \cup UNION {{_entry(<<"score", k>>, IF d >= 200 THEN "minor" ELSE "info", "")
                    : d \in {m \in Moved(prev.scores[k], cur.scores[k]) : m >= 50}}
                : k \in CATEGORY_KEYS}

_qqe_severity(old, new) ==
    IF \/ old \in _GREEN_SIGNALS /\ new \in _RED_SIGNALS
       \/ old \in _RED_SIGNALS /\ new \in _GREEN_SIGNALS
    THEN "major" ELSE "minor"

diff_qqe_signals(prev, cur) ==
    UNION {{_entry(<<"qqe_signals", tf>>, _qqe_severity(x[1], x[2]), "")
               : x \in Changed(prev.qqe[tf], cur.qqe[tf])}
           : tf \in QQE_TIMEFRAMES}

diff_structure(prev, cur) ==
    UNION {{_entry(<<"structure", tf>>, "major", "")
               : x \in Changed(prev.structure[tf], cur.structure[tf])}
           : tf \in STRUCTURE_TIMEFRAMES}

\* A level that appears or disappears is a change too.
LevelChanged(old, new) ==
    \/ (old = {}) # (new = {})
    \/ \E m \in Moved(old, new) : m >= 1

diff_trade_plan(prev, cur) ==
    {_entry(<<"trade_plan", "direction">>, "major", "")
        : x \in Changed(prev.direction, cur.direction)}
    \cup {_entry(<<"trade_plan", "trade_decision">>, "major", "")
        : x \in Changed(prev.decision, cur.decision)}
    \cup {_entry(<<"trade_plan", l>>, "minor", "")
        : l \in {k \in PlanLevels : LevelChanged(prev.levels[k], cur.levels[k])}}

\* The detected patterns by name: the last of several with one name.
PatternNames(r) == {r.patterns[i].name : i \in DOMAIN r.patterns}
Confirmed(r, name) ==
    LET last == CHOOSE i \in DOMAIN r.patterns :
                    /\ r.patterns[i].name = name
                    /\ \A k \in DOMAIN r.patterns : r.patterns[k].name = name => k <= i
    IN  r.patterns[last].confirmed

diff_patterns(prev, cur) ==
    LET was == PatternNames(prev)
        is == PatternNames(cur)
        impact(name) == IF name \in HIGH_IMPACT_PATTERNS THEN "major" ELSE "minor"
        flips(before) == {name \in was \cap is :
                            Confirmed(prev, name) = before /\ Confirmed(cur, name) # before}
    IN  {_entry(<<"patterns", "new">>, impact(name), name) : name \in is \ was}
        \cup {_entry(<<"patterns", "invalidated">>, impact(name), name) : name \in was \ is}
        \cup {_entry(<<"patterns", "confirmed">>, "minor", name) : name \in flips(FALSE)}
        \cup {_entry(<<"patterns", "unconfirmed">>, "info", name) : name \in flips(TRUE)}

\* Leaving an extreme is a crossing, reaching the band exactly is noted, and so is
\* any move of a whole point: entering an extreme is no more than that.
RsiCrossed(p, c) == (p <= 3000 /\ 3000 < c) \/ (p >= 7000 /\ 7000 > c)
RsiListed(p, c) ==
    \/ RsiCrossed(p, c)
    \/ p < 3000 /\ 3000 <= c
    \/ p > 7000 /\ 7000 >= c
    \/ \E m \in Moved({p}, {c}) : m >= 100

diff_indicators(prev, cur) ==
    UNION {{_entry(<<"bb_squeeze", tf>>, "minor", "")
               : x \in Changed(prev.squeeze[tf], cur.squeeze[tf])}
           \cup {_entry(<<"rsi", tf>>, IF RsiCrossed(x[1], x[2]) THEN "minor" ELSE "info", "")
               : x \in {y \in prev.rsi[tf] \X cur.rsi[tf] : RsiListed(y[1], y[2])}}
           \cup {_entry(<<"ema_cross", tf>>, "minor", "")
               : x \in Changed(prev.cross[tf], cur.cross[tf])}
           : tf \in INDICATOR_TIMEFRAMES}

diff_volume(prev, cur) ==
    {_entry(<<"volume", "daily">>, "info", "")
        : x \in {y \in prev.volume \X cur.volume :
                    y[1] > 0 /\ (y[2] >= 2 * y[1] \/ 2 * y[2] <= y[1])}}

\* Only a cross is listed, never that a cross is over.
diff_macd(prev, cur) ==
    UNION {{_entry(<<"macd_cross", tf>>, "minor", "")
               : x \in {y \in Changed(prev.macd[tf], cur.macd[tf]) :
                           y[2] \in {"bullish", "bearish"}}}
           : tf \in INDICATOR_TIMEFRAMES}

diff_ema_alignment(prev, cur) ==
    UNION {{_entry(<<"ema_alignment", tf>>, "minor", "")
               : x \in Changed(prev.align[tf], cur.align[tf])}
           : tf \in INDICATOR_TIMEFRAMES}

diff_scans(prev, cur) ==
    diff_score(prev, cur) \cup diff_qqe_signals(prev, cur) \cup diff_structure(prev, cur)
    \cup diff_trade_plan(prev, cur) \cup diff_patterns(prev, cur)
    \cup diff_indicators(prev, cur) \cup diff_volume(prev, cur)
    \cup diff_macd(prev, cur) \cup diff_ema_alignment(prev, cur)

-----------------------------------------------------------------------------
(* The two routes: what they answer for the scans stored at the moment.    *)

\* The newest two scans; fewer than two are a 404.
get_scan_diff == diff_scans(saved[Len(saved) - 1], saved[Len(saved)])

\* The oldest scans up to the limit, each compared with the one before it.
ScansListed == SubSeq(saved, 1, IF Len(saved) < ScanLimit THEN Len(saved) ELSE ScanLimit)
\* Mutant of get_scan_changes: every scan is compared with the first.
ComparedWithFirst ==
    [i \in 1 .. Len(ScansListed) - 1 |-> diff_scans(ScansListed[1], ScansListed[i + 1])]
get_scan_changes ==
    [i \in 1 .. Len(ScansListed) - 1 |-> diff_scans(ScansListed[i], ScansListed[i + 1])]

-----------------------------------------------------------------------------
(* The stored scans. *)

\* A manual or a scheduled scan is stored with what it could compute.
SaveScan(result) ==
    /\ Len(saved) < MaxSaved
    /\ saved' = Append(saved, result)

\* The user deletes one scan: its neighbours are compared from now on.
DeleteScan(i) ==
    /\ i \in DOMAIN saved
    /\ saved' = SubSeq(saved, 1, i - 1) \o SubSeq(saved, i + 1, Len(saved))

ScanDiffNext ==
    \/ \E result \in Result : SaveScan(result)
    \/ \E i \in DOMAIN saved : DeleteScan(i)

ScanDiffSpec == ScanDiffInit /\ [][ScanDiffNext]_scanDiffVars

-----------------------------------------------------------------------------
(* Properties.  "changes" is the answer of get_scan_changes.               *)

\* The fields in which two results differ although a field is named by the
\* kind of change only, never by its direction.
Undirected(entries) ==
    {IF e.field[1] = "patterns"
     THEN <<"patterns", IF e.field[2] \in {"new", "invalidated"} THEN "set" ELSE "flag", e.about>>
     ELSE <<e.field[1], e.field[2], "">> :
        e \in {d \in entries : d.field[1] \notin {"rsi", "macd_cross", "volume"}}}

\* A scan compared with itself shows nothing, and comparing two scans in the
\* other direction names the same fields and patterns, except the momentum and
\* volume entries, which depend on the direction (diff_indicators, diff_macd, diff_volume).
DiffIsSymmetric(prev, cur) ==
    /\ diff_scans(prev, prev) = {}
    /\ Undirected(diff_scans(prev, cur)) = Undirected(diff_scans(cur, prev))

\* The page that shows the last difference and the page that shows the timeline
\* agree on the newest change as long as the timeline reaches the newest scan
\* (routes/scan_diff.py:148, 210).
TimelineEndsWithDiff(changes) ==
    Len(saved) \in 2 .. ScanLimit => changes[Len(changes)] = get_scan_diff

\* The values a part takes over the listed scans, one scan after the other.
Story(Of(_)) == [i \in DOMAIN ScansListed |-> Of(ScansListed[i])]
Turned(story) == /\ Len(story) > 0 /\ {} \notin {story[i] : i \in DOMAIN story}
                 /\ story[1] # story[Len(story)]
Names(changes, field) == \E i \in DOMAIN changes : \E e \in changes[i] : e.field = field

\* A label that is not what it was at the first listed scan is named somewhere in
\* the timeline, provided every scan in between has one: a scan whose step
\* failed hides the change around it.
TurnIsListed(changes) ==
    /\ \A tf \in QQE_TIMEFRAMES :
            Turned(Story(LAMBDA r : r.qqe[tf])) => Names(changes, <<"qqe_signals", tf>>)
    /\ \A tf \in STRUCTURE_TIMEFRAMES :
            Turned(Story(LAMBDA r : r.structure[tf])) => Names(changes, <<"structure", tf>>)
    /\ \A tf \in INDICATOR_TIMEFRAMES :
        /\ Turned(Story(LAMBDA r : r.squeeze[tf])) => Names(changes, <<"bb_squeeze", tf>>)
        /\ Turned(Story(LAMBDA r : r.align[tf])) => Names(changes, <<"ema_alignment", tf>>)
    /\ Turned(Story(LAMBDA r : r.direction)) => Names(changes, <<"trade_plan", "direction">>)
    /\ Turned(Story(LAMBDA r : r.decision)) => Names(changes, <<"trade_plan", "trade_decision">>)

\* A long way of the score is marked: when the total moved by more than five points
\* per step between the first and the last listed scan, one step is marked as major
\* (diff_service.py:202).  A slower drift may pass below every threshold.
LargeMoveIsMajor(changes) ==
    LET totals == Story(LAMBDA r : r.total)
    IN  (/\ Turned(totals)
         /\ \E m \in Moved(totals[1], totals[Len(totals)]) : m > 500 * (Len(totals) - 1))
        => \E i \in DOMAIN changes : \E e \in changes[i] :
                e.field = <<"score", "total">> /\ e.severity = "major"

\* A pattern is announced once per appearance: between two announcements of one
\* pattern the timeline has its end, be it only a scan that stored no list
\* (diff_service.py:410, 425).
AnnouncedOnce(changes) ==
    \A i, k \in DOMAIN changes : \A e \in changes[i] :
        (/\ i < k /\ e.field = <<"patterns", "new">> /\ e \in changes[k])
        => \E m \in i + 1 .. k - 1 : \E d \in changes[m] :
                d.field = <<"patterns", "invalidated">> /\ d.about = e.about

TimelineHolds(changes) ==
    /\ TimelineEndsWithDiff(changes)
    /\ TurnIsListed(changes)
    /\ LargeMoveIsMajor(changes)
    /\ AnnouncedOnce(changes)

\* The comparison of two scans and the timeline of all tell the same story.
DiffInv ==
    /\ ScanDiffTypeOK
    /\ Len(saved) >= 2 => DiffIsSymmetric(saved[Len(saved) - 1], saved[Len(saved)])
    /\ TimelineHolds(get_scan_changes)

=============================================================================
