-------------------------------- MODULE Journal --------------------------------
(***************************************************************************)
(* The trade journal (routes/journal.py), its summary and the attribution  *)
(* of closed positions to scans (scan_attribution_service.py), for one     *)
(* user.  A request is a chain of awaits: what it has read is a copy, the  *)
(* rows change meanwhile.  SQLite gives a new row the greatest id plus     *)
(* one, so the id of a deleted last row is given again.                    *)
(*                                                                         *)
(* born, knew, auto, suggested, from, row, alone and promised only record  *)
(* history.                                                                *)
(***************************************************************************)
EXTENDS Integers, Sequences, FiniteSets, SequencesExt

CONSTANTS
    JournalRequest,     \* requests that may be in flight at a time
    ClosedTemplate,     \* closed positions the exchange reports
    JournalBody,        \* bodies of create requests
    TagUpdate,          \* tags an update may set
    ScanOutcome,        \* direction and score of the scans that are stored
    MaxNow, MaxEntries, MaxScanRows, MaxUploads   \* bounds of the model

Unknown == -1           \* NULL, for times, figures and ids
None == "none"          \* NULL, for names
NoScan == <<>>

ASSUME JournalAssumption ==
    /\ ClosedTemplate \subseteq [symbol : STRING, exchange : STRING, side : STRING, pnl : Int,
                                 open : {Unknown} \cup Nat, close : {Unknown} \cup Nat]
    /\ JournalBody \subseteq [symbol : STRING, exchange : STRING, position : {Unknown} \cup Nat,
                              tags : Seq(STRING)]
    /\ TagUpdate \subseteq Seq(STRING)
    /\ ScanOutcome \subseteq [symbol : STRING, direction : {"LONG", "SHORT", "NEUTRAL"}, score : Nat]
    /\ {MaxNow, MaxEntries, MaxScanRows, MaxUploads} \subseteq Nat

VARIABLES
    journalClock,                \* ticks
    closed,             \* PositionHistory, by id
    scanRows,           \* Analysis rows, oldest first
    entries,            \* TradeJournalEntry, by id
    files,              \* screenshots on disk
    tasks,              \* per request: where it is and what it has read
    inserted, uploads,  \* entries inserted and files written so far
    promised            \* uploads answered 201 that ran alone: file and entry

journalVars == <<journalClock, closed, scanRows, entries, files, tasks, inserted, uploads, promised>>

Idle == [at |-> "idle"]
NextId(rows) == 1 + Max(DOMAIN rows \cup {0})
Without(rows, id) == [i \in DOMAIN rows \ {id} |-> rows[i]]
With(rows, id, row) == [i \in DOMAIN rows \cup {id} |-> IF i = id THEN row ELSE rows[i]]

JournalTypeOK ==
    /\ journalClock \in 0..MaxNow /\ inserted \in Nat /\ uploads \in 0..MaxUploads
    /\ \A id \in DOMAIN closed : closed[id] \in ClosedTemplate
    /\ \A e \in DOMAIN entries :
        /\ entries[e].position # Unknown => entries[e].position \in DOMAIN closed
        /\ ToSet(entries[e].shots) \subseteq 1..uploads
    /\ files \subseteq 1..uploads
    /\ DOMAIN tasks = JournalRequest

JournalInit ==
    /\ journalClock = 0 /\ closed = <<>> /\ scanRows = <<>> /\ entries = <<>> /\ files = {}
    /\ tasks = [r \in JournalRequest |-> Idle]
    /\ inserted = 0 /\ uploads = 0 /\ promised = {}

-----------------------------------------------------------------------------
(***************************************************************************)
(* Attribution of a position to a scan.                                    *)
(***************************************************************************)
ScansOf(symbol) == {i \in DOMAIN scanRows : scanRows[i].symbol = symbol}

\* The latest scan at or before the opening; without a time of opening the latest of all.
_find_nearest_scan_before(scans, open) ==
    LET before == {i \in scans : open = Unknown \/ scanRows[i].at <= open}
    IN  IF before = {} THEN NoScan ELSE <<scanRows[Max(before)]>>

ScanFor(p) == _find_nearest_scan_before(ScansOf(p.symbol), p.open)

\* _suggest_tags_from_position_and_scan, for the scan it found.
SuggestedTags(p, scan) ==
    LET side == IF p.side \in {"long", "short"} THEN <<p.side>> ELSE <<>>
        directed == scan # NoScan /\ scan[1].direction \in {"LONG", "SHORT"}
        lower == IF scan[1].direction = "LONG" THEN "long" ELSE "short"
    IN  side
        \o (IF directed THEN <<IF lower = "long" THEN "scan_long" ELSE "scan_short">> ELSE <<>>)
        \o (IF directed /\ side # <<>>
            THEN <<IF p.side = lower THEN "scan_aligned" ELSE "scan_conflict">> ELSE <<>>)
        \o (IF scan # NoScan /\ scan[1].score >= 20 THEN <<"scan_high">> ELSE <<>>)

\* link_positions_to_scans: every closed position of the exchange with its scan.
LinkedTrades(exchange) ==
    [id \in {i \in DOMAIN closed : closed[i].exchange = exchange} |->
        [pnl |-> closed[id].pnl, scan |-> ScanFor(closed[id])]]

SCORE_BANDS == {0, 5, 10, 15, 20, 25}

\* compute_scan_accuracy: the trades of each half-open band of five points; a score of 30
\* or more is in none.
compute_scan_accuracy(linked) ==
    [lo \in SCORE_BANDS |->
        LET inBand == {i \in DOMAIN linked : /\ linked[i].scan # NoScan
                                             /\ lo <= linked[i].scan[1].score
                                             /\ linked[i].scan[1].score < lo + 5}
        IN  [total |-> Cardinality(inBand),
             winning |-> Cardinality({i \in inBand : linked[i].pnl > 0})]]

-----------------------------------------------------------------------------
(***************************************************************************)
(* What the other parts of the backend do to the rows.                     *)
(***************************************************************************)
Tick == journalClock < MaxNow /\ journalClock' = journalClock + 1
        /\ UNCHANGED <<closed, scanRows, entries, files, tasks, inserted, uploads, promised>>

\* The sync stores a position after it closed.
SyncClosed(p) ==
    /\ p \notin Range(closed) /\ p.open < journalClock /\ p.close < journalClock
    /\ closed' = With(closed, NextId(closed), p)
    /\ UNCHANGED <<journalClock, scanRows, entries, files, tasks, inserted, uploads, promised>>

\* Disconnecting an exchange deletes its history; the foreign key of the entries is SET NULL.
ForgetExchange(exchange) ==
    LET gone == {i \in DOMAIN closed : closed[i].exchange = exchange}
    IN  /\ gone # {}
        /\ closed' = [i \in DOMAIN closed \ gone |-> closed[i]]
        /\ entries' = [e \in DOMAIN entries |->
                          [entries[e] EXCEPT !.position = IF @ \in gone THEN Unknown ELSE @]]
        /\ UNCHANGED <<journalClock, scanRows, files, tasks, inserted, uploads, promised>>

StoreScanRow(o) ==
    /\ Len(scanRows) < MaxScanRows
    /\ scanRows' = Append(scanRows, [symbol |-> o.symbol, at |-> journalClock, direction |-> o.direction,
                                     score |-> o.score])
    /\ UNCHANGED <<journalClock, closed, entries, files, tasks, inserted, uploads, promised>>

\* delete_analysis.
DeleteScanRow(i) ==
    /\ scanRows' = RemoveAt(scanRows, i)
    /\ UNCHANGED <<journalClock, closed, entries, files, tasks, inserted, uploads, promised>>

-----------------------------------------------------------------------------
(***************************************************************************)
(* create_journal_entry.                                                   *)
(***************************************************************************)
Goto(r, task) == tasks' = [tasks EXCEPT ![r] = task]
RowsKept == UNCHANGED <<journalClock, closed, scanRows, entries, files, inserted, uploads, promised>>

Used == {entries[e].position : e \in DOMAIN entries} \ {Unknown}

CreateTask(body, id, used) ==
    [at |-> IF id = Unknown THEN "link" ELSE "suggest", body |-> body, position |-> id,
     used |-> used, knew |-> inserted, auto |-> id = Unknown, tags |-> body.tags,
     suggested |-> FALSE, from |-> NoScan, row |-> IF id = Unknown THEN <<>> ELSE <<closed[id]>>]

\* With a position: it must exist.  Without: the linked positions are read first.
StartCreate(r, body) ==
    /\ tasks[r] = Idle
    /\ body.position # Unknown => body.position \in DOMAIN closed
    /\ Goto(r, CreateTask(body, body.position, IF body.position = Unknown THEN Used ELSE {}))
    /\ RowsKept

Newer(a, b) == \/ closed[a].close > closed[b].close
               \/ closed[a].close = closed[b].close /\ a > b

\* Mutant of Linkable: a position may be linked again.
LinkableAgain(t) ==
    {i \in DOMAIN closed : /\ closed[i].symbol = t.body.symbol
                           /\ t.body.exchange # None => closed[i].exchange = t.body.exchange}

\* _auto_link_closed_position: the newest position of the symbol that was not linked.
Linkable(t) ==
    {i \in DOMAIN closed : /\ closed[i].symbol = t.body.symbol
                           /\ t.body.exchange # None => closed[i].exchange = t.body.exchange
                           /\ i \notin t.used}

LinkPosition(r) ==
    /\ tasks[r].at = "link"
    /\ LET able == Linkable(tasks[r])
       IN  IF able = {} THEN Goto(r, [tasks[r] EXCEPT !.at = "suggest"])
           ELSE \E i \in able :
                    /\ \A j \in able \ {i} : Newer(i, j)
                    /\ Goto(r, [tasks[r] EXCEPT !.at = "suggest", !.position = i, !.row = <<closed[i]>>])
    /\ RowsKept

\* Tags are suggested when the client sent none and a position is linked.
SuggestTags(r) ==
    LET t == tasks[r]
    IN  /\ t.at = "suggest"
        /\ IF t.tags = <<>> /\ t.row # <<>>
           THEN LET scan == ScanFor(t.row[1])
                IN  Goto(r, [t EXCEPT !.at = "insert", !.tags = SuggestedTags(t.row[1], scan),
                                      !.suggested = TRUE, !.from = scan])
           ELSE Goto(r, [t EXCEPT !.at = "insert"])
        /\ RowsKept

\* The insert and the commit; a position that is gone violates the foreign key.
InsertEntry(r) ==
    LET t == tasks[r]
        entry == [symbol |-> t.body.symbol,
                  exchange |-> IF t.body.exchange = None /\ t.row # <<>> THEN t.row[1].exchange
                               ELSE t.body.exchange,
                  position |-> t.position, tags |-> t.tags,
                  pnl |-> IF t.row # <<>> THEN <<t.row[1].pnl>> ELSE <<>>, shots |-> <<>>,
                  born |-> inserted + 1, knew |-> t.knew, auto |-> t.auto,
                  suggested |-> t.suggested, from |-> t.from, row |-> t.row]
    IN  /\ t.at = "insert" /\ inserted < MaxEntries
        /\ t.position # Unknown => t.position \in DOMAIN closed
        /\ entries' = With(entries, NextId(entries), entry)
        /\ inserted' = inserted + 1 /\ Goto(r, Idle)
        /\ UNCHANGED <<journalClock, closed, scanRows, files, uploads, promised>>

-----------------------------------------------------------------------------
(***************************************************************************)
(* Updates, screenshots and deletion.                                      *)
(***************************************************************************)
\* update_journal_entry; empty tags are stored as NULL, the other columns are not written.
UpdateEntry(e, tags) ==
    /\ entries' = [entries EXCEPT ![e].tags = tags, ![e].suggested = FALSE]
    /\ UNCHANGED <<journalClock, closed, scanRows, files, tasks, inserted, uploads, promised>>

On(e, s) == tasks[s].at \in {"write", "list", "erase", "delete"} /\ tasks[s].entry = e

\* A request on the entry starts; from now on none in flight on it is alone.
StartOn(r, e, at) ==
    /\ tasks[r] = Idle
    /\ tasks' = [s \in JournalRequest |->
                    CASE s = r -> [at |-> at, entry |-> e, shots |-> entries[e].shots,
                                   born |-> entries[e].born, file |-> 0,
                                   alone |-> \A q \in JournalRequest : ~On(e, q)]
                      [] s # r /\ On(e, s) -> [tasks[s] EXCEPT !.alone = FALSE]
                      [] OTHER -> tasks[s]]
    /\ RowsKept

\* upload_screenshot: the body was received, the file gets a name of its own.
WriteFile(r) ==
    /\ tasks[r].at = "write" /\ uploads < MaxUploads
    /\ uploads' = uploads + 1 /\ files' = files \cup {uploads + 1}
    /\ Goto(r, [tasks[r] EXCEPT !.at = "list", !.file = uploads + 1])
    /\ UNCHANGED <<journalClock, closed, scanRows, entries, inserted, promised>>

\* The list that was read when the request began, with the new file.
Listed(t) == Append(t.shots, t.file)

\* The update of the row with that id; none left is an error.
ListScreenshot(r) ==
    LET t == tasks[r]
    IN  /\ t.at = "list" /\ t.entry \in DOMAIN entries
        /\ entries' = [entries EXCEPT ![t.entry].shots = Listed(t)]
        /\ promised' = promised \cup (IF t.alone THEN {[file |-> t.file, born |-> t.born]} ELSE {})
        /\ Goto(r, Idle)
        /\ UNCHANGED <<journalClock, closed, scanRows, files, inserted, uploads>>

\* delete_journal_entry removes the files first ...
EraseFiles(r) ==
    /\ tasks[r].at = "erase"
    /\ files' = files \ ToSet(tasks[r].shots)
    /\ Goto(r, [tasks[r] EXCEPT !.at = "delete"])
    /\ UNCHANGED <<journalClock, closed, scanRows, entries, inserted, uploads, promised>>

\* ... and the row with the commit.
DeleteRow(r) ==
    /\ tasks[r].at = "delete"
    /\ entries' = Without(entries, tasks[r].entry) /\ Goto(r, Idle)
    /\ UNCHANGED <<journalClock, closed, scanRows, files, inserted, uploads, promised>>

\* An exception ends a request anywhere; its transaction is rolled back, files stay as they are.
RequestFails(r) == tasks[r] # Idle /\ Goto(r, Idle) /\ RowsKept

JournalNext ==
    \/ Tick
    \/ \E p \in ClosedTemplate : SyncClosed(p)
    \/ \E x \in {p.exchange : p \in ClosedTemplate} : ForgetExchange(x)
    \/ \E o \in ScanOutcome : StoreScanRow(o)
    \/ \E i \in DOMAIN scanRows : DeleteScanRow(i)
    \/ \E e \in DOMAIN entries, tags \in TagUpdate : UpdateEntry(e, tags)
    \/ \E r \in JournalRequest :
        \/ \E body \in JournalBody : StartCreate(r, body)
        \/ LinkPosition(r) \/ SuggestTags(r) \/ InsertEntry(r)
        \/ \E e \in DOMAIN entries, at \in {"write", "erase"} : StartOn(r, e, at)
        \/ WriteFile(r) \/ ListScreenshot(r) \/ EraseFiles(r) \/ DeleteRow(r)
        \/ RequestFails(r)

JournalSpec == JournalInit /\ [][JournalNext]_journalVars

-----------------------------------------------------------------------------
(***************************************************************************)
(* The summary and the lists.                                              *)
(***************************************************************************)
\* The tags an entry is counted under in get_journal_summary, with repetitions.
CountedTags(e) == IF entries[e].tags = <<>> THEN <<"untagged">> ELSE entries[e].tags
Times(e, tag) == Cardinality({k \in DOMAIN CountedTags(e) : CountedTags(e)[k] = tag})

PnlOf(e) == IF entries[e].pnl = <<>> THEN 0 ELSE entries[e].pnl[1]

\* Each place at which an entry is counted under a tag.
Counted(tag) == UNION {{e} \X {k \in DOMAIN CountedTags(e) : CountedTags(e)[k] = tag} : e \in DOMAIN entries}

\* get_journal_summary without an exchange.
get_journal_summary ==
    [tag \in UNION {ToSet(CountedTags(e)) : e \in DOMAIN entries} |->
        [trade_count |-> Cardinality(Counted(tag)),
         total_pnl |-> MapThenSumSet(LAMBDA e : Times(e, tag) * PnlOf(e), DOMAIN entries),
         winning |-> MapThenSumSet(LAMBDA e : Times(e, tag), {e \in DOMAIN entries : PnlOf(e) > 0})]]

\* _strategy_insights_from_tags: the insights that name a tag as their evidence.
InsightTags(stats) ==
    LET named == DOMAIN stats \ {"untagged"}
        leq(a, b) == \/ stats[a].total_pnl < stats[b].total_pnl
                     \/ /\ stats[a].total_pnl = stats[b].total_pnl
                        /\ stats[a].trade_count <= stats[b].trade_count
    IN  {t \in named : /\ stats[t].trade_count >= 2
                       /\ \/ stats[t].total_pnl > 0 /\ \A u \in named : leq(u, t)
                          \/ stats[t].total_pnl < 0 /\ \A u \in named : leq(t, u)}
        \cup {t \in {"untagged"} \cap DOMAIN stats :
                 stats[t].trade_count * 100 >= 40 * Cardinality(DOMAIN entries)}

\* _filter_entries_by_tag.
_filter_entries_by_tag(tag) ==
    {e \in DOMAIN entries : IF tag = "untagged" THEN entries[e].tags = <<>>
                            ELSE tag \in ToSet(entries[e].tags)}

\* _journal_for_position, of the detail page of a position.
_journal_for_position(id) == {e \in DOMAIN entries : entries[e].position = id}

-----------------------------------------------------------------------------
(***************************************************************************)
(* Properties.                                                             *)
(***************************************************************************)
\* "Pick the newest unlinked closed position": an entry that was linked automatically
\* shares its position only with entries that were inserted after it had begun to look.
LinkedOnce ==
    \A e, f \in DOMAIN entries :
        /\ e # f /\ entries[e].auto /\ entries[e].position # Unknown
        /\ entries[f].position = entries[e].position
        => entries[f].born > entries[e].knew

\* Suggested tags stay true: as long as the scan they came from is stored, and no other of
\* its time, the detail page and the attribution of the linked position show that scan, and
\* no scan when there was none ("Never invents direction tags without source data").
TagsStayTrue ==
    \A e \in DOMAIN entries :
        LET entry == entries[e]
        IN  /\ entry.suggested /\ entry.position # Unknown /\ closed[entry.position] = entry.row[1]
            /\ entry.row[1].open # Unknown
            /\ entry.from # NoScan =>
                   {s \in ToSet(scanRows) : s.symbol = entry.row[1].symbol /\ s.at = entry.from[1].at}
                       = {entry.from[1]}
            => ScanFor(closed[entry.position]) = entry.from

\* A screenshot whose upload was answered is listed by its entry for as long as that lives,
\* unless another upload or a deletion of the same entry was in flight with it.
PromisedIsListed ==
    \A p \in promised, e \in DOMAIN entries :
        entries[e].born = p.born => p.file \in ToSet(entries[e].shots)

Repeats(tag) ==
    \E e \in DOMAIN entries :
        \/ Times(e, tag) > 1
        \/ tag = "untagged" /\ entries[e].tags # <<>> /\ Times(e, tag) > 0

\* "evidence_count" of an insight is what its link, the list with that tag, shows, but for
\* entries that repeat the tag or spell out "untagged".
EvidenceIsFound ==
    LET stats == get_journal_summary
    IN  \A t \in InsightTags(stats) :
            ~Repeats(t) => stats[t].trade_count = Cardinality(_filter_entries_by_tag(t))

\* The linked entries of the summary are those of the detail pages of all positions.
LinksAddUp ==
    {e \in DOMAIN entries : entries[e].position # Unknown}
        = UNION {_journal_for_position(id) : id \in DOMAIN closed}

\* The bands count every attributed trade below 30 points once, and no other.
BandsCountTrades ==
    \A x \in {p.exchange : p \in ClosedTemplate} :
        LET linked == LinkedTrades(x)
            bands == compute_scan_accuracy(linked)
        IN  bands[0].total + bands[5].total + bands[10].total + bands[15].total + bands[20].total
                + bands[25].total
                = Cardinality({i \in DOMAIN linked :
                    linked[i].scan # NoScan /\ linked[i].scan[1].score < 30})

\* What the journal keeps between its entries, the positions, the scans and the files.
JournalInv ==
    /\ JournalTypeOK
    /\ LinkedOnce
    /\ TagsStayTrue
    /\ PromisedIsListed
    /\ EvidenceIsFound
    /\ LinksAddUp
    /\ BandsCountTrades

=============================================================================
