---------------------------- MODULE HistoryPaging ----------------------------
(***************************************************************************)
(* _paginate_mexc_history of src/backend/services/exchange_service.py: one *)
(* stream of the exchange's history (positions, orders, funding,           *)
(* transfers) is read page by page, newest rows first, while new rows come *)
(* in at the front.  The result says whether it is complete; the account   *)
(* return and the portfolio's partial flag rely on that.                   *)
(*                                                                         *)
(* A row is the number of its place in time.  An exchange may answer a     *)
(* bare list or pages, with or without the number of pages, the total of   *)
(* rows and row ids, and may ignore the page number.                       *)
(***************************************************************************)
EXTENDS Integers, FiniteSets

CONSTANTS
    PageSize,       \* the page size the exchange applies
    MaxHistory,        \* bound: rows of the history
    MaxAttempts     \* attempts of one page under rate limits (4)

ASSUME PagingAssumption ==
    PageSize \in Nat \ {0} /\ MaxHistory \in Nat /\ MaxAttempts \in Nat \ {0}

VARIABLES
    answers,        \* how this exchange answers
    atExchange,     \* rows 1..atExchange exist at the exchange
    reading         \* the local variables of the loop

pagingVars == <<answers, atExchange, reading>>

HistoryRow == 1..MaxHistory

\* pages: an answer has totalPage; totals: it has the total of the rows.
Answering ==
    [paged: BOOLEAN, pages: BOOLEAN, ids: BOOLEAN, advances: BOOLEAN, totals: BOOLEAN]

\* rows: rows_all as a set; count: its length; began: rows there were at the start.
Reading ==
    [pc: {"ask", "done"}, page: Nat, attempt: 1..MaxAttempts, rows: SUBSET HistoryRow, count: Nat,
     total: -1..MaxHistory, began: 0..MaxHistory, complete: BOOLEAN,
     reason: {"none", "mexc_error", "mexc_rate_limit", "pagination_not_advancing",
              "exchange_boundary_before_source_total"}]

PagingTypeOK ==
    /\ answers \in Answering
    /\ atExchange \in 0..MaxHistory
    /\ reading \in Reading

FreshReading(n) ==
    [pc |-> "ask", page |-> 1, attempt |-> 1, rows |-> {}, count |-> 0, total |-> -1,
     began |-> n, complete |-> FALSE, reason |-> "none"]

PagingInit ==
    /\ answers \in Answering
    /\ atExchange \in 0..MaxHistory
    /\ reading = FreshReading(atExchange)

-----------------------------------------------------------------------------
(***************************************************************************)
(* What the exchange answers.                                              *)
(***************************************************************************)
Shown(page) ==
    LET p == IF answers.advances THEN page ELSE 1
    IN  {r \in 1..atExchange : r <= atExchange - (p - 1) * PageSize /\ r > atExchange - p * PageSize}

\* totalPage; where it is missing or zero, the page asked for is taken for the last.
PagesOf(page) ==
    IF answers.paged /\ answers.pages /\ atExchange > 0
    THEN (atExchange + PageSize - 1) \div PageSize ELSE page

\* Rows seen before are dropped when they can be told apart.
NewRows(page) == IF answers.ids THEN Shown(page) \ reading.rows ELSE Shown(page)

\* source_total; zero and a missing total are None.
TotalAfter(page) ==
    CASE ~answers.paged -> reading.count + Cardinality(Shown(page))
      [] answers.paged /\ answers.totals /\ atExchange > 0 -> atExchange
      [] OTHER -> reading.total

-----------------------------------------------------------------------------
(***************************************************************************)
(* The verdict over what was read.                                         *)
(***************************************************************************)
\* Mutant of Covers: the total the exchange declares is not looked at.
CoversAnything(count, total) == TRUE

Covers(count, total) == total = -1 \/ count >= total

Done(r, exhausted, stuck) ==
    LET complete == exhausted /\ ~stuck /\ Covers(r.count, r.total)
    IN  [r EXCEPT !.pc = "done", !.complete = complete,
                  !.reason = CASE stuck -> "pagination_not_advancing"
                               [] ~stuck /\ complete -> "none"
                               [] OTHER -> "exchange_boundary_before_source_total"]

\* The page number did not move the window.
Stuck(page) == page > 1 /\ answers.ids /\ Shown(page) # {} /\ NewRows(page) = {}

ReadPage ==
    LET page == reading.page
        new == NewRows(page)
        read == [reading EXCEPT !.total = TotalAfter(page)]
        more == [read EXCEPT !.rows = @ \cup new, !.count = @ + Cardinality(new)]
    IN  /\ reading.pc = "ask"
        /\ reading' =
            IF Stuck(page) THEN Done(read, FALSE, TRUE)
            ELSE IF page >= PagesOf(page) THEN Done(more, TRUE, FALSE)
            ELSE IF Shown(page) = {} THEN Done(more, FALSE, FALSE)
            ELSE [more EXCEPT !.page = @ + 1, !.attempt = 1]
        /\ UNCHANGED <<answers, atExchange>>

\* Mutant of Backoff: the attempts start over.
BackoffAgain ==
    /\ reading.pc = "ask"
    /\ reading' = [reading EXCEPT !.attempt = IF @ = MaxAttempts THEN 1 ELSE @ + 1]
    /\ UNCHANGED <<answers, atExchange>>

\* Rate limited: the page is asked for again, a few times.
Backoff ==
    /\ reading.pc = "ask" /\ reading.attempt < MaxAttempts
    /\ reading' = [reading EXCEPT !.attempt = @ + 1]
    /\ UNCHANGED <<answers, atExchange>>

\* The last attempt, or another error: what was read so far is returned as partial.
GiveUp ==
    /\ reading.pc = "ask"
    /\ \E reason \in {"mexc_error", "mexc_rate_limit"} :
        /\ reason = "mexc_rate_limit" => reading.attempt = MaxAttempts
        /\ reading' = [reading EXCEPT !.pc = "done", !.reason = reason]
    /\ UNCHANGED <<answers, atExchange>>

\* Meanwhile at the exchange.
RowComes ==
    /\ atExchange < MaxHistory
    /\ atExchange' = atExchange + 1
    /\ UNCHANGED <<answers, reading>>

NextSync ==
    /\ reading.pc = "done"
    /\ reading' = FreshReading(atExchange)
    /\ UNCHANGED <<answers, atExchange>>

-----------------------------------------------------------------------------
PagingNext == ReadPage \/ Backoff \/ GiveUp \/ RowComes \/ NextSync

PagingSpec == PagingInit /\ [][PagingNext]_pagingVars

\* The loop runs; nothing is assumed of the exchange but that a call returns.
PagingFairness == WF_pagingVars(ReadPage \/ Backoff \/ GiveUp)

PagingFairSpec == PagingSpec /\ PagingFairness

-----------------------------------------------------------------------------
(***************************************************************************)
(* Properties.                                                             *)
(***************************************************************************)

\* Whatever comes in while the pages are read, a history that is called complete
\* has every row there was when the reading began (exchange_service.py, "mark
\* incomplete below").  It takes rows that can be told apart, pages (a bare list is
\* taken for the whole history), and either the total, or the number of pages of an
\* exchange that moves with the page number: where an exchange declares neither, the
\* first page is taken for the last and the history for complete.
CompleteHasAll ==
    /\ reading.pc = "done" /\ reading.complete
    /\ answers.ids /\ answers.paged /\ (answers.totals \/ (answers.pages /\ answers.advances))
    => 1..reading.began \subseteq reading.rows

\* The loop ends, also when the exchange answers the same page for ever.
ReadingEnds == reading.pc = "ask" ~> reading.pc = "done"

\* What reading a history page by page preserves: a reading that ends as complete has every
\* row that was there when it began.
PagingInv ==
    /\ PagingTypeOK
    /\ CompleteHasAll

=============================================================================
