---------------------------- MODULE PortfolioSync ----------------------------
(***************************************************************************)
(* The exchange data of one user and one exchange: the routes of           *)
(* src/backend/routes/portfolio.py that connect, disconnect and            *)
(* synchronise, what src/backend/services/exchange_service.py fetches for  *)
(* them, and how services/phase2a_sync.py and services/phase2b_ledger.py   *)
(* store it; and which rows the account return is computed from            *)
(* (services/phase3_account_return.py).                                    *)
(*                                                                         *)
(* A synchronisation reads the keys, fetches its streams in threads that   *)
(* each see the exchange at a moment of their own, and stores everything   *)
(* in one transaction.  Users and exchanges share no row.                  *)
(*                                                                         *)
(* The things that happen to an account are numbered: a capital flow is    *)
(* the moment it occurs at, and so is a position's close.  What a stream   *)
(* fetched is the moment it was fetched at: the rows are those up to it.   *)
(***************************************************************************)
EXTENDS Integers, FiniteSets

CONSTANTS
    SyncAccount,    \* accounts at the exchange whose keys the user has
    SyncJob,            \* places for concurrent synchronisations
    NoAccount,
    MaxMoment       \* bound: things that happen to an account

ASSUME SyncAssumption == NoAccount \notin SyncAccount /\ MaxMoment \in Nat

VARIABLES
    happened,       \* what has happened to each account at the exchange
    connected,      \* exchange_keys: the account whose keys are stored
    tables,         \* the rows of the user and the exchange
    syncing         \* the local variables of each synchronisation

syncVars == <<happened, connected, tables, syncing>>

SyncMoment == 0..MaxMoment
Never == -1

\* history (positions and orders that are closed), account (the futures account) and
\* capital (funding, transfers, deposits, withdrawals).
SyncStream == {"history", "account", "capital"}

\* What a refresh fetches, and what a history request does.
StreamsOf(kind) == IF kind = "refresh" THEN SyncStream ELSE {"history", "capital"}

\* The row of exchange_sync_state of the capital streams: at is the moment they were
\* fetched at, of whose account.  Those of the other streams are stored alike and
\* left out, and so are incomplete answers of the history.
NoCoverage == [complete |-> FALSE, of |-> NoAccount, at |-> Never]
Coverage ==
    {NoCoverage} \cup [complete: BOOLEAN, of: SyncAccount, at: SyncMoment]

\* portfolio: there are balances, open positions, trades and a snapshot row.
\* snapshots: futures_account_snapshots.  history, ledger: rows with an exchange id.
Tables ==
    [portfolio: BOOLEAN, history: SUBSET (SyncAccount \X SyncMoment),
     snapshots: SUBSET (SyncAccount \X SyncMoment), ledger: SUBSET (SyncAccount \X SyncMoment),
     coverage: Coverage]

EmptyTables ==
    [portfolio |-> FALSE, history |-> {}, snapshots |-> {}, ledger |-> {},
     coverage |-> NoCoverage]

\* got: the moment of each fetched stream.  partial: the capital answer is incomplete.
Synchronisation ==
    [pc: {"idle", "fetching", "looked"}, kind: {"refresh", "history"},
     of: SyncAccount \cup {NoAccount}, got: [SyncStream -> SyncMoment \cup {Never}],
     partial: BOOLEAN, first: {"unseen", "absent", "present"}]

NoSync ==
    [pc |-> "idle", kind |-> "refresh", of |-> NoAccount, got |-> [s \in SyncStream |-> Never],
     partial |-> FALSE, first |-> "unseen"]

SyncTypeOK ==
    /\ happened \in [SyncAccount -> SyncMoment]
    /\ connected \in SyncAccount \cup {NoAccount}
    /\ tables \in Tables
    /\ syncing \in [SyncJob -> Synchronisation]

SyncInit ==
    /\ happened = [a \in SyncAccount |-> 0]
    /\ connected = NoAccount
    /\ tables = EmptyTables
    /\ syncing = [j \in SyncJob |-> NoSync]

-----------------------------------------------------------------------------
(***************************************************************************)
(* connect_exchange, disconnect_exchange.                                  *)
(***************************************************************************)
\* The keys are validated at the exchange before; a row there is is overwritten.
ConnectExchange(a) ==
    /\ connected # a
    /\ connected' = a
    /\ UNCHANGED <<happened, tables, syncing>>

DisconnectExchange ==
    /\ connected # NoAccount
    /\ connected' = NoAccount
    /\ tables' = [tables EXCEPT !.portfolio = FALSE, !.history = {}]
    /\ UNCHANGED <<happened, syncing>>

(***************************************************************************)
(* refresh_portfolio, get_exchange_history.                                *)
(***************************************************************************)
StartSync(j, kind) ==
    /\ syncing[j].pc = "idle" /\ connected # NoAccount
    /\ syncing' = [syncing EXCEPT ![j] = [NoSync EXCEPT !.pc = "fetching", !.kind = kind, !.of = connected]]
    /\ UNCHANGED <<happened, connected, tables>>

Unfetched(j) == {s \in StreamsOf(syncing[j].kind) : syncing[j].got[s] = Never}

\* fetch_portfolio, fetch_history: one thread for each stream.
FetchStream(j, stream, partial) ==
    /\ syncing[j].pc = "fetching" /\ stream \in Unfetched(j)
    /\ partial => stream = "capital"
    /\ syncing' = [syncing EXCEPT ![j].got[stream] = happened[syncing[j].of], ![j].partial = @ \/ partial]
    /\ UNCHANGED <<happened, connected, tables>>

\* Credentials, rate limit, timeout: nothing is stored.
FetchStreamFails(j) ==
    /\ syncing[j].pc = "fetching" /\ Unfetched(j) # {}
    /\ syncing' = [syncing EXCEPT ![j] = NoSync]
    /\ UNCHANGED <<happened, connected, tables>>

RowsOf(j, stream) == {<<syncing[j].of, m>> : m \in 1..syncing[j].got[stream]}

\* Of an incomplete answer some of the rows may have been read.
RowsRead(j) == IF syncing[j].partial THEN SUBSET RowsOf(j, "capital") ELSE {RowsOf(j, "capital")}

\* Mutant of Covered: an answer that broke off counts as complete.
CoveredAlways(j) == [complete |-> TRUE, of |-> syncing[j].of, at |-> syncing[j].got["capital"]]

\* _upsert_sync_state.
Covered(j) == [complete |-> ~syncing[j].partial, of |-> syncing[j].of, at |-> syncing[j].got["capital"]]

\* _persist_portfolio_data, _persist_history_data.
Persisted(j, ledger) ==
    [tables EXCEPT
        !.portfolio = @ \/ syncing[j].kind = "refresh",
        !.history = @ \cup RowsOf(j, "history"),
        !.snapshots = @ \cup IF syncing[j].kind = "refresh" THEN {<<syncing[j].of, syncing[j].got["account"]>>} ELSE {},
        !.ledger = @ \cup ledger,
        !.coverage = Covered(j)]

\* A refresh begins with a DELETE, which takes SQLite's write lock until its commit.
PersistRefresh(j) ==
    /\ syncing[j].pc = "fetching" /\ syncing[j].kind = "refresh" /\ Unfetched(j) = {}
    /\ \E ledger \in RowsRead(j) : tables' = Persisted(j, ledger)
    /\ syncing' = [syncing EXCEPT ![j] = NoSync]
    /\ UNCHANGED <<happened, connected>>

\* A history request looks its first row up before anything is locked.
LookUpFirst(j) ==
    /\ syncing[j].pc = "fetching" /\ syncing[j].kind = "history" /\ Unfetched(j) = {}
    /\ syncing' = [syncing EXCEPT ![j].pc = "looked",
                          ![j].first = IF <<syncing[j].of, syncing[j].got["history"]>> \in tables.history
                                       THEN "present" ELSE "absent"]
    /\ UNCHANGED <<happened, connected, tables>>

\* The row looked up is inserted, or updated; either fails, on the unique index or
\* on the row count, when another transaction was faster.
FirstStillSo(j) ==
    (syncing[j].first = "present") <=> <<syncing[j].of, syncing[j].got["history"]>> \in tables.history

PersistHistory(j) ==
    /\ syncing[j].pc = "looked"
    /\ IF syncing[j].got["history"] = 0 \/ FirstStillSo(j)
       THEN \E ledger \in RowsRead(j) : tables' = Persisted(j, ledger)
       ELSE tables' = tables
    /\ syncing' = [syncing EXCEPT ![j] = NoSync]
    /\ UNCHANGED <<happened, connected>>

\* The transaction is rolled back, by an error or a crash.
PersistFails(j) ==
    /\ syncing[j].pc \in {"fetching", "looked"} /\ Unfetched(j) = {}
    /\ syncing' = [syncing EXCEPT ![j] = NoSync]
    /\ UNCHANGED <<happened, connected, tables>>

\* At the exchange.
Happens(a) ==
    /\ happened[a] < MaxMoment
    /\ happened' = [happened EXCEPT ![a] = @ + 1]
    /\ UNCHANGED <<connected, tables, syncing>>

-----------------------------------------------------------------------------
SyncNext ==
    \/ \E a \in SyncAccount : ConnectExchange(a) \/ Happens(a)
    \/ DisconnectExchange
    \/ \E j \in SyncJob :
        \/ \E kind \in {"refresh", "history"} : StartSync(j, kind)
        \/ \E s \in SyncStream, partial \in BOOLEAN : FetchStream(j, s, partial)
        \/ FetchStreamFails(j) \/ PersistRefresh(j) \/ LookUpFirst(j) \/ PersistHistory(j)
        \/ PersistFails(j)

SyncSpec == SyncInit /\ [][SyncNext]_syncVars

-----------------------------------------------------------------------------
(***************************************************************************)
(* compute_account_return: the last snapshot, once the capital streams are *)
(* complete, and the flows of the ledger up to it.                         *)
(***************************************************************************)
LatestAt(S) == CHOOSE s \in S : \A t \in S : t[2] <= s[2]

ReturnAvailable == tables.coverage.complete /\ Cardinality(tables.snapshots) >= 2

Ending == LatestAt(tables.snapshots)

(***************************************************************************)
(* Properties.                                                             *)
(***************************************************************************)

\* A capital stream that is called complete has all the flows there were when it was
\* fetched, whatever overlapping, failing or partial synchronisations did before and
\* after: what makes the account return fail closed.
CompleteIsBacked ==
    tables.coverage.complete
    => {<<tables.coverage.of, m>> : m \in 1..tables.coverage.at}
        \subseteq tables.ledger

\* The account return is "fail-closed" (phase3_account_return.py): what happened up
\* to its ending snapshot is in the ledger or there is no return.
ReturnIsBacked ==
    ReturnAvailable => {<<Ending[1], m>> : m \in 1..Ending[2]} \subseteq tables.ledger

\* disconnect_exchange: "clear all cached portfolio data for the given exchange".
DisconnectClears == [][connected' = NoAccount /\ connected # NoAccount => tables' = EmptyTables]_syncVars

\* What overlapping synchronisations preserve: the stored rows have their types and a
\* coverage record that says complete is backed by rows that were read.
SyncInv ==
    /\ SyncTypeOK
    /\ CompleteIsBacked

=============================================================================
