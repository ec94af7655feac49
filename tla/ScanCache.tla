------------------------------ MODULE ScanCache ------------------------------
(***************************************************************************)
(* The analysis cache of src/backend/services/analysis_service.py and the  *)
(* requests that go through it: the scan and deep-scan routes              *)
(* (src/backend/routes/scan.py), the scheduled scan, the batch scan        *)
(* (src/backend/services/batch_scanner.py, routes/watchlist.py), DCA and   *)
(* position alerts.                                                        *)
(*                                                                         *)
(* run_scan runs in a worker thread: it looks the symbol up, fetches,      *)
(* stores the result in a module-level dict and reads it back by key.      *)
(* Threads of several requests, and the clear of a deep scan on the event  *)
(* loop, interleave between any two of these.  A route gives up after 30 s *)
(* but its thread goes on.                                                 *)
(*                                                                         *)
(* The dict has one entry per symbol and no operation touches two symbols: *)
(* the model follows one.                                                  *)
(***************************************************************************)
EXTENDS Integers, FiniteSets

CONSTANTS
    Request,        \* places for concurrent requests
    MaxMarket       \* bound: moments at which the market data changes

ASSUME ScanCacheAssumption == MaxMarket \in Nat /\ IsFiniteSet(Request)

VARIABLES
    marketData,     \* the moment of the market data a fetch gets now
    cache,          \* the entry of the symbol in _cache
    request,        \* the local variables of each request and of its thread
    marked,         \* the user has an entry in _last_batch_scan younger than the cooldown
    batches,        \* history: batch scans since the cooldown last ran out
    rivals          \* history: requests that had passed the test when the first of them was recorded

cacheVars == <<marketData, cache, request, marked, batches, rivals>>

MarketMoment == 0..MaxMarket
NoData == -1          \* no data
NoEntry == [data |-> NoData, fresh |-> FALSE]
CacheEntry == [data: MarketMoment, fresh: BOOLEAN]

\* kind: how the request reaches run_scan.  waiting: somebody waits for the thread's answer.
\* History: floor is the oldest data the request could be answered with when it was asked,
\* cleared says that a deep scan cleared the entry since.
InThread == {"called", "fetch", "store", "read"}

IdleRequest == [pc |-> "idle", kind |-> "scan", data |-> NoData, waiting |-> FALSE,
         floor |-> 0, cleared |-> FALSE, answer |-> NoData]

RequestState ==
    [pc: {"idle", "allowed", "called", "fetch", "store", "read", "answered", "failed"},
     kind: {"scan", "deep", "export", "direct"}, data: MarketMoment \cup {NoData}, waiting: BOOLEAN,
     floor: MarketMoment, cleared: BOOLEAN, answer: MarketMoment \cup {NoData}]

CacheTypeOK ==
    /\ marketData \in MarketMoment
    /\ cache \in CacheEntry \cup {NoEntry}
    /\ request \in [Request -> RequestState]
    /\ \A r \in Request : request[r].pc = "answered" => request[r].answer \in MarketMoment
    /\ marked \in BOOLEAN /\ batches \in Nat /\ rivals \in Nat

CacheInit ==
    /\ marketData = 0
    /\ cache = NoEntry
    /\ request = [r \in Request |-> IdleRequest]
    /\ marked = FALSE /\ batches = 0 /\ rivals = 0

-----------------------------------------------------------------------------
(***************************************************************************)
(* The cache.                                                              *)
(***************************************************************************)
_is_stale == ~cache.fresh

\* What computations have fetched, or will have fetched at the earliest.
OnTheWay ==
    {marketData} \cup {request[r].data : r \in {q \in Request : request[q].pc = "store"}}

Oldest(S) == {m \in S : \A n \in S : m <= n}

\* What a request asked for now may be answered with at the earliest.
Usable == OnTheWay \cup (IF _is_stale THEN {} ELSE {cache.data})

\* clear_cache(symbol), and the mutant that forgets it.
NotCleared == cache
Cleared == NoEntry

\* Fifteen minutes after it was stored.
EntryExpires ==
    /\ cache.fresh
    /\ cache' = [cache EXCEPT !.fresh = FALSE]
    /\ UNCHANGED <<marketData, request, marked, batches, rivals>>

MarketMoves ==
    /\ marketData < MaxMarket
    /\ marketData' = marketData + 1
    /\ UNCHANGED <<cache, request, marked, batches, rivals>>

(***************************************************************************)
(* The callers.  get_cached_or_none runs on the event loop and answers at  *)
(* once; the deep scan clears the entry; batch, scheduled scan and export  *)
(* go straight to run_scan.                                                *)
(***************************************************************************)
SetRequest(r, state) == request' = [request EXCEPT ![r] = state]

\* The request goes on to run_scan, with the oldest of what it could be answered with.
Called(state, kind, oldest) ==
    [state EXCEPT !.pc = "called", !.kind = kind, !.waiting = TRUE, !.floor = oldest]

ScanRoute(r) ==
    /\ request[r].pc = "idle"
    /\ \E oldest \in Oldest(Usable) :
        SetRequest(r, IF ~_is_stale
              THEN [IdleRequest EXCEPT !.pc = "answered", !.answer = cache.data]
              ELSE Called(IdleRequest, "scan", oldest))
    /\ UNCHANGED <<marketData, cache, marked, batches, rivals>>

DeepRoute(r) ==
    /\ request[r].pc = "idle"
    /\ cache' = Cleared
    /\ \E oldest \in Oldest(OnTheWay) :
        request' = [q \in Request |->
            IF q = r THEN Called(IdleRequest, "deep", oldest)
                     ELSE [request[q] EXCEPT !.cleared = request[q].pc \in InThread]]
    /\ UNCHANGED <<marketData, marked, batches, rivals>>

Direct(r) ==
    /\ request[r].pc = "idle"
    /\ \E kind \in {"export", "direct"}, oldest \in Oldest(Usable) :
        SetRequest(r, Called(IdleRequest, kind, oldest))
    /\ UNCHANGED <<marketData, cache, marked, batches, rivals>>

(***************************************************************************)
(* run_scan, in its thread.                                                *)
(***************************************************************************)
FinishRun(r, pc, data) ==
    SetRequest(r, IF request[r].waiting
           THEN [request[r] EXCEPT !.pc = pc, !.answer = data, !.data = NoData]
           ELSE IdleRequest)

LookUpResult(r) ==
    /\ request[r].pc = "called"
    /\ IF ~_is_stale THEN FinishRun(r, "answered", cache.data)
                     ELSE SetRequest(r, [request[r] EXCEPT !.pc = "fetch"])
    /\ UNCHANGED <<marketData, cache, marked, batches, rivals>>

FetchMarket(r) ==
    /\ request[r].pc = "fetch"
    /\ SetRequest(r, [request[r] EXCEPT !.pc = "store", !.data = marketData])
    /\ UNCHANGED <<marketData, cache, marked, batches, rivals>>

\* No OHLCV data at all: the only error of the pipeline that is not absorbed.
FetchMarketFails(r) ==
    /\ request[r].pc = "fetch"
    /\ FinishRun(r, "failed", NoData)
    /\ UNCHANGED <<marketData, cache, marked, batches, rivals>>

StoreResult(r) ==
    /\ request[r].pc = "store"
    /\ cache' = [data |-> request[r].data, fresh |-> TRUE]
    /\ SetRequest(r, [request[r] EXCEPT !.pc = "read"])
    /\ UNCHANGED <<marketData, marked, batches, rivals>>

\* A result without candles is answered and not stored.
AnswerUncached(r) ==
    /\ request[r].pc = "store"
    /\ FinishRun(r, "answered", request[r].data)
    /\ UNCHANGED <<marketData, cache, marked, batches, rivals>>

\* _cache[symbol] is read back by key: another thread's result may be there by
\* now, or, after a clear, none.
ReadBack(r) ==
    /\ request[r].pc = "read"
    /\ IF cache = NoEntry THEN FinishRun(r, "failed", NoData)
                          ELSE FinishRun(r, "answered", cache.data)
    /\ UNCHANGED <<marketData, cache, marked, batches, rivals>>

\* asyncio.wait_for gives the client a 408; the thread is not stopped.
RouteTimesOut(r) ==
    /\ request[r].kind # "direct" /\ request[r].waiting
    /\ request[r].pc \in InThread
    /\ SetRequest(r, [request[r] EXCEPT !.waiting = FALSE])
    /\ UNCHANGED <<marketData, cache, marked, batches, rivals>>

Leaves(r) ==
    /\ request[r].pc \in {"answered", "failed"}
    /\ SetRequest(r, IdleRequest)
    /\ UNCHANGED <<marketData, cache, marked, batches, rivals>>

(***************************************************************************)
(* The batch route: the cooldown is tested, the watchlist is awaited, and  *)
(* only then the run is recorded.                                          *)
(***************************************************************************)
can_run_batch == ~marked

BatchAsks(r) ==
    /\ request[r].pc = "idle"
    /\ can_run_batch
    /\ SetRequest(r, [IdleRequest EXCEPT !.pc = "allowed", !.kind = "direct"])
    /\ UNCHANGED <<marketData, cache, marked, batches, rivals>>

\* An empty watchlist costs nothing.
BatchIsEmpty(r) ==
    /\ request[r].pc = "allowed"
    /\ SetRequest(r, IdleRequest)
    /\ UNCHANGED <<marketData, cache, marked, batches, rivals>>

Allowed == {r \in Request : request[r].pc = "allowed"}

mark_batch_run == marked' = TRUE

BatchRuns(r) ==
    /\ request[r].pc = "allowed"
    /\ mark_batch_run
    /\ batches' = batches + 1
    /\ rivals' = IF marked THEN rivals ELSE Cardinality(Allowed \ {r})
    /\ \E oldest \in Oldest(Usable) : SetRequest(r, Called(request[r], "direct", oldest))
    /\ UNCHANGED <<marketData, cache>>

\* Five minutes after the last run.
CooldownEnds ==
    /\ marked
    /\ marked' = FALSE /\ batches' = 0 /\ rivals' = 0
    /\ UNCHANGED <<marketData, cache, request>>

\* The cache and the cooldown are in memory only.
ProcessRestarts ==
    /\ cache # NoEntry \/ marked \/ \E r \in Request : request[r] # IdleRequest
    /\ cache' = NoEntry
    /\ request' = [r \in Request |-> IdleRequest]
    /\ marked' = FALSE /\ batches' = 0 /\ rivals' = 0
    /\ UNCHANGED marketData

-----------------------------------------------------------------------------
CacheNext ==
    \/ EntryExpires \/ MarketMoves \/ CooldownEnds \/ ProcessRestarts
    \/ \E r \in Request :
        \/ ScanRoute(r) \/ DeepRoute(r) \/ Direct(r)
        \/ LookUpResult(r) \/ FetchMarket(r) \/ FetchMarketFails(r) \/ StoreResult(r) \/ AnswerUncached(r)
        \/ ReadBack(r) \/ RouteTimesOut(r) \/ Leaves(r)
        \/ BatchAsks(r) \/ BatchIsEmpty(r) \/ BatchRuns(r)

CacheSpec == CacheInit /\ [][CacheNext]_cacheVars

-----------------------------------------------------------------------------
(***************************************************************************)
(* Properties.                                                             *)
(***************************************************************************)

\* Whichever thread's result is read back, no request is answered with older data than
\* it could have been when it was asked: a fresh entry, or what a thread had fetched or
\* was about to.  A deep scan clears the entry first, so what was cached is not among it
\* (run_scan, the store and the read by key; deep_scan_symbol, "Clears the in-memory
\* cache").
AnswersAreFresh ==
    \A r \in Request : request[r].pc = "answered" => request[r].answer >= request[r].floor

\* The KeyError of run_scan's read by key has one cause: another request cleared the
\* symbol while this one ran.  Nothing else takes away what it has just stored.
FailsByClearOnly ==
    \A r \in Request : request[r].pc = "read" /\ cache = NoEntry => request[r].cleared

\* A user runs one batch in a cooldown, and one more for each request that had passed
\* the test and not yet been recorded when the first of them was: those requests that
\* overlapped, not those that came later (batch_scan: can_run_batch, the await of the
\* watchlist, mark_batch_run).
BatchesAreRare == batches <= 1 + rivals

\* What the response cache keeps in every state, whatever requests, threads and restarts do
\* to it: an answer is no older than what could be used when it was asked for, the entry a
\* run has stored is there for it unless a clear took it, and only requests that overlapped
\* the first get past the batch limit.
CacheInv ==
    /\ CacheTypeOK
    /\ AnswersAreFresh
    /\ FailsByClearOnly
    /\ BatchesAreRare

=============================================================================
