----------------------------- MODULE MCServices -----------------------------
(***************************************************************************)
(* Small instances for TLC of the services of the backend that share no    *)
(* state: a behaviour is one of exactly one of them, chosen at the start.  *)
(***************************************************************************)
EXTENDS ScanCache, AlertChannels, PortfolioSync, CollectorIngest, Watchlist, CandleSeries,
        PriceAlerts, RealtimeSignals, Journal

CONSTANTS u1, btc, long, trend, zone, retest, t1

MCOwner == [c \in Channel |-> u1]
MCReportOf == [b \in Body |-> IF b = "b3" THEN Rejected ELSE "r1"]

\* The journal is looked at in three ways: two requests that create entries while positions
\* and scans are stored, one request while everything else happens, and two requests on the
\* entries themselves.
PH(side, pnl, open, close) ==
    [symbol |-> "btc", exchange |-> "mexc", side |-> side, pnl |-> pnl, open |-> open,
     close |-> close]
MCClosed == {PH("long", 3, 0, 0), PH("short", -2, Unknown, 0)}
JB(position, tags) == [symbol |-> "btc", exchange |-> None, position |-> position, tags |-> tags]
MCBody == {JB(Unknown, <<>>), JB(1, <<"scalp">>)}
MCTagUpdate == {<<"scalp", "scalp">>}
MCScanOutcome == {[symbol |-> "btc", direction |-> "LONG", score |-> 25]}
JournalFocus == {"journal links", "journal", "journal entries"}

\* The watchlist is looked at in two ways: one user with three pairs, who adds and removes
\* in one request and reorders in another, and two users whose requests do everything to two
\* rows.
WatchlistFocus == {"watchlist order", "watchlist"}
Adds == {"place", "insert", "inserted"}
PairsInTurn == <<"p1", "p2", "p3">>

VARIABLE service

Doing(v) == visitor'[v].pc
OrderFocused ==
    \/ /\ service = "watchlist order"
       /\ Doing("v1") # "reorder" /\ Doing("v2") \in {"away", "reorder"}
       /\ \A v \in Visitor : Doing(v) \in Adds \cup {"reorder"} => visitor'[v].owner = "o1"
       /\ Doing("v1") = "place" =>
              \E n \in 1..3 : /\ visitor'["v1"].pair = PairsInTurn[n]
                             /\ \A m \in 1..(n - 1) : IsListed("o1", PairsInTurn[m])
    \/ /\ service = "watchlist"
       /\ Taken' \subseteq {1, 2}
       /\ \A v \in Visitor :
              /\ Doing(v) = "place" => visitor'[v].pair # "p3"
              /\ Doing(v) = "insert" => visitor'[v].order < 2
              /\ Doing(v) = "reorder" =>
                     \A i \in DOMAIN visitor'[v].places : visitor'[v].places[i] < 2

At(r) == tasks'[r].at
TagsKept == \A e \in DOMAIN entries \cap DOMAIN entries' : entries'[e].tags = entries[e].tags
Focused ==
    \/ /\ service = "journal links" /\ TagsKept /\ DOMAIN closed \subseteq DOMAIN closed'
       /\ \A r \in JournalRequest : At(r) \notin {"write", "erase"}
    \/ /\ service = "journal" /\ TagsKept
       /\ \A r \in JournalRequest : r # "r1" => tasks'[r] = tasks[r]
       /\ At("r1") # "write"
    \/ /\ service = "journal entries" /\ UNCHANGED <<journalClock, closed, scanRows>>
       /\ At("r2") # "link"

MCVars ==
    <<service, cacheVars, channelVars, syncVars, ingestVars, watchlistVars, candleVars, priceVars,
      vars, journalVars>>

MCInit ==
    /\ service \in {"cache", "channels", "sync", "ingest", "candles", "alerts", "realtime"}
                   \cup WatchlistFocus \cup JournalFocus
    /\ CacheInit /\ ChannelsInit /\ SyncInit /\ IngestInit /\ WatchlistInit /\ CandleInit
    /\ PriceInit /\ Init /\ JournalInit

MCNext ==
    /\ UNCHANGED service
    /\ \/ /\ service = "cache" /\ CacheNext
          /\ UNCHANGED <<channelVars, syncVars, ingestVars, watchlistVars, candleVars, priceVars, vars, journalVars>>
       \/ /\ service = "channels" /\ ChannelsNext
          /\ UNCHANGED <<cacheVars, syncVars, ingestVars, watchlistVars, candleVars, priceVars, vars, journalVars>>
       \/ /\ service = "sync" /\ SyncNext
          /\ UNCHANGED <<cacheVars, channelVars, ingestVars, watchlistVars, candleVars, priceVars, vars, journalVars>>
       \/ /\ service = "ingest" /\ IngestNext
          /\ UNCHANGED <<cacheVars, channelVars, syncVars, watchlistVars, candleVars, priceVars, vars, journalVars>>
       \/ /\ service \in WatchlistFocus /\ WatchlistNext /\ OrderFocused
          /\ UNCHANGED <<cacheVars, channelVars, syncVars, ingestVars, candleVars, priceVars, vars, journalVars>>
       \/ /\ service = "candles" /\ CandleNext
          /\ UNCHANGED <<cacheVars, channelVars, syncVars, ingestVars, watchlistVars, priceVars, vars, journalVars>>
       \/ /\ service = "alerts" /\ PriceNext
          /\ UNCHANGED <<cacheVars, channelVars, syncVars, ingestVars, watchlistVars, candleVars,
                         vars, journalVars>>
       \/ /\ service = "realtime" /\ Next
          /\ UNCHANGED <<cacheVars, channelVars, syncVars, ingestVars, watchlistVars, candleVars,
                         priceVars, journalVars>>
       \/ /\ service \in JournalFocus /\ JournalNext /\ Focused
          /\ UNCHANGED <<cacheVars, channelVars, syncVars, ingestVars, watchlistVars, candleVars,
                         priceVars, vars>>

MCSpec == MCInit /\ [][MCNext]_MCVars

=============================================================================
