-------------------------- MODULE ServicesProofs ---------------------------
(***************************************************************************)
(* Theorems about the services of the backend that share no state, for every *)
(* set of requests, bodies, accounts and caps.                             *)
(***************************************************************************)
EXTENDS AlertChannels, PortfolioSync, CollectorIngest, ScanCache, Watchlist, Journal, FiniteSetTheorems,
        WellFoundedInduction, TLAPS

-----------------------------------------------------------------------------
(***************************************************************************)
(* AlertChannels: the caps of the settings routes.                         *)
(***************************************************************************)
\* The write reservation belongs to the request that is about to count or to
\* insert under it, and what it counted cannot change before it inserts.
ReservedInv ==
    /\ ChannelsTypeOK
    /\ \A v \in Visit : visit[v] \in {"recount", "insert"} <=> lock = v
    /\ \A v \in Visit : visit[v] = "insert" => BelowCap
    /\ CapHolds

LEMMA ChannelsInitOK == ChannelsInit => ReservedInv
BY ChannelsAssumption
   DEF ChannelsInit, ReservedInv, ChannelsTypeOK, CapHolds, ChannelType, Nobody

\* A request that takes a step of its own leaves the others where they are.
LEMMA MovesType ==
    ASSUME ChannelsTypeOK, NEW v \in Visit,
           NEW from \in {"idle", "resolving", "reserve", "recount", "insert", "noEmail"},
           NEW to \in {"idle", "resolving", "reserve", "recount", "insert", "noEmail"},
           Moves(v, from, to)
    PROVE  /\ visit' \in [Visit -> {"idle", "resolving", "reserve", "recount", "insert", "noEmail"}]
           /\ visit[v] = from /\ visit'[v] = to
           /\ \A w \in Visit \ {v} : visit'[w] = visit[w]
BY DEF ChannelsTypeOK, Moves

\* No step of a request breaks the reservation.
LEMMA VisitPreserves ==
    ASSUME ReservedInv, NEW v \in Visit,
           \/ FirstCount(v) \/ Resolved(v) \/ BeginImmediate(v) \/ BeginFails(v)
           \/ Recount(v) \/ InsertAndCommit(v) \/ InsertFails(v)
           \/ FindEmail(v) \/ InsertEmail(v)
    PROVE  ReservedInv'
<1> USE ChannelsAssumption
<1>t. ChannelsTypeOK
  BY DEF ReservedInv
<1>1. CASE FirstCount(v)
  <2>1. Moves(v, "idle", "resolving") /\ UNCHANGED <<rows, lock>>
    BY <1>1 DEF FirstCount
  <2> QED BY <2>1, <1>t, MovesType DEF ReservedInv, ChannelsTypeOK, CapHolds, BelowCap
<1>2. CASE Resolved(v)
  <2>1. PICK to \in {"idle", "reserve"} : Moves(v, "resolving", to) /\ UNCHANGED <<rows, lock>>
    BY <1>2 DEF Resolved
  <2> QED BY <2>1, <1>t, MovesType DEF ReservedInv, ChannelsTypeOK, CapHolds, BelowCap
<1>3. CASE BeginImmediate(v)
  <2>1. /\ Free /\ Moves(v, "reserve", "recount") /\ lock' = v /\ UNCHANGED rows
    BY <1>3 DEF BeginImmediate
  <2>2. \A w \in Visit : visit[w] \notin {"recount", "insert"}
    BY <2>1 DEF ReservedInv, Free, Nobody
  <2> QED BY <2>1, <2>2, <1>t, MovesType DEF ReservedInv, ChannelsTypeOK, CapHolds, BelowCap
<1>4. CASE BeginFails(v)
  <2>1. Moves(v, "reserve", "idle") /\ UNCHANGED <<rows, lock>>
    BY <1>4 DEF BeginFails
  <2> QED BY <2>1, <1>t, MovesType DEF ReservedInv, ChannelsTypeOK, CapHolds, BelowCap
<1>5. CASE Recount(v)
  <2>1. CASE BelowCap
    <3>1. Moves(v, "recount", "insert") /\ UNCHANGED <<rows, lock>>
      BY <1>5, <2>1 DEF Recount
    <3> QED BY <2>1, <3>1, <1>t, MovesType DEF ReservedInv, ChannelsTypeOK, CapHolds, BelowCap
  <2>2. CASE ~BelowCap
    <3>1. Moves(v, "recount", "idle") /\ lock' = Nobody /\ UNCHANGED rows
      BY <1>5, <2>2 DEF Recount
    <3>2. lock = v
      BY <3>1, <1>t, MovesType DEF ReservedInv
    <3> QED BY <3>1, <3>2, <1>t, MovesType DEF ReservedInv, ChannelsTypeOK, CapHolds, BelowCap
  <2> QED BY <2>1, <2>2
<1>6. CASE InsertAndCommit(v)
  <2>1. /\ Moves(v, "insert", "idle") /\ lock' = Nobody
        /\ rows' = [rows EXCEPT !["webhook"] = @ + 1]
    BY <1>6 DEF InsertAndCommit
  <2>2. lock = v /\ BelowCap
    BY <2>1, <1>t, MovesType DEF ReservedInv
  <2>3. rows' \in [ChannelType -> Nat] /\ rows'["webhook"] <= MAX_WEBHOOK_CHANNELS_PER_USER
    BY <2>1, <2>2, <1>t DEF BelowCap, ChannelsTypeOK, ChannelType
  <2>4. \A w \in Visit : visit'[w] \notin {"recount", "insert"}
    BY <2>1, <2>2, <1>t, MovesType DEF ReservedInv
  <2> QED BY <2>1, <2>3, <2>4, <1>t, MovesType DEF ReservedInv, ChannelsTypeOK, CapHolds
<1>7. CASE InsertFails(v)
  <2>1. Moves(v, "insert", "idle") /\ lock' = Nobody /\ UNCHANGED rows
    BY <1>7 DEF InsertFails
  <2>2. lock = v
    BY <2>1, <1>t, MovesType DEF ReservedInv
  <2> QED BY <2>1, <2>2, <1>t, MovesType DEF ReservedInv, ChannelsTypeOK, CapHolds, BelowCap
<1>8. CASE FindEmail(v)
  <2>1. Moves(v, "idle", "noEmail") /\ UNCHANGED <<rows, lock>>
    BY <1>8 DEF FindEmail
  <2> QED BY <2>1, <1>t, MovesType DEF ReservedInv, ChannelsTypeOK, CapHolds, BelowCap
<1>9. CASE InsertEmail(v)
  <2>1. /\ Moves(v, "noEmail", "idle") /\ UNCHANGED lock
        /\ rows' = [rows EXCEPT !["email"] = @ + 1]
    BY <1>9 DEF InsertEmail
  <2>2. rows' \in [ChannelType -> Nat] /\ rows'["webhook"] = rows["webhook"]
    BY <2>1, <1>t DEF ChannelsTypeOK, ChannelType
  <2> QED BY <2>1, <2>2, <1>t, MovesType DEF ReservedInv, ChannelsTypeOK, CapHolds, BelowCap
<1> QED BY <1>1, <1>2, <1>3, <1>4, <1>5, <1>6, <1>7, <1>8, <1>9

\* The other writers need the reservation to be free: nobody has counted.
LEMMA OthersPreserve ==
    ASSUME ReservedInv, NEW type \in ChannelType,
           \/ type \in {"email", "telegram"} /\ CreateOther(type)
           \/ DeleteChannel(type)
    PROVE  ReservedInv'
<1>t. ChannelsTypeOK /\ UNCHANGED <<lock, visit>>
  BY DEF ReservedInv, CreateOther, DeleteChannel
<1>1. \A v \in Visit : visit[v] # "insert"
  BY ChannelsAssumption DEF ReservedInv, Free, CreateOther, DeleteChannel
<1>2. rows' \in [ChannelType -> Nat] /\ rows'["webhook"] <= rows["webhook"]
  <2>1. CASE type \in {"email", "telegram"} /\ CreateOther(type)
    BY <2>1, <1>t DEF CreateOther, ChannelsTypeOK, ChannelType
  <2>2. CASE DeleteChannel(type)
    <3>1. rows[type] \in Nat /\ rows[type] > 0 /\ rows' = [rows EXCEPT ![type] = rows[type] - 1]
      BY <2>2, <1>t DEF DeleteChannel, ChannelsTypeOK
    <3>2. rows[type] - 1 \in Nat /\ rows[type] - 1 <= rows[type]
      BY <3>1
    <3> QED BY <3>1, <3>2, <1>t DEF ChannelsTypeOK, ChannelType
  <2> QED BY <2>1, <2>2
<1>3. CapHolds'
  BY <1>2, <1>t, ChannelsAssumption DEF ReservedInv, CapHolds, ChannelsTypeOK, ChannelType
<1> QED BY <1>t, <1>1, <1>2, <1>3 DEF ReservedInv, ChannelsTypeOK

LEMMA ChannelsStep == ReservedInv /\ [ChannelsNext]_channelVars => ReservedInv'
<1> SUFFICES ASSUME ReservedInv, [ChannelsNext]_channelVars PROVE ReservedInv'
  OBVIOUS
<1>1. CASE UNCHANGED channelVars
  BY <1>1 DEF channelVars, ReservedInv, ChannelsTypeOK, CapHolds, BelowCap
<1>2. ASSUME NEW v \in Visit,
             \/ FirstCount(v) \/ Resolved(v) \/ BeginImmediate(v) \/ BeginFails(v)
             \/ Recount(v) \/ InsertAndCommit(v) \/ InsertFails(v)
             \/ FindEmail(v) \/ InsertEmail(v)
      PROVE  ReservedInv'
  BY <1>2, VisitPreserves
<1>3. ASSUME NEW type \in {"email", "telegram"}, CreateOther(type) PROVE ReservedInv'
  BY <1>3, OthersPreserve DEF ChannelType
<1>4. ASSUME NEW type \in ChannelType, DeleteChannel(type) PROVE ReservedInv'
  BY <1>4, OthersPreserve
<1> QED BY <1>1, <1>2, <1>3, <1>4 DEF ChannelsNext

\* However many requests run, the cap of webhook channels holds, and the write
\* reservation is held only by a request that is about to use it
\* (create_alert_channel).
THEOREM ChannelsSafe == ChannelsSpec => []ChannelsInv
<1>1. ReservedInv => ChannelsInv
  BY DEF ReservedInv, ChannelsInv, ReservationIsUsed, Free, ChannelsTypeOK
<1> QED BY ChannelsInitOK, ChannelsStep, <1>1, PTL DEF ChannelsSpec

-----------------------------------------------------------------------------
(***************************************************************************)
(* PortfolioSync: what a recorded coverage is worth.                       *)
(***************************************************************************)
\* A synchronisation under way knows whose account it reads, and looks its first
\* row up when it has fetched everything.
OwnInv ==
    \A j \in SyncJob :
        /\ syncing[j].pc # "idle" => syncing[j].of \in SyncAccount
        /\ syncing[j].pc = "looked" => Unfetched(j) = {}

SyncIInv == SyncInv /\ OwnInv

LEMMA NeverIsNoMoment == Never \notin SyncMoment /\ SyncMoment \subseteq Nat
BY SyncAssumption DEF Never, SyncMoment

LEMMA NoSyncType == NoSync \in Synchronisation /\ NoSync.pc = "idle"
BY DEF NoSync, Synchronisation

LEMMA EmptyTablesType == EmptyTables \in Tables
BY DEF EmptyTables, Tables, Coverage

LEMMA SyncInitOK == SyncInit => SyncIInv
<1> SUFFICES ASSUME SyncInit PROVE SyncIInv
  OBVIOUS
<1>1. 0 \in SyncMoment
  BY SyncAssumption DEF SyncMoment
<1>2. SyncTypeOK
  BY <1>1, NoSyncType, EmptyTablesType DEF SyncInit, SyncTypeOK
<1>3. CompleteIsBacked
  BY DEF SyncInit, EmptyTables, NoCoverage, CompleteIsBacked
<1> QED BY <1>2, <1>3, NoSyncType DEF SyncInit, SyncIInv, SyncInv, OwnInv

\* A synchronisation that ends leaves nothing behind in its variables.
LEMMA EndingPreserves ==
    ASSUME SyncIInv, NEW j \in SyncJob, syncing' = [syncing EXCEPT ![j] = NoSync]
    PROVE  syncing' \in [SyncJob -> Synchronisation] /\ OwnInv'
BY NoSyncType DEF SyncIInv, SyncInv, SyncTypeOK, OwnInv, Unfetched

\* Once every stream is fetched, each has its moment.
LEMMA FetchedType ==
    ASSUME SyncTypeOK, NEW j \in SyncJob, Unfetched(j) = {},
           NEW s \in StreamsOf(syncing[j].kind)
    PROVE  syncing[j].got[s] \in SyncMoment
<1>1. syncing[j] \in Synchronisation
  BY DEF SyncTypeOK
<1>2. s \in SyncStream
  BY DEF StreamsOf, SyncStream
<1>3. syncing[j].got[s] \in SyncMoment \cup {Never}
  BY <1>1, <1>2 DEF Synchronisation
<1>4. syncing[j].got[s] # Never
  BY DEF Unfetched
<1> QED BY <1>3, <1>4

LEMMA RowsType ==
    ASSUME SyncIInv, NEW j \in SyncJob, syncing[j].pc # "idle", Unfetched(j) = {},
           NEW s \in StreamsOf(syncing[j].kind)
    PROVE  RowsOf(j, s) \subseteq SyncAccount \X SyncMoment
<1>1. syncing[j].got[s] \in 0..MaxMoment
  BY FetchedType DEF SyncIInv, SyncInv, SyncMoment
<1>2. \A m \in 1..syncing[j].got[s] : m \in SyncMoment
  BY <1>1, SyncAssumption DEF SyncMoment
<1>3. syncing[j].of \in SyncAccount
  BY DEF SyncIInv, OwnInv
<1> QED BY <1>2, <1>3 DEF RowsOf

\* What one transaction stores: when it calls the capital stream complete, it has
\* stored, or found stored, all the rows of that stream.
LEMMA PersistedPreserves ==
    ASSUME SyncIInv, NEW j \in SyncJob, syncing[j].pc # "idle", Unfetched(j) = {},
           NEW ledger \in RowsRead(j), tables' = Persisted(j, ledger)
    PROVE  tables' \in Tables /\ CompleteIsBacked'
<1> DEFINE run == syncing[j]
<1>r. run \in Synchronisation /\ tables \in Tables
  BY DEF SyncIInv, SyncInv, SyncTypeOK
<1>s. {"history", "capital"} \subseteq StreamsOf(run.kind)
  BY DEF StreamsOf, SyncStream
<1>1. RowsOf(j, "history") \subseteq SyncAccount \X SyncMoment
      /\ RowsOf(j, "capital") \subseteq SyncAccount \X SyncMoment
  BY <1>s, RowsType
<1>2. ledger \subseteq RowsOf(j, "capital")
  BY DEF RowsRead
<1>3. run.of \in SyncAccount /\ run.got["capital"] \in SyncMoment /\ run.partial \in BOOLEAN
  BY <1>r, <1>s, FetchedType DEF SyncIInv, SyncInv, OwnInv, Synchronisation
<1>4. Covered(j) \in Coverage
  BY <1>3 DEF Covered, Coverage
<1> DEFINE snaps == IF run.kind = "refresh" THEN {<<run.of, run.got["account"]>>} ELSE {}
<1>5. snaps \subseteq SyncAccount \X SyncMoment
  <2>1. CASE run.kind = "refresh"
    <3>1. "account" \in StreamsOf(run.kind)
      BY <2>1 DEF StreamsOf, SyncStream
    <3>2. run.got["account"] \in SyncMoment
      BY <3>1, FetchedType DEF SyncIInv, SyncInv
    <3> QED BY <3>2, <1>3
  <2>2. CASE run.kind # "refresh"
    BY <2>2
  <2> QED BY <2>1, <2>2
<1> DEFINE kept == tables.portfolio \/ run.kind = "refresh"
           history == tables.history \cup RowsOf(j, "history")
           snapshots == tables.snapshots \cup snaps
           entered == tables.ledger \cup ledger
<1>6. tables' = [portfolio |-> kept, history |-> history, snapshots |-> snapshots,
                 ledger |-> entered, coverage |-> Covered(j)]
  BY <1>r DEF Persisted, Tables
<1>7. kept \in BOOLEAN
  OBVIOUS
<1>8. /\ history \in SUBSET (SyncAccount \X SyncMoment)
      /\ snapshots \in SUBSET (SyncAccount \X SyncMoment)
      /\ entered \in SUBSET (SyncAccount \X SyncMoment)
  BY <1>r, <1>1, <1>2, <1>5 DEF Tables
<1>9. tables' \in Tables
  <2> HIDE DEF kept, history, snapshots, entered
  <2> QED BY <1>4, <1>6, <1>7, <1>8 DEF Tables
<1>10. CompleteIsBacked'
  <2>1. CASE run.partial
    <3>1. tables'.coverage = Covered(j)
      BY <1>6
    <3>2. Covered(j).complete = FALSE
      BY <2>1 DEF Covered
    <3> QED BY <3>1, <3>2 DEF CompleteIsBacked
  <2>2. CASE ~run.partial
    <3>1. ledger = RowsOf(j, "capital")
      BY <2>2 DEF RowsRead
    <3>2. tables'.coverage.of = run.of /\ tables'.coverage.at = run.got["capital"]
      BY <1>6 DEF Covered
    <3>3. tables'.ledger = tables.ledger \cup ledger
      BY <1>6
    <3> QED BY <3>1, <3>2, <3>3 DEF CompleteIsBacked, RowsOf
  <2> QED BY <2>1, <2>2, <1>3
<1> QED BY <1>9, <1>10

-----------------------------------------------------------------------------
LEMMA ConnectPreserves ==
    ASSUME SyncIInv,
           (\E a \in SyncAccount : ConnectExchange(a)) \/ DisconnectExchange
    PROVE  SyncIInv'
<1>1. ASSUME NEW a \in SyncAccount, ConnectExchange(a) PROVE SyncIInv'
  BY <1>1 DEF ConnectExchange, SyncIInv, SyncInv, SyncTypeOK, CompleteIsBacked, OwnInv, Unfetched
<1>2. CASE DisconnectExchange
  <2>1. /\ connected' = NoAccount /\ UNCHANGED <<happened, syncing>>
        /\ tables' = [tables EXCEPT !.portfolio = FALSE, !.history = {}]
    BY <1>2 DEF DisconnectExchange
  <2>2. tables \in Tables
    BY DEF SyncIInv, SyncInv, SyncTypeOK
  <2>3. tables' \in Tables /\ tables'.coverage = tables.coverage /\ tables'.ledger = tables.ledger
    BY <2>1, <2>2 DEF Tables
  <2> QED BY <2>1, <2>3 DEF SyncIInv, SyncInv, SyncTypeOK, CompleteIsBacked, OwnInv, Unfetched
<1> QED BY <1>1, <1>2

LEMMA HappensPreserves ==
    ASSUME SyncIInv, NEW a \in SyncAccount, Happens(a)
    PROVE  SyncIInv'
<1>1. happened \in [SyncAccount -> SyncMoment]
  BY DEF SyncIInv, SyncInv, SyncTypeOK
<1>2. happened[a] + 1 \in SyncMoment
  BY <1>1, SyncAssumption DEF Happens, SyncMoment
<1>3. happened' \in [SyncAccount -> SyncMoment]
  BY <1>1, <1>2 DEF Happens
<1> QED BY <1>3 DEF Happens, SyncIInv, SyncInv, SyncTypeOK, CompleteIsBacked, OwnInv, Unfetched

\* A synchronisation reads; nothing that is stored changes.
LEMMA ReadingPreserves ==
    ASSUME SyncIInv, NEW j \in SyncJob,
           \/ \E kind \in {"refresh", "history"} : StartSync(j, kind)
           \/ \E s \in SyncStream, partial \in BOOLEAN : FetchStream(j, s, partial)
           \/ FetchStreamFails(j) \/ LookUpFirst(j) \/ PersistFails(j)
    PROVE  SyncIInv'
<1>t. SyncTypeOK
  BY DEF SyncIInv, SyncInv
<1>u. UNCHANGED <<happened, connected, tables>>
  BY DEF StartSync, FetchStream, FetchStreamFails, LookUpFirst, PersistFails
<1>r. syncing[j] \in Synchronisation
  BY <1>t DEF SyncTypeOK
<1>1. syncing' \in [SyncJob -> Synchronisation] /\ OwnInv'
  <2>1. ASSUME NEW kind \in {"refresh", "history"}, StartSync(j, kind)
        PROVE  syncing' \in [SyncJob -> Synchronisation] /\ OwnInv'
    <3>1. connected \in SyncAccount
      BY <2>1, <1>t DEF StartSync, SyncTypeOK
    <3>2. [NoSync EXCEPT !.pc = "fetching", !.kind = kind, !.of = connected] \in Synchronisation
      BY <3>1 DEF NoSync, Synchronisation
    <3>3. [NoSync EXCEPT !.pc = "fetching", !.kind = kind, !.of = connected].of = connected
      BY DEF NoSync
    <3> QED BY <2>1, <3>1, <3>2, <3>3, <1>t DEF StartSync, SyncTypeOK, OwnInv, SyncIInv, Unfetched
  <2>2. ASSUME NEW s \in SyncStream, NEW partial \in BOOLEAN, FetchStream(j, s, partial)
        PROVE  syncing' \in [SyncJob -> Synchronisation] /\ OwnInv'
    <3>1. syncing[j].of \in SyncAccount
      BY <2>2 DEF FetchStream, SyncIInv, OwnInv
    <3>2. happened[syncing[j].of] \in SyncMoment
      BY <3>1, <1>t DEF SyncTypeOK
    <3> DEFINE got == [syncing[j].got EXCEPT ![s] = happened[syncing[j].of]]
               p == syncing[j].partial \/ partial
               run == [syncing[j] EXCEPT !.got = got, !.partial = p]
    <3>3. got \in [SyncStream -> SyncMoment \cup {Never}] /\ p \in BOOLEAN
      BY <1>r, <3>2 DEF Synchronisation
    <3>4. run \in Synchronisation /\ run.of = syncing[j].of
      <4> HIDE DEF got, p
      <4> QED BY <3>3, <1>r DEF Synchronisation
    <3>5. syncing' = [syncing EXCEPT ![j] = run]
      BY <2>2, <1>r, <1>t DEF FetchStream, SyncTypeOK, Synchronisation
    <3>6. run.pc # "looked"
      BY <2>2, <1>r DEF FetchStream, Synchronisation
    <3> HIDE DEF run
    <3> QED BY <3>1, <3>4, <3>5, <1>t, <3>6 DEF SyncTypeOK, OwnInv, SyncIInv, Unfetched
  <2>3. CASE FetchStreamFails(j) \/ PersistFails(j)
    BY <2>3, EndingPreserves DEF FetchStreamFails, PersistFails
  <2>4. CASE LookUpFirst(j)
    <3>1. syncing[j].of \in SyncAccount
      BY <2>4 DEF LookUpFirst, SyncIInv, OwnInv
    <3> DEFINE first == IF <<syncing[j].of, syncing[j].got["history"]>> \in tables.history
                        THEN "present" ELSE "absent"
               run == [syncing[j] EXCEPT !.pc = "looked", !.first = first]
    <3>2. run \in Synchronisation /\ run.of = syncing[j].of
      BY <1>r DEF Synchronisation
    <3>3. syncing' = [syncing EXCEPT ![j] = run]
      BY <2>4, <1>r, <1>t DEF LookUpFirst, SyncTypeOK, Synchronisation
    <3>6. Unfetched(j) = {} /\ run.got = syncing[j].got /\ run.kind = syncing[j].kind
      BY <2>4, <1>r DEF LookUpFirst, Synchronisation
    <3> HIDE DEF run
    <3> QED BY <3>1, <3>2, <3>3, <1>t, <3>6 DEF SyncTypeOK, OwnInv, SyncIInv, Unfetched
  <2> QED BY <2>1, <2>2, <2>3, <2>4
<1> QED BY <1>1, <1>u DEF SyncIInv, SyncInv, SyncTypeOK, CompleteIsBacked

\* A synchronisation stores what it read in one transaction, or nothing.
LEMMA StoringPreserves ==
    ASSUME SyncIInv, NEW j \in SyncJob, PersistRefresh(j) \/ PersistHistory(j)
    PROVE  SyncIInv'
<1>t. SyncTypeOK /\ CompleteIsBacked
  BY DEF SyncIInv, SyncInv
<1>1. syncing' \in [SyncJob -> Synchronisation] /\ OwnInv'
  BY EndingPreserves DEF PersistRefresh, PersistHistory
<1>2. UNCHANGED <<happened, connected>>
  BY DEF PersistRefresh, PersistHistory
<1>3. tables' \in Tables /\ CompleteIsBacked'
  <2>1. CASE PersistRefresh(j)
    BY <2>1, PersistedPreserves DEF PersistRefresh
  <2>2. CASE PersistHistory(j) /\ tables' # tables
    <3>1. syncing[j].pc = "looked" /\ Unfetched(j) = {}
      BY <2>2 DEF PersistHistory, SyncIInv, OwnInv
    <3>2. PICK ledger \in RowsRead(j) : tables' = Persisted(j, ledger)
      BY <2>2 DEF PersistHistory
    <3> QED BY <3>1, <3>2, PersistedPreserves
  <2>3. CASE tables' = tables
    BY <2>3, <1>t DEF SyncTypeOK, CompleteIsBacked
  <2> QED BY <2>1, <2>2, <2>3
<1> QED BY <1>t, <1>1, <1>2, <1>3 DEF SyncIInv, SyncInv, SyncTypeOK

LEMMA SyncStep == SyncIInv /\ [SyncNext]_syncVars => SyncIInv'
<1> SUFFICES ASSUME SyncIInv, [SyncNext]_syncVars PROVE SyncIInv'
  OBVIOUS
<1>1. CASE UNCHANGED syncVars
  BY <1>1 DEF syncVars, SyncIInv, SyncInv, SyncTypeOK, CompleteIsBacked, OwnInv, Unfetched
<1>2. CASE SyncNext
  BY <1>2, ConnectPreserves, HappensPreserves, ReadingPreserves, StoringPreserves DEF SyncNext
<1> QED BY <1>1, <1>2

\* However synchronisations overlap, fail or are cut short, and whatever keys are
\* connected in between, a capital stream that is recorded as complete has all its
\* rows in the ledger (_persist_portfolio_data, _persist_history_data).
THEOREM CompleteCoverageIsBacked == SyncSpec => []SyncInv
<1>1. SyncIInv => SyncInv
  BY DEF SyncIInv
<1> QED BY SyncInitOK, SyncStep, <1>1, PTL DEF SyncSpec

-----------------------------------------------------------------------------
(***************************************************************************)
(* CollectorIngest: a nonce stands for one body and one verdict.           *)
(***************************************************************************)
Active(s) == submission[s] # NoSubmission
Verdict(e) == e.status # "received"
Validates(e) == e.status = "validated"

RunningSubmission == [pc: {"entered", "insert", "commit"}, nonce: Nonce, body: Body]

\* A nonce stands for one body, one running submission and one verdict.
NonceInv ==
    /\ \A r1, r2 \in replays : r1[1] = r2[1] => r1 = r2
    /\ \A e \in events : <<e.nonce, e.digest>> \in replays
    /\ \A e1, e2 \in events :
            Verdict(e1) /\ Verdict(e2) /\ e1.nonce = e2.nonce => e1 = e2
    /\ \A s \in Submission : Active(s) =>
        /\ <<submission[s].nonce, submission[s].body>> \in replays
        /\ \A e \in events : Verdict(e) => e.nonce # submission[s].nonce
        /\ \A t \in Submission :
                Active(t) /\ submission[t].nonce = submission[s].nonce => s = t
    /\ \A n \in failures : \E e \in events : e.nonce = n /\ e.status = "failed"
    /\ \A e \in events : e.status = "failed" => e.nonce \in failures

\* A report that is not a shell has its validation, and there is one for each id;
\* the submission that commits holds the write lock, under which it found none.
StoredInv ==
    /\ \A r \in reports : r.id # Rejected =>
            \E e \in events : Validates(e) /\ e.digest = r.digest
    /\ \A r \in reports : r.id = ReportOf[r.digest]
    /\ \A e \in events : Validates(e) =>
        /\ ReportOf[e.digest] # Rejected
        /\ [id |-> ReportOf[e.digest], digest |-> e.digest] \in reports
    /\ \A e1, e2 \in events :
            Validates(e1) /\ Validates(e2) /\ ReportOf[e1.digest] = ReportOf[e2.digest] => e1 = e2
    /\ \A s \in Submission : Active(s) =>
        /\ submission[s].pc \in {"insert", "commit"} => ReportIn(s) # Rejected
        /\ submission[s].pc = "commit" => ingestLock = s /\ Stored(s) = {}

IngestTypes ==
    /\ replays \subseteq Nonce \X Body
    /\ events \subseteq Event
    /\ failures \subseteq Nonce
    /\ reports \subseteq [id: {ReportOf[b] : b \in Body} \cup {Rejected}, digest: Body]
    /\ submission \in [Submission -> {NoSubmission} \cup RunningSubmission]
    /\ ingestLock # NobodyIngests =>
            ingestLock \in Submission /\ submission[ingestLock].pc = "commit"

IngestIInv == IngestTypes /\ NonceInv /\ StoredInv

-----------------------------------------------------------------------------
(* What a step of a submission does to the submissions. *)

LEMMA IdleIsNotRunning == NoSubmission \notin RunningSubmission /\ NoSubmission.pc = "idle"
BY DEF NoSubmission, RunningSubmission

LEMMA LeaveFacts ==
    ASSUME IngestTypes, NEW s \in Submission, Leave(s)
    PROVE  /\ submission' \in [Submission -> {NoSubmission} \cup RunningSubmission]
           /\ submission'[s] = NoSubmission
           /\ \A t \in Submission \ {s} : submission'[t] = submission[t]
BY DEF IngestTypes, Leave

LEMMA RunningFacts ==
    ASSUME IngestTypes, NEW s \in Submission, Active(s)
    PROVE  /\ submission[s] \in RunningSubmission
           /\ submission[s].pc \in {"entered", "insert", "commit"}
           /\ submission[s].nonce \in Nonce /\ submission[s].body \in Body
BY DEF IngestTypes, Active, RunningSubmission

LEMMA AdvanceFacts ==
    ASSUME IngestTypes, NEW s \in Submission, Active(s),
           NEW pc \in {"entered", "insert", "commit"}, Advance(s, pc)
    PROVE  /\ submission' \in [Submission -> {NoSubmission} \cup RunningSubmission]
           /\ submission'[s].pc = pc /\ submission'[s] # NoSubmission
           /\ submission'[s].nonce = submission[s].nonce
           /\ submission'[s].body = submission[s].body
           /\ \A t \in Submission \ {s} : submission'[t] = submission[t]
<1> DEFINE run == [submission[s] EXCEPT !.pc = pc]
<1>1. /\ run \in RunningSubmission /\ run.pc = pc
      /\ run.nonce = submission[s].nonce /\ run.body = submission[s].body
  BY RunningFacts DEF RunningSubmission
<1>2. submission' = [submission EXCEPT ![s] = run]
  BY DEF Advance, IngestTypes
<1> HIDE DEF run
<1> QED BY <1>1, <1>2, IdleIsNotRunning DEF IngestTypes

\* A submission that is not idle by its program counter is active.
LEMMA StepIsActive ==
    ASSUME IngestTypes, NEW s \in Submission, submission[s].pc \in {"entered", "insert", "commit"}
    PROVE  Active(s)
BY IdleIsNotRunning DEF Active

-----------------------------------------------------------------------------
(* Every action preserves the invariant. *)

LEMMA IngestInitOK == IngestInit => IngestIInv
BY DEF IngestInit, IngestIInv, IngestTypes, NonceInv, StoredInv, Active

LEMMA ReceivePreserves ==
    ASSUME IngestIInv, NEW s \in Submission, NEW n \in Nonce, NEW b \in Body,
           ReceiveReport(s, n, b)
    PROVE  IngestIInv'
<1> DEFINE run == [pc |-> "entered", nonce |-> n, body |-> b]
           event == [nonce |-> n, digest |-> b, status |-> "received"]
<1>t. IngestTypes /\ NonceInv /\ StoredInv
  BY DEF IngestIInv
<1>1. /\ submission[s] = NoSubmission /\ ingestLock = NobodyIngests
      /\ \A r \in replays : r[1] # n
      /\ replays' = replays \cup {<<n, b>>} /\ events' = events \cup {event}
      /\ submission' = [submission EXCEPT ![s] = run]
      /\ UNCHANGED <<failures, reports, ingestLock>>
  BY DEF ReceiveReport, Entered, IngestUnlocked
<1>2. run \in RunningSubmission /\ run # NoSubmission /\ event \in Event
      /\ ~Verdict(event) /\ ~Validates(event) /\ event.status # "failed"
  BY IdleIsNotRunning DEF RunningSubmission, Event, Verdict, Validates
<1>3. /\ submission' \in [Submission -> {NoSubmission} \cup RunningSubmission]
      /\ submission'[s] = run
      /\ \A t \in Submission \ {s} : submission'[t] = submission[t]
  BY <1>1, <1>2, <1>t DEF IngestTypes
<1>4. IngestTypes'
  BY <1>1, <1>2, <1>3, <1>t DEF IngestTypes
<1>5. /\ run.nonce = n /\ run.body = b /\ run.pc = "entered"
      /\ event.nonce = n /\ event.digest = b
  OBVIOUS
<1> HIDE DEF run, event
<1>6. \A e \in events : e.nonce # n
  BY <1>1, <1>t DEF NonceInv
<1>7. \A t \in Submission : Active(t) => submission[t].nonce # n
  BY <1>1, <1>t DEF NonceInv
<1>8. NonceInv'
  <2>1. \A r1, r2 \in replays' : r1[1] = r2[1] => r1 = r2
    BY <1>1, <1>t DEF NonceInv
  <2>2. \A e \in events' : <<e.nonce, e.digest>> \in replays'
    BY <1>1, <1>5, <1>t DEF NonceInv
  <2>3. \A e1, e2 \in events' : Verdict(e1) /\ Verdict(e2) /\ e1.nonce = e2.nonce => e1 = e2
    BY <1>1, <1>2, <1>t DEF NonceInv
  <2>4. ASSUME NEW t \in Submission, Active(t)'
        PROVE  /\ <<submission[t].nonce, submission[t].body>>' \in replays'
               /\ \A e \in events' : Verdict(e) => e.nonce # submission'[t].nonce
               /\ \A u \in Submission :
                    Active(u)' /\ submission'[u].nonce = submission'[t].nonce => t = u
    BY <2>4, <1>1, <1>2, <1>3, <1>5, <1>6, <1>7, <1>t DEF NonceInv, Active
  <2>5. \A m \in failures' : \E e \in events' : e.nonce = m /\ e.status = "failed"
    BY <1>1, <1>t DEF NonceInv
  <2>6. \A e \in events' : e.status = "failed" => e.nonce \in failures'
    BY <1>1, <1>2, <1>t DEF NonceInv
  <2> QED BY <2>1, <2>2, <2>3, <2>4, <2>5, <2>6 DEF NonceInv
<1>9. StoredInv'
  <2>1. \A e \in events' : Validates(e) => e \in events
    BY <1>1, <1>2
  <2>2. \A t \in Submission : Active(t)' => \/ t = s /\ submission'[t].pc = "entered"
                                            \/ Active(t) /\ submission'[t] = submission[t]
    BY <1>3, <1>5 DEF Active
  <2>3. \A t \in Submission : Active(t)' =>
            /\ submission'[t].pc \in {"insert", "commit"} => ReportIn(t)' # Rejected
            /\ submission'[t].pc = "commit" => ingestLock' = t /\ Stored(t)' = {}
    BY <2>2, <1>1, <1>t DEF StoredInv, ReportIn, Stored
  <2> QED BY <2>1, <2>3, <1>1, <1>t DEF StoredInv
<1> QED BY <1>4, <1>8, <1>9 DEF IngestIInv

LEMMA RejectPreserves ==
    ASSUME IngestIInv, NEW s \in Submission, NEW shell \in BOOLEAN, RejectBody(s, shell)
    PROVE  IngestIInv'
<1> DEFINE event == EventOf(s, "failed")
<1>t. IngestTypes /\ NonceInv /\ StoredInv
  BY DEF IngestIInv
<1>a. Active(s)
  BY <1>t, StepIsActive DEF RejectBody
<1>1. /\ ingestLock = NobodyIngests /\ ReportIn(s) = Rejected /\ Leave(s)
      /\ events' = events \cup {event} /\ failures' = failures \cup {submission[s].nonce}
      /\ UNCHANGED <<replays, ingestLock>>
      /\ \A r \in reports : r \in reports'
      /\ \A r \in reports' : r \in reports \/ r = [id |-> Rejected, digest |-> submission[s].body]
  BY DEF RejectBody, IngestUnlocked
<1>2. /\ event \in Event /\ event.nonce = submission[s].nonce
      /\ event.digest = submission[s].body /\ event.status = "failed"
  BY <1>t, <1>a, RunningFacts DEF EventOf, Event
<1> HIDE DEF event
<1>3. IngestTypes'
  <2>1. reports' \subseteq [id: {ReportOf[b] : b \in Body} \cup {Rejected}, digest: Body]
    BY <1>1, <1>t, <1>a, RunningFacts DEF IngestTypes
  <2> QED BY <2>1, <1>1, <1>2, <1>t, <1>a, RunningFacts, LeaveFacts DEF IngestTypes
<1>4. /\ \A t \in Submission : Active(t)' => t # s /\ Active(t) /\ submission'[t] = submission[t]
  BY <1>1, <1>t, LeaveFacts DEF Active
<1>5. NonceInv'
  <2>1. \A e \in events' : <<e.nonce, e.digest>> \in replays'
    BY <1>1, <1>2, <1>a, <1>t DEF NonceInv
  <2>u. \A e \in events : Verdict(e) => e.nonce # submission[s].nonce
    BY <1>a, <1>t DEF NonceInv
  <2>v. \A e \in events : Verdict(e) => e.nonce # event.nonce
    BY <2>u, <1>2
  <2>w. \A e1, e2 \in events : Verdict(e1) /\ Verdict(e2) /\ e1.nonce = e2.nonce => e1 = e2
    BY <1>t DEF NonceInv
  <2>2. \A e1, e2 \in events' : Verdict(e1) /\ Verdict(e2) /\ e1.nonce = e2.nonce => e1 = e2
    BY <2>v, <2>w, <1>1
  <2>3. ASSUME NEW t \in Submission, Active(t)'
        PROVE  /\ <<submission[t].nonce, submission[t].body>>' \in replays'
               /\ \A e \in events' : Verdict(e) => e.nonce # submission'[t].nonce
               /\ \A u \in Submission :
                    Active(u)' /\ submission'[u].nonce = submission'[t].nonce => t = u
    BY <2>3, <1>1, <1>2, <1>4, <1>a, <1>t DEF NonceInv
  <2>4. \A m \in failures' : \E e \in events' : e.nonce = m /\ e.status = "failed"
    BY <1>1, <1>2, <1>t DEF NonceInv
  <2>5. \A e \in events' : e.status = "failed" => e.nonce \in failures'
    BY <1>1, <1>2, <1>t DEF NonceInv
  <2> QED BY <2>1, <2>2, <2>3, <2>4, <2>5, <1>1, <1>t DEF NonceInv
<1>6. StoredInv'
  <2>1. \A e \in events' : Validates(e) => e \in events
    BY <1>1, <1>2 DEF Validates
  <2>2. /\ \A r \in reports' : r.id # Rejected => r \in reports
        /\ \A r \in reports' : r.id = ReportOf[r.digest]
    BY <1>1, <1>t DEF StoredInv, ReportIn
  <2>3. \A t \in Submission : Active(t)' =>
            /\ submission'[t].pc \in {"insert", "commit"} => ReportIn(t)' # Rejected
            /\ submission'[t].pc # "commit"
    BY <1>1, <1>4, <1>t, IngestAssumption DEF StoredInv, ReportIn
  <2> QED BY <2>1, <2>2, <2>3, <1>1, <1>t DEF StoredInv
<1> QED BY <1>3, <1>5, <1>6 DEF IngestIInv

\* Reading or taking the write lock changes no row; neither does leaving.
LEMMA UnstoredPreserves ==
    ASSUME IngestIInv, NEW s \in Submission,
           LookUpReport(s) \/ InsertReport(s) \/ Abort(s)
    PROVE  IngestIInv'
<1>t. IngestTypes /\ NonceInv /\ StoredInv
  BY DEF IngestIInv
<1>a. Active(s)
  <2>1. CASE LookUpReport(s) \/ InsertReport(s)
    BY <2>1, <1>t, StepIsActive DEF LookUpReport, InsertReport
  <2>2. CASE Abort(s)
    BY <2>2 DEF Abort, Active
  <2> QED BY <2>1, <2>2
<1>u. UNCHANGED <<replays, events, failures, reports>>
  BY DEF LookUpReport, InsertReport, Abort
<1>1. CASE Leave(s) /\ (ingestLock = s => ingestLock' = NobodyIngests)
                    /\ (ingestLock # s => ingestLock' = ingestLock)
  <2>1. \A t \in Submission : Active(t)' => t # s /\ Active(t) /\ submission'[t] = submission[t]
    BY <1>1, <1>t, LeaveFacts DEF Active
  <2>2. IngestTypes'
    BY <1>1, <1>t, <1>u, LeaveFacts DEF IngestTypes
  <2>3. NonceInv'
    BY <2>1, <1>u, <1>t DEF NonceInv
  <2>4. \A t \in Submission : Active(t)' =>
            /\ submission'[t].pc \in {"insert", "commit"} => ReportIn(t)' # Rejected
            /\ submission'[t].pc = "commit" => ingestLock' = t /\ Stored(t)' = {}
    BY <1>1, <2>1, <1>u, <1>t DEF StoredInv, ReportIn, Stored
  <2>5. StoredInv'
    BY <2>4, <1>u, <1>t DEF StoredInv
  <2> QED BY <2>2, <2>3, <2>5 DEF IngestIInv
<1>2. ASSUME NEW pc \in {"insert", "commit"}, Advance(s, pc), ReportIn(s) # Rejected,
             \A t \in Submission \ {s} : submission[t].pc = "commit" => pc = "insert",
             pc = "commit" => Stored(s) = {} /\ ingestLock' = s,
             pc = "insert" => submission[s].pc = "entered" /\ ingestLock' = ingestLock
      PROVE  IngestIInv'
  <2>1. /\ submission' \in [Submission -> {NoSubmission} \cup RunningSubmission]
        /\ submission'[s].pc = pc /\ submission'[s] # NoSubmission
        /\ submission'[s].nonce = submission[s].nonce
        /\ submission'[s].body = submission[s].body
        /\ \A t \in Submission \ {s} : submission'[t] = submission[t]
    BY <1>2, <1>t, <1>a, AdvanceFacts
  <2>2. \A t \in Submission : Active(t)' => /\ Active(t)
                                            /\ submission'[t].nonce = submission[t].nonce
                                            /\ submission'[t].body = submission[t].body
    BY <2>1, <1>a DEF Active
  <2>3. IngestTypes'
    BY <2>1, <1>2, <1>u, <1>t DEF IngestTypes
  <2>4. NonceInv'
    BY <2>2, <1>u, <1>t DEF NonceInv
  <2>5. ASSUME NEW t \in Submission, Active(t)'
        PROVE  /\ submission'[t].pc \in {"insert", "commit"} => ReportIn(t)' # Rejected
               /\ submission'[t].pc = "commit" => ingestLock' = t /\ Stored(t)' = {}
    <3>1. ReportIn(t)' = ReportIn(t) /\ Stored(t)' = Stored(t)
      BY <2>2, <2>5, <1>u DEF ReportIn, Stored
    <3>2. CASE t = s
      BY <3>1, <3>2, <2>1, <1>2
    <3>3. CASE t # s
      BY <3>1, <3>3, <2>1, <2>2, <2>5, <1>2, <1>t DEF StoredInv
    <3> QED BY <3>2, <3>3
  <2>6. StoredInv'
    BY <2>5, <1>u, <1>t DEF StoredInv
  <2> QED BY <2>3, <2>4, <2>6 DEF IngestIInv
<1>3. CASE LookUpReport(s)
  <2>1. submission[s].pc = "entered" /\ ReportIn(s) # Rejected /\ UNCHANGED ingestLock
    BY <1>3 DEF LookUpReport
  <2>2. CASE Stored(s) = {}
    BY <2>1, <2>2, <1>2, <1>3 DEF LookUpReport
  <2>3. CASE Stored(s) # {}
    <3>1. ingestLock # s
      BY <2>1, <1>t, IngestAssumption DEF IngestTypes
    <3> QED BY <2>1, <2>3, <3>1, <1>1, <1>3 DEF LookUpReport
  <2> QED BY <2>2, <2>3
<1>4. CASE InsertReport(s)
  <2>1. submission[s].pc = "insert" /\ ReportIn(s) # Rejected /\ ingestLock = NobodyIngests
    BY <1>4, <1>a, <1>t DEF InsertReport, StoredInv, IngestUnlocked
  <2>2. \A t \in Submission : submission[t].pc # "commit"
    <3> SUFFICES ASSUME NEW t \in Submission, submission[t].pc = "commit" PROVE FALSE
      OBVIOUS
    <3>1. Active(t)
      BY <1>t, StepIsActive
    <3> QED BY <3>1, <2>1, <1>t, IngestAssumption DEF StoredInv
  <2>3. CASE Stored(s) = {}
    <3>1. Advance(s, "commit") /\ ingestLock' = s
      BY <2>3, <1>4 DEF InsertReport
    <3> QED BY <3>1, <2>1, <2>2, <2>3, <1>2
  <2>4. CASE Stored(s) # {}
    <3>1. Leave(s) /\ UNCHANGED ingestLock /\ ingestLock # s
      BY <2>1, <2>4, <1>4, IngestAssumption DEF InsertReport
    <3> QED BY <3>1, <1>1
  <2> QED BY <2>3, <2>4
<1>5. CASE Abort(s)
  BY <1>5, <1>1 DEF Abort
<1> QED BY <1>3, <1>4, <1>5

LEMMA CommitPreserves ==
    ASSUME IngestIInv, NEW s \in Submission, CommitReport(s)
    PROVE  IngestIInv'
<1> DEFINE event == EventOf(s, "validated")
           report == [id |-> ReportIn(s), digest |-> submission[s].body]
<1>t. IngestTypes /\ NonceInv /\ StoredInv
  BY DEF IngestIInv
<1>a. Active(s)
  BY <1>t, StepIsActive DEF CommitReport
<1>1. /\ submission[s].pc = "commit" /\ Leave(s) /\ ingestLock' = NobodyIngests
      /\ reports' = reports \cup {report} /\ events' = events \cup {event}
      /\ UNCHANGED <<replays, failures>>
  BY DEF CommitReport
<1>2. /\ event \in Event /\ event.nonce = submission[s].nonce
      /\ event.digest = submission[s].body /\ event.status = "validated"
  BY <1>t, <1>a, RunningFacts DEF EventOf, Event
<1>3. /\ ReportIn(s) # Rejected /\ ingestLock = s /\ Stored(s) = {}
      /\ ReportIn(s) = ReportOf[submission[s].body]
  BY <1>1, <1>a, <1>t DEF StoredInv, ReportIn
<1>4. /\ report.id = ReportOf[event.digest] /\ report.digest = event.digest
      /\ report = [id |-> ReportOf[event.digest], digest |-> event.digest]
      /\ report \in [id: {ReportOf[b] : b \in Body} \cup {Rejected}, digest: Body]
  BY <1>2, <1>3, <1>t, <1>a, RunningFacts
<1>5. \A e \in events : Validates(e) => ReportOf[e.digest] # ReportOf[event.digest]
  <2> SUFFICES ASSUME NEW e \in events, Validates(e), ReportOf[e.digest] = ReportOf[event.digest]
               PROVE  FALSE
    OBVIOUS
  <2>1. [id |-> ReportOf[e.digest], digest |-> e.digest] \in reports
    BY <1>t DEF StoredInv
  <2> QED BY <2>1, <1>2, <1>3 DEF Stored
<1> HIDE DEF event, report
<1>6. \A t \in Submission : Active(t)' => t # s /\ Active(t) /\ submission'[t] = submission[t]
  BY <1>1, <1>t, LeaveFacts DEF Active
<1>7. IngestTypes'
  BY <1>1, <1>2, <1>4, <1>t, LeaveFacts DEF IngestTypes
<1>8. NonceInv'
  <2>1. \A e \in events' : <<e.nonce, e.digest>> \in replays'
    BY <1>1, <1>2, <1>a, <1>t DEF NonceInv
  <2>u. \A e \in events : Verdict(e) => e.nonce # submission[s].nonce
    BY <1>a, <1>t DEF NonceInv
  <2>v. \A e \in events : Verdict(e) => e.nonce # event.nonce
    BY <2>u, <1>2
  <2>w. \A e1, e2 \in events : Verdict(e1) /\ Verdict(e2) /\ e1.nonce = e2.nonce => e1 = e2
    BY <1>t DEF NonceInv
  <2>2. \A e1, e2 \in events' : Verdict(e1) /\ Verdict(e2) /\ e1.nonce = e2.nonce => e1 = e2
    BY <2>v, <2>w, <1>1
  <2>3. ASSUME NEW t \in Submission, Active(t)'
        PROVE  /\ <<submission[t].nonce, submission[t].body>>' \in replays'
               /\ \A e \in events' : Verdict(e) => e.nonce # submission'[t].nonce
               /\ \A u \in Submission :
                    Active(u)' /\ submission'[u].nonce = submission'[t].nonce => t = u
    BY <2>3, <1>1, <1>2, <1>6, <1>a, <1>t DEF NonceInv
  <2>4. \A m \in failures' : \E e \in events' : e.nonce = m /\ e.status = "failed"
    BY <1>1, <1>t DEF NonceInv
  <2>5. \A e \in events' : e.status = "failed" => e.nonce \in failures'
    BY <1>1, <1>2, <1>t DEF NonceInv
  <2> QED BY <2>1, <2>2, <2>3, <2>4, <2>5, <1>1, <1>t DEF NonceInv
<1>9. StoredInv'
  <2>1. \A r \in reports' :
            /\ r.id # Rejected => \E e \in events' : Validates(e) /\ e.digest = r.digest
            /\ r.id = ReportOf[r.digest]
    BY <1>1, <1>2, <1>4, <1>t DEF StoredInv, Validates
  <2>2. \A e \in events' : Validates(e) =>
            /\ ReportOf[e.digest] # Rejected
            /\ [id |-> ReportOf[e.digest], digest |-> e.digest] \in reports'
    BY <1>1, <1>2, <1>3, <1>4, <1>t DEF StoredInv
  <2>3. \A e1, e2 \in events' :
            Validates(e1) /\ Validates(e2) /\ ReportOf[e1.digest] = ReportOf[e2.digest] => e1 = e2
    BY <1>1, <1>5, <1>t DEF StoredInv
  <2>4. \A t \in Submission : Active(t)' =>
            /\ submission'[t].pc \in {"insert", "commit"} => ReportIn(t)' # Rejected
            /\ submission'[t].pc # "commit"
    BY <1>3, <1>6, <1>t DEF StoredInv, ReportIn
  <2> QED BY <2>1, <2>2, <2>3, <2>4 DEF StoredInv
<1> QED BY <1>7, <1>8, <1>9 DEF IngestIInv

LEMMA IngestStep == IngestIInv /\ [IngestNext]_ingestVars => IngestIInv'
<1> SUFFICES ASSUME IngestIInv, [IngestNext]_ingestVars PROVE IngestIInv'
  OBVIOUS
<1>1. CASE UNCHANGED ingestVars
  BY <1>1 DEF ingestVars, IngestIInv, IngestTypes, NonceInv, StoredInv, Active, ReportIn, Stored
<1>2. CASE IngestNext
  BY <1>2, ReceivePreserves, RejectPreserves, UnstoredPreserves, CommitPreserves DEF IngestNext
<1> QED BY <1>1, <1>2

-----------------------------------------------------------------------------
(* What the invariant means for the properties. *)

LEMMA AtMostOne ==
    ASSUME NEW S, \A x, y \in S : x = y
    PROVE  Cardinality(S) <= 1
<1>1. CASE S = {}
  BY <1>1, FS_EmptySet
<1>2. ASSUME NEW x \in S PROVE Cardinality(S) <= 1
  <2>1. S = {x}
    BY <1>2
  <2> QED BY <2>1, FS_Singleton
<1> QED BY <1>1, <1>2

LEMMA IngestIInvIsInv == IngestIInv => IngestInv
<1> SUFFICES ASSUME IngestIInv PROVE IngestInv
  OBVIOUS
<1>t. IngestTypes /\ NonceInv /\ StoredInv
  BY DEF IngestIInv
<1>1. OneVerdict
  <2> SUFFICES ASSUME NEW n \in Nonce
               PROVE  /\ Cardinality(Final(n)) <= 1
                      /\ \A e \in Final(n) : <<n, e.digest>> \in replays
                      /\ n \in failures <=> \E e \in Final(n) : e.status = "failed"
    BY DEF OneVerdict
  <2>1. \A e1, e2 \in Final(n) : e1 = e2
    BY <1>t DEF Final, NonceInv, Verdict
  <2>2. Cardinality(Final(n)) <= 1
    BY <2>1, AtMostOne
  <2> QED BY <2>2, <1>t DEF Final, NonceInv
<1>2. ReportIsItsValidation
  <2> SUFFICES ASSUME NEW id \in {ReportOf[b] : b \in Body} \ {Rejected}
               PROVE  LET validations ==
                              {e \in events : e.status = "validated" /\ ReportOf[e.digest] = id}
                      IN  /\ Cardinality(validations) <= 1
                          /\ {r.digest : r \in {q \in reports : q.id = id}}
                                = {e.digest : e \in validations}
    BY DEF ReportIsItsValidation
  <2> DEFINE validations == {e \in events : e.status = "validated" /\ ReportOf[e.digest] = id}
  <2>1. \A e1, e2 \in validations : e1 = e2
    BY <1>t DEF StoredInv, Validates
  <2>2. Cardinality(validations) <= 1
    <3> HIDE DEF validations
    <3> QED BY <2>1, AtMostOne
  <2>3. ASSUME NEW r \in reports, r.id = id
        PROVE  \E e \in validations : e.digest = r.digest
    BY <2>3, <1>t DEF StoredInv, Validates
  <2>4. ASSUME NEW e \in validations
        PROVE  \E r \in reports : r.id = id /\ r.digest = e.digest
    <3>1. [id |-> ReportOf[e.digest], digest |-> e.digest] \in reports
      BY <2>4, <1>t DEF StoredInv, Validates
    <3> QED BY <3>1, <2>4
  <2> QED BY <2>2, <2>3, <2>4
<1>3. IngestTypeOK
  <2>1. reports \subseteq Report
    BY <1>t DEF IngestTypes, StoredInv, Report
  <2> QED BY <2>1, <1>t DEF IngestTypes, IngestTypeOK, RunningSubmission
<1> QED BY <1>1, <1>2, <1>3 DEF IngestInv

\* However submissions repeat, race, fail or crash, a nonce comes to one verdict
\* and a stored report is the one its validation speaks of
\* (ingest_collector_report, _persist_semantic_failure).
THEOREM IngestIsConsistent == IngestSpec => []IngestInv
BY IngestInitOK, IngestStep, IngestIInvIsInv, PTL DEF IngestSpec

-----------------------------------------------------------------------------
(***************************************************************************)
(* ScanCache: what a request is answered with, and how many batches run.   *)
(*                                                                         *)
(* While a request is in run_scan, nothing older than its floor is usable  *)
(* or on its way into the cache, and what it has stored is there unless a  *)
(* clear took it.  Batch requests are let in while none of them is         *)
(* recorded; each of them is recorded once.                                *)
(***************************************************************************)
DataType == \A q \in Request : request[q].pc = "store" => request[q].data \in MarketMoment

FloorHolds(r) ==
    /\ marketData >= request[r].floor
    /\ \A q \in Request : request[q].pc = "store" => request[q].data >= request[r].floor
    /\ cache # NoEntry /\ (cache.fresh \/ request[r].pc = "read")
       => cache.data >= request[r].floor

NothingOlder == \A r \in Request : request[r].pc \in InThread => FloorHolds(r)

RequestIInv == CacheTypeOK /\ DataType /\ AnswersAreFresh /\ FailsByClearOnly /\ NothingOlder

BatchesCounted ==
    /\ ~ marked => batches = 0
    /\ marked => batches + Cardinality(Allowed) <= 1 + rivals

CacheIInv == RequestIInv /\ BatchesCounted

LEMMA IdleRequestType ==
    /\ IdleRequest \in RequestState /\ IdleRequest.kind = "scan" /\ IdleRequest.pc = "idle"
    /\ NoEntry \notin CacheEntry /\ NoEntry.fresh = FALSE /\ NoData \notin MarketMoment
BY ScanCacheAssumption DEF IdleRequest, RequestState, MarketMoment, NoData, NoEntry, CacheEntry

LEMMA CacheIInvIsInv == CacheIInv => CacheInv
<1> SUFFICES ASSUME CacheIInv PROVE CacheInv
  OBVIOUS
<1>1. Cardinality(Allowed) \in Nat
  BY ScanCacheAssumption, FS_Subset, FS_CardinalityType DEF Allowed
<1>2. BatchesAreRare
  BY <1>1 DEF CacheIInv, RequestIInv, CacheTypeOK, BatchesCounted, BatchesAreRare
<1> QED BY <1>2 DEF CacheIInv, RequestIInv, CacheInv

\* What a step of request r has to do to keep what holds of the requests.
LEMMA RequestStep ==
    ASSUME RequestIInv, NEW r \in Request, NEW state \in RequestState, SetRequest(r, state),
           UNCHANGED marketData, marked' \in BOOLEAN, batches' \in Nat, rivals' \in Nat,
           \/ cache' = cache
           \/ /\ cache' = [data |-> request[r].data, fresh |-> TRUE]
              /\ request[r].pc = "store" /\ state.pc = "read",
           state.pc \in InThread =>
                \/ request[r].pc \in InThread /\ state.floor = request[r].floor
                \/ /\ state.pc = "called" /\ state.floor <= marketData
                   /\ \A q \in Request : request[q].pc = "store" => request[q].data >= state.floor
                   /\ cache # NoEntry /\ cache.fresh => cache.data >= state.floor,
           state.pc = "read" =>
                \/ request[r].pc = "read" /\ state.cleared = request[r].cleared
                \/ cache' = [data |-> request[r].data, fresh |-> TRUE],
           state.pc = "store" =>
                \/ state.data = marketData
                \/ state.data = request[r].data /\ request[r].pc = "store",
           state.pc = "answered" => state.answer \in MarketMoment /\ state.answer >= state.floor
    PROVE  RequestIInv'
<1>t. /\ CacheTypeOK /\ request \in [Request -> RequestState] /\ marketData \in MarketMoment
      /\ MarketMoment \subseteq Nat /\ DataType /\ NothingOlder
      /\ cache \in CacheEntry \cup {NoEntry} /\ AnswersAreFresh /\ FailsByClearOnly
  BY ScanCacheAssumption DEF RequestIInv, CacheTypeOK, MarketMoment
<1>r. /\ request' = [request EXCEPT ![r] = state] /\ request' \in [Request -> RequestState]
      /\ request'[r] = state /\ \A q \in Request \ {r} : request'[q] = request[q]
  BY <1>t DEF SetRequest
<1>c. CASE cache' = cache
  <2>1. CacheTypeOK' /\ DataType' /\ AnswersAreFresh'
    BY <1>t, <1>r, <1>c DEF CacheTypeOK, DataType, AnswersAreFresh
  <2>2. FailsByClearOnly'
    BY <1>t, <1>r, <1>c, IdleRequestType DEF FailsByClearOnly
  <2>3. NothingOlder'
    <3> SUFFICES ASSUME NEW q \in Request, request'[q].pc \in InThread PROVE FloorHolds(q)'
      BY DEF NothingOlder
    <3>1. request'[q].floor \in Nat
      BY <1>t, <1>r DEF RequestState
    <3>2. \/ request[q].pc \in InThread /\ request'[q].floor = request[q].floor
          \/ /\ q = r /\ state.pc = "called" /\ state.floor <= marketData
             /\ \A d \in Request : request[d].pc = "store" => request[d].data >= state.floor
             /\ cache # NoEntry /\ cache.fresh => cache.data >= state.floor
      BY <1>r
    <3>3. marketData' >= request'[q].floor
      BY <3>1, <3>2, <1>t, <1>r DEF NothingOlder, FloorHolds
    <3>4. ASSUME NEW d \in Request, request'[d].pc = "store"
          PROVE  request'[d].data >= request'[q].floor
      <4>1. \/ request'[d].data = marketData
            \/ request[d].pc = "store" /\ request'[d].data = request[d].data
        BY <1>r, <3>4
      <4> QED BY <4>1, <3>2, <3>3, <1>t, <1>r DEF NothingOlder, FloorHolds
    <3>5. ASSUME cache' # NoEntry, cache'.fresh \/ request'[q].pc = "read"
          PROVE  cache'.data >= request'[q].floor
      <4>1. CASE request[q].pc \in InThread /\ request'[q].floor = request[q].floor
        <5>1. cache.fresh \/ request[q].pc = "read"
          BY <3>5, <1>c, <1>r DEF InThread
        <5> QED BY <5>1, <4>1, <3>5, <1>c, <1>t DEF NothingOlder, FloorHolds
      <4>2. CASE q = r /\ state.pc = "called"
        BY <4>2, <3>2, <3>5, <1>c, <1>r, <1>t DEF NothingOlder, FloorHolds
      <4> QED BY <4>1, <4>2, <3>2
    <3> QED BY <3>3, <3>4, <3>5 DEF FloorHolds
  <2> QED BY <2>1, <2>2, <2>3 DEF RequestIInv
<1>d. CASE /\ cache' = [data |-> request[r].data, fresh |-> TRUE]
           /\ request[r].pc = "store" /\ state.pc = "read"
  <2>1. cache' \in CacheEntry /\ cache' # NoEntry /\ cache'.data = request[r].data
    BY <1>d, <1>t, IdleRequestType DEF DataType, CacheEntry
  <2>2. CacheTypeOK' /\ DataType' /\ AnswersAreFresh' /\ FailsByClearOnly'
    BY <1>d, <1>t, <1>r, <2>1
       DEF CacheTypeOK, DataType, AnswersAreFresh, FailsByClearOnly
  <2>3. \A q \in Request : /\ request'[q].pc \in InThread <=> request[q].pc \in InThread
                           /\ request'[q].pc \in InThread => request'[q].floor = request[q].floor
                           /\ request'[q].pc = "store" => request'[q] = request[q]
    BY <1>d, <1>r DEF InThread
  <2>4. NothingOlder'
    BY <1>d, <1>t, <2>1, <2>3 DEF NothingOlder, FloorHolds
  <2> QED BY <2>2, <2>4 DEF RequestIInv
<1> QED BY <1>c, <1>d

\* A step that leaves the batches alone, and lets one in only while none is recorded.
LEMMA CountStep ==
    ASSUME CacheIInv, NEW r \in Request, NEW state \in RequestState, SetRequest(r, state),
           UNCHANGED <<marked, batches, rivals>>,
           state.pc = "allowed" => ~ marked \/ request[r].pc = "allowed"
    PROVE  BatchesCounted'
<1>t. /\ request \in [Request -> RequestState] /\ BatchesCounted /\ batches \in Nat
      /\ rivals \in Nat
  BY DEF CacheIInv, RequestIInv, CacheTypeOK
<1>1. CASE ~ marked
  BY <1>1, <1>t DEF BatchesCounted
<1>2. CASE marked
  <2>1. Allowed' \subseteq Allowed /\ IsFiniteSet(Allowed)
    BY <1>2, <1>t, ScanCacheAssumption, FS_Subset DEF Allowed, SetRequest
  <2>2. /\ Cardinality(Allowed') <= Cardinality(Allowed)
        /\ Cardinality(Allowed) \in Nat /\ Cardinality(Allowed') \in Nat
    BY <2>1, FS_Subset, FS_CardinalityType
  <2> QED BY <2>2, <1>2, <1>t DEF BatchesCounted
<1> QED BY <1>1, <1>2

\* The end of a run, with an answer that is not too old.
LEMMA FinishStep ==
    ASSUME CacheIInv, NEW r \in Request, NEW pc \in {"answered", "failed"},
           NEW data \in MarketMoment \cup {NoData}, FinishRun(r, pc, data),
           pc = "answered" => data \in MarketMoment /\ data >= request[r].floor,
           UNCHANGED <<marketData, cache, marked, batches, rivals>>
    PROVE  CacheIInv'
<1>t. /\ request[r] \in RequestState /\ marked \in BOOLEAN /\ batches \in Nat /\ rivals \in Nat
      /\ RequestIInv
  BY DEF CacheIInv, RequestIInv, CacheTypeOK
<1>1. CASE request[r].waiting
  <2> DEFINE state == [request[r] EXCEPT !.pc = pc, !.answer = data, !.data = NoData]
  <2>1. /\ state \in RequestState /\ state.pc = pc /\ state.floor = request[r].floor
        /\ state.answer = data
    BY <1>t DEF RequestState
  <2>2. SetRequest(r, state)
    BY <1>1 DEF FinishRun
  <2> HIDE DEF state
  <2>3. RequestIInv'
    BY <2>1, <2>2, <1>t, RequestStep DEF InThread
  <2>4. BatchesCounted'
    BY <2>1, <2>2, CountStep
  <2> QED BY <2>3, <2>4 DEF CacheIInv
<1>2. CASE ~ request[r].waiting
  <2>1. SetRequest(r, IdleRequest)
    BY <1>2 DEF FinishRun
  <2>2. RequestIInv'
    BY <2>1, <1>t, IdleRequestType, RequestStep DEF InThread
  <2>3. BatchesCounted'
    BY <2>1, IdleRequestType, CountStep
  <2> QED BY <2>2, <2>3 DEF CacheIInv
<1> QED BY <1>1, <1>2

\* What a request may be answered with when it is asked, and its state then.
LEMMA UsableFloor ==
    ASSUME RequestIInv, NEW S, S = Usable \/ S = OnTheWay, NEW oldest \in Oldest(S)
    PROVE  /\ oldest \in MarketMoment /\ oldest <= marketData
           /\ \A q \in Request : request[q].pc = "store" => request[q].data >= oldest
           /\ S = Usable /\ cache # NoEntry /\ cache.fresh => cache.data >= oldest
<1>t. /\ marketData \in MarketMoment /\ cache \in CacheEntry \cup {NoEntry} /\ DataType
      /\ MarketMoment \subseteq Nat
  BY ScanCacheAssumption DEF RequestIInv, CacheTypeOK, MarketMoment
<1>1. ~ _is_stale => cache.data \in MarketMoment
  BY <1>t, IdleRequestType DEF _is_stale, CacheEntry
<1>2. S \subseteq MarketMoment /\ marketData \in S
  BY <1>1, <1>t DEF Usable, OnTheWay, DataType
<1>3. \A q \in Request : request[q].pc = "store" => request[q].data \in S
  BY DEF Usable, OnTheWay
<1>4. S = Usable /\ cache.fresh => cache.data \in S
  BY DEF Usable, _is_stale
<1> QED BY <1>1, <1>2, <1>3, <1>4, <1>t DEF Oldest

LEMMA CalledType ==
    ASSUME NEW state \in RequestState, NEW oldest \in MarketMoment,
           NEW kind \in {"scan", "deep", "export", "direct"}
    PROVE  /\ Called(state, kind, oldest) \in RequestState
           /\ Called(state, kind, oldest).pc = "called"
           /\ Called(state, kind, oldest).floor = oldest
BY DEF Called, RequestState

LEMMA RoutesAskCache ==
    ASSUME CacheIInv, NEW r \in Request, ScanRoute(r) \/ Direct(r) \/ BatchAsks(r)
    PROVE  CacheIInv'
<1>t. /\ cache \in CacheEntry \cup {NoEntry} /\ MarketMoment \subseteq Nat /\ RequestIInv
      /\ marked \in BOOLEAN /\ batches \in Nat /\ rivals \in Nat
  BY ScanCacheAssumption DEF CacheIInv, RequestIInv, CacheTypeOK, MarketMoment
<1>a. ASSUME NEW kind \in {"scan", "export", "direct"}, NEW oldest \in Oldest(Usable),
             SetRequest(r, Called(IdleRequest, kind, oldest)),
             UNCHANGED <<marketData, cache, marked, batches, rivals>>
      PROVE  CacheIInv'
  <2> DEFINE state == Called(IdleRequest, kind, oldest)
  <2>1. /\ oldest \in MarketMoment /\ oldest <= marketData
        /\ \A q \in Request : request[q].pc = "store" => request[q].data >= oldest
        /\ cache # NoEntry /\ cache.fresh => cache.data >= oldest
    BY <1>t, <1>a, UsableFloor
  <2>k. kind \in {"scan", "deep", "export", "direct"} /\ IdleRequest \in RequestState
    BY IdleRequestType
  <2>2. state \in RequestState /\ state.pc = "called" /\ state.floor = oldest
    BY <2>1, <2>k, CalledType, Zenon
  <2>3. SetRequest(r, state)
    BY <1>a
  <2> HIDE DEF state
  <2>4. RequestIInv'
    BY <1>a, <1>t, <2>1, <2>2, <2>3, RequestStep
  <2>5. BatchesCounted'
    BY <1>a, <2>2, <2>3, CountStep
  <2> QED BY <2>4, <2>5 DEF CacheIInv
<1>1. CASE ScanRoute(r)
  <2>1. PICK oldest \in Oldest(Usable) :
            SetRequest(r, IF ~ _is_stale
                          THEN [IdleRequest EXCEPT !.pc = "answered", !.answer = cache.data]
                          ELSE Called(IdleRequest, "scan", oldest))
    BY <1>1 DEF ScanRoute
  <2>u. UNCHANGED <<marketData, cache, marked, batches, rivals>>
    BY <1>1 DEF ScanRoute
  <2>2. CASE _is_stale
    BY <2>1, <2>2, <2>u, <1>a
  <2>3. CASE ~ _is_stale
    <3> DEFINE hit == [IdleRequest EXCEPT !.pc = "answered", !.answer = cache.data]
    <3>1. cache.data \in MarketMoment
      BY <2>3, <1>t, IdleRequestType DEF _is_stale, CacheEntry
    <3>z. IdleRequest.floor = 0 /\ IdleRequest \in RequestState
      BY IdleRequestType DEF IdleRequest
    <3>h. hit \in RequestState /\ hit.pc = "answered" /\ hit.answer = cache.data /\ hit.floor = 0
      BY <3>1, <3>z DEF RequestState
    <3>2. /\ hit \in RequestState /\ hit.pc = "answered" /\ hit.answer \in MarketMoment
          /\ hit.answer >= hit.floor
      BY <3>1, <3>h, <1>t
    <3>3. SetRequest(r, hit)
      BY <2>1, <2>3
    <3> HIDE DEF hit
    <3>4. RequestIInv'
      BY <1>t, <2>u, <3>2, <3>3, RequestStep DEF InThread
    <3>5. BatchesCounted'
      BY <2>u, <3>2, <3>3, CountStep
    <3> QED BY <3>4, <3>5 DEF CacheIInv
  <2> QED BY <2>2, <2>3
<1>2. CASE Direct(r)
  <2>1. PICK kind \in {"export", "direct"}, oldest \in Oldest(Usable) :
            SetRequest(r, Called(IdleRequest, kind, oldest))
    BY <1>2 DEF Direct
  <2> QED BY <2>1, <1>2, <1>a DEF Direct
<1>3. CASE BatchAsks(r)
  <2> DEFINE state == [IdleRequest EXCEPT !.pc = "allowed", !.kind = "direct"]
  <2>1. state \in RequestState /\ state.pc = "allowed"
    BY IdleRequestType DEF RequestState, IdleRequest
  <2>2. SetRequest(r, state) /\ ~ marked
        /\ UNCHANGED <<marketData, cache, marked, batches, rivals>>
    BY <1>3 DEF BatchAsks, can_run_batch
  <2> HIDE DEF state
  <2>3. RequestIInv'
    BY <1>t, <2>1, <2>2, RequestStep DEF InThread
  <2>4. BatchesCounted'
    BY <2>1, <2>2, CountStep
  <2> QED BY <2>3, <2>4 DEF CacheIInv
<1> QED BY <1>1, <1>2, <1>3

\* The clear tells every thread that runs; what is on its way then is the new floor.
LEMMA DeepClears ==
    ASSUME CacheIInv, NEW r \in Request, DeepRoute(r)
    PROVE  CacheIInv'
<1>t. /\ CacheTypeOK /\ request \in [Request -> RequestState] /\ MarketMoment \subseteq Nat
      /\ RequestIInv /\ DataType /\ NothingOlder /\ AnswersAreFresh /\ BatchesCounted
      /\ marketData \in MarketMoment
  BY ScanCacheAssumption DEF CacheIInv, RequestIInv, CacheTypeOK, MarketMoment
<1>1. PICK oldest \in Oldest(OnTheWay) :
        request' = [q \in Request |->
            IF q = r THEN Called(IdleRequest, "deep", oldest)
                     ELSE [request[q] EXCEPT !.cleared = request[q].pc \in InThread]]
  BY DEF DeepRoute
<1>u. /\ cache' = NoEntry /\ UNCHANGED <<marketData, marked, batches, rivals>>
      /\ request[r].pc = "idle"
  BY DEF DeepRoute, Cleared
<1>2. /\ oldest \in MarketMoment /\ oldest <= marketData
      /\ \A q \in Request : request[q].pc = "store" => request[q].data >= oldest
  BY <1>t, UsableFloor
<1>3. /\ request'[r] \in RequestState /\ request'[r].pc = "called"
      /\ request'[r].floor = oldest
  BY <1>1, <1>2, IdleRequestType, CalledType
<1>4. \A q \in Request \ {r} :
        /\ request'[q] \in RequestState /\ request'[q].pc = request[q].pc
        /\ request'[q].floor = request[q].floor /\ request'[q].data = request[q].data
        /\ request'[q].answer = request[q].answer
        /\ request[q].pc \in InThread => request'[q].cleared
  <2> SUFFICES ASSUME NEW q \in Request \ {r}
               PROVE  /\ request'[q] \in RequestState /\ request'[q].pc = request[q].pc
                      /\ request'[q].floor = request[q].floor
                      /\ request'[q].data = request[q].data
                      /\ request'[q].answer = request[q].answer
                      /\ request[q].pc \in InThread => request'[q].cleared
    OBVIOUS
  <2>1. request'[q] = [request[q] EXCEPT !.cleared = request[q].pc \in InThread]
    BY <1>1
  <2>2. request[q] \in RequestState /\ (request[q].pc \in InThread) \in BOOLEAN
    BY <1>t
  <2> DEFINE now == request[q].pc \in InThread
  <2>3. now \in BOOLEAN /\ request'[q] = [request[q] EXCEPT !.cleared = now]
    BY <2>1, <2>2
  <2> HIDE DEF now
  <2>4. /\ request'[q] \in RequestState /\ request'[q].pc = request[q].pc
        /\ request'[q].floor = request[q].floor /\ request'[q].data = request[q].data
        /\ request'[q].answer = request[q].answer /\ request'[q].cleared = now
    BY <2>2, <2>3 DEF RequestState
  <2> QED BY <2>4 DEF now
<1>5. CacheTypeOK' /\ DataType' /\ AnswersAreFresh'
  <2>1. request' \in [Request -> RequestState]
    BY <1>1, <1>3, <1>4
  <2> QED BY <2>1, <1>t, <1>u, <1>3, <1>4 DEF CacheTypeOK, DataType, AnswersAreFresh
<1>6. FailsByClearOnly'
  BY <1>3, <1>4 DEF FailsByClearOnly, InThread
<1>7. NothingOlder'
  BY <1>t, <1>u, <1>2, <1>3, <1>4 DEF NothingOlder, FloorHolds
<1>8. BatchesCounted'
  <2>1. Allowed' = Allowed
    BY <1>3, <1>4, <1>u DEF Allowed
  <2> QED BY <2>1, <1>t, <1>u DEF BatchesCounted
<1> QED BY <1>5, <1>6, <1>7, <1>8 DEF CacheIInv, RequestIInv

LEMMA ThreadPreserves ==
    ASSUME CacheIInv, NEW r \in Request,
           \/ LookUpResult(r) \/ FetchMarket(r) \/ FetchMarketFails(r) \/ StoreResult(r)
           \/ AnswerUncached(r) \/ ReadBack(r)
    PROVE  CacheIInv'
<1>t. /\ cache \in CacheEntry \cup {NoEntry} /\ marketData \in MarketMoment
      /\ MarketMoment \subseteq Nat /\ DataType /\ NothingOlder /\ request[r] \in RequestState
      /\ RequestIInv /\ marked \in BOOLEAN /\ batches \in Nat /\ rivals \in Nat
  BY ScanCacheAssumption DEF CacheIInv, RequestIInv, CacheTypeOK, MarketMoment
<1>c. cache # NoEntry => cache.data \in MarketMoment
  BY <1>t DEF CacheEntry
<1>1. CASE LookUpResult(r)
  <2>u. UNCHANGED <<marketData, cache, marked, batches, rivals>> /\ request[r].pc = "called"
    BY <1>1 DEF LookUpResult
  <2>1. CASE ~ _is_stale
    <3>1. cache # NoEntry /\ cache.fresh
      BY <2>1, IdleRequestType DEF _is_stale
    <3>2. FinishRun(r, "answered", cache.data)
      BY <1>1, <2>1 DEF LookUpResult
    <3>3. cache.data >= request[r].floor
      BY <2>u, <3>1, <1>t DEF NothingOlder, FloorHolds, InThread
    <3> QED BY <2>u, <3>1, <3>2, <3>3, <1>c, FinishStep
  <2>2. CASE _is_stale
    <3> DEFINE state == [request[r] EXCEPT !.pc = "fetch"]
    <3>1. state \in RequestState /\ state.pc = "fetch" /\ state.floor = request[r].floor
      BY <1>t DEF RequestState
    <3>2. SetRequest(r, state)
      BY <1>1, <2>2 DEF LookUpResult
    <3> HIDE DEF state
    <3>3. RequestIInv'
      BY <2>u, <3>1, <3>2, <1>t, RequestStep DEF InThread
    <3>4. BatchesCounted'
      BY <2>u, <3>1, <3>2, CountStep
    <3> QED BY <3>3, <3>4 DEF CacheIInv
  <2> QED BY <2>1, <2>2
<1>2. CASE FetchMarket(r)
  <2> DEFINE state == [request[r] EXCEPT !.pc = "store", !.data = marketData]
  <2>1. state \in RequestState /\ state.pc = "store" /\ state.floor = request[r].floor
        /\ state.data = marketData
    BY <1>t DEF RequestState
  <2>2. SetRequest(r, state) /\ UNCHANGED <<marketData, cache, marked, batches, rivals>>
        /\ request[r].pc = "fetch"
    BY <1>2 DEF FetchMarket
  <2> HIDE DEF state
  <2>3. RequestIInv'
    BY <2>1, <2>2, <1>t, RequestStep DEF InThread
  <2>4. BatchesCounted'
    BY <2>1, <2>2, CountStep
  <2> QED BY <2>3, <2>4 DEF CacheIInv
<1>3. CASE FetchMarketFails(r)
  BY <1>3, FinishStep DEF FetchMarketFails
<1>4. CASE StoreResult(r)
  <2> DEFINE state == [request[r] EXCEPT !.pc = "read"]
  <2>1. state \in RequestState /\ state.pc = "read" /\ state.floor = request[r].floor
    BY <1>t DEF RequestState
  <2>2. /\ SetRequest(r, state) /\ UNCHANGED <<marketData, marked, batches, rivals>>
        /\ cache' = [data |-> request[r].data, fresh |-> TRUE] /\ request[r].pc = "store"
    BY <1>4 DEF StoreResult
  <2> HIDE DEF state
  <2>3. RequestIInv'
    BY <2>1, <2>2, <1>t, RequestStep DEF InThread
  <2>4. BatchesCounted'
    BY <2>1, <2>2, CountStep
  <2> QED BY <2>3, <2>4 DEF CacheIInv
<1>5. CASE AnswerUncached(r)
  <2>1. /\ FinishRun(r, "answered", request[r].data) /\ request[r].pc = "store"
        /\ UNCHANGED <<marketData, cache, marked, batches, rivals>>
    BY <1>5 DEF AnswerUncached
  <2>2. request[r].data \in MarketMoment /\ request[r].data >= request[r].floor
    BY <2>1, <1>t DEF DataType, NothingOlder, FloorHolds, InThread
  <2> QED BY <2>1, <2>2, FinishStep
<1>6. CASE ReadBack(r)
  <2>1. request[r].pc = "read" /\ UNCHANGED <<marketData, cache, marked, batches, rivals>>
    BY <1>6 DEF ReadBack
  <2>2. CASE cache = NoEntry
    <3>1. FinishRun(r, "failed", NoData)
      BY <1>6, <2>2 DEF ReadBack
    <3> QED BY <3>1, <2>1, FinishStep
  <2>3. CASE cache # NoEntry
    <3>1. FinishRun(r, "answered", cache.data)
      BY <1>6, <2>3 DEF ReadBack
    <3>2. cache.data >= request[r].floor
      BY <2>1, <2>3, <1>t DEF NothingOlder, FloorHolds, InThread
    <3> QED BY <3>1, <3>2, <2>1, <2>3, <1>c, FinishStep
  <2> QED BY <2>2, <2>3
<1> QED BY <1>1, <1>2, <1>3, <1>4, <1>5, <1>6

LEMMA ClientPreserves ==
    ASSUME CacheIInv, NEW r \in Request, RouteTimesOut(r) \/ Leaves(r) \/ BatchIsEmpty(r)
    PROVE  CacheIInv'
<1>t. /\ request[r] \in RequestState /\ RequestIInv /\ DataType
      /\ marked \in BOOLEAN /\ batches \in Nat /\ rivals \in Nat
  BY DEF CacheIInv, RequestIInv, CacheTypeOK
<1>1. CASE RouteTimesOut(r)
  <2> DEFINE state == [request[r] EXCEPT !.waiting = FALSE]
  <2>1. /\ state \in RequestState /\ state.pc = request[r].pc
        /\ state.floor = request[r].floor /\ state.data = request[r].data
        /\ state.cleared = request[r].cleared
    BY <1>t DEF RequestState
  <2>2. /\ SetRequest(r, state) /\ UNCHANGED <<marketData, cache, marked, batches, rivals>>
        /\ request[r].pc \in InThread
    BY <1>1 DEF RouteTimesOut
  <2> HIDE DEF state
  <2>3. RequestIInv'
    BY <2>1, <2>2, <1>t, RequestStep DEF InThread
  <2>4. BatchesCounted'
    BY <2>1, <2>2, CountStep DEF InThread
  <2> QED BY <2>3, <2>4 DEF CacheIInv
<1>2. CASE Leaves(r) \/ BatchIsEmpty(r)
  <2>1. SetRequest(r, IdleRequest) /\ UNCHANGED <<marketData, cache, marked, batches, rivals>>
    BY <1>2 DEF Leaves, BatchIsEmpty
  <2>2. RequestIInv'
    BY <2>1, <1>t, IdleRequestType, RequestStep DEF InThread
  <2>3. BatchesCounted'
    BY <2>1, IdleRequestType, CountStep
  <2> QED BY <2>2, <2>3 DEF CacheIInv
<1> QED BY <1>1, <1>2

\* The batch that runs is recorded, and no longer one that was only let in; the first
\* of a cooldown counts those that were let in beside it.
LEMMA BatchPreserves ==
    ASSUME CacheIInv, NEW r \in Request, BatchRuns(r)
    PROVE  CacheIInv'
<1>t. /\ request \in [Request -> RequestState] /\ batches \in Nat /\ rivals \in Nat
      /\ RequestIInv /\ BatchesCounted /\ IsFiniteSet(Request) /\ marked \in BOOLEAN
      /\ MarketMoment \subseteq Nat
  BY ScanCacheAssumption DEF CacheIInv, RequestIInv, CacheTypeOK, MarketMoment
<1>1. PICK oldest \in Oldest(Usable) : SetRequest(r, Called(request[r], "direct", oldest))
  BY DEF BatchRuns
<1>u. /\ request[r].pc = "allowed" /\ marked' = TRUE /\ batches' = batches + 1
      /\ rivals' = (IF marked THEN rivals ELSE Cardinality(Allowed \ {r}))
      /\ UNCHANGED <<marketData, cache>>
  BY DEF BatchRuns, mark_batch_run
<1>2. /\ oldest \in MarketMoment /\ oldest <= marketData
      /\ \A q \in Request : request[q].pc = "store" => request[q].data >= oldest
      /\ cache # NoEntry /\ cache.fresh => cache.data >= oldest
  BY <1>t, UsableFloor
<1> DEFINE state == Called(request[r], "direct", oldest)
<1>3. state \in RequestState /\ state.pc = "called" /\ state.floor = oldest
  BY <1>2, <1>t, CalledType
<1>4. SetRequest(r, state)
  BY <1>1
<1> HIDE DEF state
<1>5. Allowed \in SUBSET Request /\ r \in Allowed /\ Allowed' = Allowed \ {r}
  BY <1>u, <1>3, <1>4, <1>t DEF Allowed, SetRequest
<1>6. /\ Cardinality(Allowed') = Cardinality(Allowed) - 1
      /\ Cardinality(Allowed) \in Nat /\ Cardinality(Allowed') \in Nat
  BY <1>5, <1>t, FS_Subset, FS_RemoveElement, FS_CardinalityType
<1>7. rivals' \in Nat /\ batches' \in Nat /\ marked' \in BOOLEAN
  BY <1>u, <1>t, <1>5, <1>6
<1>8. RequestIInv'
  BY <1>2, <1>3, <1>4, <1>7, <1>u, <1>t, RequestStep
<1>9. BatchesCounted'
  BY <1>u, <1>5, <1>6, <1>t DEF BatchesCounted
<1> QED BY <1>8, <1>9 DEF CacheIInv

LEMMA AroundCachePreserve ==
    ASSUME CacheIInv,
           EntryExpires \/ MarketMoves \/ CooldownEnds \/ ProcessRestarts \/ UNCHANGED cacheVars
    PROVE  CacheIInv'
<1>t. /\ CacheTypeOK /\ request \in [Request -> RequestState] /\ batches \in Nat /\ rivals \in Nat
      /\ cache \in CacheEntry \cup {NoEntry} /\ marketData \in MarketMoment
      /\ MarketMoment \subseteq Nat /\ DataType /\ NothingOlder /\ BatchesCounted
      /\ AnswersAreFresh /\ FailsByClearOnly
  BY ScanCacheAssumption DEF CacheIInv, RequestIInv, CacheTypeOK, MarketMoment
<1>1. CASE EntryExpires
  <2>1. /\ cache' = [cache EXCEPT !.fresh = FALSE] /\ cache \in CacheEntry
        /\ UNCHANGED <<marketData, request, marked, batches, rivals>>
    BY <1>1, <1>t, IdleRequestType DEF EntryExpires
  <2>2. cache' \in CacheEntry /\ cache'.data = cache.data /\ cache # NoEntry /\ cache' # NoEntry
        /\ cache'.fresh = FALSE
    BY <2>1, IdleRequestType DEF CacheEntry
  <2>3. NothingOlder'
    BY <2>1, <2>2, <1>t DEF NothingOlder, FloorHolds
  <2> QED BY <2>1, <2>2, <2>3, <1>t DEF CacheIInv, RequestIInv, CacheTypeOK, DataType,
          AnswersAreFresh, FailsByClearOnly, BatchesCounted, Allowed
<1>2. CASE MarketMoves
  <2>1. /\ marketData' = marketData + 1 /\ marketData < MaxMarket
        /\ UNCHANGED <<cache, request, marked, batches, rivals>>
    BY <1>2 DEF MarketMoves
  <2>2. marketData' \in MarketMoment
    BY <2>1, <1>t, ScanCacheAssumption DEF MarketMoment
  <2>3. NothingOlder'
    <3>1. \A r \in Request : request[r].floor \in Nat
      BY <1>t DEF RequestState
    <3> QED BY <2>1, <3>1, <1>t DEF NothingOlder, FloorHolds
  <2> QED BY <2>1, <2>2, <2>3, <1>t DEF CacheIInv, RequestIInv, CacheTypeOK, DataType,
          AnswersAreFresh, FailsByClearOnly, BatchesCounted, Allowed
<1>3. CASE CooldownEnds
  <2>1. /\ marked' = FALSE /\ batches' = 0 /\ rivals' = 0
        /\ UNCHANGED <<marketData, cache, request>>
    BY <1>3 DEF CooldownEnds
  <2> QED BY <2>1, <1>t DEF CacheIInv, RequestIInv, CacheTypeOK, DataType, BatchesCounted,
          AnswersAreFresh, FailsByClearOnly, NothingOlder, FloorHolds
<1>4. CASE ProcessRestarts
  <2>1. /\ marked' = FALSE /\ batches' = 0 /\ rivals' = 0 /\ cache' = NoEntry
        /\ UNCHANGED marketData /\ request' = [r \in Request |-> IdleRequest]
    BY <1>4 DEF ProcessRestarts
  <2>2. IdleRequest.floor = 0 /\ IdleRequest.pc = "idle" /\ "idle" \notin InThread
    BY DEF IdleRequest, InThread
  <2> QED BY <2>1, <2>2, <1>t, IdleRequestType DEF CacheIInv, RequestIInv, CacheTypeOK, DataType,
          BatchesCounted, NothingOlder, FloorHolds, AnswersAreFresh, FailsByClearOnly
<1>5. CASE UNCHANGED cacheVars
  BY <1>5, <1>t DEF cacheVars, CacheIInv, RequestIInv, CacheTypeOK, DataType, NothingOlder,
     FloorHolds, AnswersAreFresh, FailsByClearOnly, BatchesCounted, Allowed
<1> QED BY <1>1, <1>2, <1>3, <1>4, <1>5

\* For any requests, threads that outlive their route, clears and restarts: no
\* request is answered with older data than was usable when it was asked, the
\* entry a run has stored is there for it unless a clear took it, and the first
\* batch of a cooldown is followed only by those let in beside it.
THEOREM AnswersAreNoOlder == CacheSpec => []CacheInv
<1>1. CacheInit => CacheIInv
  <2> SUFFICES ASSUME CacheInit PROVE CacheIInv
    OBVIOUS
  <2>1. batches = 0 /\ rivals = 0 /\ ~ marked /\ cache = NoEntry
        /\ \A r \in Request : request[r] = IdleRequest
    BY DEF CacheInit
  <2>2. marketData \in MarketMoment /\ batches \in Nat /\ rivals \in Nat
    <3>1. marketData = 0 /\ 0 \in 0..MaxMarket
      BY ScanCacheAssumption DEF CacheInit
    <3> QED BY <2>1, <3>1 DEF MarketMoment
  <2>3. marked \in BOOLEAN
    BY Zenon DEF CacheInit
  <2>4. request \in [Request -> RequestState]
    BY IdleRequestType DEF CacheInit
  <2> QED BY <2>1, <2>2, <2>3, <2>4, IdleRequestType DEF CacheIInv, RequestIInv, CacheTypeOK,
          DataType, NothingOlder, AnswersAreFresh, FailsByClearOnly, BatchesCounted, InThread
<1>2. CacheIInv /\ [CacheNext]_cacheVars => CacheIInv'
  BY RoutesAskCache, DeepClears, ThreadPreserves, ClientPreserves, BatchPreserves,
     AroundCachePreserve DEF CacheNext
<1> QED BY <1>1, <1>2, CacheIInvIsInv, PTL DEF CacheSpec

-----------------------------------------------------------------------------
(***************************************************************************)
(* Watchlist: the rows and their order.                                    *)
(***************************************************************************)
\* An insert that waits for its commit holds the lock, so that its id and its pair stay free.
InsertWaits(v) ==
    visitor[v].pc = "inserted" =>
        /\ listLock = v /\ visitor[v].id \notin Taken
        /\ ~ IsListed(visitor[v].owner, visitor[v].pair)

\* What an addition has seen is still there, of its user, and before its place.
SeenHolds(v) ==
    visitor[v].pc \in {"insert", "inserted"} =>
        \A i \in visitor[v].seen : i \in Owned(visitor[v].owner) /\ list[i].order < visitor[v].order

WatchlistIInv ==
    /\ WatchlistTypeOK
    /\ asked \subseteq Taken \X Taken
    /\ OrderAsAsked /\ ListedOnce /\ ForeignOnlyIfFreed
    /\ listLock \in Visitor \cup {"nobody"}
    /\ \A v \in Visitor : InsertWaits(v) /\ SeenHolds(v)

LEMMA VisitorIs ==
    ASSUME WatchlistTypeOK, NEW v \in Visitor
    PROVE  /\ visitor[v] \in ListVisit
           /\ visitor[v].pc = "place" => visitor[v].owner \in Lister /\ visitor[v].pair \in ListedPair
           /\ visitor[v].pc = "insert" =>
                  /\ visitor[v].owner \in Lister /\ visitor[v].pair \in ListedPair
                  /\ visitor[v].order \in 0..MaxOrder /\ visitor[v].seen \subseteq PairId
           /\ visitor[v].pc = "inserted" =>
                  /\ visitor[v].owner \in Lister /\ visitor[v].pair \in ListedPair
                  /\ visitor[v].order \in 0..MaxOrder /\ visitor[v].id \in PairId
                  /\ visitor[v].seen \subseteq PairId
           /\ visitor[v].pc = "delete" => visitor[v].id \in PairId
           /\ visitor[v].pc = "reorder" =>
                  /\ visitor[v].places \in Orders /\ visitor[v].owner \in Lister
                  /\ visitor[v].freed \subseteq PairId
<1>1. visitor[v] \in ListVisit
  BY DEF WatchlistTypeOK
<1> QED BY <1>1 DEF ListVisit, NoVisit

LEMMA TakenIs ==
    ASSUME WatchlistTypeOK
    PROVE  /\ Taken \subseteq PairId
           /\ \A i \in Taken : list[i] \in PairRow /\ list[i].owner \in Lister /\ list[i].order \in 0..MaxOrder
           /\ \A o \in Lister : Owned(o) \subseteq Taken
<1>1. \A i \in Taken : list[i] \in PairRow
  BY DEF Taken, WatchlistTypeOK
<1>2. \A o \in Lister : Owned(o) \subseteq Taken
  BY WatchlistAssumption DEF Owned, Taken, NoPair
<1> QED BY <1>1, <1>2 DEF Taken, PairRow

LEMMA VisitsIs ==
    ASSUME WatchlistTypeOK, NEW v \in Visitor, NEW s \in ListVisit, Visits(v, s)
    PROVE  /\ visitor'[v] = s /\ \A w \in Visitor \ {v} : visitor'[w] = visitor[w]
           /\ visitor' \in [Visitor -> ListVisit]
<1>1. visitor \in [Visitor -> ListVisit]
  BY DEF WatchlistTypeOK
<1> QED BY <1>1 DEF Visits

\* The end of a visit that tells the others which rows they cannot rely on any more.
LEMMA EndsIs ==
    ASSUME WatchlistTypeOK, NEW v \in Visitor, NEW S, NEW gone \in SUBSET PairId,
           EndsVisit(v, S, gone)
    PROVE  /\ visitor' \in [Visitor -> ListVisit] /\ visitor'[v] = NoVisit
           /\ \A w \in Visitor \ {v} :
                /\ visitor'[w].pc = visitor[w].pc
                /\ visitor[w].pc \in {"insert", "inserted"} =>
                       /\ visitor'[w].seen = visitor[w].seen \ S
                       /\ visitor'[w].owner = visitor[w].owner
                       /\ visitor'[w].order = visitor[w].order
                /\ visitor[w].pc = "reorder" =>
                       /\ visitor'[w].places = visitor[w].places
                       /\ visitor'[w].owner = visitor[w].owner
                       /\ visitor'[w].freed = visitor[w].freed \cup gone
<1>1. /\ NoVisit \in ListVisit /\ visitor' = [w \in Visitor |->
                IF w = v THEN NoVisit ELSE NoLongerSeen(visitor[w], S, gone)]
  BY DEF EndsVisit, ListVisit
<1>2. ASSUME NEW w \in Visitor \ {v}
      PROVE  /\ visitor'[w] \in ListVisit /\ visitor'[w].pc = visitor[w].pc
             /\ visitor[w].pc \in {"insert", "inserted"} =>
                    /\ visitor'[w].seen = visitor[w].seen \ S
                    /\ visitor'[w].owner = visitor[w].owner
                    /\ visitor'[w].order = visitor[w].order
             /\ visitor[w].pc = "reorder" =>
                    /\ visitor'[w].places = visitor[w].places
                    /\ visitor'[w].owner = visitor[w].owner
                    /\ visitor'[w].freed = visitor[w].freed \cup gone
  <2>1. visitor[w] \in ListVisit /\ visitor'[w] = NoLongerSeen(visitor[w], S, gone)
    BY <1>1 DEF WatchlistTypeOK
  <2>2. CASE visitor[w].pc = "insert"
    <3>1. visitor[w] \in [pc: {"insert"}, owner: Lister, pair: ListedPair, order: 0..MaxOrder,
                          seen: SUBSET PairId]
      BY <2>1, <2>2 DEF ListVisit, NoVisit
    <3>2. visitor'[w] = [visitor[w] EXCEPT !.seen = @ \ S]
      BY <2>1, <2>2 DEF NoLongerSeen
    <3>3. visitor'[w] \in [pc: {"insert"}, owner: Lister, pair: ListedPair, order: 0..MaxOrder,
                          seen: SUBSET PairId]
      BY <3>1, <3>2
    <3> QED BY <3>1, <3>2, <3>3, <2>2 DEF ListVisit
  <2>3. CASE visitor[w].pc = "inserted"
    <3>1. visitor[w] \in [pc: {"inserted"}, owner: Lister, pair: ListedPair, order: 0..MaxOrder,
                          seen: SUBSET PairId, id: PairId]
      BY <2>1, <2>3 DEF ListVisit, NoVisit
    <3>2. visitor'[w] = [visitor[w] EXCEPT !.seen = @ \ S]
      BY <2>1, <2>3 DEF NoLongerSeen
    <3>3. visitor'[w] \in [pc: {"inserted"}, owner: Lister, pair: ListedPair, order: 0..MaxOrder,
                          seen: SUBSET PairId, id: PairId]
      BY <3>1, <3>2
    <3> QED BY <3>1, <3>2, <3>3, <2>3 DEF ListVisit
  <2>4. CASE visitor[w].pc = "reorder"
    <3>1. visitor[w] \in [pc: {"reorder"}, owner: Lister, places: Orders, freed: SUBSET PairId]
      BY <2>1, <2>4 DEF ListVisit, NoVisit
    <3>2. visitor'[w] = [visitor[w] EXCEPT !.freed = @ \cup gone]
      BY <2>1, <2>4 DEF NoLongerSeen
    <3>3. visitor'[w] \in [pc: {"reorder"}, owner: Lister, places: Orders, freed: SUBSET PairId]
      BY <3>1, <3>2
    <3> QED BY <3>1, <3>2, <3>3, <2>4 DEF ListVisit
  <2>5. CASE visitor[w].pc \notin {"insert", "inserted", "reorder"}
    <3>1. visitor'[w] = visitor[w]
      BY <2>1, <2>5 DEF NoLongerSeen
    <3> QED BY <3>1, <2>1, <2>5
  <2> QED BY <2>2, <2>3, <2>4, <2>5
<1>3. visitor' \in [Visitor -> ListVisit] /\ visitor'[v] = NoVisit
  BY <1>1, <1>2
<1> QED BY <1>2, <1>3

\* Steps that write no row and take no lock.
LEMMA ReadKeeps ==
    ASSUME WatchlistIInv, NEW v \in Visitor, NEW s \in ListVisit, Visits(v, s),
           s.pc # "inserted", visitor[v].pc # "inserted", UNCHANGED <<list, listLock, asked>>,
           s.pc = "insert" => \A i \in s.seen : i \in Owned(s.owner) /\ list[i].order < s.order,
           s.pc = "reorder" => Named(s) \subseteq Owned(s.owner)
    PROVE  WatchlistIInv'
<1>1. /\ visitor'[v] = s /\ \A w \in Visitor \ {v} : visitor'[w] = visitor[w]
      /\ visitor' \in [Visitor -> ListVisit]
  BY VisitsIs DEF WatchlistIInv
<1>2. /\ Taken' = Taken /\ \A o, p : IsListed(o, p)' = IsListed(o, p)
      /\ \A o : Owned(o)' = Owned(o)
  BY DEF Taken, IsListed, Owned
<1>3. listLock = "nobody" \/ visitor'[listLock].pc = "inserted"
  BY <1>1 DEF WatchlistIInv, WatchlistTypeOK
<1>4. WatchlistTypeOK'
  BY <1>1, <1>3 DEF WatchlistIInv, WatchlistTypeOK, ListVisit
<1>5. OrderAsAsked' /\ ListedOnce'
  BY <1>2 DEF WatchlistIInv, OrderAsAsked, ListedOnce
<1>6. \A w \in Visitor : InsertWaits(w)'
  BY <1>1, <1>2 DEF WatchlistIInv, InsertWaits
<1>7. \A w \in Visitor : SeenHolds(w)'
  BY <1>1, <1>2 DEF WatchlistIInv, SeenHolds
<1>8. ForeignOnlyIfFreed'
  BY <1>1, <1>2 DEF WatchlistIInv, ForeignOnlyIfFreed, Named
<1> QED BY <1>2, <1>4, <1>5, <1>6, <1>7, <1>8 DEF WatchlistIInv

LEMMA ReadsPreserve ==
    ASSUME WatchlistIInv, NEW v \in Visitor,
           \/ \E o \in Lister, p \in ListedPair : LookUpPair(v, o, p)
           \/ \E o \in Lister, i \in PairId : FindPair(v, o, i)
           \/ \E o \in Lister, places \in Orders : CheckOwned(v, o, places)
           \/ FindPlace(v)
    PROVE  WatchlistIInv'
<1>t. WatchlistTypeOK
  BY DEF WatchlistIInv
<1>1. ASSUME NEW o \in Lister, NEW p \in ListedPair, LookUpPair(v, o, p) PROVE WatchlistIInv'
  <2>1. [pc |-> "place", owner |-> o, pair |-> p] \in ListVisit
    BY DEF ListVisit
  <2>2. visitor[v].pc # "inserted"
    BY <1>1 DEF LookUpPair, NoVisit
  <2> QED BY <1>1, <2>1, <2>2, ReadKeeps DEF LookUpPair
<1>2. ASSUME NEW o \in Lister, NEW i \in PairId, FindPair(v, o, i) PROVE WatchlistIInv'
  <2>1. [pc |-> "delete", id |-> i] \in ListVisit
    BY DEF ListVisit
  <2>2. visitor[v].pc # "inserted"
    BY <1>2 DEF FindPair, NoVisit
  <2> QED BY <1>2, <2>1, <2>2, ReadKeeps DEF FindPair
<1>3. ASSUME NEW o \in Lister, NEW places \in Orders, CheckOwned(v, o, places) PROVE WatchlistIInv'
  <2> DEFINE s == [pc |-> "reorder", owner |-> o, places |-> places, freed |-> {}]
  <2>1. s \in ListVisit /\ s.pc = "reorder"
    BY DEF ListVisit
  <2>2. visitor[v].pc # "inserted" /\ Visits(v, s) /\ UNCHANGED <<list, listLock, asked>>
    BY <1>3 DEF CheckOwned, NoVisit
  <2>3. Named(s) \subseteq Owned(s.owner)
    BY <1>3 DEF CheckOwned, Named
  <2> HIDE DEF s
  <2> QED BY <2>1, <2>2, <2>3, ReadKeeps
<1>4. CASE FindPlace(v)
  <2>1. PICK next \in 0..MaxOrder :
            /\ _get_next_sort_order(visitor[v].owner, next)
            /\ Visits(v, [pc |-> "insert", owner |-> visitor[v].owner, pair |-> visitor[v].pair,
                          order |-> next, seen |-> Owned(visitor[v].owner)])
    BY <1>4 DEF FindPlace
  <2> DEFINE s == [pc |-> "insert", owner |-> visitor[v].owner, pair |-> visitor[v].pair,
                   order |-> next, seen |-> Owned(visitor[v].owner)]
  <2>2. visitor[v].owner \in Lister /\ visitor[v].pair \in ListedPair
    BY <1>t, <1>4, VisitorIs DEF FindPlace
  <2>3. s \in ListVisit /\ s.pc = "insert"
    BY <2>2 DEF ListVisit, Owned
  <2>4. visitor[v].pc # "inserted" /\ UNCHANGED <<list, listLock, asked>> /\ Visits(v, s)
    BY <1>4, <2>1 DEF FindPlace
  <2>5. \A i \in s.seen : i \in Owned(s.owner) /\ list[i].order < s.order
    BY <2>1 DEF _get_next_sort_order
  <2> HIDE DEF s
  <2> QED BY <2>3, <2>4, <2>5, ReadKeeps
<1> QED BY <1>1, <1>2, <1>3, <1>4

LEMMA InsertKeeps ==
    ASSUME WatchlistIInv, NEW v \in Visitor, InsertPair(v)
    PROVE  WatchlistIInv'
<1>t. WatchlistTypeOK
  BY DEF WatchlistIInv
<1>1. visitor[v].pc = "insert" /\ listLock = "nobody" /\ UNCHANGED <<list, asked>>
  BY DEF InsertPair, ListUnlocked
<1>2. CASE IsListed(visitor[v].owner, visitor[v].pair)
  <2>1. Visits(v, NoVisit) /\ UNCHANGED listLock
    BY <1>2 DEF InsertPair
  <2>2. NoVisit \in ListVisit /\ NoVisit.pc = "away" /\ visitor[v].pc # "inserted"
    BY <1>1 DEF ListVisit, NoVisit
  <2> QED BY <1>1, <2>1, <2>2, ReadKeeps
<1>3. CASE ~ IsListed(visitor[v].owner, visitor[v].pair)
  <2> DEFINE s(id) == [pc |-> "inserted", owner |-> visitor[v].owner, pair |-> visitor[v].pair,
                       order |-> visitor[v].order, seen |-> visitor[v].seen, id |-> id]
  <2>1. PICK id \in PairId : NextPairId(id) /\ listLock' = v /\ Visits(v, s(id))
    BY <1>3 DEF InsertPair
  <2>2. s(id) \in ListVisit
    BY <1>t, <1>1, VisitorIs DEF ListVisit
  <2>3. id \notin Taken
    BY <2>1 DEF NextPairId, PairId
  <2>4. /\ visitor'[v] = s(id) /\ \A w \in Visitor \ {v} : visitor'[w] = visitor[w]
        /\ visitor' \in [Visitor -> ListVisit]
    BY <1>t, <2>1, <2>2, VisitsIs
  <2>5. /\ visitor'[v].pc = "inserted" /\ visitor'[v].id = id
        /\ visitor'[v].owner = visitor[v].owner /\ visitor'[v].pair = visitor[v].pair
        /\ visitor'[v].seen = visitor[v].seen /\ visitor'[v].order = visitor[v].order
    BY <2>4
  <2>6. /\ Taken' = Taken /\ \A o, p : IsListed(o, p)' = IsListed(o, p)
        /\ \A o : Owned(o)' = Owned(o)
    BY <1>1 DEF Taken, IsListed, Owned
  <2>7. InsertWaits(v)'
    BY <1>3, <2>1, <2>3, <2>5, <2>6 DEF InsertWaits
  <2>8. \A w \in Visitor \ {v} : InsertWaits(w)'
    BY <1>1, <2>4, WatchlistAssumption DEF InsertWaits, WatchlistIInv
  <2>9. WatchlistTypeOK'
    BY <1>1, <2>1, <2>4, <2>5 DEF WatchlistIInv, WatchlistTypeOK, ListVisit
  <2>10. OrderAsAsked' /\ ListedOnce'
    BY <1>1, <2>6 DEF WatchlistIInv, OrderAsAsked, ListedOnce
  <2>11. \A w \in Visitor : SeenHolds(w)'
    BY <1>1, <2>4, <2>5, <2>6 DEF WatchlistIInv, SeenHolds
  <2>12. ForeignOnlyIfFreed'
    BY <2>4, <2>5, <2>6 DEF WatchlistIInv, ForeignOnlyIfFreed, Named
  <2> QED BY <1>1, <2>1, <2>6, <2>7, <2>8, <2>9, <2>10, <2>11, <2>12 DEF WatchlistIInv
<1> QED BY <1>2, <1>3

\* What ends the visit of a request that leaves nobody with the lock.
LEMMA VisitEnds ==
    ASSUME WatchlistIInv, NEW v \in Visitor, listLock' = "nobody",
           listLock = "nobody" \/ listLock = v,
           visitor' \in [Visitor -> ListVisit], visitor'[v] = NoVisit,
           \A w \in Visitor \ {v} : visitor'[w].pc = visitor[w].pc,
           list' \in [PairId -> PairRow \cup {NoPair}], asked' \subseteq Taken' \X Taken',
           OrderAsAsked', ListedOnce', ForeignOnlyIfFreed',
           \A w \in Visitor \ {v} : SeenHolds(w)'
    PROVE  WatchlistIInv'
<1>1. NoVisit.pc = "away"
  BY DEF NoVisit
<1>3. \A w \in Visitor : visitor'[w].pc # "inserted"
  <2> SUFFICES ASSUME NEW w \in Visitor \ {v} PROVE visitor[w].pc # "inserted"
    BY <1>1
  <2>1. InsertWaits(w) /\ w # "nobody"
    BY WatchlistAssumption DEF WatchlistIInv
  <2> QED BY <2>1 DEF InsertWaits
<1>4. \A w \in Visitor : InsertWaits(w)' /\ SeenHolds(w)'
  BY <1>1, <1>3 DEF InsertWaits, SeenHolds
<1>5. Taken' \subseteq PairId
  BY DEF Taken
<1>6. WatchlistTypeOK'
  BY <1>5 DEF WatchlistTypeOK
<1> QED BY <1>4, <1>6 DEF WatchlistIInv

LEMMA CommitKeeps ==
    ASSUME WatchlistIInv, NEW v \in Visitor, NEW commits \in BOOLEAN, CommitPair(v, commits)
    PROVE  WatchlistIInv'
<1>t. WatchlistTypeOK
  BY DEF WatchlistIInv
<1>p. PICK o \in Lister, p \in ListedPair, place \in 0..MaxOrder, id \in PairId :
          /\ visitor[v].owner = o /\ visitor[v].pair = p
          /\ visitor[v].order = place /\ visitor[v].id = id
  BY <1>t, VisitorIs DEF CommitPair
<1> DEFINE row == [owner |-> o, pair |-> p, order |-> place]
<1> DEFINE seen == visitor[v].seen
<1>1. /\ Visits(v, NoVisit) /\ listLock' = "nobody" /\ listLock = v
      /\ id \notin Taken /\ ~ IsListed(o, p) /\ visitor[v].pc = "inserted"
      /\ asked' = (IF commits THEN asked \cup (seen \X {id}) ELSE asked)
  BY <1>p DEF CommitPair, WatchlistIInv, InsertWaits
<1>s. \A i \in seen : i \in Owned(o) /\ i \in Taken /\ list[i].order < place
  BY <1>p, <1>t, <1>1, TakenIs DEF WatchlistIInv, SeenHolds
<1>v. /\ visitor' \in [Visitor -> ListVisit] /\ visitor'[v] = NoVisit
      /\ \A w \in Visitor \ {v} : visitor'[w] = visitor[w]
  <2>1. NoVisit \in ListVisit
    BY DEF ListVisit
  <2> QED BY <2>1, <1>1, <1>t, VisitsIs
<1>n. NoVisit.pc = "away"
  BY DEF NoVisit
<1>2. list' = (IF commits THEN [list EXCEPT ![id] = row] ELSE list)
  BY <1>p DEF CommitPair
<1>3. CASE ~ commits
  <2>1. list' = list /\ Taken' = Taken
    BY <1>2, <1>3 DEF Taken
  <2>2. list' \in [PairId -> PairRow \cup {NoPair}] /\ asked' \subseteq Taken' \X Taken'
    BY <1>t, <1>1, <1>3, <2>1 DEF WatchlistTypeOK, WatchlistIInv
  <2>3. OrderAsAsked' /\ ListedOnce'
    BY <1>1, <1>3, <2>1 DEF WatchlistIInv, OrderAsAsked, ListedOnce
  <2>4. ForeignOnlyIfFreed' /\ \A w \in Visitor \ {v} : SeenHolds(w)'
    BY <1>v, <1>n, <2>1 DEF WatchlistIInv, ForeignOnlyIfFreed, Named, Owned, SeenHolds
  <2> QED BY <1>1, <1>v, <2>2, <2>3, <2>4, VisitEnds
<1>4. CASE commits
  <2>0. row \in PairRow /\ row # NoPair /\ row.owner = o /\ row.pair = p /\ row.order = place
    BY WatchlistAssumption DEF PairRow, NoPair
  <2> HIDE DEF row
  <2>1. /\ list'[id] = row /\ \A i \in PairId \ {id} : list'[i] = list[i]
        /\ list' \in [PairId -> PairRow \cup {NoPair}]
    BY <1>t, <1>2, <1>4, <2>0 DEF WatchlistTypeOK
  <2>2. Taken' = Taken \cup {id} /\ Taken \subseteq PairId
    BY <1>1, <2>0, <2>1 DEF Taken
  <2>3. /\ asked' \subseteq Taken' \X Taken'
        /\ \A i, j : <<i, j>> \in asked => i \in Taken /\ j \in Taken
        /\ \A i, j : <<i, j>> \in asked' => <<i, j>> \in asked \/ (i \in seen /\ j = id)
    BY <1>1, <1>4, <1>s, <2>2 DEF WatchlistIInv
  <2>4. OrderAsAsked'
    <3> SUFFICES ASSUME NEW i \in Taken', NEW j \in Taken', <<i, j>> \in asked'
                 PROVE  list'[i].order < list'[j].order
      BY DEF OrderAsAsked
    <3>1. CASE <<i, j>> \in asked
      BY <1>1, <2>1, <2>2, <2>3, <3>1 DEF WatchlistIInv, OrderAsAsked
    <3>2. CASE i \in seen /\ j = id
      BY <1>1, <1>s, <2>0, <2>1, <2>2, <3>2
    <3> QED BY <3>1, <3>2, <2>3
  <2>7. \A q \in Lister : \A i \in Owned(q) : i \in Owned(q)' /\ list'[i] = list[i]
    <3> SUFFICES ASSUME NEW q \in Lister, NEW i \in Owned(q)
                 PROVE  i \in Owned(q)' /\ list'[i] = list[i]
      OBVIOUS
    <3>1. i \in PairId /\ list[i].owner = q /\ i \in Taken
      BY <1>t, TakenIs DEF Owned
    <3>2. list'[i] = list[i]
      BY <3>1, <1>1, <2>1
    <3> QED BY <3>1, <3>2 DEF Owned
  <2>8. \A w \in Visitor \ {v} : SeenHolds(w)'
    <3> SUFFICES ASSUME NEW w \in Visitor \ {v}, visitor[w].pc \in {"insert", "inserted"},
                        NEW i \in visitor[w].seen
                 PROVE  i \in Owned(visitor[w].owner)' /\ list'[i].order < visitor[w].order
      BY <1>v DEF SeenHolds
    <3>1. i \in Owned(visitor[w].owner) /\ list[i].order < visitor[w].order
      BY DEF WatchlistIInv, SeenHolds
    <3>2. visitor[w].owner \in Lister /\ visitor'[w].owner = visitor[w].owner
      BY <1>t, <1>v, VisitorIs
    <3> QED BY <3>1, <3>2, <2>7 DEF Owned
  <2>9. ForeignOnlyIfFreed'
    <3> SUFFICES ASSUME NEW w \in Visitor \ {v}, visitor[w].pc = "reorder",
                        NEW i \in Named(visitor[w])
                 PROVE  i \in Owned(visitor[w].owner)'
      BY <1>v, <1>n DEF ForeignOnlyIfFreed, Named
    <3>1. i \in Owned(visitor[w].owner) /\ visitor[w].owner \in Lister
      BY <1>t, VisitorIs DEF WatchlistIInv, ForeignOnlyIfFreed
    <3>2. visitor'[w].owner = visitor[w].owner
      BY <1>v
    <3> QED BY <3>1, <3>2, <2>7 DEF Owned
  <2>5. \A i \in Taken : ~ (list[i].owner = o /\ list[i].pair = p)
    BY <1>1, <2>2 DEF IsListed, Owned
  <2>6. ListedOnce'
    <3> SUFFICES ASSUME NEW i \in Taken', NEW j \in Taken',
                        list'[i].owner = list'[j].owner, list'[i].pair = list'[j].pair
                 PROVE  i = j
      BY DEF ListedOnce
    <3>1. CASE i = id /\ j # id
      BY <2>0, <2>1, <2>2, <2>5, <3>1
    <3>2. CASE i # id /\ j = id
      BY <2>0, <2>1, <2>2, <2>5, <3>2
    <3>3. CASE i # id /\ j # id
      BY <2>1, <2>2, <3>3 DEF WatchlistIInv, ListedOnce
    <3> QED BY <3>1, <3>2, <3>3
  <2> QED BY <1>1, <1>v, <2>1, <2>3, <2>4, <2>6, <2>8, <2>9, VisitEnds
<1> QED BY <1>3, <1>4

LEMMA DeleteKeeps ==
    ASSUME WatchlistIInv, NEW v \in Visitor, DeletePair(v)
    PROVE  WatchlistIInv'
<1>t. WatchlistTypeOK
  BY DEF WatchlistIInv
<1>p. PICK id \in PairId : visitor[v].id = id
  BY <1>t, VisitorIs DEF DeletePair
<1>1. /\ EndsVisit(v, {id}, {id}) /\ listLock = "nobody" /\ listLock' = "nobody"
      /\ list' = [list EXCEPT ![id] = NoPair] /\ asked' = Forgotten({id})
  BY <1>p DEF DeletePair, ListUnlocked
<1>2. /\ list'[id] = NoPair /\ \A i \in PairId \ {id} : list'[i] = list[i]
      /\ list' \in [PairId -> PairRow \cup {NoPair}]
  BY <1>t, <1>1 DEF WatchlistTypeOK
<1>3. Taken' = Taken \ {id} /\ Taken \subseteq PairId
  BY <1>2 DEF Taken
<1>4. asked' \subseteq Taken' \X Taken' /\ asked' \subseteq asked
  BY <1>1, <1>3 DEF Forgotten, WatchlistIInv
<1>5. OrderAsAsked' /\ ListedOnce'
  BY <1>2, <1>3, <1>4 DEF WatchlistIInv, OrderAsAsked, ListedOnce
<1>6. /\ visitor' \in [Visitor -> ListVisit] /\ visitor'[v] = NoVisit
      /\ \A w \in Visitor \ {v} :
            /\ visitor'[w].pc = visitor[w].pc
            /\ visitor[w].pc \in {"insert", "inserted"} =>
                   /\ visitor'[w].seen = visitor[w].seen \ {id}
                   /\ visitor'[w].owner = visitor[w].owner
                   /\ visitor'[w].order = visitor[w].order
            /\ visitor[w].pc = "reorder" =>
                   /\ visitor'[w].places = visitor[w].places
                   /\ visitor'[w].owner = visitor[w].owner
                   /\ visitor'[w].freed = visitor[w].freed \cup {id}
  BY <1>t, <1>1, EndsIs
<1>7. \A q : \A i \in Owned(q) \ {id} : i \in Owned(q)' /\ list'[i] = list[i]
  BY <1>2 DEF Owned
<1>8. \A w \in Visitor \ {v} : SeenHolds(w)'
  BY <1>6, <1>7 DEF WatchlistIInv, SeenHolds
<1>9. ForeignOnlyIfFreed'
  <2>0. visitor'[v].pc = "away"
    BY <1>6 DEF NoVisit
  <2> SUFFICES ASSUME NEW w \in Visitor \ {v}, visitor[w].pc = "reorder",
                      NEW i \in DOMAIN visitor'[w].places \ visitor'[w].freed
               PROVE  i \in Owned(visitor[w].owner)'
    BY <1>6, <2>0 DEF ForeignOnlyIfFreed, Named
  <2>1. i \in Named(visitor[w]) /\ i # id
    BY <1>6 DEF Named
  <2>2. i \in Owned(visitor[w].owner)
    BY <2>1 DEF WatchlistIInv, ForeignOnlyIfFreed
  <2> QED BY <2>1, <2>2, <1>6, <1>7 DEF Owned
<1> QED BY <1>1, <1>2, <1>4, <1>5, <1>6, <1>8, <1>9, VisitEnds

LEMMA OrderKeeps ==
    ASSUME WatchlistIInv, NEW v \in Visitor, WriteOrder(v)
    PROVE  WatchlistIInv'
<1>t. WatchlistTypeOK
  BY DEF WatchlistIInv
<1>p. PICK places \in Orders : visitor[v].places = places
  BY <1>t, VisitorIs DEF WriteOrder
<1> DEFINE written == Taken \cap DOMAIN places
<1> DEFINE still == Named(visitor[v])
<1>1. /\ EndsVisit(v, DOMAIN places, {}) /\ listLock = "nobody" /\ listLock' = "nobody"
      /\ list' = Ordered(places) /\ asked' = Asks(places, still) /\ visitor[v].pc = "reorder"
  BY <1>p DEF WriteOrder, ListUnlocked, ReorderAnswered
<1>o. still \subseteq DOMAIN places /\ still \subseteq Taken
  <2>1. still \subseteq Owned(visitor[v].owner) /\ visitor[v].owner \in Lister
    BY <1>1, <1>t, VisitorIs DEF WatchlistIInv, ForeignOnlyIfFreed
  <2> QED BY <2>1, <1>p, <1>t, TakenIs DEF Named
<1> HIDE DEF still
<1>2. \A i \in DOMAIN places : places[i] \in 0..MaxOrder
  <2>1. \A i \in DOMAIN places : places[i] \in 0..MaxAsked
    BY DEF Orders
  <2> QED BY <2>1, WatchlistAssumption
<1>3. Taken \subseteq PairId /\ \A i \in Taken : list[i] \in PairRow
  BY <1>t, TakenIs
<1>4. \A i \in written : /\ list'[i] \in PairRow /\ list'[i].order = places[i]
                         /\ list'[i].owner = list[i].owner /\ list'[i].pair = list[i].pair
  BY <1>1, <1>2, <1>3 DEF Ordered, PairRow
<1>5. \A i \in PairId \ written : list'[i] = list[i]
  BY <1>1 DEF Ordered
<1>6. NoPair \notin PairRow
  BY WatchlistAssumption DEF NoPair, PairRow
<1>7. /\ Taken' = Taken
      /\ \A i \in Taken : list'[i].owner = list[i].owner /\ list'[i].pair = list[i].pair
  BY <1>3, <1>4, <1>5, <1>6 DEF Taken
<1>8. list' \in [PairId -> PairRow \cup {NoPair}]
  <2>1. \A i \in PairId : list'[i] \in PairRow \cup {NoPair}
    BY <1>t, <1>4, <1>5 DEF WatchlistTypeOK
  <2>2. list' = [i \in PairId |-> list'[i]]
    BY <1>1 DEF Ordered
  <2> QED BY <2>1, <2>2
<1>9. asked' \subseteq Taken' \X Taken'
  BY <1>1, <1>7, <1>o DEF Asks, Forgotten, WatchlistIInv
<1>10. OrderAsAsked'
  <2> SUFFICES ASSUME NEW i \in Taken, NEW j \in Taken, <<i, j>> \in asked'
               PROVE  list'[i].order < list'[j].order
    BY <1>7 DEF OrderAsAsked
  <2>1. CASE <<i, j>> \in asked /\ i \notin DOMAIN places /\ j \notin DOMAIN places
    BY <1>3, <1>5, <2>1 DEF WatchlistIInv, OrderAsAsked
  <2>2. CASE i \in DOMAIN places /\ j \in DOMAIN places /\ places[i] < places[j]
    BY <1>4, <2>2
  <2> QED BY <1>1, <1>o, <2>1, <2>2 DEF Asks, Forgotten
<1>11. ListedOnce'
  BY <1>7 DEF WatchlistIInv, ListedOnce
<1>12. /\ visitor' \in [Visitor -> ListVisit] /\ visitor'[v] = NoVisit
       /\ \A w \in Visitor \ {v} :
            /\ visitor'[w].pc = visitor[w].pc
            /\ visitor[w].pc \in {"insert", "inserted"} =>
                   /\ visitor'[w].seen = visitor[w].seen \ DOMAIN places
                   /\ visitor'[w].owner = visitor[w].owner
                   /\ visitor'[w].order = visitor[w].order
            /\ visitor[w].pc = "reorder" =>
                   /\ visitor'[w].places = visitor[w].places
                   /\ visitor'[w].owner = visitor[w].owner
                   /\ visitor'[w].freed = visitor[w].freed \cup {}
  <2> DEFINE S == DOMAIN places
  <2> DEFINE gone == {}
  <2>1. gone \in SUBSET PairId /\ EndsVisit(v, S, gone)
    BY <1>1
  <2> HIDE DEF S, gone
  <2>2. /\ visitor' \in [Visitor -> ListVisit] /\ visitor'[v] = NoVisit
        /\ \A w \in Visitor \ {v} :
             /\ visitor'[w].pc = visitor[w].pc
             /\ visitor[w].pc \in {"insert", "inserted"} =>
                    /\ visitor'[w].seen = visitor[w].seen \ S
                    /\ visitor'[w].owner = visitor[w].owner
                    /\ visitor'[w].order = visitor[w].order
             /\ visitor[w].pc = "reorder" =>
                    /\ visitor'[w].places = visitor[w].places
                    /\ visitor'[w].owner = visitor[w].owner
                    /\ visitor'[w].freed = visitor[w].freed \cup gone
    BY <2>1, <1>t, EndsIs
  <2> QED BY <2>2 DEF S, gone
<1>13. \A q : Owned(q)' = Owned(q)
  <2>1. \A i \in PairId : list'[i].owner = list[i].owner
    BY <1>4, <1>5
  <2> QED BY <2>1 DEF Owned
<1>14. \A w \in Visitor \ {v} : SeenHolds(w)'
  <2> SUFFICES ASSUME NEW w \in Visitor \ {v}, visitor[w].pc \in {"insert", "inserted"},
                      NEW i \in visitor[w].seen \ DOMAIN places
               PROVE  i \in Owned(visitor[w].owner)' /\ list'[i].order < visitor[w].order
    BY <1>12 DEF SeenHolds
  <2>1. i \in Owned(visitor[w].owner) /\ list[i].order < visitor[w].order /\ i \in PairId
    BY DEF WatchlistIInv, SeenHolds, Owned
  <2> QED BY <2>1, <1>5, <1>12, <1>13 DEF Owned
<1>15. ForeignOnlyIfFreed'
  BY <1>12, <1>13 DEF WatchlistIInv, ForeignOnlyIfFreed, Named, NoVisit
<1> QED BY <1>1, <1>8, <1>9, <1>10, <1>11, <1>12, <1>14, <1>15, VisitEnds

\* However many users add, remove and reorder at once: a pair is listed once per user, rows
\* come in the order that was last asked for, by a reorder or by an addition, and a reorder
\* writes rows of its own user and rows under an id that was freed since its check.
THEOREM ListsKeepTheirOrder ==
    WatchlistSpec => []WatchlistInv
<1>1. WatchlistInit => WatchlistIInv
  <2> SUFFICES ASSUME WatchlistInit PROVE WatchlistIInv
    OBVIOUS
  <2>1. Taken = {} /\ asked = {} /\ listLock = "nobody"
    BY DEF WatchlistInit, Taken
  <2>2. \A v \in Visitor : visitor[v] = NoVisit /\ NoVisit.pc # "inserted"
    BY DEF WatchlistInit, NoVisit
  <2>3. WatchlistTypeOK
    BY DEF WatchlistInit, WatchlistTypeOK, ListVisit
  <2>4. \A v \in Visitor : visitor[v].pc = "away"
    BY <2>2 DEF NoVisit
  <2> QED BY <2>1, <2>3, <2>4 DEF WatchlistIInv, OrderAsAsked, ListedOnce, InsertWaits,
          SeenHolds, ForeignOnlyIfFreed
<1>2. WatchlistIInv /\ [WatchlistNext]_watchlistVars => WatchlistIInv'
  <2> SUFFICES ASSUME WatchlistIInv, [WatchlistNext]_watchlistVars PROVE WatchlistIInv'
    OBVIOUS
  <2>1. CASE UNCHANGED watchlistVars
    <3>1. UNCHANGED <<list, listLock, visitor, asked>>
      BY <2>1 DEF watchlistVars
    <3>2. /\ Taken' = Taken /\ \A o, p : IsListed(o, p)' = IsListed(o, p)
          /\ \A o : Owned(o)' = Owned(o)
      BY <3>1 DEF Taken, IsListed, Owned
    <3> QED BY <3>1, <3>2 DEF WatchlistIInv, WatchlistTypeOK, OrderAsAsked, ListedOnce, InsertWaits,
            SeenHolds, ForeignOnlyIfFreed, Named
  <2>2. CASE WatchlistNext
    BY <2>2, ReadsPreserve, InsertKeeps, CommitKeeps, DeleteKeeps, OrderKeeps DEF WatchlistNext
  <2> QED BY <2>1, <2>2
<1>3. WatchlistIInv => WatchlistInv
  BY DEF WatchlistIInv, WatchlistInv
<1> QED BY <1>1, <1>2, <1>3, PTL DEF WatchlistSpec

-----------------------------------------------------------------------------
(***************************************************************************)
(* Journal: numbers and ids.                                               *)
(***************************************************************************)
\* A set of naturals that is not empty has a least element.
LEMMA LeastNat ==
    ASSUME NEW S \in SUBSET Nat, S # {}
    PROVE  \E n \in S : \A m \in S : n <= m
<1>1. PICK n \in S : \A m \in S : ~ (<<m, n>> \in OpToRel(<, Nat))
  BY NatLessThanWellFounded, WFMin
<1>2. ASSUME NEW m \in S PROVE n <= m
  <2>1. n \in Nat /\ m \in Nat
    OBVIOUS
  <2>2. ASSUME m < n PROVE <<m, n>> \in OpToRel(<, Nat)
    <3>1. <<m, n>> \in Nat \X Nat /\ <<m, n>>[1] < <<m, n>>[2]
      BY <2>1, <2>2
    <3> QED BY <3>1 DEF OpToRel
  <2>3. ~ (m < n)
    BY <1>1, <2>2
  <2> QED BY <2>1, <2>3
<1> QED BY <1>2

\* A bounded set of naturals has a greatest.
LEMMA MaxIsGreatest ==
    ASSUME NEW n \in Nat, NEW S \in SUBSET (0..n), S # {}
    PROVE  Max(S) \in S /\ \A m \in S : m <= Max(S)
<1> DEFINE below == {n - m : m \in S}
<1>1. below \in SUBSET Nat /\ below # {}
  <2>1. \A m \in S : n - m \in Nat
    OBVIOUS
  <2> QED BY <2>1
<1>2. PICK l \in below : \A k \in below : l <= k
  <2> HIDE DEF below
  <2> QED BY <1>1, LeastNat
<1>3. PICK g \in S : l = n - g
  OBVIOUS
<1>4. \A m \in S : g >= m
  <2> SUFFICES ASSUME NEW m \in S PROVE g >= m
    OBVIOUS
  <2>1. n - m \in below
    OBVIOUS
  <2>2. n - g <= n - m
    BY <1>2, <1>3, <2>1
  <2> QED BY <2>2
<1>5. Max(S) \in S /\ \A m \in S : Max(S) >= m
  BY <1>4 DEF Max
<1> QED BY <1>5

\* The next id is greater than all there are.
LEMMA NextIdIs ==
    ASSUME NEW f, NEW n \in Nat, DOMAIN f \subseteq 1..n
    PROVE  NextId(f) \in 1..(n + 1) /\ NextId(f) \notin DOMAIN f
<1> DEFINE S == DOMAIN f \cup {0}
<1>1. S \in SUBSET (0..n) /\ S # {}
  OBVIOUS
<1>2. Max(S) \in S /\ \A m \in S : m <= Max(S)
  <2> HIDE DEF S
  <2> QED BY <1>1, MaxIsGreatest
<1>3. PICK g \in 0..n : g = Max(S) /\ \A m \in S : m <= g
  BY <1>1, <1>2
<1>4. NextId(f) = 1 + g
  BY <1>3 DEF NextId
<1>5. 1 + g \in 1..(n + 1)
  OBVIOUS
<1>6. 1 + g \notin DOMAIN f
  <2>1. \A m \in DOMAIN f : m <= g /\ m \in Int
    BY <1>3
  <2>2. ~ (1 + g <= g)
    OBVIOUS
  <2> QED BY <2>1, <2>2
<1> QED BY <1>4, <1>5, <1>6

-----------------------------------------------------------------------------
(***************************************************************************)
(* Journal: types.                                                         *)
(***************************************************************************)
StoredScan == [symbol : STRING, at : Nat, direction : {"LONG", "SHORT", "NEUTRAL"}, score : Nat]

RowId == {Unknown} \cup Nat

JournalTag ==
    STRING \cup {"long", "short", "scan_long", "scan_short", "scan_aligned", "scan_conflict", "scan_high"}

JournalEntry ==
    [symbol : STRING, exchange : STRING, position : RowId, tags : Seq(JournalTag), pnl : Seq(Int),
     shots : Seq(Nat), born : Nat, knew : Nat, auto : BOOLEAN, suggested : BOOLEAN,
     from : Seq(StoredScan), row : Seq(ClosedTemplate)]

Creating ==
    [at : {"link", "suggest", "insert"}, body : JournalBody, position : RowId, used : SUBSET RowId,
     knew : Nat, auto : BOOLEAN, tags : Seq(JournalTag), suggested : BOOLEAN,
     from : Seq(StoredScan), row : Seq(ClosedTemplate)]

OnEntry ==
    [at : {"write", "list", "erase", "delete"}, entry : Nat, shots : Seq(Nat), born : Nat,
     file : Nat, alone : BOOLEAN]

JournalTask == {Idle} \cup Creating \cup OnEntry

JournalTypes ==
    /\ journalClock \in 0..MaxNow /\ inserted \in Nat /\ uploads \in 0..MaxUploads
    /\ \E n \in Nat : DOMAIN closed \subseteq 1..n
    /\ \A id \in DOMAIN closed : closed[id] \in ClosedTemplate /\ closed[id].open < journalClock
    /\ scanRows \in Seq(StoredScan)
    /\ \A i \in DOMAIN scanRows : scanRows[i].at <= journalClock
    /\ \A i, j \in DOMAIN scanRows : i < j => scanRows[i].at <= scanRows[j].at
    /\ DOMAIN entries \subseteq 1..inserted
    /\ \A e \in DOMAIN entries : entries[e] \in JournalEntry
    /\ tasks \in [JournalRequest -> JournalTask]
    /\ \A r \in JournalRequest :
           tasks[r].at \in {"link", "suggest", "insert"} /\ tasks[r].row # <<>> =>
               tasks[r].row[1].open < journalClock

LEMMA TaskIs ==
    ASSUME NEW t \in JournalTask
    PROVE  /\ t.at \in {"link", "suggest", "insert"} => t \in Creating
           /\ t.at \in {"write", "list", "erase", "delete"} => t \in OnEntry
           /\ t.at = "idle" => t = Idle
           /\ t.at \in {"idle", "link", "suggest", "insert", "write", "list", "erase", "delete"}
           /\ Idle.at = "idle"
BY DEF JournalTask, Creating, OnEntry, Idle

LEMMA GotoIs ==
    ASSUME tasks \in [JournalRequest -> JournalTask], NEW r \in JournalRequest,
           NEW t \in JournalTask, Goto(r, t)
    PROVE  /\ tasks' \in [JournalRequest -> JournalTask] /\ tasks'[r] = t
           /\ \A s \in JournalRequest : s # r => tasks'[s] = tasks[s]
BY DEF Goto

LEMMA ClosedIs ==
    ASSUME JournalTypes, NEW id \in DOMAIN closed
    PROVE  /\ closed[id] \in ClosedTemplate /\ closed[id].open < journalClock
           /\ closed[id].symbol \in STRING /\ closed[id].exchange \in STRING
           /\ closed[id].pnl \in Int /\ closed[id].open \in RowId
           /\ id \in Nat
BY JournalAssumption DEF JournalTypes, RowId, Unknown

\* The scan found for a position, if any, is one of the stored.
LEMMA ScanForIs ==
    ASSUME JournalTypes, NEW p
    PROVE  \/ /\ ScanFor(p) = NoScan
              /\ \A i \in DOMAIN scanRows :
                     ~ (scanRows[i].symbol = p.symbol /\ (p.open = Unknown \/ scanRows[i].at <= p.open))
           \/ \E k \in DOMAIN scanRows :
                 /\ ScanFor(p) = <<scanRows[k]>> /\ scanRows[k].symbol = p.symbol
                 /\ p.open = Unknown \/ scanRows[k].at <= p.open
                 /\ \A i \in DOMAIN scanRows :
                        scanRows[i].symbol = p.symbol /\ (p.open = Unknown \/ scanRows[i].at <= p.open)
                        => i <= k
<1> DEFINE before == {i \in ScansOf(p.symbol) : p.open = Unknown \/ scanRows[i].at <= p.open}
<1>1. before = {i \in DOMAIN scanRows :
                    scanRows[i].symbol = p.symbol /\ (p.open = Unknown \/ scanRows[i].at <= p.open)}
  BY DEF ScansOf
<1>2. ScanFor(p) = IF before = {} THEN NoScan ELSE <<scanRows[Max(before)]>>
  BY DEF ScanFor, _find_nearest_scan_before
<1>3. CASE before = {}
  BY <1>1, <1>2, <1>3
<1>4. CASE before # {}
  <2>1. PICK n \in Nat : before \in SUBSET (0..n)
    <3>1. Len(scanRows) \in Nat /\ DOMAIN scanRows = 1..Len(scanRows)
      BY DEF JournalTypes
    <3> QED BY <1>1, <3>1
  <2>2. Max(before) \in before /\ \A m \in before : m <= Max(before)
    <3> HIDE DEF before
    <3> QED BY <1>4, <2>1, MaxIsGreatest
  <2> QED BY <1>1, <1>2, <1>4, <2>2
<1> QED BY <1>3, <1>4

LEMMA OneElement ==
    /\ \A S : <<>> \in Seq(S)
    /\ \A S : \A x \in S : <<x>> \in Seq(S) /\ <<x>> # <<>> /\ <<x>>[1] = x
<1>1. \A S : <<>> \in Seq(S)
  OBVIOUS
<1>2. ASSUME NEW S, NEW x \in S PROVE <<x>> \in Seq(S) /\ <<x>> # <<>> /\ <<x>>[1] = x
  OBVIOUS
<1> QED BY <1>1, <1>2

LEMMA ScanForType ==
    ASSUME JournalTypes, NEW p
    PROVE  ScanFor(p) \in Seq(StoredScan)
<1>1. CASE ScanFor(p) = NoScan
  BY <1>1, OneElement DEF NoScan
<1>2. CASE \E k \in DOMAIN scanRows : ScanFor(p) = <<scanRows[k]>>
  <2>1. \A k \in DOMAIN scanRows : scanRows[k] \in StoredScan
    BY DEF JournalTypes
  <2> QED BY <1>2, <2>1, OneElement
<1> QED BY <1>1, <1>2, ScanForIs

LEMMA SuggestedType ==
    ASSUME NEW p, NEW scan
    PROVE  SuggestedTags(p, scan) \in Seq(JournalTag)
<1> DEFINE side == IF p.side \in {"long", "short"} THEN <<p.side>> ELSE <<>>
           directed == scan # NoScan /\ scan[1].direction \in {"LONG", "SHORT"}
           lower == IF scan[1].direction = "LONG" THEN "long" ELSE "short"
           a == IF directed THEN <<IF lower = "long" THEN "scan_long" ELSE "scan_short">> ELSE <<>>
           b == IF directed /\ side # <<>>
                THEN <<IF p.side = lower THEN "scan_aligned" ELSE "scan_conflict">> ELSE <<>>
           c == IF scan # NoScan /\ scan[1].score >= 20 THEN <<"scan_high">> ELSE <<>>
<1>1. <<>> \in Seq(JournalTag) /\ \A x \in JournalTag : <<x>> \in Seq(JournalTag)
  BY OneElement
<1>2. side \in Seq(JournalTag)
  <2>1. p.side \in {"long", "short"} => p.side \in JournalTag
    BY DEF JournalTag
  <2> QED BY <1>1, <2>1
<1>3. a \in Seq(JournalTag)
  <2>1. (IF lower = "long" THEN "scan_long" ELSE "scan_short") \in JournalTag
    BY DEF JournalTag
  <2> HIDE DEF lower, directed
  <2> QED BY <1>1, <2>1
<1>4. b \in Seq(JournalTag)
  <2>1. (IF p.side = lower THEN "scan_aligned" ELSE "scan_conflict") \in JournalTag
    BY DEF JournalTag
  <2> HIDE DEF lower, directed, side
  <2> QED BY <1>1, <2>1
<1>5. c \in Seq(JournalTag)
  <2>1. "scan_high" \in JournalTag
    BY DEF JournalTag
  <2> QED BY <1>1, <2>1
<1>6. SuggestedTags(p, scan) = side \o a \o b \o c
  BY DEF SuggestedTags
<1> HIDE DEF side, a, b, c
<1> QED BY <1>2, <1>3, <1>4, <1>5, <1>6

LEMMA TagsAreTags ==
    /\ \A body \in JournalBody : body.tags \in Seq(JournalTag)
    /\ \A tags \in TagUpdate : tags \in Seq(JournalTag)
<1>1. ASSUME NEW s \in Seq(STRING) PROVE s \in Seq(JournalTag)
  <2>1. \A i \in 1..Len(s) : s[i] \in JournalTag
    BY DEF JournalTag
  <2> HIDE DEF JournalTag
  <2> QED BY <2>1
<1> QED BY <1>1, JournalAssumption

\* A sequence without its i-th element.
LEMMA RemovedIs ==
    ASSUME NEW S, NEW s \in Seq(S), NEW i \in 1..Len(s)
    PROVE  /\ RemoveAt(s, i) \in Seq(S)
           /\ DOMAIN RemoveAt(s, i) = 1..(Len(s) - 1)
           /\ \A j \in 1..(Len(s) - 1) : RemoveAt(s, i)[j] = s[IF j < i THEN j ELSE j + 1]
<1>1. RemoveAt(s, i) = SubSeq(s, 1, i - 1) \o SubSeq(s, i + 1, Len(s))
  BY DEF RemoveAt
<1>2. /\ SubSeq(s, 1, i - 1) \in Seq(S) /\ Len(SubSeq(s, 1, i - 1)) = i - 1
      /\ \A j \in 1..(i - 1) : SubSeq(s, 1, i - 1)[j] = s[j]
  OBVIOUS
<1>3. /\ SubSeq(s, i + 1, Len(s)) \in Seq(S) /\ Len(SubSeq(s, i + 1, Len(s))) = Len(s) - i
      /\ \A j \in 1..(Len(s) - i) : SubSeq(s, i + 1, Len(s))[j] = s[i + j]
  OBVIOUS
<1>4. ASSUME NEW a \in Seq(S), NEW b \in Seq(S), Len(a) = i - 1, Len(b) = Len(s) - i
      PROVE  /\ a \o b \in Seq(S) /\ DOMAIN (a \o b) = 1..(Len(s) - 1)
             /\ \A j \in 1..(Len(s) - 1) : (a \o b)[j] = IF j < i THEN a[j] ELSE b[j - (i - 1)]
  <2>1. a \o b \in Seq(S) /\ Len(a \o b) = Len(s) - 1
    BY <1>4
  <2>2. ASSUME NEW j \in 1..(Len(s) - 1) PROVE (a \o b)[j] = IF j < i THEN a[j] ELSE b[j - (i - 1)]
    <3>1. j \in 1..(Len(a) + Len(b)) /\ Len(a) \in Nat /\ Len(b) \in Nat
      BY <1>4
    <3>2. (a \o b)[j] = IF j <= Len(a) THEN a[j] ELSE b[j - Len(a)]
      BY <1>4, <3>1
    <3>3. (j <= Len(a)) <=> (j < i)
      BY <1>4
    <3> QED BY <1>4, <3>2, <3>3
  <2> QED BY <2>1, <2>2
<1>5. ASSUME NEW j \in 1..(Len(s) - 1), j >= i
      PROVE  SubSeq(s, i + 1, Len(s))[j - (i - 1)] = s[j + 1]
  <2>1. j - (i - 1) \in 1..(Len(s) - i) /\ i + (j - (i - 1)) = j + 1
    BY <1>5
  <2> QED BY <1>3, <2>1
<1>6. \A j \in 1..(Len(s) - 1) : j < i => j \in 1..(i - 1)
  OBVIOUS
<1>7. PICK a \in Seq(S), b \in Seq(S) :
          /\ a = SubSeq(s, 1, i - 1) /\ b = SubSeq(s, i + 1, Len(s))
          /\ Len(a) = i - 1 /\ Len(b) = Len(s) - i
  BY <1>2, <1>3
<1>8. /\ a \o b \in Seq(S) /\ DOMAIN (a \o b) = 1..(Len(s) - 1)
      /\ \A j \in 1..(Len(s) - 1) : (a \o b)[j] = IF j < i THEN a[j] ELSE b[j - (i - 1)]
  BY <1>4, <1>7
<1>9. ASSUME NEW j \in 1..(Len(s) - 1) PROVE (a \o b)[j] = s[IF j < i THEN j ELSE j + 1]
  <2>1. CASE j < i
    BY <1>2, <1>6, <1>7, <1>8, <2>1
  <2>2. CASE ~ (j < i)
    <3>1. b[j - (i - 1)] = s[j + 1]
      BY <1>5, <1>7, <2>2
    <3> QED BY <1>8, <2>2, <3>1
  <2> QED BY <2>1, <2>2
<1> QED BY <1>1, <1>7, <1>8, <1>9

LEMMA JournalTypesInit == JournalInit => JournalTypes
<1> SUFFICES ASSUME JournalInit PROVE JournalTypes
  OBVIOUS
<1>1. DOMAIN <<>> = {} /\ 0 \in Nat
  OBVIOUS
<1>2. tasks \in [JournalRequest -> JournalTask] /\ \A r \in JournalRequest : tasks[r].at = "idle"
  BY DEF JournalInit, JournalTask, Idle
<1> QED BY <1>1, <1>2, JournalAssumption DEF JournalInit, JournalTypes

\* The requests keep their types when one of them moves on and the clock may too.
LEMMA MovesKeepTypes ==
    ASSUME JournalTypes, NEW r \in JournalRequest, NEW t \in JournalTask, Goto(r, t),
           UNCHANGED <<journalClock, closed, scanRows>>,
           inserted' \in Nat, uploads' \in 0..MaxUploads,
           t.at \in {"link", "suggest", "insert"} /\ t.row # <<>> => t.row[1].open < journalClock,
           DOMAIN entries' \subseteq 1..inserted',
           \A e \in DOMAIN entries' : entries'[e] \in JournalEntry
    PROVE  JournalTypes'
<1>1. /\ tasks' \in [JournalRequest -> JournalTask] /\ tasks'[r] = t
      /\ \A s \in JournalRequest : s # r => tasks'[s] = tasks[s]
  BY GotoIs DEF JournalTypes
<1>2. \A s \in JournalRequest :
          tasks'[s].at \in {"link", "suggest", "insert"} /\ tasks'[s].row # <<>> =>
              tasks'[s].row[1].open < journalClock
  BY <1>1 DEF JournalTypes
<1> QED BY <1>1, <1>2 DEF JournalTypes

LEMMA CreateType ==
    ASSUME JournalTypes, NEW r \in JournalRequest,
           (\E body \in JournalBody : StartCreate(r, body)) \/ LinkPosition(r) \/ SuggestTags(r)
    PROVE  JournalTypes'
<1>e. DOMAIN entries \subseteq 1..inserted /\ \A e \in DOMAIN entries : entries[e] \in JournalEntry
  BY DEF JournalTypes
<1>m. ASSUME NEW t \in Creating, Goto(r, t), RowsKept,
             t.row # <<>> => t.row[1].open < journalClock
      PROVE  JournalTypes'
  <2>1. t \in JournalTask
    BY DEF JournalTask
  <2>2. inserted' \in Nat /\ uploads' \in 0..MaxUploads
    BY <1>m DEF RowsKept, JournalTypes
  <2> QED BY <1>e, <1>m, <2>1, <2>2, MovesKeepTypes DEF RowsKept
<1>t. tasks[r] \in JournalTask
  BY DEF JournalTypes
<1>1. ASSUME NEW body \in JournalBody, StartCreate(r, body) PROVE JournalTypes'
  <2> DEFINE id == body.position
             used == IF body.position = Unknown THEN Used ELSE {}
             t == CreateTask(body, id, used)
  <2>1. id \in RowId /\ (id # Unknown => id \in DOMAIN closed)
    BY <1>1, JournalAssumption DEF StartCreate, RowId
  <2>2. used \in SUBSET RowId
    BY <1>e DEF Used, JournalEntry
  <2>3. (IF id = Unknown THEN <<>> ELSE <<closed[id]>>) \in Seq(ClosedTemplate)
    BY <2>1, ClosedIs, OneElement
  <2>4. body.tags \in Seq(JournalTag) /\ NoScan \in Seq(StoredScan) /\ inserted \in Nat
    BY TagsAreTags, OneElement DEF JournalTypes, NoScan
  <2>5. t \in Creating
    <3> HIDE DEF id, used
    <3> QED BY <2>1, <2>2, <2>3, <2>4 DEF t, CreateTask, Creating
  <2>6. t.row # <<>> => t.row[1].open < journalClock
    <3>1. t.row = IF id = Unknown THEN <<>> ELSE <<closed[id]>>
      BY DEF CreateTask
    <3> QED BY <2>1, <3>1, ClosedIs
  <2>7. Goto(r, t) /\ RowsKept
    BY <1>1 DEF StartCreate
  <2> HIDE DEF t
  <2> QED BY <1>m, <2>5, <2>6, <2>7
<1>2. CASE LinkPosition(r)
  <2>1. tasks[r] \in Creating /\ tasks[r].at = "link"
    BY <1>2, <1>t, TaskIs DEF LinkPosition
  <2>2. tasks[r].row # <<>> => tasks[r].row[1].open < journalClock
    BY <2>1 DEF JournalTypes
  <2>3. CASE Goto(r, [tasks[r] EXCEPT !.at = "suggest"])
    <3> DEFINE t == [tasks[r] EXCEPT !.at = "suggest"]
    <3>1. t \in Creating /\ t.row = tasks[r].row
      BY <2>1 DEF Creating
    <3> HIDE DEF t
    <3> QED BY <1>2, <1>m, <2>2, <2>3, <3>1 DEF LinkPosition, t
  <2>4. ASSUME NEW i \in DOMAIN closed,
               Goto(r, [tasks[r] EXCEPT !.at = "suggest", !.position = i, !.row = <<closed[i]>>])
        PROVE  JournalTypes'
    <3> DEFINE t == [tasks[r] EXCEPT !.at = "suggest", !.position = i, !.row = <<closed[i]>>]
    <3>1. <<closed[i]>> \in Seq(ClosedTemplate) /\ closed[i].open < journalClock /\ i \in RowId
      BY ClosedIs, OneElement DEF RowId
    <3>2. t \in Creating /\ t.row = <<closed[i]>>
      BY <2>1, <3>1 DEF Creating
    <3>3. Goto(r, t) /\ RowsKept
      BY <1>2, <2>4 DEF LinkPosition
    <3> HIDE DEF t
    <3>4. t.row[1] = closed[i]
      BY <3>2
    <3> QED BY <1>m, <3>1, <3>2, <3>3, <3>4
  <2> QED BY <1>2, <2>3, <2>4 DEF LinkPosition, Linkable
<1>3. CASE SuggestTags(r)
  <2>1. tasks[r] \in Creating /\ tasks[r].at = "suggest"
    BY <1>3, <1>t, TaskIs DEF SuggestTags
  <2>2. tasks[r].row # <<>> => tasks[r].row[1].open < journalClock
    BY <2>1 DEF JournalTypes
  <2> DEFINE scan == ScanFor(tasks[r].row[1])
             tags == SuggestedTags(tasks[r].row[1], scan)
             t1 == [tasks[r] EXCEPT !.at = "insert", !.tags = tags, !.suggested = TRUE, !.from = scan]
             t2 == [tasks[r] EXCEPT !.at = "insert"]
  <2>3. scan \in Seq(StoredScan) /\ tags \in Seq(JournalTag)
    BY ScanForType, SuggestedType
  <2> HIDE DEF scan, tags
  <2>4. t1 \in Creating /\ t1.row = tasks[r].row /\ t2 \in Creating /\ t2.row = tasks[r].row
    BY <2>1, <2>3 DEF Creating
  <2>5. RowsKept /\ (Goto(r, t1) \/ Goto(r, t2))
    BY <1>3 DEF SuggestTags, scan, tags
  <2> HIDE DEF t1, t2
  <2> QED BY <1>m, <2>2, <2>4, <2>5
<1> QED BY <1>1, <1>2, <1>3

LEMMA InsertType ==
    ASSUME JournalTypes, NEW r \in JournalRequest, InsertEntry(r)
    PROVE  JournalTypes'
<1> DEFINE t == tasks[r]
           entry == [symbol |-> t.body.symbol,
                     exchange |-> IF t.body.exchange = None /\ t.row # <<>> THEN t.row[1].exchange
                                  ELSE t.body.exchange,
                     position |-> t.position, tags |-> t.tags,
                     pnl |-> IF t.row # <<>> THEN <<t.row[1].pnl>> ELSE <<>>, shots |-> <<>>,
                     born |-> inserted + 1, knew |-> t.knew, auto |-> t.auto,
                     suggested |-> t.suggested, from |-> t.from, row |-> t.row]
<1>1. t \in Creating
  <2>1. tasks[r] \in JournalTask /\ tasks[r].at = "insert"
    BY DEF InsertEntry, JournalTypes
  <2> QED BY <2>1, TaskIs
<1>2. inserted \in Nat
  BY DEF JournalTypes
<1>3. t.row # <<>> => t.row[1] \in ClosedTemplate
  BY <1>1 DEF Creating
<1>4. entry.pnl \in Seq(Int) /\ <<>> \in Seq(Nat)
  <2>1. t.row # <<>> => t.row[1].pnl \in Int
    BY <1>3, JournalAssumption
  <2> QED BY <2>1, OneElement
<1>5. entry.exchange \in STRING /\ entry.symbol \in STRING
  <2>1. t.body \in JournalBody
    BY <1>1 DEF Creating
  <2>2. t.body.exchange \in STRING /\ t.body.symbol \in STRING
    BY <2>1, JournalAssumption
  <2>3. t.row # <<>> => t.row[1].exchange \in STRING
    BY <1>3, JournalAssumption
  <2> QED BY <2>2, <2>3
<1>6. entry \in JournalEntry
  <2>1. /\ t.position \in RowId /\ t.tags \in Seq(JournalTag) /\ t.knew \in Nat /\ t.auto \in BOOLEAN
        /\ t.suggested \in BOOLEAN /\ t.from \in Seq(StoredScan) /\ t.row \in Seq(ClosedTemplate)
    BY <1>1 DEF Creating
  <2>2. inserted + 1 \in Nat
    BY <1>2
  <2> QED BY <1>4, <1>5, <2>1, <2>2 DEF JournalEntry
<1>7. entries' = With(entries, NextId(entries), entry) /\ inserted' = inserted + 1 /\ Goto(r, Idle)
      /\ UNCHANGED <<journalClock, closed, scanRows, files, uploads, promised>>
  BY DEF InsertEntry
<1> HIDE DEF entry
<1>8. /\ DOMAIN entries' = DOMAIN entries \cup {NextId(entries)}
      /\ entries'[NextId(entries)] = entry
      /\ \A e \in DOMAIN entries : e # NextId(entries) => entries'[e] = entries[e]
  BY <1>7 DEF With
<1>9. NextId(entries) \in 1..(inserted + 1)
  BY <1>2, NextIdIs DEF JournalTypes
<1>10. DOMAIN entries' \subseteq 1..inserted' /\ \A e \in DOMAIN entries' : entries'[e] \in JournalEntry
  BY <1>2, <1>6, <1>7, <1>8, <1>9 DEF JournalTypes
<1>11. Idle \in JournalTask /\ Idle.at = "idle"
  BY DEF JournalTask, Idle
<1>12. inserted' \in Nat /\ uploads' \in 0..MaxUploads
  BY <1>2, <1>7 DEF JournalTypes
<1> QED BY <1>7, <1>10, <1>11, <1>12, MovesKeepTypes

LEMMA StartOnType ==
    ASSUME JournalTypes, NEW r \in JournalRequest, NEW e \in DOMAIN entries,
           NEW at \in {"write", "erase"}, StartOn(r, e, at)
    PROVE  /\ JournalTypes' /\ tasks'[r] \in OnEntry
           /\ tasks[r] = Idle /\ tasks'[r].at = at /\ tasks'[r].entry = e
           /\ tasks'[r].shots = entries[e].shots /\ tasks'[r].born = entries[e].born
           /\ tasks'[r].alone <=> (\A q \in JournalRequest : ~On(e, q))
           /\ \A s \in JournalRequest : s # r /\ ~On(e, s) => tasks'[s] = tasks[s]
           /\ \A s \in JournalRequest : s # r /\ On(e, s) =>
                  /\ tasks'[s] = [tasks[s] EXCEPT !.alone = FALSE]
                  /\ tasks'[s] \in OnEntry /\ tasks[s] \in OnEntry
<1> DEFINE t == [at |-> at, entry |-> e, shots |-> entries[e].shots, born |-> entries[e].born,
                 file |-> 0, alone |-> \A q \in JournalRequest : ~On(e, q)]
<1>1. tasks[r] = Idle /\ RowsKept
      /\ tasks' = [s \in JournalRequest |->
                      CASE s = r -> t
                        [] s # r /\ On(e, s) -> [tasks[s] EXCEPT !.alone = FALSE]
                        [] OTHER -> tasks[s]]
  BY DEF StartOn
<1>2. t \in OnEntry
  <2>1. entries[e] \in JournalEntry /\ e \in Nat
    BY DEF JournalTypes
  <2> QED BY <2>1 DEF OnEntry, JournalEntry
<1>3. /\ t.at = at /\ t.entry = e /\ t.shots = entries[e].shots /\ t.born = entries[e].born
      /\ t.alone <=> (\A q \in JournalRequest : ~On(e, q))
  OBVIOUS
<1> HIDE DEF t
<1>4. tasks'[r] = t
  BY <1>1
<1>5. \A s \in JournalRequest : s # r /\ ~On(e, s) => tasks'[s] = tasks[s]
  BY <1>1
<1>6. ASSUME NEW s \in JournalRequest, s # r, On(e, s)
      PROVE  /\ tasks'[s] = [tasks[s] EXCEPT !.alone = FALSE]
             /\ tasks'[s] \in OnEntry /\ tasks[s] \in OnEntry
  <2>1. tasks'[s] = [tasks[s] EXCEPT !.alone = FALSE]
    BY <1>1, <1>6
  <2>2. tasks[s] \in OnEntry
    BY <1>6, TaskIs DEF JournalTypes, On
  <2> QED BY <2>1, <2>2 DEF OnEntry
<1>7. ASSUME NEW s \in JournalRequest
      PROVE  /\ tasks'[s] \in JournalTask
             /\ tasks'[s].at \in {"link", "suggest", "insert"} => tasks'[s] = tasks[s]
  <2>1. tasks[s] \in JournalTask
    BY DEF JournalTypes
  <2>2. \A u \in OnEntry : u \in JournalTask /\ u.at \notin {"link", "suggest", "insert"}
    BY DEF JournalTask, OnEntry
  <2> QED BY <1>2, <1>4, <1>5, <1>6, <2>1, <2>2
<1>8. tasks' \in [JournalRequest -> JournalTask]
  BY <1>1, <1>7
<1>9. JournalTypes'
  BY <1>1, <1>7, <1>8 DEF JournalTypes, RowsKept
<1>10. tasks'[r].alone <=> (\A q \in JournalRequest : ~On(e, q))
  BY <1>3, <1>4
<1>11. /\ tasks'[r] \in OnEntry /\ tasks'[r].at = at /\ tasks'[r].entry = e
       /\ tasks'[r].shots = entries[e].shots /\ tasks'[r].born = entries[e].born
  BY <1>2, <1>3, <1>4
<1> QED BY <1>1, <1>5, <1>6, <1>9, <1>10, <1>11

LEMMA OnEntryType ==
    ASSUME JournalTypes, NEW r \in JournalRequest,
           WriteFile(r) \/ ListScreenshot(r) \/ EraseFiles(r) \/ DeleteRow(r) \/ RequestFails(r)
    PROVE  JournalTypes'
<1>t. tasks[r] \in JournalTask
  BY DEF JournalTypes
<1>i. Idle \in JournalTask /\ Idle.at = "idle"
  BY DEF JournalTask, Idle
<1>e. /\ DOMAIN entries \subseteq 1..inserted /\ \A e \in DOMAIN entries : entries[e] \in JournalEntry
      /\ inserted \in Nat /\ uploads \in 0..MaxUploads /\ MaxUploads \in Nat
  BY JournalAssumption DEF JournalTypes
<1>1. CASE WriteFile(r)
  <2> DEFINE t == [tasks[r] EXCEPT !.at = "list", !.file = uploads + 1]
  <2>1. tasks[r] \in OnEntry
    BY <1>1, <1>t, TaskIs DEF WriteFile
  <2>2. uploads + 1 \in Nat /\ uploads + 1 \in 0..MaxUploads
    BY <1>1, <1>e DEF WriteFile
  <2>3. t \in OnEntry /\ t.at = "list"
    BY <2>1, <2>2 DEF OnEntry
  <2>4. t \in JournalTask /\ Goto(r, t)
    BY <1>1, <2>3 DEF WriteFile, JournalTask
  <2> HIDE DEF t
  <2> QED BY <1>1, <1>e, <2>2, <2>3, <2>4, MovesKeepTypes DEF WriteFile
<1>2. CASE ListScreenshot(r)
  <2>1. tasks[r] \in OnEntry
    BY <1>2, <1>t, TaskIs DEF ListScreenshot
  <2>2. Listed(tasks[r]) \in Seq(Nat)
    BY <2>1 DEF Listed, OnEntry
  <2>3. Goto(r, Idle) /\ UNCHANGED <<journalClock, closed, scanRows, files, inserted, uploads>>
        /\ entries' = [entries EXCEPT ![tasks[r].entry].shots = Listed(tasks[r])]
    BY <1>2 DEF ListScreenshot
  <2>4. DOMAIN entries' = DOMAIN entries
    BY <2>3
  <2>5. ASSUME NEW e \in DOMAIN entries' PROVE entries'[e] \in JournalEntry
    <3>1. entries'[e] = IF e = tasks[r].entry THEN [entries[e] EXCEPT !.shots = Listed(tasks[r])]
                        ELSE entries[e]
      BY <2>3, <2>4
    <3>2. entries[e] \in JournalEntry
      BY <1>e, <2>4
    <3> QED BY <2>2, <3>1, <3>2 DEF JournalEntry
  <2> QED BY <1>e, <1>i, <2>3, <2>4, <2>5, MovesKeepTypes
<1>3. CASE EraseFiles(r)
  <2> DEFINE t == [tasks[r] EXCEPT !.at = "delete"]
  <2>1. tasks[r] \in OnEntry
    BY <1>3, <1>t, TaskIs DEF EraseFiles
  <2>2. t \in OnEntry /\ t.at = "delete"
    BY <2>1 DEF OnEntry
  <2>3. t \in JournalTask /\ Goto(r, t)
    BY <1>3, <2>2 DEF EraseFiles, JournalTask
  <2> HIDE DEF t
  <2> QED BY <1>3, <1>e, <2>2, <2>3, MovesKeepTypes DEF EraseFiles
<1>4. CASE DeleteRow(r)
  <2>1. Goto(r, Idle) /\ UNCHANGED <<journalClock, closed, scanRows, inserted, uploads>>
        /\ entries' = Without(entries, tasks[r].entry)
    BY <1>4 DEF DeleteRow
  <2>2. DOMAIN entries' \subseteq DOMAIN entries
        /\ \A e \in DOMAIN entries' : entries'[e] = entries[e]
    BY <2>1 DEF Without
  <2> QED BY <1>e, <1>i, <2>1, <2>2, MovesKeepTypes
<1>5. CASE RequestFails(r)
  BY <1>5, <1>e, <1>i, MovesKeepTypes DEF RequestFails, RowsKept
<1> QED BY <1>1, <1>2, <1>3, <1>4, <1>5

\* What the other parts of the backend do.
LEMMA OthersType ==
    ASSUME JournalTypes,
           \/ Tick
           \/ \E p \in ClosedTemplate : SyncClosed(p)
           \/ \E x : ForgetExchange(x)
           \/ \E o \in ScanOutcome : StoreScanRow(o)
           \/ \E i \in DOMAIN scanRows : DeleteScanRow(i)
           \/ \E e \in DOMAIN entries, tags \in TagUpdate : UpdateEntry(e, tags)
    PROVE  JournalTypes'
<1>c. journalClock \in Nat /\ MaxNow \in Nat
  BY JournalAssumption DEF JournalTypes
<1>o. /\ \A p \in ClosedTemplate : p.open \in Int
      /\ \A i \in DOMAIN scanRows : scanRows[i].at \in Nat /\ scanRows[i] \in StoredScan
  <2>1. \A p \in ClosedTemplate : p.open \in {Unknown} \cup Nat
    BY JournalAssumption
  <2>2. \A i \in DOMAIN scanRows : scanRows[i] \in StoredScan
    BY DEF JournalTypes
  <2>3. \A x \in StoredScan : x.at \in Nat
    BY DEF StoredScan
  <2> QED BY <2>1, <2>2, <2>3 DEF Unknown
<1>1. CASE Tick
  <2>1. journalClock' = journalClock + 1 /\ journalClock' \in 0..MaxNow
        /\ UNCHANGED <<closed, scanRows, entries, files, tasks, inserted, uploads, promised>>
    BY <1>1, <1>c DEF Tick
  <2>2. \A id \in DOMAIN closed : closed[id].open < journalClock + 1
    BY <1>c, <1>o DEF JournalTypes
  <2>3. \A i \in DOMAIN scanRows : scanRows[i].at <= journalClock + 1
    BY <1>c, <1>o DEF JournalTypes
  <2>4. ASSUME NEW r \in JournalRequest, tasks[r].at \in {"link", "suggest", "insert"}, tasks[r].row # <<>>
        PROVE  tasks[r].row[1].open < journalClock + 1
    <3>1. tasks[r] \in Creating
      BY <2>4, TaskIs DEF JournalTypes
    <3>2. tasks[r].row[1] \in ClosedTemplate
      BY <2>4, <3>1 DEF Creating
    <3>3. tasks[r].row[1].open < journalClock
      BY <2>4 DEF JournalTypes
    <3> QED BY <1>c, <1>o, <3>2, <3>3
  <2> QED BY <2>1, <2>2, <2>3, <2>4 DEF JournalTypes
<1>2. ASSUME NEW p \in ClosedTemplate, SyncClosed(p) PROVE JournalTypes'
  <2>1. closed' = With(closed, NextId(closed), p) /\ p.open < journalClock
        /\ UNCHANGED <<journalClock, scanRows, entries, files, tasks, inserted, uploads, promised>>
    BY <1>2 DEF SyncClosed
  <2>2. /\ DOMAIN closed' = DOMAIN closed \cup {NextId(closed)}
        /\ \A id \in DOMAIN closed' : closed'[id] = p \/ (id \in DOMAIN closed /\ closed'[id] = closed[id])
    BY <2>1 DEF With
  <2>3. PICK n \in Nat : DOMAIN closed \subseteq 1..n
    BY DEF JournalTypes
  <2>4. NextId(closed) \in 1..(n + 1)
    BY <2>3, NextIdIs
  <2>5. n + 1 \in Nat /\ DOMAIN closed' \subseteq 1..(n + 1)
    BY <2>2, <2>3, <2>4
  <2>6. \A id \in DOMAIN closed' : closed'[id] \in ClosedTemplate /\ closed'[id].open < journalClock
    BY <2>1, <2>2 DEF JournalTypes
  <2> QED BY <2>1, <2>5, <2>6 DEF JournalTypes
<1>3. ASSUME NEW x, ForgetExchange(x) PROVE JournalTypes'
  <2> DEFINE gone == {i \in DOMAIN closed : closed[i].exchange = x}
  <2>1. /\ closed' = [i \in DOMAIN closed \ gone |-> closed[i]]
        /\ entries' = [e \in DOMAIN entries |->
                          [entries[e] EXCEPT !.position = IF @ \in gone THEN Unknown ELSE @]]
        /\ UNCHANGED <<journalClock, scanRows, files, tasks, inserted, uploads, promised>>
    BY <1>3 DEF ForgetExchange
  <2> HIDE DEF gone
  <2>2. /\ DOMAIN closed' \subseteq DOMAIN closed /\ \A i \in DOMAIN closed' : closed'[i] = closed[i]
        /\ DOMAIN entries' = DOMAIN entries
    BY <2>1
  <2>3. ASSUME NEW e \in DOMAIN entries PROVE entries'[e] \in JournalEntry
    <3>1. entries[e] \in JournalEntry
      BY DEF JournalTypes
    <3>2. entries'[e] = [entries[e] EXCEPT !.position = IF entries[e].position \in gone THEN Unknown
                                                        ELSE entries[e].position]
      BY <2>1
    <3> QED BY <3>1, <3>2 DEF JournalEntry, RowId
  <2> QED BY <2>1, <2>2, <2>3 DEF JournalTypes
<1>4. ASSUME NEW o \in ScanOutcome, StoreScanRow(o) PROVE JournalTypes'
  <2> DEFINE row == [symbol |-> o.symbol, at |-> journalClock, direction |-> o.direction, score |-> o.score]
  <2>1. row \in StoredScan /\ row.at = journalClock
    BY <1>c, JournalAssumption DEF StoredScan
  <2>2. scanRows' = Append(scanRows, row)
        /\ UNCHANGED <<journalClock, closed, entries, files, tasks, inserted, uploads, promised>>
    BY <1>4 DEF StoreScanRow
  <2> HIDE DEF row
  <2>3. scanRows \in Seq(StoredScan)
    BY DEF JournalTypes
  <2>4. /\ scanRows' \in Seq(StoredScan) /\ DOMAIN scanRows' = 1..(Len(scanRows) + 1)
        /\ DOMAIN scanRows = 1..Len(scanRows) /\ Len(scanRows) \in Nat
        /\ \A i \in DOMAIN scanRows : scanRows'[i] = scanRows[i]
        /\ scanRows'[Len(scanRows) + 1] = row
    BY <2>1, <2>2, <2>3
  <2>5. \A i \in DOMAIN scanRows' : scanRows'[i].at <= journalClock
    BY <1>c, <2>1, <2>4 DEF JournalTypes
  <2>6. \A i, j \in DOMAIN scanRows' : i < j => scanRows'[i].at <= scanRows'[j].at
    <3> SUFFICES ASSUME NEW i \in DOMAIN scanRows', NEW j \in DOMAIN scanRows', i < j
                 PROVE  scanRows'[i].at <= scanRows'[j].at
      OBVIOUS
    <3>1. i \in DOMAIN scanRows
      BY <2>4
    <3>2. CASE j \in DOMAIN scanRows
      BY <2>4, <3>1, <3>2 DEF JournalTypes
    <3>3. CASE j = Len(scanRows) + 1
      BY <2>1, <2>4, <3>1, <3>3 DEF JournalTypes
    <3> QED BY <2>4, <3>2, <3>3
  <2> QED BY <2>2, <2>4, <2>5, <2>6 DEF JournalTypes
<1>5. ASSUME NEW i \in DOMAIN scanRows, DeleteScanRow(i) PROVE JournalTypes'
  <2>1. scanRows' = RemoveAt(scanRows, i)
        /\ UNCHANGED <<journalClock, closed, entries, files, tasks, inserted, uploads, promised>>
    BY <1>5 DEF DeleteScanRow
  <2>2. scanRows \in Seq(StoredScan) /\ Len(scanRows) \in Nat /\ i \in 1..Len(scanRows)
    BY DEF JournalTypes
  <2>3. /\ RemoveAt(scanRows, i) \in Seq(StoredScan)
        /\ DOMAIN RemoveAt(scanRows, i) = 1..(Len(scanRows) - 1)
        /\ \A j \in 1..(Len(scanRows) - 1) :
               RemoveAt(scanRows, i)[j] = scanRows[IF j < i THEN j ELSE j + 1]
    BY <2>2, RemovedIs
  <2>4. \A j, k \in 1..(Len(scanRows) - 1) :
            /\ (IF j < i THEN j ELSE j + 1) \in DOMAIN scanRows
            /\ j < k => (IF j < i THEN j ELSE j + 1) < (IF k < i THEN k ELSE k + 1)
    BY <2>2
  <2>5. /\ scanRows' \in Seq(StoredScan)
        /\ \A j \in DOMAIN scanRows' : scanRows'[j].at <= journalClock
        /\ \A j, k \in DOMAIN scanRows' : j < k => scanRows'[j].at <= scanRows'[k].at
    <3> DEFINE place(j) == IF j < i THEN j ELSE j + 1
    <3>1. /\ scanRows' \in Seq(StoredScan) /\ DOMAIN scanRows' = 1..(Len(scanRows) - 1)
          /\ \A j \in DOMAIN scanRows' : place(j) \in DOMAIN scanRows /\ scanRows'[j] = scanRows[place(j)]
          /\ \A j, k \in DOMAIN scanRows' : j < k => place(j) < place(k)
      BY <2>1, <2>3, <2>4
    <3> HIDE DEF place
    <3>2. \A j \in DOMAIN scanRows' : scanRows'[j].at <= journalClock
      BY <3>1 DEF JournalTypes
    <3>3. \A j, k \in DOMAIN scanRows' : j < k => scanRows'[j].at <= scanRows'[k].at
      BY <3>1 DEF JournalTypes
    <3> QED BY <3>1, <3>2, <3>3
  <2> QED BY <2>1, <2>5 DEF JournalTypes
<1>6. ASSUME NEW e \in DOMAIN entries, NEW tags \in TagUpdate, UpdateEntry(e, tags) PROVE JournalTypes'
  <2>1. entries' = [entries EXCEPT ![e].tags = tags, ![e].suggested = FALSE]
        /\ UNCHANGED <<journalClock, closed, scanRows, files, tasks, inserted, uploads, promised>>
    BY <1>6 DEF UpdateEntry
  <2>2. entries[e] \in JournalEntry /\ tags \in Seq(JournalTag)
    BY TagsAreTags DEF JournalTypes
  <2>3. [entries[e] EXCEPT !.tags = tags, !.suggested = FALSE] \in JournalEntry
    BY <2>2 DEF JournalEntry
  <2>4. /\ DOMAIN entries' = DOMAIN entries
        /\ entries'[e] = [entries[e] EXCEPT !.tags = tags, !.suggested = FALSE]
        /\ \A f \in DOMAIN entries : f # e => entries'[f] = entries[f]
    BY <2>1
  <2> QED BY <2>1, <2>3, <2>4 DEF JournalTypes
<1> QED BY <1>1, <1>2, <1>3, <1>4, <1>5, <1>6

LEMMA JournalTypesStep == JournalTypes /\ [JournalNext]_journalVars => JournalTypes'
<1>1. CASE UNCHANGED journalVars
  BY <1>1 DEF journalVars, JournalTypes
<1>2. ASSUME JournalTypes, NEW r \in JournalRequest, NEW e \in DOMAIN entries,
             NEW at \in {"write", "erase"}, StartOn(r, e, at)
      PROVE  JournalTypes'
  BY <1>2, StartOnType
<1> QED BY <1>1, <1>2, CreateType, InsertType, OnEntryType, OthersType DEF JournalNext

-----------------------------------------------------------------------------
(***************************************************************************)
(* Journal: links.                                                         *)
(***************************************************************************)
Looking(t) == t.at \in {"link", "suggest", "insert"}

\* What a request that creates an entry has read covers the links there were.
LooksRight(t) ==
    Looking(t) =>
        /\ t.knew <= inserted
        /\ t.auto =>
               /\ \A f \in DOMAIN entries :
                      entries[f].born <= t.knew /\ entries[f].position # Unknown
                      => entries[f].position \in t.used
               /\ t.position # Unknown => t.position \notin t.used

LinksSafe ==
    /\ \A e \in DOMAIN entries :
           /\ entries[e].born \in 1..inserted /\ entries[e].knew < entries[e].born
           /\ entries[e].position # Unknown => entries[e].position \in DOMAIN closed
    /\ \A e, f \in DOMAIN entries : e # f => entries[e].born # entries[f].born
    /\ LinkedOnce
    /\ \A r \in JournalRequest : LooksRight(tasks[r])

\* Rows that go, or lose their position, break no link; requests that begin to look are right.
LEMMA LinksKept ==
    ASSUME JournalTypes, LinksSafe, inserted' = inserted,
           DOMAIN entries' \subseteq DOMAIN entries,
           \A e \in DOMAIN entries' :
               /\ entries'[e].born = entries[e].born /\ entries'[e].knew = entries[e].knew
               /\ entries'[e].auto = entries[e].auto
               /\ entries'[e].position = Unknown
                  \/ (entries'[e].position = entries[e].position /\ entries[e].position \in DOMAIN closed'),
           \A r \in JournalRequest : tasks'[r] = tasks[r] \/ LooksRight(tasks[r])'
    PROVE  LinksSafe'
<1>1. \A e \in DOMAIN entries' :
          /\ entries'[e].born \in 1..inserted /\ entries'[e].knew < entries'[e].born
          /\ entries'[e].position # Unknown => entries'[e].position \in DOMAIN closed'
  BY DEF LinksSafe
<1>2. \A e, f \in DOMAIN entries' : e # f => entries'[e].born # entries'[f].born
  BY DEF LinksSafe
<1>3. LinkedOnce'
  BY DEF LinksSafe, LinkedOnce
<1>4. ASSUME NEW r \in JournalRequest PROVE LooksRight(tasks[r])'
  <2>1. CASE tasks'[r] = tasks[r]
    <3>1. LooksRight(tasks[r])
      BY DEF LinksSafe
    <3> QED BY <2>1, <3>1 DEF LooksRight, Looking
  <2> QED BY <2>1
<1> QED BY <1>1, <1>2, <1>3, <1>4 DEF LinksSafe

\* A request on an entry goes on with it or ends; one that fails ends.
LEMMA MovesOn ==
    ASSUME JournalTypes, NEW r \in JournalRequest,
           WriteFile(r) \/ ListScreenshot(r) \/ EraseFiles(r) \/ DeleteRow(r) \/ RequestFails(r)
    PROVE  \E t \in JournalTask : Goto(r, t) /\ ~Looking(t)
<1>1. tasks[r] \in JournalTask
  BY DEF JournalTypes
<1>i. Idle \in JournalTask /\ ~Looking(Idle)
  BY DEF JournalTask, Idle, Looking
<1>2. CASE WriteFile(r)
  <2>1. tasks[r] \in OnEntry /\ uploads + 1 \in Nat
    BY <1>1, <1>2, TaskIs DEF WriteFile, JournalTypes
  <2>2. [tasks[r] EXCEPT !.at = "list", !.file = uploads + 1] \in OnEntry
        /\ [tasks[r] EXCEPT !.at = "list", !.file = uploads + 1].at = "list"
    BY <2>1 DEF OnEntry
  <2> QED BY <1>2, <2>2 DEF WriteFile, Looking, JournalTask
<1>3. CASE EraseFiles(r)
  <2>1. tasks[r] \in OnEntry
    BY <1>1, <1>3, TaskIs DEF EraseFiles
  <2>2. [tasks[r] EXCEPT !.at = "delete"] \in OnEntry
        /\ [tasks[r] EXCEPT !.at = "delete"].at = "delete"
    BY <2>1 DEF OnEntry
  <2> QED BY <1>3, <2>2 DEF EraseFiles, Looking, JournalTask
<1> QED BY <1>i, <1>2, <1>3 DEF ListScreenshot, DeleteRow, RequestFails

LEMMA LinksStep ==
    JournalTypes /\ LinksSafe /\ [JournalNext]_journalVars => LinksSafe'
<1> SUFFICES ASSUME JournalTypes, LinksSafe, [JournalNext]_journalVars PROVE LinksSafe'
  OBVIOUS
<1>t. /\ tasks \in [JournalRequest -> JournalTask] /\ inserted \in Nat
      /\ DOMAIN entries \subseteq 1..inserted
      /\ \A e \in DOMAIN entries : entries[e] \in JournalEntry
  BY DEF JournalTypes
<1>p. \A e \in DOMAIN entries : entries[e].position # Unknown => entries[e].position \in DOMAIN closed
  BY DEF LinksSafe
<1>r. \A r \in JournalRequest : LooksRight(tasks[r])
  BY DEF LinksSafe
\* Requests that end, or go on with an entry, do not look.
<1>g. ASSUME NEW r \in JournalRequest, NEW t \in JournalTask, Goto(r, t), ~Looking(t)
      PROVE  \A s \in JournalRequest : tasks'[s] = tasks[s] \/ LooksRight(tasks[s])'
  <2>1. tasks'[r] = t /\ \A s \in JournalRequest : s # r => tasks'[s] = tasks[s]
    BY <1>g, <1>t, GotoIs
  <2>2. LooksRight(tasks[r])'
    BY <1>g, <2>1 DEF LooksRight
  <2> QED BY <2>1, <2>2
<1>i. Idle \in JournalTask /\ ~Looking(Idle)
  BY DEF JournalTask, Idle, Looking
<1>1. CASE UNCHANGED <<inserted, entries, closed, tasks>>
  BY <1>1, <1>p, LinksKept
<1>2. ASSUME NEW p \in ClosedTemplate, SyncClosed(p) PROVE LinksSafe'
  <2>1. UNCHANGED <<inserted, entries, tasks>> /\ DOMAIN closed \subseteq DOMAIN closed'
    BY <1>2 DEF SyncClosed, With
  <2> QED BY <1>p, <2>1, LinksKept
<1>3. ASSUME NEW x, ForgetExchange(x) PROVE LinksSafe'
  <2> DEFINE gone == {i \in DOMAIN closed : closed[i].exchange = x}
  <2>1. /\ closed' = [i \in DOMAIN closed \ gone |-> closed[i]]
        /\ entries' = [e \in DOMAIN entries |->
                          [entries[e] EXCEPT !.position = IF @ \in gone THEN Unknown ELSE @]]
        /\ UNCHANGED <<inserted, tasks>>
    BY <1>3 DEF ForgetExchange
  <2> HIDE DEF gone
  <2>2. /\ DOMAIN entries' = DOMAIN entries
        /\ \A e \in DOMAIN entries :
               entries'[e] = [entries[e] EXCEPT !.position = IF entries[e].position \in gone THEN Unknown
                                                             ELSE entries[e].position]
    BY <2>1
  <2>3. ASSUME NEW e \in DOMAIN entries
        PROVE  /\ entries'[e].born = entries[e].born /\ entries'[e].knew = entries[e].knew
               /\ entries'[e].auto = entries[e].auto
               /\ entries'[e].position = Unknown
                  \/ (entries'[e].position = entries[e].position /\ entries[e].position \in DOMAIN closed')
    <3>1. entries[e] \in JournalEntry
      BY <1>t
    <3>2. /\ entries'[e].born = entries[e].born /\ entries'[e].knew = entries[e].knew
          /\ entries'[e].auto = entries[e].auto
          /\ entries'[e].position = IF entries[e].position \in gone THEN Unknown ELSE entries[e].position
      BY <2>2, <3>1 DEF JournalEntry
    <3>3. entries[e].position # Unknown /\ entries[e].position \notin gone
          => entries[e].position \in DOMAIN closed'
      BY <1>p, <2>1
    <3> QED BY <3>2, <3>3
  <2> QED BY <2>1, <2>2, <2>3, LinksKept
<1>4. ASSUME NEW e \in DOMAIN entries, NEW tags \in TagUpdate, UpdateEntry(e, tags) PROVE LinksSafe'
  <2>1. entries' = [entries EXCEPT ![e].tags = tags, ![e].suggested = FALSE]
        /\ UNCHANGED <<inserted, closed, tasks>>
    BY <1>4 DEF UpdateEntry
  <2>2. entries[e] \in JournalEntry
    BY <1>t
  <2>3. /\ DOMAIN entries' = DOMAIN entries
        /\ entries'[e] = [entries[e] EXCEPT !.tags = tags, !.suggested = FALSE]
        /\ \A f \in DOMAIN entries : f # e => entries'[f] = entries[f]
    BY <2>1
  <2>4. /\ entries'[e].born = entries[e].born /\ entries'[e].knew = entries[e].knew
        /\ entries'[e].auto = entries[e].auto /\ entries'[e].position = entries[e].position
    BY <2>2, <2>3 DEF JournalEntry
  <2> QED BY <1>p, <2>1, <2>3, <2>4, LinksKept
<1>5. ASSUME NEW r \in JournalRequest, NEW body \in JournalBody, StartCreate(r, body) PROVE LinksSafe'
  <2> DEFINE used == IF body.position = Unknown THEN Used ELSE {}
             t == CreateTask(body, body.position, used)
  <2>1. Goto(r, t) /\ RowsKept
    BY <1>5 DEF StartCreate
  <2>2. t.knew = inserted /\ (t.auto <=> body.position = Unknown) /\ t.used = used
        /\ t.position = body.position
    BY DEF CreateTask
  <2>3. JournalTypes'
    BY <1>5, CreateType
  <2>4. tasks'[r] = t /\ \A s \in JournalRequest : s # r => tasks'[s] = tasks[s]
    BY <1>t, <2>1 DEF Goto
  <2>5. LooksRight(tasks[r])'
    <3>1. \A f \in DOMAIN entries : body.position = Unknown /\ entries[f].position # Unknown
              => entries[f].position \in used
      BY DEF Used
    <3> HIDE DEF t, used
    <3> QED BY <1>t, <2>1, <2>2, <2>4, <3>1 DEF LooksRight, RowsKept
  <2> HIDE DEF t, used
  <2> QED BY <1>p, <2>1, <2>4, <2>5, LinksKept DEF RowsKept
<1>6. ASSUME NEW r \in JournalRequest, LinkPosition(r) PROVE LinksSafe'
  <2>1. tasks[r] \in Creating /\ RowsKept
    BY <1>6, <1>t, TaskIs DEF LinkPosition
  <2>2. LooksRight(tasks[r]) /\ Looking(tasks[r])
    BY <1>6, <1>r DEF LinkPosition, Looking
  <2>3. CASE Goto(r, [tasks[r] EXCEPT !.at = "suggest"])
    <3> DEFINE t == [tasks[r] EXCEPT !.at = "suggest"]
    <3>1. /\ t.knew = tasks[r].knew /\ t.auto = tasks[r].auto /\ t.used = tasks[r].used
          /\ t.position = tasks[r].position
      BY <2>1 DEF Creating
    <3>2. tasks'[r] = t /\ \A s \in JournalRequest : s # r => tasks'[s] = tasks[s]
      BY <1>t, <2>3 DEF Goto
    <3> HIDE DEF t
    <3>3. LooksRight(tasks[r])'
      BY <2>1, <2>2, <3>1, <3>2 DEF LooksRight, RowsKept
    <3> QED BY <1>p, <2>1, <3>2, <3>3, LinksKept DEF RowsKept
  <2>4. ASSUME NEW i \in Linkable(tasks[r]),
               Goto(r, [tasks[r] EXCEPT !.at = "suggest", !.position = i, !.row = <<closed[i]>>])
        PROVE  LinksSafe'
    <3> DEFINE t == [tasks[r] EXCEPT !.at = "suggest", !.position = i, !.row = <<closed[i]>>]
    <3>1. /\ t.knew = tasks[r].knew /\ t.auto = tasks[r].auto /\ t.used = tasks[r].used
          /\ t.position = i
      BY <2>1 DEF Creating
    <3>2. tasks'[r] = t /\ \A s \in JournalRequest : s # r => tasks'[s] = tasks[s]
      BY <1>t, <2>4 DEF Goto
    <3>3. i \notin tasks[r].used
      BY DEF Linkable
    <3> HIDE DEF t
    <3>4. LooksRight(tasks[r])'
      BY <2>1, <2>2, <3>1, <3>2, <3>3 DEF LooksRight, RowsKept
    <3> QED BY <1>p, <2>1, <3>2, <3>4, LinksKept DEF RowsKept
  <2> QED BY <1>6, <2>3, <2>4 DEF LinkPosition
<1>7. ASSUME NEW r \in JournalRequest, SuggestTags(r) PROVE LinksSafe'
  <2>1. tasks[r] \in Creating /\ RowsKept
    BY <1>7, <1>t, TaskIs DEF SuggestTags
  <2>2. LooksRight(tasks[r]) /\ Looking(tasks[r])
    BY <1>7, <1>r DEF SuggestTags, Looking
  <2> DEFINE scan == ScanFor(tasks[r].row[1])
             tags == SuggestedTags(tasks[r].row[1], scan)
             t1 == [tasks[r] EXCEPT !.at = "insert", !.tags = tags, !.suggested = TRUE, !.from = scan]
             t2 == [tasks[r] EXCEPT !.at = "insert"]
             Keeps(t) == /\ t.knew = tasks[r].knew /\ t.auto = tasks[r].auto
                         /\ t.used = tasks[r].used /\ t.position = tasks[r].position
  <2> HIDE DEF scan, tags
  <2>3. PICK t : Goto(r, t) /\ Keeps(t)
    <3>1. Keeps(t1) /\ Keeps(t2)
      BY <2>1 DEF Creating
    <3>2. Goto(r, t1) \/ Goto(r, t2)
      BY <1>7 DEF SuggestTags, scan, tags
    <3> HIDE DEF t1, t2, Keeps
    <3> QED BY <3>1, <3>2
  <2>4. tasks'[r] = t /\ \A s \in JournalRequest : s # r => tasks'[s] = tasks[s]
    BY <1>t, <2>3 DEF Goto
  <2>5. LooksRight(tasks[r])'
    BY <2>1, <2>2, <2>3, <2>4 DEF LooksRight, RowsKept
  <2> QED BY <1>p, <2>1, <2>4, <2>5, LinksKept DEF RowsKept
<1>8. ASSUME NEW r \in JournalRequest, InsertEntry(r) PROVE LinksSafe'
  <2> DEFINE n == NextId(entries)
  <2>1. tasks[r] \in Creating /\ LooksRight(tasks[r]) /\ Looking(tasks[r])
    BY <1>8, <1>t, <1>r, TaskIs DEF InsertEntry, Looking
  <2>2. n \in 1..(inserted + 1) /\ n \notin DOMAIN entries
    BY <1>t, NextIdIs
  <2>3. PICK entry :
            /\ entries' = With(entries, n, entry)
            /\ entry.position = tasks[r].position /\ entry.born = inserted + 1
            /\ entry.knew = tasks[r].knew /\ entry.auto = tasks[r].auto
    BY <1>8 DEF InsertEntry
  <2>4. /\ inserted' = inserted + 1 /\ Goto(r, Idle) /\ closed' = closed
        /\ tasks[r].position # Unknown => tasks[r].position \in DOMAIN closed
    BY <1>8 DEF InsertEntry
  <2> HIDE DEF n
  <2>5. /\ DOMAIN entries' = DOMAIN entries \cup {n} /\ entries'[n] = entry
        /\ \A e \in DOMAIN entries : entries'[e] = entries[e]
    BY <2>2, <2>3 DEF With
  <2>6. tasks[r].knew <= inserted /\ tasks[r].knew \in Nat
    BY <2>1 DEF LooksRight, Creating
  <2>7. \A e \in DOMAIN entries : entries[e].born \in 1..inserted /\ entries[e].knew < entries[e].born
    BY DEF LinksSafe
  <2>8. \A e \in DOMAIN entries' :
          /\ entries'[e].born \in 1..inserted' /\ entries'[e].knew < entries'[e].born
          /\ entries'[e].position # Unknown => entries'[e].position \in DOMAIN closed'
    BY <1>t, <1>p, <2>3, <2>4, <2>5, <2>6, <2>7
  <2>9. \A e, f \in DOMAIN entries' : e # f => entries'[e].born # entries'[f].born
    <3>1. \A e \in DOMAIN entries : entries[e].born # inserted + 1
      BY <1>t, <2>7
    <3>2. \A e, f \in DOMAIN entries : e # f => entries[e].born # entries[f].born
      BY DEF LinksSafe
    <3> QED BY <2>3, <2>5, <3>1, <3>2
  <2>10. LinkedOnce'
    <3> SUFFICES ASSUME NEW e \in DOMAIN entries', NEW f \in DOMAIN entries', e # f,
                        entries'[e].auto, entries'[e].position # Unknown,
                        entries'[f].position = entries'[e].position
                 PROVE  entries'[f].born > entries'[e].knew
      BY DEF LinkedOnce
    <3>1. CASE e \in DOMAIN entries /\ f \in DOMAIN entries
      BY <2>5, <3>1 DEF LinksSafe, LinkedOnce
    <3>2. CASE e = n /\ f \in DOMAIN entries
      <4>1. entries[f].born \in Nat
        BY <1>t, <3>2 DEF JournalEntry
      <4>2. ~ (entries[f].born <= tasks[r].knew)
        BY <2>1, <2>3, <2>5, <3>2 DEF LooksRight
      <4> QED BY <2>3, <2>5, <2>6, <3>2, <4>1, <4>2
    <3>3. CASE f = n /\ e \in DOMAIN entries
      <4>1. entries[e].knew \in Nat
        BY <1>t, <3>3 DEF JournalEntry
      <4>2. entries[e].knew < entries[e].born /\ entries[e].born \in 1..inserted
        BY <2>7, <3>3
      <4> QED BY <1>t, <2>3, <2>5, <3>3, <4>1, <4>2
    <3> QED BY <2>5, <3>1, <3>2, <3>3
  <2>11. ASSUME NEW s \in JournalRequest PROVE LooksRight(tasks[s])'
    <3>1. tasks'[r] = Idle /\ \A q \in JournalRequest : q # r => tasks'[q] = tasks[q]
      BY <1>t, <1>i, <2>4, GotoIs
    <3>2. CASE s = r
      BY <1>i, <3>1, <3>2 DEF LooksRight
    <3>3. CASE s # r
      <4>1. LooksRight(tasks[s]) /\ tasks'[s] = tasks[s]
        BY <1>r, <3>1, <3>3
      <4>2. ASSUME Looking(tasks[s])
            PROVE  /\ tasks[s].knew <= inserted + 1
                   /\ tasks[s].auto =>
                        /\ \A f \in DOMAIN entries' :
                              entries'[f].born <= tasks[s].knew /\ entries'[f].position # Unknown
                              => entries'[f].position \in tasks[s].used
                        /\ tasks[s].position # Unknown => tasks[s].position \notin tasks[s].used
        <5>1. tasks[s].knew <= inserted /\ tasks[s].knew \in Nat
          <6>1. tasks[s] \in Creating
            BY <1>t, <4>2, TaskIs DEF Looking
          <6> QED BY <4>1, <4>2, <6>1 DEF LooksRight, Creating
        <5>2. ~ (inserted + 1 <= tasks[s].knew)
          BY <1>t, <5>1
        <5> QED BY <1>t, <2>3, <2>5, <4>1, <4>2, <5>1, <5>2 DEF LooksRight
      <4> QED BY <2>4, <4>1, <4>2 DEF LooksRight, Looking
    <3> QED BY <3>2, <3>3
  <2> QED BY <2>8, <2>9, <2>10, <2>11 DEF LinksSafe
<1>9. ASSUME NEW r \in JournalRequest, NEW e \in DOMAIN entries, NEW at \in {"write", "erase"},
             StartOn(r, e, at)
      PROVE  LinksSafe'
  <2>1. \A s \in JournalRequest : tasks'[s] = tasks[s] \/ tasks'[s] \in OnEntry
    BY <1>9, StartOnType
  <2>2. \A s \in JournalRequest : tasks'[s] = tasks[s] \/ LooksRight(tasks[s])'
    BY <2>1 DEF LooksRight, Looking, OnEntry
  <2> QED BY <1>9, <1>p, <2>2, LinksKept DEF StartOn, RowsKept
<1>10. ASSUME NEW r \in JournalRequest,
              WriteFile(r) \/ ListScreenshot(r) \/ EraseFiles(r) \/ DeleteRow(r) \/ RequestFails(r)
       PROVE  LinksSafe'
  <2>1. PICK t \in JournalTask : Goto(r, t) /\ ~Looking(t)
    BY <1>10, MovesOn
  <2>2. \A s \in JournalRequest : tasks'[s] = tasks[s] \/ LooksRight(tasks[s])'
    BY <1>g, <2>1
  <2>3. inserted' = inserted /\ closed' = closed
    BY <1>10 DEF WriteFile, ListScreenshot, EraseFiles, DeleteRow, RequestFails, RowsKept
  <2>4. /\ DOMAIN entries' \subseteq DOMAIN entries
        /\ \A e \in DOMAIN entries' :
               /\ entries'[e].born = entries[e].born /\ entries'[e].knew = entries[e].knew
               /\ entries'[e].auto = entries[e].auto /\ entries'[e].position = entries[e].position
    <3>1. CASE ListScreenshot(r)
      <4>1. /\ DOMAIN entries' = DOMAIN entries
            /\ \A e \in DOMAIN entries :
                   entries'[e] = IF e = tasks[r].entry THEN [entries[e] EXCEPT !.shots = Listed(tasks[r])]
                                 ELSE entries[e]
        BY <3>1 DEF ListScreenshot
      <4> QED BY <1>t, <4>1 DEF JournalEntry
    <3>2. CASE DeleteRow(r)
      BY <3>2 DEF DeleteRow, Without
    <3>3. CASE entries' = entries
      BY <3>3
    <3> QED BY <1>10, <3>1, <3>2, <3>3 DEF WriteFile, EraseFiles, RequestFails, RowsKept
  <2> QED BY <1>p, <2>2, <2>3, <2>4, LinksKept
<1>11. CASE Tick
  BY <1>1, <1>11 DEF Tick
<1>12. ASSUME NEW o \in ScanOutcome, StoreScanRow(o) PROVE LinksSafe'
  BY <1>1, <1>12 DEF StoreScanRow
<1>13. ASSUME NEW i \in DOMAIN scanRows, DeleteScanRow(i) PROVE LinksSafe'
  BY <1>1, <1>13 DEF DeleteScanRow
<1>14. CASE UNCHANGED journalVars
  BY <1>1, <1>14 DEF journalVars
<1> QED BY <1>2, <1>3, <1>4, <1>5, <1>6, <1>7, <1>8, <1>9, <1>10, <1>11, <1>12, <1>13, <1>14 DEF JournalNext

-----------------------------------------------------------------------------
(***************************************************************************)
(* Journal: suggested tags and screenshots.                                *)
(***************************************************************************)
\* The scan the tags of a position were suggested from is still the latest before it opened
\* of those that are stored.
FromTrue(row, from) ==
    /\ row # <<>>
    /\ row[1].open # Unknown =>
          /\ row[1].open \in Nat /\ row[1].open < journalClock
          /\ from # NoScan =>
                /\ from = <<from[1]>> /\ from[1].at \in Nat
                /\ from[1].symbol = row[1].symbol /\ from[1].at <= row[1].open
          /\ \A i \in DOMAIN scanRows :
                scanRows[i].symbol = row[1].symbol /\ scanRows[i].at <= row[1].open
                => from # NoScan /\ scanRows[i].at <= from[1].at

TagsTrue(t) == Looking(t) /\ t.suggested => t.at = "insert" /\ FromTrue(t.row, t.from)

TagsSafe ==
    /\ \A e \in DOMAIN entries : entries[e].suggested => FromTrue(entries[e].row, entries[e].from)
    /\ \A r \in JournalRequest : TagsTrue(tasks[r])

Busy(t) == t.at \in {"write", "list", "erase", "delete"}

\* A request on an entry knows which it is, and one that will list a file has read the list
\* with every file that was promised.
OnRight(t) ==
    Busy(t) =>
        /\ t.born \in 1..inserted /\ ToSet(t.shots) \subseteq 1..uploads
        /\ t.at = "list" => t.file \in 1..uploads
        /\ \A e \in DOMAIN entries : entries[e].born = t.born => e = t.entry
        /\ t.at \in {"write", "list"} /\ t.entry \in DOMAIN entries =>
               \A p \in promised : entries[t.entry].born = p.born => p.file \in ToSet(t.shots)

ShotsSafe ==
    /\ files \subseteq 1..uploads
    /\ \A e \in DOMAIN entries : ToSet(entries[e].shots) \subseteq 1..uploads
    /\ \A r \in JournalRequest : OnRight(tasks[r])
    /\ \A r, s \in JournalRequest :
           r # s /\ Busy(tasks[r]) /\ Busy(tasks[s]) /\ tasks[r].entry = tasks[s].entry
           => ~tasks[r].alone
    /\ \A p \in promised : p.born \in 1..inserted
    /\ PromisedIsListed

LEMMA TagsKept ==
    ASSUME JournalTypes, JournalTypes', journalClock <= journalClock',
           \A i \in DOMAIN scanRows' :
               scanRows'[i].at >= journalClock \/ \E j \in DOMAIN scanRows : scanRows'[i] = scanRows[j],
           \A e \in DOMAIN entries' :
               entries'[e].suggested => FromTrue(entries'[e].row, entries'[e].from),
           \A r \in JournalRequest : TagsTrue(tasks'[r])
    PROVE  TagsSafe'
<1>c. journalClock \in Nat /\ journalClock' \in Nat
      /\ \A i \in DOMAIN scanRows' : scanRows'[i].at \in Nat
  <2>1. journalClock \in Nat /\ journalClock' \in Nat /\ scanRows' \in Seq(StoredScan)
    BY DEF JournalTypes
  <2>2. \A i \in DOMAIN scanRows' : scanRows'[i] \in StoredScan
    BY <2>1
  <2> QED BY <2>1, <2>2 DEF StoredScan
<1>1. ASSUME NEW row, NEW from, FromTrue(row, from) PROVE FromTrue(row, from)'
  <2>1. CASE row[1].open = Unknown
    BY <1>1, <2>1 DEF FromTrue
  <2>2. CASE row[1].open # Unknown
    <3>1. /\ row # <<>> /\ row[1].open \in Nat /\ row[1].open < journalClock
          /\ from # NoScan => /\ from = <<from[1]>> /\ from[1].at \in Nat
                              /\ from[1].symbol = row[1].symbol /\ from[1].at <= row[1].open
          /\ \A j \in DOMAIN scanRows :
                scanRows[j].symbol = row[1].symbol /\ scanRows[j].at <= row[1].open
                => from # NoScan /\ scanRows[j].at <= from[1].at
      BY <1>1, <2>2 DEF FromTrue
    <3>2. row[1].open < journalClock'
      BY <1>c, <3>1
    <3>3. ASSUME NEW i \in DOMAIN scanRows', scanRows'[i].symbol = row[1].symbol,
                 scanRows'[i].at <= row[1].open
          PROVE  from # NoScan /\ scanRows'[i].at <= from[1].at
      <4>1. ~ (scanRows'[i].at >= journalClock)
        BY <1>c, <3>1, <3>3
      <4>2. PICK j \in DOMAIN scanRows : scanRows'[i] = scanRows[j]
        BY <4>1
      <4> QED BY <3>1, <3>3, <4>2
    <3> QED BY <3>1, <3>2, <3>3 DEF FromTrue
  <2> QED BY <2>1, <2>2
<1>2. ASSUME NEW e \in DOMAIN entries', entries'[e].suggested
      PROVE  FromTrue(entries[e].row, entries[e].from)'
  <2>1. PICK row, from : row = entries'[e].row /\ from = entries'[e].from
    OBVIOUS
  <2>2. FromTrue(row, from)
    BY <1>2, <2>1
  <2>3. FromTrue(row, from)'
    BY <1>1, <2>2
  <2> QED BY <2>1, <2>3
<1>3. ASSUME NEW r \in JournalRequest, Looking(tasks'[r]), tasks'[r].suggested
      PROVE  tasks'[r].at = "insert" /\ FromTrue(tasks[r].row, tasks[r].from)'
  <2>1. PICK row, from : row = tasks'[r].row /\ from = tasks'[r].from
    OBVIOUS
  <2>2. FromTrue(row, from) /\ tasks'[r].at = "insert"
    BY <1>3, <2>1 DEF TagsTrue
  <2>3. FromTrue(row, from)'
    BY <1>1, <2>2
  <2> QED BY <2>1, <2>2, <2>3
<1> QED BY <1>2, <1>3 DEF TagsSafe, TagsTrue, Looking

\* The scan found for a position is the latest before its opening.
LEMMA FoundIsTrue ==
    ASSUME JournalTypes, NEW p \in ClosedTemplate, p.open < journalClock, NEW row, row # <<>>, row[1] = p
    PROVE  FromTrue(row, ScanFor(p))
<1>1. p.open # Unknown => p.open \in Nat
  BY JournalAssumption
<1>2. ASSUME NEW i \in DOMAIN scanRows PROVE scanRows[i].at \in Nat
  <2>1. scanRows[i] \in StoredScan
    BY DEF JournalTypes
  <2> QED BY <2>1 DEF StoredScan
<1>3. CASE ScanFor(p) = NoScan /\
            \A i \in DOMAIN scanRows :
                ~ (scanRows[i].symbol = p.symbol /\ (p.open = Unknown \/ scanRows[i].at <= p.open))
  BY <1>1, <1>3 DEF FromTrue
<1>4. ASSUME NEW k \in DOMAIN scanRows,
             ScanFor(p) = <<scanRows[k]>>, scanRows[k].symbol = p.symbol,
             p.open = Unknown \/ scanRows[k].at <= p.open,
             \A i \in DOMAIN scanRows :
                 scanRows[i].symbol = p.symbol /\ (p.open = Unknown \/ scanRows[i].at <= p.open)
                 => i <= k
      PROVE  FromTrue(row, ScanFor(p))
  <2> DEFINE from == <<scanRows[k]>>
  <2>1. from[1] = scanRows[k] /\ from = <<from[1]>> /\ from # NoScan
    BY DEF NoScan
  <2> HIDE DEF from
  <2>2. ASSUME NEW i \in DOMAIN scanRows, p.open # Unknown, scanRows[i].symbol = p.symbol,
               scanRows[i].at <= p.open
        PROVE  scanRows[i].at <= from[1].at
    <3>1. i <= k
      BY <1>4, <2>2
    <3>2. i = k \/ i < k
      <4>1. i \in Nat /\ k \in Nat
        BY DEF JournalTypes
      <4> QED BY <3>1, <4>1
    <3>3. i < k => scanRows[i].at <= scanRows[k].at
      BY DEF JournalTypes
    <3> QED BY <1>2, <2>1, <3>2, <3>3
  <2>3. ScanFor(p) = from
    BY <1>4 DEF from
  <2>4. p.open # Unknown =>
          /\ p.open \in Nat /\ p.open < journalClock
          /\ from[1].at \in Nat /\ from[1].symbol = p.symbol /\ from[1].at <= p.open
    BY <1>1, <1>2, <1>4, <2>1
  <2>5. FromTrue(row, from)
    BY <2>1, <2>2, <2>4 DEF FromTrue
  <2> QED BY <2>3, <2>5
<1> QED BY <1>3, <1>4, ScanForIs

LEMMA TagsStep ==
    JournalTypes /\ TagsSafe /\ [JournalNext]_journalVars => TagsSafe'
<1> SUFFICES ASSUME JournalTypes, TagsSafe, [JournalNext]_journalVars PROVE TagsSafe'
  OBVIOUS
<1>p. JournalTypes'
  BY JournalTypesStep
<1>t. /\ tasks \in [JournalRequest -> JournalTask] /\ \A e \in DOMAIN entries : entries[e] \in JournalEntry
      /\ DOMAIN entries \subseteq 1..inserted /\ inserted \in Nat
      /\ journalClock \in Nat /\ journalClock <= journalClock
  BY DEF JournalTypes
<1>f. /\ \A e \in DOMAIN entries : entries[e].suggested => FromTrue(entries[e].row, entries[e].from)
      /\ \A r \in JournalRequest : TagsTrue(tasks[r])
  BY DEF TagsSafe
\* When the clock and the scans stay, the rows that have their tags and the requests count.
<1>k. ASSUME UNCHANGED <<journalClock, scanRows>>,
             \A e \in DOMAIN entries' :
                 entries'[e].suggested => FromTrue(entries'[e].row, entries'[e].from),
             \A r \in JournalRequest : TagsTrue(tasks'[r])
      PROVE  TagsSafe'
  BY <1>k, <1>p, <1>t, TagsKept
<1>g. ASSUME NEW r \in JournalRequest, NEW t, Goto(r, t), TagsTrue(t)
      PROVE  \A s \in JournalRequest : TagsTrue(tasks'[s])
  <2>1. tasks'[r] = t /\ \A s \in JournalRequest : s # r => tasks'[s] = tasks[s]
    BY <1>g, <1>t DEF Goto
  <2> QED BY <1>f, <1>g, <2>1
<1>e. ASSUME entries' = entries
      PROVE  \A e \in DOMAIN entries' :
                 entries'[e].suggested => FromTrue(entries'[e].row, entries'[e].from)
  BY <1>e, <1>f
<1>s. ASSUME tasks' = tasks
      PROVE  \A r \in JournalRequest : TagsTrue(tasks'[r])
  BY <1>s, <1>f
<1>i. TagsTrue(Idle)
  BY DEF Idle, Looking, TagsTrue
<1>1. CASE UNCHANGED journalVars
  BY <1>1, <1>e, <1>s, <1>k DEF journalVars
<1>2. CASE Tick
  <2>1. journalClock <= journalClock' /\ UNCHANGED <<scanRows, entries, tasks>>
    BY <1>2, <1>t DEF Tick
  <2> QED BY <1>p, <1>e, <1>s, <2>1, TagsKept
<1>3. ASSUME NEW p \in ClosedTemplate, SyncClosed(p) PROVE TagsSafe'
  BY <1>3, <1>e, <1>s, <1>k DEF SyncClosed
<1>4. ASSUME NEW x, ForgetExchange(x) PROVE TagsSafe'
  <2> DEFINE gone == {i \in DOMAIN closed : closed[i].exchange = x}
  <2>1. /\ entries' = [e \in DOMAIN entries |->
                          [entries[e] EXCEPT !.position = IF @ \in gone THEN Unknown ELSE @]]
        /\ UNCHANGED <<journalClock, scanRows, tasks>>
    BY <1>4 DEF ForgetExchange
  <2> HIDE DEF gone
  <2>2. ASSUME NEW e \in DOMAIN entries'
        PROVE  /\ entries'[e].suggested = entries[e].suggested /\ entries'[e].row = entries[e].row
               /\ entries'[e].from = entries[e].from /\ e \in DOMAIN entries
    <3>1. e \in DOMAIN entries
      BY <2>1
    <3>2. entries[e] \in JournalEntry
      BY <1>t, <3>1
    <3>3. entries'[e] = [entries[e] EXCEPT !.position = IF entries[e].position \in gone THEN Unknown
                                                        ELSE entries[e].position]
      BY <2>1, <3>1
    <3> QED BY <3>1, <3>2, <3>3 DEF JournalEntry
  <2> QED BY <1>f, <1>s, <1>k, <2>1, <2>2
<1>5. ASSUME NEW o \in ScanOutcome, StoreScanRow(o) PROVE TagsSafe'
  <2> DEFINE row == [symbol |-> o.symbol, at |-> journalClock, direction |-> o.direction, score |-> o.score]
  <2>1. row.at = journalClock
    OBVIOUS
  <2>2. scanRows' = Append(scanRows, row) /\ UNCHANGED <<journalClock, entries, tasks>>
    BY <1>5 DEF StoreScanRow
  <2> HIDE DEF row
  <2>3. scanRows \in Seq(StoredScan)
    BY DEF JournalTypes
  <2>4. /\ DOMAIN scanRows' = 1..(Len(scanRows) + 1) /\ DOMAIN scanRows = 1..Len(scanRows)
        /\ Len(scanRows) \in Nat
        /\ \A i \in DOMAIN scanRows : scanRows'[i] = scanRows[i]
        /\ scanRows'[Len(scanRows) + 1] = row
    BY <2>2, <2>3
  <2>5. \A i \in DOMAIN scanRows' :
            scanRows'[i].at >= journalClock \/ \E j \in DOMAIN scanRows : scanRows'[i] = scanRows[j]
    <3> SUFFICES ASSUME NEW i \in DOMAIN scanRows'
                 PROVE  scanRows'[i].at >= journalClock \/ \E j \in DOMAIN scanRows : scanRows'[i] = scanRows[j]
      OBVIOUS
    <3>1. i \in DOMAIN scanRows \/ i = Len(scanRows) + 1
      BY <2>4
    <3> QED BY <1>t, <2>1, <2>4, <3>1
  <2> QED BY <1>t, <1>p, <1>e, <1>s, <2>2, <2>5, TagsKept
<1>6. ASSUME NEW i \in DOMAIN scanRows, DeleteScanRow(i) PROVE TagsSafe'
  <2>1. scanRows' = RemoveAt(scanRows, i) /\ UNCHANGED <<journalClock, entries, tasks>>
    BY <1>6 DEF DeleteScanRow
  <2>2. scanRows \in Seq(StoredScan) /\ Len(scanRows) \in Nat /\ i \in 1..Len(scanRows)
    BY DEF JournalTypes
  <2>3. /\ DOMAIN RemoveAt(scanRows, i) = 1..(Len(scanRows) - 1)
        /\ \A j \in 1..(Len(scanRows) - 1) :
               RemoveAt(scanRows, i)[j] = scanRows[IF j < i THEN j ELSE j + 1]
    BY <2>2, RemovedIs
  <2>4. \A j \in 1..(Len(scanRows) - 1) : (IF j < i THEN j ELSE j + 1) \in DOMAIN scanRows
    BY <2>2
  <2>5. \A j \in DOMAIN scanRows' : \E k \in DOMAIN scanRows : scanRows'[j] = scanRows[k]
    BY <2>1, <2>3, <2>4
  <2> QED BY <1>t, <1>p, <1>e, <1>s, <2>1, <2>5, TagsKept
<1>7. ASSUME NEW e \in DOMAIN entries, NEW tags \in TagUpdate, UpdateEntry(e, tags) PROVE TagsSafe'
  <2>1. entries' = [entries EXCEPT ![e].tags = tags, ![e].suggested = FALSE]
        /\ UNCHANGED <<journalClock, scanRows, tasks>>
    BY <1>7 DEF UpdateEntry
  <2>2. entries[e] \in JournalEntry
    BY <1>t
  <2>3. /\ DOMAIN entries' = DOMAIN entries
        /\ entries'[e] = [entries[e] EXCEPT !.tags = tags, !.suggested = FALSE]
        /\ \A f \in DOMAIN entries : f # e => entries'[f] = entries[f]
    BY <2>1
  <2>4. ~entries'[e].suggested
    BY <2>2, <2>3 DEF JournalEntry
  <2> QED BY <1>f, <1>s, <1>k, <2>1, <2>3, <2>4
<1>8. ASSUME NEW r \in JournalRequest, NEW body \in JournalBody, StartCreate(r, body) PROVE TagsSafe'
  <2> DEFINE used == IF body.position = Unknown THEN Used ELSE {}
             t == CreateTask(body, body.position, used)
  <2>1. Goto(r, t) /\ RowsKept
    BY <1>8 DEF StartCreate
  <2>2. TagsTrue(t)
    BY DEF CreateTask, TagsTrue
  <2> HIDE DEF t
  <2> QED BY <1>e, <1>g, <1>k, <2>1, <2>2 DEF RowsKept
<1>9. ASSUME NEW r \in JournalRequest, LinkPosition(r) PROVE TagsSafe'
  <2>1. tasks[r] \in Creating /\ RowsKept
    BY <1>9, <1>t, TaskIs DEF LinkPosition
  <2> DEFINE t1(i) == [tasks[r] EXCEPT !.at = "suggest", !.position = i, !.row = <<closed[i]>>]
             t2 == [tasks[r] EXCEPT !.at = "suggest"]
  <2>2. ~tasks[r].suggested
    BY <1>9, <1>f DEF LinkPosition, TagsTrue, Looking
  <2>3. ~t2.suggested /\ \A i : ~t1(i).suggested
    BY <2>1, <2>2 DEF Creating
  <2>4. Goto(r, t2) \/ \E i \in DOMAIN closed : Goto(r, t1(i))
    BY <1>9 DEF LinkPosition, Linkable
  <2> HIDE DEF t1, t2
  <2> QED BY <1>e, <1>g, <1>k, <2>1, <2>3, <2>4 DEF RowsKept, TagsTrue
<1>10. ASSUME NEW r \in JournalRequest, SuggestTags(r) PROVE TagsSafe'
  <2>1. tasks[r] \in Creating /\ RowsKept
    BY <1>10, <1>t, TaskIs DEF SuggestTags
  <2> DEFINE scan == ScanFor(tasks[r].row[1])
             tags == SuggestedTags(tasks[r].row[1], scan)
             t1 == [tasks[r] EXCEPT !.at = "insert", !.tags = tags, !.suggested = TRUE, !.from = scan]
             t2 == [tasks[r] EXCEPT !.at = "insert"]
  <2> HIDE DEF scan, tags
  <2>2. /\ t1.row = tasks[r].row /\ t1.from = scan /\ t1.at = "insert"
        /\ t2.suggested = tasks[r].suggested
    BY <2>1 DEF Creating
  <2>3. \/ Goto(r, t1) /\ tasks[r].row # <<>>
        \/ Goto(r, t2)
    BY <1>10 DEF SuggestTags, scan, tags
  <2>4. /\ ~tasks[r].suggested
        /\ tasks[r].row # <<>> => tasks[r].row[1].open < journalClock
    BY <1>10, <1>f DEF SuggestTags, Looking, JournalTypes, TagsTrue
  <2> HIDE DEF t1, t2
  <2>5. tasks[r].row # <<>> => FromTrue(tasks[r].row, scan)
    <3>1. tasks[r].row # <<>> => tasks[r].row[1] \in ClosedTemplate
      BY <2>1 DEF Creating
    <3> QED BY <2>4, <3>1, FoundIsTrue DEF scan
  <2>6. TagsTrue(t2) /\ (tasks[r].row # <<>> => TagsTrue(t1))
    BY <2>2, <2>4, <2>5 DEF TagsTrue
  <2> QED BY <1>e, <1>g, <1>k, <2>1, <2>3, <2>6 DEF RowsKept
<1>11. ASSUME NEW r \in JournalRequest, InsertEntry(r) PROVE TagsSafe'
  <2> DEFINE n == NextId(entries)
  <2>1. Looking(tasks[r])
    BY <1>11 DEF InsertEntry, Looking
  <2>2. n \notin DOMAIN entries
    BY <1>t, NextIdIs
  <2>3. PICK entry :
            /\ entries' = With(entries, n, entry)
            /\ entry.suggested = tasks[r].suggested /\ entry.row = tasks[r].row
            /\ entry.from = tasks[r].from
    BY <1>11 DEF InsertEntry
  <2>4. Goto(r, Idle) /\ UNCHANGED <<journalClock, scanRows>>
    BY <1>11 DEF InsertEntry
  <2> HIDE DEF n
  <2>5. /\ DOMAIN entries' = DOMAIN entries \cup {n} /\ entries'[n] = entry
        /\ \A e \in DOMAIN entries : entries'[e] = entries[e]
    BY <2>2, <2>3 DEF With
  <2>6. \A e \in DOMAIN entries' : entries'[e].suggested => FromTrue(entries'[e].row, entries'[e].from)
    BY <1>f, <2>1, <2>3, <2>5 DEF TagsTrue
  <2> QED BY <1>g, <1>i, <1>k, <2>4, <2>6
<1>12. ASSUME NEW r \in JournalRequest, NEW e \in DOMAIN entries, NEW at \in {"write", "erase"},
              StartOn(r, e, at)
       PROVE  TagsSafe'
  <2>1. \A s \in JournalRequest : tasks'[s] = tasks[s] \/ tasks'[s] \in OnEntry
    BY <1>12, StartOnType
  <2>2. \A s \in JournalRequest : tasks'[s] = tasks[s] \/ ~Looking(tasks'[s])
    BY <2>1 DEF Looking, OnEntry
  <2> QED BY <1>12, <1>e, <1>f, <1>k, <2>2 DEF StartOn, RowsKept, TagsTrue
<1>13. ASSUME NEW r \in JournalRequest,
              WriteFile(r) \/ ListScreenshot(r) \/ EraseFiles(r) \/ DeleteRow(r) \/ RequestFails(r)
       PROVE  TagsSafe'
  <2>1. PICK t \in JournalTask : Goto(r, t) /\ ~Looking(t)
    BY <1>13, MovesOn
  <2>2. UNCHANGED <<journalClock, scanRows>>
    BY <1>13 DEF WriteFile, ListScreenshot, EraseFiles, DeleteRow, RequestFails, RowsKept
  <2>3. \A e \in DOMAIN entries' :
            /\ e \in DOMAIN entries /\ entries'[e].suggested = entries[e].suggested
            /\ entries'[e].row = entries[e].row /\ entries'[e].from = entries[e].from
    <3>1. CASE ListScreenshot(r)
      <4>1. /\ DOMAIN entries' = DOMAIN entries
            /\ \A e \in DOMAIN entries :
                   entries'[e] = IF e = tasks[r].entry THEN [entries[e] EXCEPT !.shots = Listed(tasks[r])]
                                 ELSE entries[e]
        BY <3>1 DEF ListScreenshot
      <4> QED BY <1>t, <4>1 DEF JournalEntry
    <3>2. CASE DeleteRow(r)
      BY <3>2 DEF DeleteRow, Without
    <3>3. CASE entries' = entries
      BY <3>3
    <3> QED BY <1>13, <3>1, <3>2, <3>3 DEF WriteFile, EraseFiles, RequestFails, RowsKept
  <2> QED BY <1>f, <1>g, <1>k, <2>1, <2>2, <2>3 DEF TagsTrue
<1> QED BY <1>1, <1>2, <1>3, <1>4, <1>5, <1>6, <1>7, <1>8, <1>9, <1>10, <1>11, <1>12, <1>13 DEF JournalNext

LEMMA ToSetAppend ==
    ASSUME NEW s \in Seq(Nat), NEW x
    PROVE  ToSet(Append(s, x)) = ToSet(s) \cup {x}
<1>1. /\ DOMAIN Append(s, x) = 1..(Len(s) + 1) /\ DOMAIN s = 1..Len(s) /\ Len(s) \in Nat
      /\ Append(s, x)[Len(s) + 1] = x /\ \A i \in 1..Len(s) : Append(s, x)[i] = s[i]
  OBVIOUS
<1>2. DOMAIN Append(s, x) = DOMAIN s \cup {Len(s) + 1}
  BY <1>1
<1> QED BY <1>1, <1>2 DEF ToSet

LEMMA ShotsInit == JournalInit => LinksSafe /\ TagsSafe /\ ShotsSafe
<1> SUFFICES ASSUME JournalInit PROVE LinksSafe /\ TagsSafe /\ ShotsSafe
  OBVIOUS
<1>1. DOMAIN entries = {} /\ files = {} /\ promised = {}
  BY DEF JournalInit
<1>2. \A r \in JournalRequest : ~Looking(tasks[r]) /\ ~Busy(tasks[r])
  BY DEF JournalInit, Idle, Looking, Busy
<1> QED BY <1>1, <1>2 DEF LinksSafe, LinkedOnce, LooksRight, TagsSafe, TagsTrue, ShotsSafe, OnRight,
        PromisedIsListed

\* Rows that go, requests that end and files that are erased break no promise.
LEMMA ShotsKept ==
    ASSUME JournalTypes, ShotsSafe, UNCHANGED <<uploads, inserted, promised>>, files' \subseteq files,
           DOMAIN entries' \subseteq DOMAIN entries,
           \A e \in DOMAIN entries' :
               entries'[e].born = entries[e].born /\ entries'[e].shots = entries[e].shots,
           \A r \in JournalRequest :
               \/ tasks'[r] = tasks[r]
               \/ ~Busy(tasks'[r])
               \/ /\ Busy(tasks[r]) /\ tasks'[r].at = "delete"
                  /\ tasks'[r].entry = tasks[r].entry /\ tasks'[r].born = tasks[r].born
                  /\ tasks'[r].shots = tasks[r].shots /\ tasks'[r].alone = tasks[r].alone
    PROVE  ShotsSafe'
<1>1. files' \subseteq 1..uploads' /\ \A p \in promised' : p.born \in 1..inserted'
  BY DEF ShotsSafe
<1>2. \A e \in DOMAIN entries' : ToSet(entries'[e].shots) \subseteq 1..uploads'
  BY DEF ShotsSafe
<1>3. PromisedIsListed'
  BY DEF ShotsSafe, PromisedIsListed
<1>4. ASSUME NEW r \in JournalRequest PROVE OnRight(tasks[r])'
  <2>1. OnRight(tasks[r])
    BY DEF ShotsSafe
  <2>2. CASE tasks'[r] = tasks[r]
    BY <2>1, <2>2 DEF OnRight, Busy
  <2>3. CASE ~Busy(tasks'[r])
    BY <2>3 DEF OnRight, Busy
  <2>4. CASE /\ Busy(tasks[r]) /\ tasks'[r].at = "delete"
             /\ tasks'[r].entry = tasks[r].entry /\ tasks'[r].born = tasks[r].born
             /\ tasks'[r].shots = tasks[r].shots /\ tasks'[r].alone = tasks[r].alone
    BY <2>1, <2>4 DEF OnRight
  <2> QED BY <2>2, <2>3, <2>4
<1>5. ASSUME NEW r \in JournalRequest, NEW s \in JournalRequest, r # s,
             Busy(tasks'[r]), Busy(tasks'[s]), tasks'[r].entry = tasks'[s].entry
      PROVE  ~tasks'[r].alone
  <2>1. \A q \in JournalRequest :
            Busy(tasks'[q]) => /\ Busy(tasks[q]) /\ tasks'[q].entry = tasks[q].entry
                               /\ tasks'[q].alone = tasks[q].alone
    OBVIOUS
  <2> QED BY <1>5, <2>1 DEF ShotsSafe
<1> QED BY <1>1, <1>2, <1>3, <1>4, <1>5 DEF ShotsSafe, Busy

LEMMA InsertKeepsShots ==
    ASSUME JournalTypes, LinksSafe, ShotsSafe, NEW r \in JournalRequest, InsertEntry(r)
    PROVE  ShotsSafe'
<1> DEFINE n == NextId(entries)
<1>t. /\ tasks \in [JournalRequest -> JournalTask] /\ inserted \in Nat /\ uploads \in Nat
      /\ DOMAIN entries \subseteq 1..inserted
  BY JournalAssumption DEF JournalTypes
<1>1. n \notin DOMAIN entries
  BY <1>t, NextIdIs
<1>2. PICK entry : /\ entries' = With(entries, n, entry)
                   /\ entry.born = inserted + 1 /\ entry.shots = <<>>
  BY DEF InsertEntry
<1>3. /\ inserted' = inserted + 1 /\ Goto(r, Idle) /\ UNCHANGED <<files, uploads, promised>>
  BY DEF InsertEntry
<1> HIDE DEF n
<1>4. /\ DOMAIN entries' = DOMAIN entries \cup {n} /\ entries'[n] = entry
      /\ \A e \in DOMAIN entries : entries'[e] = entries[e]
  BY <1>1, <1>2 DEF With
<1>5. ToSet(<<>>) = {}
  BY DEF ToSet
<1>6. tasks'[r] = Idle /\ ~Busy(Idle) /\ \A s \in JournalRequest : s # r => tasks'[s] = tasks[s]
  BY <1>t, <1>3 DEF Goto, Idle, Busy
<1>7. \A p \in promised : p.born \in 1..inserted /\ p.born # inserted + 1
  BY <1>t DEF ShotsSafe
<1>8. PromisedIsListed'
  <2>1. \A p \in promised, e \in DOMAIN entries : entries[e].born = p.born => p.file \in ToSet(entries[e].shots)
    BY DEF ShotsSafe, PromisedIsListed
  <2> QED BY <1>2, <1>3, <1>4, <1>7, <2>1 DEF PromisedIsListed
<1>9. ASSUME NEW s \in JournalRequest PROVE OnRight(tasks[s])'
  <2>1. CASE s = r
    BY <1>6, <2>1 DEF OnRight, Busy
  <2>2. CASE s # r
    <3>1. tasks'[s] = tasks[s] /\ OnRight(tasks[s])
      BY <1>6, <2>2 DEF ShotsSafe
    <3>2. CASE Busy(tasks[s])
      <4>1. tasks[s].born \in 1..inserted /\ tasks[s].born # inserted + 1
            /\ tasks[s].born \in 1..(inserted + 1)
        BY <1>t, <3>1, <3>2 DEF OnRight
      <4>2. \A e \in DOMAIN entries' : entries'[e].born = tasks[s].born => e = tasks[s].entry
        BY <1>2, <1>4, <3>1, <3>2, <4>1 DEF OnRight
      <4>3. ASSUME tasks[s].at \in {"write", "list"}, tasks[s].entry \in DOMAIN entries',
                   NEW p \in promised, entries'[tasks[s].entry].born = p.born
            PROVE  p.file \in ToSet(tasks[s].shots)
        BY <1>2, <1>4, <1>7, <3>1, <3>2, <4>3 DEF OnRight
      <4> QED BY <1>3, <3>1, <3>2, <4>1, <4>2, <4>3 DEF OnRight
    <3>3. CASE ~Busy(tasks[s])
      BY <3>1, <3>3 DEF OnRight, Busy
    <3> QED BY <3>2, <3>3
  <2> QED BY <2>1, <2>2
<1>10. \A q, s \in JournalRequest :
           q # s /\ Busy(tasks'[q]) /\ Busy(tasks'[s]) /\ tasks'[q].entry = tasks'[s].entry
           => ~tasks'[q].alone
  BY <1>6 DEF ShotsSafe
<1>11. \A e \in DOMAIN entries' : ToSet(entries'[e].shots) \subseteq 1..uploads
  BY <1>2, <1>4, <1>5 DEF ShotsSafe
<1>12. \A p \in promised : p.born \in 1..(inserted + 1)
  BY <1>t, <1>7
<1>13. files \subseteq 1..uploads
  BY DEF ShotsSafe
<1> QED BY <1>3, <1>8, <1>9, <1>10, <1>11, <1>12, <1>13 DEF ShotsSafe, Busy

LEMMA StartKeepsShots ==
    ASSUME JournalTypes, LinksSafe, ShotsSafe, NEW r \in JournalRequest, NEW e \in DOMAIN entries,
           NEW at \in {"write", "erase"}, StartOn(r, e, at)
    PROVE  ShotsSafe'
<1>1. UNCHANGED <<entries, files, inserted, uploads, promised>>
  BY DEF StartOn, RowsKept
<1>2. /\ Busy(tasks'[r]) /\ tasks'[r].at = at /\ tasks'[r].entry = e
      /\ tasks'[r].shots = entries[e].shots /\ tasks'[r].born = entries[e].born
      /\ tasks'[r].alone <=> \A q \in JournalRequest : ~On(e, q)
      /\ \A s \in JournalRequest : s # r /\ ~On(e, s) => tasks'[s] = tasks[s]
  BY StartOnType DEF Busy
<1>3. ASSUME NEW s \in JournalRequest, s # r, On(e, s)
      PROVE  /\ tasks'[s].at = tasks[s].at /\ tasks'[s].entry = tasks[s].entry
             /\ tasks'[s].shots = tasks[s].shots /\ tasks'[s].born = tasks[s].born
             /\ tasks'[s].file = tasks[s].file /\ ~tasks'[s].alone
  <2>1. tasks'[s] = [tasks[s] EXCEPT !.alone = FALSE] /\ tasks[s] \in OnEntry
    BY <1>3, StartOnType
  <2> QED BY <2>1 DEF OnEntry
<1>4. ASSUME NEW s \in JournalRequest PROVE OnRight(tasks[s])'
  <2>1. OnRight(tasks[s])
    BY DEF ShotsSafe
  <2>2. CASE s = r
    <3>1. entries[e].born \in 1..inserted /\ \A f \in DOMAIN entries : entries[f].born = entries[e].born => f = e
      BY DEF LinksSafe
    <3>2. ToSet(entries[e].shots) \subseteq 1..uploads
      BY DEF ShotsSafe
    <3>3. \A p \in promised : entries[e].born = p.born => p.file \in ToSet(entries[e].shots)
      BY DEF ShotsSafe, PromisedIsListed
    <3> QED BY <1>1, <1>2, <2>2, <3>1, <3>2, <3>3 DEF OnRight
  <2>3. CASE s # r /\ On(e, s)
    BY <1>1, <1>3, <2>1, <2>3 DEF OnRight, Busy
  <2>4. CASE s # r /\ ~On(e, s)
    BY <1>1, <1>2, <2>1, <2>4 DEF OnRight, Busy
  <2> QED BY <2>2, <2>3, <2>4
<1>5. ASSUME NEW q \in JournalRequest, NEW s \in JournalRequest, q # s,
             Busy(tasks'[q]), Busy(tasks'[s]), tasks'[q].entry = tasks'[s].entry
      PROVE  ~tasks'[q].alone
  <2>1. \A x \in JournalRequest :
            x # r => /\ Busy(tasks'[x]) <=> Busy(tasks[x])
                     /\ Busy(tasks[x]) => tasks'[x].entry = tasks[x].entry
                     /\ On(e, x) <=> Busy(tasks[x]) /\ tasks[x].entry = e
                     /\ ~tasks[x].alone /\ Busy(tasks[x]) => ~tasks'[x].alone
    BY <1>2, <1>3 DEF Busy, On
  <2>2. CASE q = r
    BY <1>2, <1>5, <2>1, <2>2
  <2>3. CASE s = r
    BY <1>2, <1>3, <1>5, <2>1, <2>3
  <2>4. CASE q # r /\ s # r
    BY <1>5, <2>1, <2>4 DEF ShotsSafe
  <2> QED BY <2>2, <2>3, <2>4
<1>6. PromisedIsListed'
  BY <1>1 DEF ShotsSafe, PromisedIsListed
<1> QED BY <1>1, <1>4, <1>5, <1>6 DEF ShotsSafe, Busy

LEMMA WriteKeepsShots ==
    ASSUME JournalTypes, ShotsSafe, NEW r \in JournalRequest, WriteFile(r)
    PROVE  ShotsSafe'
<1>t. tasks \in [JournalRequest -> JournalTask] /\ uploads \in Nat
  BY JournalAssumption DEF JournalTypes
<1> DEFINE t == [tasks[r] EXCEPT !.at = "list", !.file = uploads + 1]
<1>1. /\ uploads' = uploads + 1 /\ files' = files \cup {uploads + 1} /\ Goto(r, t)
      /\ UNCHANGED <<entries, inserted, promised>>
  BY DEF WriteFile
<1>2. tasks[r] \in OnEntry /\ tasks[r].at = "write"
  BY <1>t, TaskIs DEF WriteFile
<1>3. /\ t.at = "list" /\ t.file = uploads + 1 /\ t.entry = tasks[r].entry /\ t.shots = tasks[r].shots
      /\ t.born = tasks[r].born /\ t.alone = tasks[r].alone
  BY <1>2 DEF OnEntry
<1> HIDE DEF t
<1>4. tasks'[r] = t /\ \A s \in JournalRequest : s # r => tasks'[s] = tasks[s]
  BY <1>t, <1>1 DEF Goto
<1>5. 1..uploads \subseteq 1..(uploads + 1) /\ uploads + 1 \in 1..(uploads + 1)
  BY <1>t
<1>6. ASSUME NEW s \in JournalRequest PROVE OnRight(tasks[s])'
  <2>1. OnRight(tasks[s])
    BY DEF ShotsSafe
  <2>2. CASE s = r
    BY <1>1, <1>2, <1>3, <1>4, <1>5, <2>1, <2>2 DEF OnRight, Busy
  <2>3. CASE s # r
    BY <1>1, <1>4, <1>5, <2>1, <2>3 DEF OnRight, Busy
  <2> QED BY <2>2, <2>3
<1>7. \A q, s \in JournalRequest :
          q # s /\ Busy(tasks'[q]) /\ Busy(tasks'[s]) /\ tasks'[q].entry = tasks'[s].entry
          => ~tasks'[q].alone
  BY <1>2, <1>3, <1>4 DEF ShotsSafe, Busy
<1>8. PromisedIsListed'
  BY <1>1 DEF ShotsSafe, PromisedIsListed
<1>9. /\ files' \subseteq 1..uploads' /\ \A e \in DOMAIN entries' : ToSet(entries'[e].shots) \subseteq 1..uploads'
      /\ \A p \in promised' : p.born \in 1..inserted'
  BY <1>1, <1>5 DEF ShotsSafe
<1> QED BY <1>6, <1>7, <1>8, <1>9 DEF ShotsSafe, Busy

LEMMA ListKeepsShots ==
    ASSUME JournalTypes, LinksSafe, ShotsSafe, NEW r \in JournalRequest, ListScreenshot(r)
    PROVE  ShotsSafe'
<1> DEFINE t == tasks[r]
           new == IF t.alone THEN {[file |-> t.file, born |-> t.born]} ELSE {}
<1>t. /\ tasks \in [JournalRequest -> JournalTask] /\ t \in OnEntry /\ t.at = "list"
      /\ \A e \in DOMAIN entries : entries[e] \in JournalEntry
  BY TaskIs DEF ListScreenshot, JournalTypes
<1>1. /\ t.entry \in DOMAIN entries /\ promised' = promised \cup new /\ Goto(r, Idle)
      /\ entries' = [entries EXCEPT ![t.entry].shots = Listed(t)]
      /\ UNCHANGED <<files, inserted, uploads>>
  BY DEF ListScreenshot
<1>2. /\ DOMAIN entries' = DOMAIN entries
      /\ \A e \in DOMAIN entries :
            /\ entries'[e].born = entries[e].born
            /\ entries'[e].shots = IF e = t.entry THEN Listed(t) ELSE entries[e].shots
  <2>1. /\ DOMAIN entries' = DOMAIN entries
        /\ \A e \in DOMAIN entries :
              entries'[e] = IF e = t.entry THEN [entries[e] EXCEPT !.shots = Listed(t)] ELSE entries[e]
    BY <1>1
  <2> QED BY <1>t, <2>1 DEF JournalEntry
<1>3. ToSet(Listed(t)) = ToSet(t.shots) \cup {t.file}
  BY <1>t, ToSetAppend DEF Listed, OnEntry
<1>4. OnRight(t) /\ Busy(t)
  BY <1>t DEF ShotsSafe, Busy
<1>5. tasks'[r] = Idle /\ ~Busy(Idle) /\ \A s \in JournalRequest : s # r => tasks'[s] = tasks[s]
  BY <1>t, <1>1 DEF Goto, Idle, Busy
<1>6. \A p \in new : p.file = t.file /\ p.born = t.born /\ t.alone
  OBVIOUS
<1>o. \A p \in promised : p.born \in 1..inserted
  BY DEF ShotsSafe
<1>w. /\ t.born \in 1..inserted /\ ToSet(t.shots) \subseteq 1..uploads /\ t.file \in 1..uploads
      /\ \A e \in DOMAIN entries : entries[e].born = t.born => e = t.entry
      /\ \A p \in promised : entries[t.entry].born = p.born => p.file \in ToSet(t.shots)
  BY <1>t, <1>1, <1>4 DEF OnRight
<1> HIDE DEF t, new
<1>7. PromisedIsListed'
  <2> SUFFICES ASSUME NEW p \in promised', NEW e \in DOMAIN entries', entries'[e].born = p.born
               PROVE  p.file \in ToSet(entries'[e].shots)
    BY DEF PromisedIsListed
  <2>1. CASE p \in promised /\ e = t.entry
    BY <1>2, <1>3, <1>w, <2>1
  <2>2. CASE p \in promised /\ e # t.entry
    BY <1>2, <2>2 DEF ShotsSafe, PromisedIsListed
  <2>3. CASE p \in new
    BY <1>2, <1>3, <1>6, <1>w, <2>3
  <2> QED BY <1>1, <2>1, <2>2, <2>3
<1>8. ASSUME NEW s \in JournalRequest PROVE OnRight(tasks[s])'
  <2>1. CASE s = r
    BY <1>5, <2>1 DEF OnRight, Busy
  <2>2. CASE s # r
    <3>1. tasks'[s] = tasks[s] /\ OnRight(tasks[s])
      BY <1>5, <2>2 DEF ShotsSafe
    <3>2. ASSUME Busy(tasks[s]), tasks[s].at \in {"write", "list"}, tasks[s].entry \in DOMAIN entries,
                 NEW p \in promised', entries[tasks[s].entry].born = p.born
          PROVE  p.file \in ToSet(tasks[s].shots)
      <4>1. CASE p \in promised
        BY <3>1, <3>2, <4>1 DEF OnRight
      <4>2. CASE p \in new
        <5>1. tasks[s].entry = t.entry
          BY <1>6, <1>w, <3>2, <4>2
        <5>2. ~t.alone
          BY <1>4, <2>2, <3>2, <5>1 DEF ShotsSafe, t
        <5> QED BY <1>6, <4>2, <5>2
      <4> QED BY <1>1, <4>1, <4>2
    <3> QED BY <1>1, <1>2, <3>1, <3>2 DEF OnRight, Busy
  <2> QED BY <2>1, <2>2
<1>9. \A q, s \in JournalRequest :
          q # s /\ Busy(tasks'[q]) /\ Busy(tasks'[s]) /\ tasks'[q].entry = tasks'[s].entry
          => ~tasks'[q].alone
  BY <1>5 DEF ShotsSafe
<1>10. \A e \in DOMAIN entries' : ToSet(entries'[e].shots) \subseteq 1..uploads
  BY <1>2, <1>3, <1>w DEF ShotsSafe
<1>11. \A p \in promised' : p.born \in 1..inserted
  BY <1>1, <1>6, <1>o, <1>w
<1>12. files \subseteq 1..uploads
  BY DEF ShotsSafe
<1> QED BY <1>1, <1>7, <1>8, <1>9, <1>10, <1>11, <1>12 DEF ShotsSafe, Busy

LEMMA ShotsStep ==
    JournalTypes /\ LinksSafe /\ ShotsSafe /\ [JournalNext]_journalVars => ShotsSafe'
<1> SUFFICES ASSUME JournalTypes, LinksSafe, ShotsSafe, [JournalNext]_journalVars PROVE ShotsSafe'
  OBVIOUS
<1>t. /\ tasks \in [JournalRequest -> JournalTask] /\ \A e \in DOMAIN entries : entries[e] \in JournalEntry
  BY DEF JournalTypes
<1>1. ASSUME UNCHANGED <<uploads, inserted, promised, files, entries, tasks>> PROVE ShotsSafe'
  BY <1>1, ShotsKept
<1>2. CASE UNCHANGED journalVars \/ Tick
  BY <1>1, <1>2 DEF journalVars, Tick
<1>3. ASSUME NEW p \in ClosedTemplate, SyncClosed(p) PROVE ShotsSafe'
  BY <1>1, <1>3 DEF SyncClosed
<1>4. ASSUME NEW x, ForgetExchange(x) PROVE ShotsSafe'
  <2> DEFINE gone == {i \in DOMAIN closed : closed[i].exchange = x}
  <2>1. /\ entries' = [e \in DOMAIN entries |->
                          [entries[e] EXCEPT !.position = IF @ \in gone THEN Unknown ELSE @]]
        /\ UNCHANGED <<files, tasks, inserted, uploads, promised>>
    BY <1>4 DEF ForgetExchange
  <2> HIDE DEF gone
  <2>2. DOMAIN entries' = DOMAIN entries
    BY <2>1
  <2>3. ASSUME NEW e \in DOMAIN entries
        PROVE  entries'[e].born = entries[e].born /\ entries'[e].shots = entries[e].shots
    <3>1. entries[e] \in JournalEntry
      BY <1>t
    <3>2. entries'[e] = [entries[e] EXCEPT !.position = IF entries[e].position \in gone THEN Unknown
                                                        ELSE entries[e].position]
      BY <2>1
    <3> QED BY <3>1, <3>2 DEF JournalEntry
  <2> QED BY <2>1, <2>2, <2>3, ShotsKept
<1>5. ASSUME NEW o \in ScanOutcome, StoreScanRow(o) PROVE ShotsSafe'
  BY <1>1, <1>5 DEF StoreScanRow
<1>6. ASSUME NEW i \in DOMAIN scanRows, DeleteScanRow(i) PROVE ShotsSafe'
  BY <1>1, <1>6 DEF DeleteScanRow
<1>7. ASSUME NEW e \in DOMAIN entries, NEW tags \in TagUpdate, UpdateEntry(e, tags) PROVE ShotsSafe'
  <2>1. entries' = [entries EXCEPT ![e].tags = tags, ![e].suggested = FALSE]
        /\ UNCHANGED <<files, tasks, inserted, uploads, promised>>
    BY <1>7 DEF UpdateEntry
  <2>2. entries[e] \in JournalEntry
    BY <1>t
  <2>3. /\ DOMAIN entries' = DOMAIN entries
        /\ entries'[e] = [entries[e] EXCEPT !.tags = tags, !.suggested = FALSE]
        /\ \A f \in DOMAIN entries : f # e => entries'[f] = entries[f]
    BY <2>1
  <2>4. entries'[e].born = entries[e].born /\ entries'[e].shots = entries[e].shots
    BY <2>2, <2>3 DEF JournalEntry
  <2> QED BY <2>1, <2>3, <2>4, ShotsKept
\* Requests that create an entry are not busy with one.
<1>g. ASSUME NEW r \in JournalRequest, NEW t, Goto(r, t), ~Busy(t), RowsKept PROVE ShotsSafe'
  <2>1. tasks'[r] = t /\ \A s \in JournalRequest : s # r => tasks'[s] = tasks[s]
    BY <1>g, <1>t DEF Goto
  <2> QED BY <1>g, <2>1, ShotsKept DEF RowsKept
<1>8. ASSUME NEW r \in JournalRequest, NEW body \in JournalBody, StartCreate(r, body) PROVE ShotsSafe'
  <2> DEFINE t == CreateTask(body, body.position, IF body.position = Unknown THEN Used ELSE {})
  <2>1. Goto(r, t) /\ RowsKept
    BY <1>8 DEF StartCreate
  <2>2. ~Busy(t)
    BY DEF CreateTask, Busy
  <2> HIDE DEF t
  <2> QED BY <1>g, <2>1, <2>2
<1>9. ASSUME NEW r \in JournalRequest, LinkPosition(r) PROVE ShotsSafe'
  <2> DEFINE t1(i) == [tasks[r] EXCEPT !.at = "suggest", !.position = i, !.row = <<closed[i]>>]
             t2 == [tasks[r] EXCEPT !.at = "suggest"]
  <2>1. tasks[r] \in Creating /\ RowsKept
    BY <1>9, <1>t, TaskIs DEF LinkPosition
  <2>2. ~Busy(t2) /\ \A i : ~Busy(t1(i))
    BY <2>1 DEF Creating, Busy
  <2>3. Goto(r, t2) \/ \E i \in DOMAIN closed : Goto(r, t1(i))
    BY <1>9 DEF LinkPosition, Linkable
  <2> HIDE DEF t1, t2
  <2> QED BY <1>g, <2>1, <2>2, <2>3
<1>10. ASSUME NEW r \in JournalRequest, SuggestTags(r) PROVE ShotsSafe'
  <2>1. tasks[r] \in Creating /\ RowsKept
    BY <1>10, <1>t, TaskIs DEF SuggestTags
  <2> DEFINE scan == ScanFor(tasks[r].row[1])
             tags == SuggestedTags(tasks[r].row[1], scan)
             t1 == [tasks[r] EXCEPT !.at = "insert", !.tags = tags, !.suggested = TRUE, !.from = scan]
             t2 == [tasks[r] EXCEPT !.at = "insert"]
  <2> HIDE DEF scan, tags
  <2>2. ~Busy(t1) /\ ~Busy(t2)
    BY <2>1 DEF Creating, Busy
  <2>3. Goto(r, t1) \/ Goto(r, t2)
    BY <1>10 DEF SuggestTags, scan, tags
  <2> HIDE DEF t1, t2
  <2> QED BY <1>g, <2>1, <2>2, <2>3
<1>11. ASSUME NEW r \in JournalRequest, RequestFails(r) PROVE ShotsSafe'
  <2>1. ~Busy(Idle)
    BY DEF Busy, Idle
  <2> QED BY <1>11, <1>g, <2>1 DEF RequestFails
<1>12. ASSUME NEW r \in JournalRequest, DeleteRow(r) PROVE ShotsSafe'
  <2>1. /\ Goto(r, Idle) /\ UNCHANGED <<files, inserted, uploads, promised>>
        /\ entries' = Without(entries, tasks[r].entry)
    BY <1>12 DEF DeleteRow
  <2>2. /\ DOMAIN entries' \subseteq DOMAIN entries /\ \A e \in DOMAIN entries' : entries'[e] = entries[e]
    BY <2>1 DEF Without
  <2>3. ~Busy(Idle) /\ tasks'[r] = Idle /\ \A s \in JournalRequest : s # r => tasks'[s] = tasks[s]
    BY <1>t, <2>1 DEF Goto, Busy, Idle
  <2> QED BY <2>1, <2>2, <2>3, ShotsKept
<1>13. ASSUME NEW r \in JournalRequest, EraseFiles(r) PROVE ShotsSafe'
  <2> DEFINE t == [tasks[r] EXCEPT !.at = "delete"]
  <2>1. /\ tasks[r] \in OnEntry /\ Goto(r, t) /\ files' \subseteq files
        /\ UNCHANGED <<entries, inserted, uploads, promised>>
    BY <1>13, <1>t, TaskIs DEF EraseFiles
  <2>2. /\ Busy(tasks[r]) /\ t.at = "delete" /\ t.entry = tasks[r].entry /\ t.born = tasks[r].born
        /\ t.shots = tasks[r].shots /\ t.alone = tasks[r].alone
    BY <2>1 DEF OnEntry, Busy
  <2>3. tasks'[r] = t /\ \A s \in JournalRequest : s # r => tasks'[s] = tasks[s]
    BY <1>t, <2>1 DEF Goto
  <2> HIDE DEF t
  <2> QED BY <2>1, <2>2, <2>3, ShotsKept
<1> QED BY <1>2, <1>3, <1>4, <1>5, <1>6, <1>7, <1>8, <1>9, <1>10, <1>11, <1>12, <1>13,
           InsertKeepsShots, StartKeepsShots, WriteKeepsShots, ListKeepsShots DEF JournalNext

-----------------------------------------------------------------------------
(***************************************************************************)
(* Journal: what is shown.                                                 *)
(***************************************************************************)
LEMMA FiniteRange ==
    ASSUME NEW n \in Nat, NEW S \in SUBSET (1..n)
    PROVE  IsFiniteSet(S) /\ Cardinality(S) \in Nat
<1>1. IsFiniteSet(1..n)
  BY FS_Interval
<1>2. IsFiniteSet(S)
  BY <1>1, FS_Subset
<1> QED BY <1>2, FS_CardinalityType

\* A set with no more than one element.
LEMMA OneAtMost ==
    ASSUME NEW S, IsFiniteSet(S), ~ (Cardinality(S) > 1), NEW a \in S, NEW b \in S
    PROVE  a = b
<1> SUFFICES ASSUME a # b PROVE FALSE
  OBVIOUS
<1>1. IsFiniteSet({a}) /\ Cardinality({a}) = 1
  BY FS_Singleton
<1>2. Cardinality({a} \cup {b}) = 2 /\ {a} \cup {b} \in SUBSET S
  BY <1>1, FS_AddElement
<1>3. Cardinality({a} \cup {b}) <= Cardinality(S) /\ Cardinality(S) \in Nat
  BY <1>2, FS_Subset, FS_CardinalityType
<1> QED BY <1>2, <1>3

\* An entry is counted once under each of its tags, or once as untagged.
LEMMA EvidenceHolds == JournalTypes => EvidenceIsFound
<1> SUFFICES ASSUME JournalTypes, NEW t \in InsightTags(get_journal_summary), ~Repeats(t)
             PROVE  get_journal_summary[t].trade_count = Cardinality(_filter_entries_by_tag(t))
  BY DEF EvidenceIsFound
<1> DEFINE K(e) == {k \in DOMAIN CountedTags(e) : CountedTags(e)[k] = t}
           F == _filter_entries_by_tag(t)
<1>1. get_journal_summary[t].trade_count = Cardinality(Counted(t))
  <2>1. t \in DOMAIN get_journal_summary
    BY DEF InsightTags
  <2> QED BY <2>1 DEF get_journal_summary
<1>2. ASSUME NEW e \in DOMAIN entries
      PROVE  /\ IsFiniteSet(K(e)) /\ Times(e, t) = Cardinality(K(e)) /\ Cardinality(K(e)) \in Nat
             /\ K(e) # {} => Times(e, t) > 0
  <2>1. entries[e].tags \in Seq(JournalTag)
    BY DEF JournalTypes, JournalEntry
  <2>2. CountedTags(e) \in Seq(JournalTag \cup {"untagged"})
    BY <2>1 DEF CountedTags
  <2>3. K(e) \in SUBSET (1..Len(CountedTags(e))) /\ Len(CountedTags(e)) \in Nat
    BY <2>2
  <2>4. Times(e, t) = Cardinality(K(e))
    BY DEF Times
  <2> HIDE DEF K
  <2>5. IsFiniteSet(K(e)) /\ Cardinality(K(e)) \in Nat
    BY <2>3, FiniteRange
  <2>6. Cardinality(K(e)) = 0 <=> K(e) = {}
    BY <2>5, FS_EmptySet
  <2> QED BY <2>4, <2>5, <2>6
<1>3. ASSUME NEW e \in DOMAIN entries
      PROVE  /\ ~ (Cardinality(K(e)) > 1)
             /\ t = "untagged" /\ entries[e].tags # <<>> => K(e) = {}
  BY <1>2 DEF Repeats
<1>4. ASSUME NEW e \in DOMAIN entries PROVE e \in F <=> K(e) # {}
  <2>1. CASE entries[e].tags = <<>>
    <3>1. DOMAIN <<"untagged">> = {1} /\ <<"untagged">>[1] = "untagged" /\ DOMAIN <<>> = {}
      OBVIOUS
    <3>2. CountedTags(e) = <<"untagged">> /\ ToSet(entries[e].tags) = {}
      BY <2>1, <3>1 DEF CountedTags, ToSet
    <3> QED BY <2>1, <3>1, <3>2 DEF _filter_entries_by_tag
  <2>2. CASE entries[e].tags # <<>>
    <3>1. CountedTags(e) = entries[e].tags
      BY <2>2 DEF CountedTags
    <3>2. t \in ToSet(entries[e].tags) <=> K(e) # {}
      BY <3>1 DEF ToSet
    <3> QED BY <1>3, <2>2, <3>2 DEF _filter_entries_by_tag
  <2> QED BY <2>1, <2>2
<1>5. F \in SUBSET DOMAIN entries /\ IsFiniteSet(F)
  <2>1. inserted \in Nat /\ DOMAIN entries \subseteq 1..inserted /\ F \subseteq DOMAIN entries
    BY DEF JournalTypes, _filter_entries_by_tag
  <2> QED BY <2>1, FiniteRange
<1>6. Counted(t) = UNION {{e} \X K(e) : e \in DOMAIN entries}
  BY DEF Counted
<1>7. ASSUME NEW e \in DOMAIN entries, NEW a \in K(e), NEW b \in K(e) PROVE a = b
  <2> HIDE DEF K
  <2> QED BY <1>2, <1>3, OneAtMost
<1> HIDE DEF K, F
<1> DEFINE f == [e \in F |-> <<e, CHOOSE k \in K(e) : TRUE>>]
<1>8. ASSUME NEW e \in F PROVE f[e] = <<e, CHOOSE k \in K(e) : TRUE>> /\ (CHOOSE k \in K(e) : TRUE) \in K(e)
  BY <1>4, <1>5
<1>9. f \in Bijection(F, Counted(t))
  <2>1. \A e \in F : f[e] \in Counted(t)
    BY <1>5, <1>6, <1>8
  <2>2. \A d, e \in F : f[d] = f[e] => d = e
    BY <1>8
  <2>3. ASSUME NEW x \in Counted(t) PROVE \E e \in F : f[e] = x
    <3>1. PICK e \in DOMAIN entries : \E k \in K(e) : x = <<e, k>>
      BY <1>6
    <3> PICK k \in K(e) : x = <<e, k>>
      BY <3>1
    <3>2. e \in F
      BY <1>4, <3>1
    <3>3. (CHOOSE j \in K(e) : TRUE) = k
      BY <1>7, <1>8, <3>2
    <3> QED BY <1>8, <3>2, <3>3
  <2>4. f \in [F -> Counted(t)]
    BY <2>1
  <2> HIDE DEF f
  <2> QED BY <2>2, <2>3, <2>4 DEF Bijection, Injection, Surjection, IsInjective
<1>10. ExistsBijection(F, Counted(t))
  BY <1>9 DEF ExistsBijection
<1>11. Cardinality(Counted(t)) = Cardinality(F)
  BY <1>5, <1>10, FS_Bijection
<1> QED BY <1>1, <1>11 DEF F

LEMMA LinksHold == JournalTypes /\ LinksSafe => LinksAddUp
<1> SUFFICES ASSUME JournalTypes, LinksSafe PROVE LinksAddUp
  OBVIOUS
<1>1. Unknown \notin DOMAIN closed
  BY DEF JournalTypes, Unknown
<1>2. \A e \in DOMAIN entries : entries[e].position # Unknown <=> entries[e].position \in DOMAIN closed
  BY <1>1 DEF LinksSafe
<1> QED BY <1>2 DEF LinksAddUp, _journal_for_position

\* The trades of a band, and those below it.
LEMMA BandsHold == JournalTypes => BandsCountTrades
<1> SUFFICES ASSUME JournalTypes, NEW x
             PROVE  LET linked == LinkedTrades(x)
                        bands == compute_scan_accuracy(linked)
                    IN  bands[0].total + bands[5].total + bands[10].total + bands[15].total
                            + bands[20].total + bands[25].total
                            = Cardinality({i \in DOMAIN linked :
                                linked[i].scan # NoScan /\ linked[i].scan[1].score < 30})
  BY DEF BandsCountTrades
<1> DEFINE linked == LinkedTrades(x)
           Below(n) == {i \in DOMAIN linked : linked[i].scan # NoScan /\ linked[i].scan[1].score < n}
           Band(lo) == {i \in DOMAIN linked : /\ linked[i].scan # NoScan
                                              /\ lo <= linked[i].scan[1].score
                                              /\ linked[i].scan[1].score < lo + 5}
<1>1. DOMAIN linked \subseteq DOMAIN closed
      /\ \A i \in DOMAIN linked : linked[i].scan = ScanFor(closed[i])
  BY DEF LinkedTrades
<1>2. \A lo \in SCORE_BANDS : compute_scan_accuracy(linked)[lo].total = Cardinality(Band(lo))
  BY DEF compute_scan_accuracy
<1>3. ASSUME NEW i \in DOMAIN linked, linked[i].scan # NoScan PROVE linked[i].scan[1].score \in Nat
  <2>1. linked[i].scan \in Seq(StoredScan)
    BY <1>1, ScanForType
  <2>2. linked[i].scan[1] \in StoredScan
    BY <1>3, <2>1 DEF NoScan
  <2> QED BY <2>2 DEF StoredScan
<1>4. ASSUME NEW S, S \subseteq DOMAIN linked PROVE IsFiniteSet(S) /\ Cardinality(S) \in Nat
  <2>1. PICK n \in Nat : DOMAIN closed \subseteq 1..n
    BY DEF JournalTypes
  <2> QED BY <1>1, <1>4, <2>1, FiniteRange
<1> HIDE DEF linked
<1>5. ASSUME NEW n \in Nat PROVE Cardinality(Below(n + 5)) = Cardinality(Below(n)) + Cardinality(Band(n))
  <2>1. Below(n + 5) = Below(n) \cup Band(n) /\ Below(n) \cap Band(n) = {}
    BY <1>3
  <2>2. Below(n) \subseteq DOMAIN linked /\ Band(n) \subseteq DOMAIN linked
    OBVIOUS
  <2> HIDE DEF Below, Band
  <2>3. /\ IsFiniteSet(Below(n)) /\ IsFiniteSet(Band(n))
        /\ Cardinality(Below(n)) \in Nat /\ Cardinality(Band(n)) \in Nat
    BY <1>4, <2>2
  <2>4. Cardinality({}) = 0
    BY FS_EmptySet
  <2> QED BY <2>1, <2>3, <2>4, FS_Union
<1>6. Cardinality(Below(0)) = 0
  <2>1. Below(0) = {}
    BY <1>3
  <2> QED BY <2>1, FS_EmptySet
<1>7. \A n \in {5, 10, 15, 20, 25, 30} : Cardinality(Below(n)) \in Nat
  BY <1>4
<1>8. \A lo \in SCORE_BANDS : Cardinality(Band(lo)) \in Nat
  BY <1>4
<1> HIDE DEF Below, Band
<1>9. /\ Cardinality(Below(5)) = Cardinality(Below(0)) + Cardinality(Band(0))
      /\ Cardinality(Below(10)) = Cardinality(Below(5)) + Cardinality(Band(5))
      /\ Cardinality(Below(15)) = Cardinality(Below(10)) + Cardinality(Band(10))
      /\ Cardinality(Below(20)) = Cardinality(Below(15)) + Cardinality(Band(15))
      /\ Cardinality(Below(25)) = Cardinality(Below(20)) + Cardinality(Band(20))
      /\ Cardinality(Below(30)) = Cardinality(Below(25)) + Cardinality(Band(25))
  <2>1. 0 + 5 = 5 /\ 5 + 5 = 10 /\ 10 + 5 = 15 /\ 15 + 5 = 20 /\ 20 + 5 = 25 /\ 25 + 5 = 30
    OBVIOUS
  <2> QED BY <1>5, <2>1
<1>10. Cardinality(Band(0)) + Cardinality(Band(5)) + Cardinality(Band(10)) + Cardinality(Band(15))
           + Cardinality(Band(20)) + Cardinality(Band(25)) = Cardinality(Below(30))
  BY <1>6, <1>7, <1>8, <1>9 DEF SCORE_BANDS
<1>11. LET bands == compute_scan_accuracy(linked)
       IN  bands[0].total + bands[5].total + bands[10].total + bands[15].total + bands[20].total
               + bands[25].total = Cardinality(Below(30))
  BY <1>2, <1>10 DEF SCORE_BANDS
<1> QED BY <1>11 DEF linked, Below

\* While the scan of the suggested tags is stored, it is the latest before the opening.
LEMMA TagsHold == JournalTypes /\ TagsSafe => TagsStayTrue
<1> SUFFICES ASSUME JournalTypes, TagsSafe, NEW e \in DOMAIN entries,
                    entries[e].suggested, entries[e].position # Unknown,
                    closed[entries[e].position] = entries[e].row[1], entries[e].row[1].open # Unknown,
                    entries[e].from # NoScan =>
                        {s \in ToSet(scanRows) : /\ s.symbol = entries[e].row[1].symbol
                                                 /\ s.at = entries[e].from[1].at} = {entries[e].from[1]}
             PROVE  ScanFor(entries[e].row[1]) = entries[e].from
  BY DEF TagsStayTrue
<1>1. PICK row, from, p : row = entries[e].row /\ from = entries[e].from /\ p = row[1]
  OBVIOUS
<1>2. /\ p.open \in Nat
      /\ from # NoScan => /\ from = <<from[1]>> /\ from[1].at \in Nat
                          /\ from[1].symbol = p.symbol /\ from[1].at <= p.open
      /\ \A i \in DOMAIN scanRows :
            scanRows[i].symbol = p.symbol /\ scanRows[i].at <= p.open
            => from # NoScan /\ scanRows[i].at <= from[1].at
  BY <1>1 DEF TagsSafe, FromTrue
<1>3. p.open # Unknown
  BY <1>1
<1>4. from # NoScan =>
          {s \in ToSet(scanRows) : s.symbol = p.symbol /\ s.at = from[1].at} = {from[1]}
  BY <1>1
<1>5. \A i \in DOMAIN scanRows : scanRows[i].at \in Nat /\ i \in Nat
  <2>1. scanRows \in Seq(StoredScan)
    BY DEF JournalTypes
  <2>2. \A i \in DOMAIN scanRows : scanRows[i] \in StoredScan /\ i \in Nat
    BY <2>1
  <2> QED BY <2>2 DEF StoredScan
<1>6. CASE from = NoScan
  BY <1>1, <1>2, <1>3, <1>6, ScanForIs
<1>7. CASE from # NoScan
  <2>1. PICK j \in DOMAIN scanRows : scanRows[j] = from[1]
    <3>1. from[1] \in ToSet(scanRows)
      BY <1>4, <1>7
    <3> QED BY <3>1 DEF ToSet
  <2>2. scanRows[j].symbol = p.symbol /\ scanRows[j].at <= p.open
    BY <1>2, <1>7, <2>1
  <2>3. PICK k \in DOMAIN scanRows :
            /\ ScanFor(p) = <<scanRows[k]>> /\ scanRows[k].symbol = p.symbol
            /\ scanRows[k].at <= p.open /\ j <= k
    BY <1>3, <2>2, ScanForIs
  <2>4. scanRows[k].at <= from[1].at
    BY <1>2, <2>3
  <2>5. scanRows[j].at <= scanRows[k].at
    <3>1. j = k \/ j < k
      BY <1>5, <2>3
    <3>2. j < k => scanRows[j].at <= scanRows[k].at
      BY DEF JournalTypes
    <3> QED BY <1>5, <3>1, <3>2
  <2>6. scanRows[k].at = from[1].at
    BY <1>2, <1>5, <1>7, <2>1, <2>4, <2>5
  <2>7. scanRows[k] \in ToSet(scanRows)
    BY DEF ToSet
  <2>8. scanRows[k] = from[1]
    BY <1>4, <1>7, <2>3, <2>6, <2>7
  <2> QED BY <1>1, <1>2, <1>7, <2>3, <2>8
<1> QED BY <1>6, <1>7

\* What the journal keeps between its entries, the positions, the scans and the files: an
\* automatic link is exclusive, suggested tags agree with the attribution, a promised
\* screenshot is listed, and the counts of the summary, of the detail pages and of the bands
\* add up (routes/journal.py, scan_attribution_service.py).
THEOREM JournalHolds == JournalSpec => []JournalInv
<1> DEFINE Ind == JournalTypes /\ LinksSafe /\ TagsSafe /\ ShotsSafe
<1>1. JournalInit => Ind
  BY JournalTypesInit, ShotsInit
<1>2. Ind /\ [JournalNext]_journalVars => Ind'
  BY JournalTypesStep, LinksStep, TagsStep, ShotsStep
<1>3. Ind => JournalInv
  <2> SUFFICES ASSUME Ind PROVE JournalInv
    OBVIOUS
  <2>1. LinkedOnce /\ PromisedIsListed
    BY DEF LinksSafe, ShotsSafe
  <2>2. JournalTypeOK
    <3>1. DOMAIN tasks = JournalRequest
      BY DEF JournalTypes
    <3>2. \A e \in DOMAIN entries : entries[e].position # Unknown => entries[e].position \in DOMAIN closed
      BY DEF LinksSafe
    <3> QED BY <3>1, <3>2 DEF JournalTypeOK, JournalTypes, ShotsSafe
  <2> QED BY <2>1, <2>2, TagsHold, EvidenceHolds, LinksHold, BandsHold DEF JournalInv
<1> QED BY <1>1, <1>2, <1>3, PTL DEF JournalSpec
=============================================================================
