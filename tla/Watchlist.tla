------------------------------ MODULE Watchlist ------------------------------
(***************************************************************************)
(* The watchlist routes of src/backend/routes/watchlist.py.  A pair is     *)
(* looked up, given the place after the last one and inserted; a reorder   *)
(* checks that the ids are the user's and then writes their places; a      *)
(* removal finds its row and deletes it by id at the commit.  Reads take   *)
(* no lock; the first write takes SQLite's write lock until the commit,    *)
(* and an insert holds it while the exchange's catalogue is awaited.       *)
(***************************************************************************)
EXTENDS Integers, FiniteSets, Functions

CONSTANTS
    Visitor,        \* places for concurrent requests
    Lister,          \* users
    ListedPair,
    MaxPairs,       \* bound: rows at a time
    MaxOrder,       \* bound: places that are given
    MaxAsked        \* bound: places a reorder asks for

ASSUME WatchlistAssumption ==
    /\ MaxPairs \in Nat \ {0} /\ MaxOrder \in Nat /\ MaxAsked \in 0..MaxOrder
    /\ "nobody" \notin Visitor \cup Lister

VARIABLES
    list,           \* watchlist_pairs: the rows by id
    listLock,       \* who has SQLite's write lock
    visitor,        \* the request of each visitor
    asked           \* history: which rows were last asked to come before which

watchlistVars == <<list, listLock, visitor, asked>>

PairId == 1..MaxPairs
NoPair == [owner |-> "nobody"]
PairRow == [owner: Lister, pair: ListedPair, order: 0..MaxOrder]
NoVisit == [pc |-> "away"]

\* A request to reorder is a list of ids: what is written for an id is the last of its places.
Orders == {places \in UNION {[S -> 0..MaxAsked] : S \in SUBSET PairId} : IsInjective(places)} \ {<<>>}

\* History, in a visit: seen are the rows an addition found its place after, freed the ids of
\* rows that were deleted since a reorder was checked.
ListVisit ==
    {NoVisit}
    \cup [pc: {"place"}, owner: Lister, pair: ListedPair]
    \cup [pc: {"insert"}, owner: Lister, pair: ListedPair, order: 0..MaxOrder, seen: SUBSET PairId]
    \cup [pc: {"inserted"}, owner: Lister, pair: ListedPair, order: 0..MaxOrder,
          seen: SUBSET PairId, id: PairId]
    \cup [pc: {"delete"}, id: PairId]
    \cup [pc: {"reorder"}, owner: Lister, places: Orders, freed: SUBSET PairId]

WatchlistTypeOK ==
    /\ list \in [PairId -> PairRow \cup {NoPair}]
    /\ visitor \in [Visitor -> ListVisit]
    /\ listLock = "nobody" \/ visitor[listLock].pc = "inserted"
    /\ asked \subseteq PairId \X PairId

WatchlistInit ==
    /\ list = [i \in PairId |-> NoPair]
    /\ listLock = "nobody"
    /\ visitor = [v \in Visitor |-> NoVisit]
    /\ asked = {}

ListUnlocked == listLock = "nobody"
Owned(o) == {i \in PairId : list[i].owner = o}
Taken == {i \in PairId : list[i] # NoPair}
IsListed(o, p) == \E i \in Owned(o) : list[i].pair = p
Visits(v, state) == visitor' = [visitor EXCEPT ![v] = state]
Forgotten(S) == {pair \in asked : pair[1] \notin S /\ pair[2] \notin S}

\* The visit of v ends; the others no longer rely on the rows in S, of which those in gone
\* were deleted.
NoLongerSeen(visit, S, gone) ==
    CASE visit.pc \in {"insert", "inserted"} -> [visit EXCEPT !.seen = @ \ S]
      [] visit.pc = "reorder" -> [visit EXCEPT !.freed = @ \cup gone]
      [] OTHER -> visit
EndsVisit(v, S, gone) ==
    visitor' = [w \in Visitor |-> IF w = v THEN NoVisit ELSE NoLongerSeen(visitor[w], S, gone)]

-----------------------------------------------------------------------------
(***************************************************************************)
(* add_watchlist_pair.                                                     *)
(***************************************************************************)
LookUpPair(v, o, p) ==
    /\ visitor[v] = NoVisit /\ ~IsListed(o, p)
    /\ Visits(v, [pc |-> "place", owner |-> o, pair |-> p])
    /\ UNCHANGED <<list, listLock, asked>>

_get_next_sort_order(o, next) ==
    /\ \A i \in Owned(o) : list[i].order < next
    /\ next = 0 \/ \E i \in Owned(o) : list[i].order + 1 = next

FindPlace(v) ==
    /\ visitor[v].pc = "place"
    /\ \E next \in 0..MaxOrder :
           /\ _get_next_sort_order(visitor[v].owner, next)
           /\ Visits(v, [pc |-> "insert", owner |-> visitor[v].owner, pair |-> visitor[v].pair,
                         order |-> next, seen |-> Owned(visitor[v].owner)])
    /\ UNCHANGED <<list, listLock, asked>>

\* SQLite gives the id after the largest.  A pair that got there first fails the
\* unique index.
NextPairId(id) == (\A i \in Taken : i < id) /\ (id = 1 \/ id - 1 \in Taken)

InsertPair(v) ==
    LET new == visitor[v]
    IN  /\ new.pc = "insert" /\ ListUnlocked
        /\ IF IsListed(new.owner, new.pair)
           THEN Visits(v, NoVisit) /\ UNCHANGED listLock
           ELSE \E id \in PairId :
                    /\ NextPairId(id)
                    /\ listLock' = v
                    /\ Visits(v, [pc |-> "inserted", owner |-> new.owner, pair |-> new.pair,
                                  order |-> new.order, seen |-> new.seen, id |-> id])
        /\ UNCHANGED <<list, asked>>

\* The catalogue is there, or the request ends without a commit.
CommitPair(v, commits) ==
    LET new == visitor[v]
    IN  /\ new.pc = "inserted"
        /\ listLock' = "nobody"
        /\ list' = IF commits
                   THEN [list EXCEPT ![new.id] = [owner |-> new.owner, pair |-> new.pair, order |-> new.order]]
                   ELSE list
        /\ asked' = IF commits THEN asked \cup (new.seen \X {new.id}) ELSE asked
        /\ Visits(v, NoVisit)

(***************************************************************************)
(* remove_watchlist_pair.                                                  *)
(***************************************************************************)
FindPair(v, o, i) ==
    /\ visitor[v] = NoVisit /\ i \in Owned(o)
    /\ Visits(v, [pc |-> "delete", id |-> i])
    /\ UNCHANGED <<list, listLock, asked>>

DeletePair(v) ==
    /\ visitor[v].pc = "delete" /\ ListUnlocked
    /\ list' = [list EXCEPT ![visitor[v].id] = NoPair]
    /\ asked' = Forgotten({visitor[v].id})
    /\ EndsVisit(v, {visitor[v].id}, {visitor[v].id})
    /\ UNCHANGED listLock

(***************************************************************************)
(* reorder_watchlist.                                                      *)
(***************************************************************************)
CheckOwned(v, o, places) ==
    /\ visitor[v] = NoVisit /\ DOMAIN places \subseteq Owned(o)
    /\ Visits(v, [pc |-> "reorder", owner |-> o, places |-> places, freed |-> {}])
    /\ UNCHANGED <<list, listLock, asked>>

\* Rows that were deleted meanwhile are not found; a row of somebody else that took over an id is
\* written all the same.
Ordered(places) ==
    [i \in PairId |-> IF i \in Taken \cap DOMAIN places THEN [list[i] EXCEPT !.order = places[i]] ELSE list[i]]

\* What the request asks of the rows it was checked for.
Asks(places, rows) ==
    Forgotten(DOMAIN places)
        \cup {pair \in rows \X rows : places[pair[1]] < places[pair[2]]}
Named(visit) == DOMAIN visit.places \ visit.freed

ReorderAnswered(v) ==
    /\ asked' = Asks(visitor[v].places, Named(visitor[v]))
    /\ EndsVisit(v, DOMAIN visitor[v].places, {})
    /\ UNCHANGED listLock

\* Mutant of WriteOrder: the last id of the request is not written.
WriteOrderPartly(v) ==
    LET places == visitor[v].places
    IN  /\ visitor[v].pc = "reorder" /\ ListUnlocked
        /\ list' = Ordered(Restrict(places, {i \in DOMAIN places : \E j \in DOMAIN places : places[i] < places[j]}))
        /\ ReorderAnswered(v)

\* The first UPDATE takes the lock: the orders of two requests do not mix.
WriteOrder(v) ==
    /\ visitor[v].pc = "reorder" /\ ListUnlocked
    /\ list' = Ordered(visitor[v].places)
    /\ ReorderAnswered(v)

-----------------------------------------------------------------------------
WatchlistNext ==
    \E v \in Visitor :
        \/ \E o \in Lister, p \in ListedPair : LookUpPair(v, o, p)
        \/ \E o \in Lister, i \in PairId : FindPair(v, o, i)
        \/ \E o \in Lister, places \in Orders : CheckOwned(v, o, places)
        \/ FindPlace(v) \/ InsertPair(v) \/ DeletePair(v) \/ WriteOrder(v)
        \/ \E commits \in BOOLEAN : CommitPair(v, commits)

WatchlistSpec == WatchlistInit /\ [][WatchlistNext]_watchlistVars

-----------------------------------------------------------------------------
(***************************************************************************)
(* Properties.                                                             *)
(***************************************************************************)

\* Whatever was added, removed and reordered meanwhile, two rows come in the order that was
\* last asked for, also when a later request names neither of them (reorder_watchlist).  An
\* addition asks to come after the rows its user had when it looked for its place: two rows
\* share a place only if they were added at the same time or one was reordered since
\* (_get_next_sort_order, add_watchlist_pair).
OrderAsAsked ==
    \A i, j \in Taken : <<i, j>> \in asked => list[i].order < list[j].order

\* The UPDATEs of a reorder name no user.  Whose rows they write was settled by the check
\* before: a row of another user is among them only under the id of an own row that was
\* deleted in between (reorder_watchlist, "must belong to the current user").
ForeignOnlyIfFreed ==
    \A v \in Visitor :
        visitor[v].pc = "reorder" => Named(visitor[v]) \subseteq Owned(visitor[v].owner)

\* Requests that race do not list a pair twice (add_watchlist_pair, "Returns 409
\* Conflict when the pair is already in the watchlist").
ListedOnce ==
    \A i, j \in Taken :
        list[i].owner = list[j].owner /\ list[i].pair = list[j].pair => i = j

\* What concurrent additions, removals and reorders preserve: a pair is listed once per user,
\* additions and reorders that were answered leave the rows in the order that was asked for,
\* and a reorder writes its own user's rows and those under a freed id.
WatchlistInv ==
    /\ WatchlistTypeOK
    /\ OrderAsAsked
    /\ ForeignOnlyIfFreed
    /\ ListedOnce

=============================================================================
