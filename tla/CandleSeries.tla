---------------------------- MODULE CandleSeries ----------------------------
(***************************************************************************)
(* One candle series of the monitoring worker: CandleStrategy.add and      *)
(* _closed, the backfill over REST and the frames of the websocket         *)
(* (src/backend/realtime/worker.py, mexc_stream.py).                       *)
(*                                                                         *)
(* A candle is its start and how often the exchange had updated it when    *)
(* this copy was taken; the copy is complete when the exchange never       *)
(* updates it again.                                                       *)
(***************************************************************************)
EXTENDS Naturals, Sequences, SequencesExt

CONSTANTS
    MaxLen,         \* maxlen of the deque, and the limit of the REST request
    Minimum,        \* closed candles without which nothing is decided
    Age,            \* candles the contract has when the worker starts
    Reordered,      \* whether frames may arrive out of order
    MaxTime,        \* bound: candles
    MaxUpdates,     \* bound: updates of a candle
    MaxWire         \* bound: frames under way

ASSUME CandleAssumption ==
    /\ MaxLen \in Nat \ {0} /\ Minimum \in Nat \ {0}
    /\ Age \in 1..MaxTime
    /\ MaxTime \in Nat /\ MaxUpdates \in Nat \ {0} /\ MaxWire \in Nat
    /\ Reordered \in BOOLEAN

Time == 1..MaxTime
Candle == [t: Time, v: 1..MaxUpdates]

VARIABLES
    now,        \* the exchange: the candle that is open
    updates,    \* the exchange: updates of each candle so far
    wire,       \* frames sent and not received
    phase,      \* down, filled (backfill done, not subscribed) or up
    series,     \* the deque
    decided,    \* history: the closed candles the last decision was made from
    unseen      \* history: candles updated between a backfill and its subscription

candleVars == <<now, updates, wire, phase, series, decided, unseen>>

CandleTypeOK ==
    /\ now \in Time
    /\ updates \in [Time -> 0..MaxUpdates]
    /\ wire \in Seq(Candle) /\ Len(wire) <= MaxWire
    /\ phase \in {"down", "filled", "up"}
    /\ series \in Seq(Candle) /\ Len(series) <= MaxLen
    /\ decided \in Seq(Candle) /\ Len(decided) < MaxLen
    /\ unseen \subseteq Time

CandleInit ==
    /\ now = Age
    /\ updates = [t \in Time |-> IF t < Age THEN MaxUpdates ELSE IF t = Age THEN 1 ELSE 0]
    /\ wire = <<>>
    /\ phase = "down"
    /\ series = <<>>
    /\ decided = <<>>
    /\ unseen = {}

-----------------------------------------------------------------------------
(***************************************************************************)
(* The deque.                                                              *)
(***************************************************************************)
Trim(s) == IF Len(s) > MaxLen THEN SubSeq(s, Len(s) - MaxLen + 1, Len(s)) ELSE s

SameCandle(s, candle) == s # <<>> /\ Last(s).t = candle.t

\* Candles added one after another, each of a later start than the one before: the first may be
\* the last of the series anew.
Add(s, candles) ==
    Trim((IF SameCandle(s, Head(candles)) THEN Front(s) ELSE s) \o candles)

\* All candles but the last.
Closed(s) == IF s = <<>> THEN s ELSE Front(s)

(***************************************************************************)
(* The worker.                                                             *)
(***************************************************************************)

\* The REST answer: the latest candles, the open one included.
History ==
    LET from == IF now > MaxLen THEN now - MaxLen ELSE 0
    IN  [i \in 1..(now - from) |-> [t |-> from + i, v |-> updates[from + i]]]

\* Mutant of Backfill: after a reconnect the old candles are kept as they are.
BackfillOnce ==
    /\ phase = "down"
    /\ series' = IF series = <<>> THEN Add(series, History) ELSE series
    /\ phase' = "filled"
    /\ UNCHANGED <<now, updates, wire, decided, unseen>>

Backfill ==
    /\ phase = "down"
    /\ series' = Add(series, History)
    /\ phase' = "filled"
    /\ UNCHANGED <<now, updates, wire, decided, unseen>>

Subscribe ==
    /\ phase = "filled"
    /\ phase' = "up"
    /\ UNCHANGED <<now, updates, wire, series, decided, unseen>>

\* The connection breaks or the membership changed: frames under way are lost.
Disconnect ==
    /\ phase # "down"
    /\ phase' = "down"
    /\ wire' = <<>>
    /\ UNCHANGED <<now, updates, series, decided, unseen>>

\* A frame that opens a new candle makes the worker decide from the others.
Receive(i) ==
    /\ phase = "up"
    /\ i \in 1..Len(wire)
    /\ i = 1 \/ Reordered
    /\ wire' = RemoveAt(wire, i)
    /\ series' = Add(series, <<wire[i]>>)
    /\ decided' = IF /\ ~SameCandle(series, wire[i])
                     /\ Len(Closed(series')) >= Minimum
                    THEN Closed(series') ELSE decided
    /\ UNCHANGED <<now, updates, phase, unseen>>

(***************************************************************************)
(* The exchange.                                                           *)
(***************************************************************************)
CandlePushed(candle) == IF phase = "up" THEN Append(wire, candle) ELSE wire

Unseen(t) == IF phase = "filled" THEN unseen \cup {t} ELSE unseen

Market ==
    /\ Len(wire) < MaxWire
    /\ UNCHANGED <<phase, series, decided>>

Trade ==
    /\ Market
    /\ updates[now] < MaxUpdates
    /\ updates' = [updates EXCEPT ![now] = @ + 1]
    /\ wire' = CandlePushed([t |-> now, v |-> updates'[now]])
    /\ unseen' = Unseen(now)
    /\ UNCHANGED now

NextCandle ==
    /\ Market
    /\ now < MaxTime
    /\ now' = now + 1
    /\ updates' = [updates EXCEPT ![now + 1] = 1]
    /\ wire' = CandlePushed([t |-> now + 1, v |-> 1])
    /\ unseen' = Unseen(now + 1)

-----------------------------------------------------------------------------
CandleNext ==
    \/ Backfill \/ Subscribe \/ Disconnect
    \/ \E i \in 1..MaxWire : Receive(i)
    \/ Trade \/ NextCandle

CandleSpec == CandleInit /\ [][CandleNext]_candleVars

-----------------------------------------------------------------------------
(***************************************************************************)
(* What a decision rests on.                                               *)
(***************************************************************************)

\* "Decisions use completed bars only": the candle that is open at the exchange
\* is never among them.
OnlyClosed == \A i \in 1..Len(decided) : decided[i].t < now

\* No candle counts twice, and none comes after a later one.
InOrder == \A i \in 2..Len(decided) : decided[i - 1].t < decided[i].t

\* A candle is missing in between only if it was traded after a backfill and
\* before the subscription: the frames of that time are in neither.
NoGap ==
    \A i \in 2..Len(decided) :
        \A t \in Time : decided[i - 1].t < t /\ t < decided[i].t => t \in unseen

\* Each is what the exchange finally says it was, with the same exception.
Completed ==
    \A i \in 1..Len(decided) :
        decided[i].t \in unseen \/ decided[i].v = updates[decided[i].t]

\* What the series a decision is computed over satisfies: closed candles only, in order,
\* without a gap and each with its final values (frames in order, a contract with enough
\* history).
CandleInv ==
    /\ CandleTypeOK
    /\ OnlyClosed
    /\ InOrder
    /\ NoGap
    /\ Completed

=============================================================================
