--------------------------- MODULE RealtimeSignals ---------------------------
(***************************************************************************)
(* The monitoring worker (src/backend/realtime/worker.py) with the signal  *)
(* lifecycle (lifecycle.py), the stored transitions and the notification   *)
(* outbox (store.py).                                                      *)
(*                                                                         *)
(* The worker is one coroutine of a process of its own.  It shares the     *)
(* database with the web process, where users change channels and          *)
(* watchlists.  Each frame may first mark silent pairs STALE and then, when *)
(* it closes a candle, evaluate its pair; both commit their transitions    *)
(* with the notifications they call for and then dispatch every pending    *)
(* notification in one session that commits at its end.                    *)
(*                                                                         *)
(* What the candles say is a free choice of confirmed gates (module        *)
(* CandleSeries has the candles).  "Fresh" stands for "a frame arrived in  *)
(* the last 20 seconds".  Each notification reads its channel afresh.      *)
(***************************************************************************)
EXTENDS Naturals, FiniteSets

CONSTANTS
    User,
    Pair,
    Direction,
    Gate,               \* _required_gates
    Context,            \* those of them that make a setup READY
    Channel,            \* telegram channels
    Owner,              \* the user of each channel
    MaxCount,           \* bound: transitions of one signal
    MaxFaults           \* bound: crashes and dispatches that fail to commit

Signal == User \X Pair \X Direction
State == {"WATCH", "READY", "ACTIONABLE", "INVALIDATED", "STALE"}
Count == 1..MaxCount
Key == [signal: Signal, channel: Channel, count: Count]

ASSUME ConstantsAssumption ==
    /\ Pair # {}
    /\ Context \subseteq Gate
    /\ Owner \in [Channel -> User]
    /\ MaxCount \in Nat /\ MaxFaults \in Nat

VARIABLES
    row,        \* realtime_signals: the state and transition_count of each signal
    note,       \* realtime_notifications: the status of each row, "none" if absent
    backoff,    \* the pending rows whose next_attempt_at has not come
    channel,    \* alert_channels: absent, off, bare (enabled, no chat_id) or on
    watched,    \* watchlist_pairs
    members,    \* _users_by_symbol, the worker's copy of them
    live,       \* the pairs the exchange sends frames of
    fresh,      \* the pairs a frame of which arrived lately
    pc, at,     \* where the worker is, and the pair of the frame at hand
    then,       \* where it goes on after the dispatch
    todo, key,  \* the dispatch: rows still to handle, the row being sent
    done,       \* the dispatch: statuses not yet committed
    sends,      \* history: how often each notification reached the user
    pushes,     \* history: transitions of each signal into a state that is pushed
    touched,    \* history: channels changed since the start
    faults

database == <<row, note, backoff, channel, watched>>
market == <<live, fresh>>
dispatch == <<todo, key, done>>
history == <<sends, pushes, touched, faults>>
vars == <<database, members, market, pc, at, then, dispatch, history>>

NoRow == [state |-> "none", count |-> 0]
NoKey == [count |-> 0]
SomePair == CHOOSE p \in Pair : TRUE

TypeOK ==
    /\ row \in [Signal -> [state: State, count: Count] \cup {NoRow}]
    /\ note \in [Key -> {"none", "pending", "sent", "cancelled"}]
    /\ backoff \subseteq Key
    /\ channel \in [Channel -> {"absent", "off", "bare", "on"}]
    /\ watched \subseteq User \X Pair
    /\ members \subseteq User \X Pair
    /\ live \subseteq Pair /\ fresh \subseteq Pair
    /\ pc \in {"down", "up", "frame", "close", "select", "send", "commit"}
    /\ at \in Pair
    /\ then \in {"up", "close"}
    /\ todo \subseteq Key
    /\ key \in Key \cup {NoKey}
    /\ done \in [Key -> {"none", "sent", "failed", "cancelled"}]
    /\ sends \in [Key -> Nat]
    /\ pushes \in [Signal -> 0..MaxCount]
    /\ touched \subseteq Channel
    /\ faults \in 0..MaxFaults

NothingDone == [k \in Key |-> "none"]

Init ==
    /\ row = [s \in Signal |-> NoRow]
    /\ note = [k \in Key |-> "none"]
    /\ backoff = {}
    /\ channel = [c \in Channel |-> "on"]
    /\ watched = User \X Pair
    /\ members = User \X Pair
    /\ live = Pair
    /\ fresh = {}
    /\ pc = "down" /\ at = SomePair /\ then = "up"
    /\ todo = {} /\ key = NoKey /\ done = NothingDone
    /\ sends = [k \in Key |-> 0]
    /\ pushes = [s \in Signal |-> 0]
    /\ touched = {}
    /\ faults = 0

-----------------------------------------------------------------------------
(***************************************************************************)
(* The lifecycle: SignalLifecycle.evaluate.                                *)
(***************************************************************************)
Confirmation == [gates: SUBSET Gate, invalidated: BOOLEAN]

StateOf(confirmation) ==
    CASE confirmation.invalidated -> "INVALIDATED"
      [] ~confirmation.invalidated /\ confirmation.gates = Gate -> "ACTIONABLE"
      [] ~confirmation.invalidated /\ confirmation.gates # Gate ->
            IF Context \subseteq confirmation.gates THEN "READY" ELSE "WATCH"

Pushed == {"ACTIONABLE", "INVALIDATED"}

(***************************************************************************)
(* record_transition and enqueue_transition_notifications, for all the     *)
(* signals one session handles; states is a partial function of Signal.    *)
(***************************************************************************)
Changed(states) == {s \in DOMAIN states : row[s].state # states[s]}

\* Mutants of Upsert: the count starts at zero; a new state keeps the old key.
UpsertFromZero(r, state) ==
    IF r.state = state THEN r
    ELSE [state |-> state, count |-> IF r = NoRow THEN 0 ELSE r.count + 1]

UpsertSameKey(r, state) ==
    [state |-> state, count |-> IF r = NoRow THEN 1 ELSE r.count]

Upsert(r, state) ==
    IF r.state = state THEN r ELSE [state |-> state, count |-> r.count + 1]

Enqueued(states, k) ==
    /\ k.signal \in Changed(states)
    /\ states[k.signal] \in Pushed
    /\ k.count = Upsert(row[k.signal], states[k.signal]).count
    /\ channel[k.channel] \in {"on", "bare"}
    /\ Owner[k.channel] = k.signal[1]
    /\ note[k] = "none"

\* Bound: the last transition within MaxCount is kept for STALE.
Room(states) ==
    \A s \in Changed(states) :
        row[s].count + (IF states[s] = "STALE" THEN 1 ELSE 2) <= MaxCount

Record(states) ==
    /\ Room(states)
    /\ row' = [s \in Signal |->
                IF s \in DOMAIN states THEN Upsert(row[s], states[s]) ELSE row[s]]
    /\ note' = [k \in Key |-> IF Enqueued(states, k) THEN "pending" ELSE note[k]]
    /\ pushes' = [s \in Signal |->
                    IF s \in Changed(states) /\ states[s] \in Pushed
                        THEN pushes[s] + 1 ELSE pushes[s]]
    /\ UNCHANGED <<backoff, channel, watched, sends, touched, faults>>

Monitored == {s \in Signal : <<s[1], s[2]>> \in members}
MonitoredPair == {m[2] : m \in members}

(***************************************************************************)
(* The stream: run, _hydrate_history and _stream_once.                     *)
(***************************************************************************)
Connect ==
    /\ pc = "down"
    /\ members # {}
    /\ pc' = "up"
    /\ UNCHANGED <<database, members, market, at, then, dispatch, history>>

StreamFails ==
    /\ pc \in {"up", "frame", "close"}
    /\ pc' = "down"
    /\ UNCHANGED <<database, members, market, at, then, dispatch, history>>

Frame(p) ==
    /\ pc = "up"
    /\ p \in MonitoredPair \cap live
    /\ fresh' = fresh \cup {p}
    /\ pc' = "frame" /\ at' = p
    /\ UNCHANGED <<database, members, live, then, dispatch, history>>

\* No check is due, or it finds nothing: then the frame itself.
NoStaleCheck ==
    /\ pc = "frame"
    /\ pc' = "close"
    /\ UNCHANGED <<database, members, market, at, then, dispatch, history>>

Silent == {s \in Monitored : s[2] \notin fresh}

\* _check_stale_symbols, on a frame or when none came before the timeout.
StaleCheck ==
    /\ pc \in {"up", "frame"}
    /\ Silent # {}
    /\ Record([s \in Silent |-> "STALE"])
    /\ then' = IF pc = "frame" THEN "close" ELSE "up"
    /\ pc' = "select"
    /\ UNCHANGED <<members, market, at, dispatch>>

\* The frame belongs to the candle that is already open.
NoCandleClosed ==
    /\ pc = "close"
    /\ pc' = "up"
    /\ UNCHANGED <<database, members, market, at, then, dispatch, history>>

\* _evaluate_symbol; a direction without enough candles is left out.
Evaluate(confirmation) ==
    LET evaluated == {s \in Monitored : s[2] = at /\ s[3] \in DOMAIN confirmation}
    IN  /\ pc = "close"
        /\ Record([s \in evaluated |->
                    IF at \in fresh THEN StateOf(confirmation[s[3]]) ELSE "STALE"])
        /\ pc' = "select" /\ then' = "up"
        /\ UNCHANGED <<members, market, at, dispatch>>

\* What _load_watchlist may come to: the watched pairs that are in the exchange's
\* catalogue, none during an outage of the catalogue.
Eligible(eligible) == eligible \subseteq watched

RefreshWatchlist(eligible) ==
    /\ pc \in {"up", "down"}
    /\ Eligible(eligible)
    /\ members' = eligible
    /\ pc' = IF eligible = members THEN pc ELSE "down"
    /\ UNCHANGED <<database, market, at, then, dispatch, history>>

(***************************************************************************)
(* dispatch_pending_notifications.                                         *)
(***************************************************************************)
Due(k) == note[k] = "pending" /\ k \notin backoff

SelectBatch ==
    /\ pc = "select"
    /\ todo' = {k \in Key : Due(k)}
    /\ pc' = IF todo' = {} THEN then ELSE "send"
    /\ UNCHANGED <<database, members, market, at, then, key, done, history>>

\* Mutant of Load: a disabled channel is skipped, the row stays pending.
LoadSkips(k) ==
    /\ pc = "send" /\ key = NoKey
    /\ k \in todo
    /\ todo' = todo \ {k}
    /\ IF channel[k.channel] = "on"
        THEN key' = k /\ UNCHANGED pc
        ELSE pc' = (IF todo' = {} THEN "commit" ELSE "send") /\ UNCHANGED key
    /\ UNCHANGED <<database, members, market, at, then, done, history>>

\* The channel is read: the row is cancelled or its message is on its way.
Load(k) ==
    /\ pc = "send" /\ key = NoKey
    /\ k \in todo
    /\ todo' = todo \ {k}
    /\ IF channel[k.channel] = "on"
        THEN /\ key' = k
             /\ UNCHANGED <<done, pc>>
        ELSE /\ done' = [done EXCEPT ![k] = "cancelled"]
             /\ pc' = IF todo' = {} THEN "commit" ELSE "send"
             /\ UNCHANGED key
    /\ UNCHANGED <<database, members, market, at, then, history>>

Answered(status) ==
    /\ pc = "send" /\ key # NoKey
    /\ done' = [done EXCEPT ![key] = status]
    /\ pc' = IF todo = {} THEN "commit" ELSE "send"
    /\ key' = NoKey
    /\ UNCHANGED <<database, members, market, at, then, todo, pushes, touched, faults>>

Send ==
    /\ Answered("sent")
    /\ sends' = [sends EXCEPT ![key] = @ + 1]

SendFails ==
    /\ Answered("failed")
    /\ UNCHANGED sends

Handled == {k \in Key : done[k] # "none"}

\* Mutant of CommitDispatch: sent rows stay pending.
CommitForgets ==
    /\ pc = "commit"
    /\ \A k \in Handled : note[k] # "none"
    /\ note' = [k \in Key |-> IF done[k] = "cancelled" THEN done[k] ELSE note[k]]
    /\ backoff' = backoff \cup {k \in Handled : done[k] = "failed"}
    /\ done' = NothingDone
    /\ pc' = then
    /\ UNCHANGED <<row, channel, watched, members, market, at, then, todo, key, history>>

CommitDispatch ==
    /\ pc = "commit"
    /\ \A k \in Handled : note[k] # "none"
    /\ note' = [k \in Key |-> IF done[k] \in {"sent", "cancelled"} THEN done[k] ELSE note[k]]
    /\ backoff' = backoff \cup {k \in Handled : done[k] = "failed"}
    /\ done' = NothingDone
    /\ pc' = then
    /\ UNCHANGED <<row, channel, watched, members, market, at, then, todo, key, history>>

\* A flush or the commit raises (the database is busy, or a row of the batch
\* went away with its channel): every status of the batch is lost, the stream
\* restarts.
DispatchFails ==
    /\ pc \in {"send", "commit"} /\ key = NoKey /\ Handled # {}
    /\ faults < MaxFaults
    /\ faults' = faults + 1
    /\ todo' = {} /\ done' = NothingDone
    /\ pc' = "down"
    /\ UNCHANGED <<database, members, market, at, then, key, sends, pushes, touched>>

\* next_attempt_at passes.
RetryDue(k) ==
    /\ k \in backoff
    /\ backoff' = backoff \ {k}
    /\ UNCHANGED <<row, note, channel, watched, members, market, pc, at, then, dispatch, history>>

\* The worker dies and is started again.
Restart(eligible) ==
    /\ faults < MaxFaults
    /\ faults' = faults + 1
    /\ Eligible(eligible)
    /\ pc' = "down" /\ at' = SomePair /\ then' = "up"
    /\ fresh' = {}
    /\ members' = eligible
    /\ todo' = {} /\ key' = NoKey /\ done' = NothingDone
    /\ UNCHANGED <<database, live, sends, pushes, touched>>

(***************************************************************************)
(* The web process and the exchange.                                       *)
(***************************************************************************)

\* Deleting a channel deletes its notifications (ON DELETE CASCADE).
SetChannel(c, status) ==
    /\ status # channel[c]
    /\ channel' = [channel EXCEPT ![c] = status]
    /\ note' = [k \in Key |->
                IF status = "absent" /\ k.channel = c THEN "none" ELSE note[k]]
    /\ backoff' = {k \in backoff : note'[k] # "none"}
    /\ touched' = touched \cup {c}
    /\ UNCHANGED <<row, watched, members, market, pc, at, then, dispatch, sends, pushes, faults>>

Unwatch(w) ==
    /\ w \in watched
    /\ watched' = watched \ {w}
    /\ UNCHANGED <<row, note, backoff, channel, members, market, pc, at, then, dispatch, history>>

Watch(w) ==
    /\ w \notin watched
    /\ watched' = watched \cup {w}
    /\ UNCHANGED <<row, note, backoff, channel, members, market, pc, at, then, dispatch, history>>

\* 20 seconds pass without a frame: the pair is silent or nobody listens.
Fade(p) ==
    /\ p \in fresh
    /\ p \notin live \/ pc = "down"
    /\ fresh' = fresh \ {p}
    /\ UNCHANGED <<database, members, live, pc, at, then, dispatch, history>>

Toggle(p) ==
    /\ live' = IF p \in live THEN live \ {p} ELSE live \cup {p}
    /\ UNCHANGED <<database, members, fresh, pc, at, then, dispatch, history>>

-----------------------------------------------------------------------------
SomeEvaluation ==
    \E known \in SUBSET Direction :
        \E confirmation \in [known -> Confirmation] : Evaluate(confirmation)

Stream ==
    \/ Connect \/ StreamFails
    \/ \E p \in Pair : Frame(p)
    \/ NoStaleCheck \/ StaleCheck \/ NoCandleClosed \/ SomeEvaluation
    \/ \E eligible \in SUBSET watched : RefreshWatchlist(eligible)

Dispatch ==
    \/ SelectBatch
    \/ \E k \in Key : Load(k)
    \/ Send \/ SendFails
    \/ CommitDispatch \/ DispatchFails

Settings ==
    \/ \E c \in Channel, status \in {"absent", "off", "bare", "on"} : SetChannel(c, status)
    \/ \E w \in User \X Pair : Watch(w) \/ Unwatch(w)

Exchange == \E p \in Pair : Fade(p) \/ Toggle(p)

Next ==
    \/ Stream
    \/ Dispatch
    \/ Settings
    \/ Exchange
    \/ \E eligible \in SUBSET watched : Restart(eligible)
    \/ \E k \in Key : RetryDue(k)

Spec == Init /\ [][Next]_vars

\* The stream does not fail for ever before a frame, a closed candle or a check
\* for silent pairs; Telegram does not refuse a message for ever.
Fairness ==
    /\ WF_vars(Connect)
    /\ SF_vars(\E p \in Pair : Frame(p))
    /\ SF_vars(NoStaleCheck \/ StaleCheck)
    /\ SF_vars(SomeEvaluation)
    /\ WF_vars(SelectBatch)
    /\ WF_vars(CommitDispatch)
    /\ \A k \in Key :
        /\ WF_vars(Load(k))
        /\ WF_vars(key = k /\ (Send \/ SendFails))
        /\ SF_vars(key = k /\ Send)
        /\ WF_vars(RetryDue(k))
    /\ \A p \in Pair : WF_vars(Fade(p))

FairSpec == Spec /\ Fairness

-----------------------------------------------------------------------------
(***************************************************************************)
(* What the worker promises.                                               *)
(***************************************************************************)

\* A notification reaches the user at most once more than the worker crashed or
\* lost a commit: the outbox is "at-least-once", and no worse than that.
SendsBounded == \A k \in Key : sends[k] <= 1 + faults

\* A notification is only recorded as sent when the user received it.
SentIsBacked == \A k \in Key : note[k] = "sent" => sends[k] > 0

\* No transition that is to be pushed is lost, whatever crashes: a channel that
\* stayed as it was has one row for each.
TransitionsAreQueued ==
    \A s \in Signal, c \in Channel \ touched : Owner[c] = s[1] =>
        Cardinality({n \in Count : note[[signal |-> s, channel |-> c, count |-> n]] # "none"})
            = pushes[s]

\* A sent or cancelled notification is never sent again.
SettledIsFinal ==
    [][\A k \in Key : note[k] \in {"sent", "cancelled"} => note'[k] \in {note[k], "none"}]_vars

\* Failures "remain pending for a later retry": every pending notification is
\* eventually sent, cancelled or gone with its channel, unless the worker is left
\* without any pair to monitor: then it does not dispatch at all.
PendingSettles ==
    <>[](members # {}) => \A k \in Key : note[k] = "pending" ~> note[k] # "pending"

\* What the signal store and its dispatcher preserve over ticks, refusals, faults and
\* restarts: bounded repeats, no status without its send, no transition without its
\* notifications.
RealtimeInv ==
    /\ TypeOK
    /\ SendsBounded
    /\ SentIsBacked
    /\ TransitionsAreQueued

=============================================================================
