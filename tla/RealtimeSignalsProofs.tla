----------------------- MODULE RealtimeSignalsProofs -----------------------
(***************************************************************************)
(* Theorems about RealtimeSignals, for every set of users, pairs,          *)
(* directions, gates and channels, and about CandleSeries, for every       *)
(* length of the deque.                                                    *)
(***************************************************************************)
EXTENDS RealtimeSignals, CandleSeries, FiniteSetTheorems, TLAPS

LEMMA SomePairInSet == SomePair \in Pair
  BY ConstantsAssumption, Zenon DEF SomePair

LEMMA KeyFields ==
    ASSUME NEW k \in Key
    PROVE  /\ k.signal \in Signal /\ k.channel \in Channel /\ k.count \in Count
           /\ k.count \in Nat /\ k.count >= 1 /\ k # NoKey
  BY ConstantsAssumption DEF Key, Count, NoKey

\* What a session records: states of monitored signals, one call per step.
Recordable(states) ==
    /\ DOMAIN states \subseteq Signal
    /\ \A s \in DOMAIN states : states[s] \in State

\* Both writers of signals: record the states, then dispatch.
Recorded ==
    /\ \E states : Recordable(states) /\ Record(states)
    /\ pc \notin {"send", "commit"} /\ pc' = "select" /\ then' \in {"up", "close"}
    /\ UNCHANGED <<members, market, at, dispatch>>

LEMMA StaleCheckRecords == StaleCheck => Recorded
<1>1. Silent \subseteq Signal
  BY DEF Silent, Monitored
<1>2. Recordable([s \in Silent |-> "STALE"])
  BY <1>1 DEF Recordable, State
<1> QED BY <1>2 DEF StaleCheck, Recorded

LEMMA EvaluationRecords == SomeEvaluation => Recorded
<1> SUFFICES ASSUME NEW known \in SUBSET Direction, NEW confirmation \in [known -> Confirmation],
                    Evaluate(confirmation)
             PROVE  Recorded
  BY DEF SomeEvaluation
<1> DEFINE evaluated == {s \in Monitored : s[2] = at /\ s[3] \in DOMAIN confirmation}
           states == [s \in evaluated |->
              IF at \in fresh THEN StateOf(confirmation[s[3]]) ELSE "STALE"]
<1>1. ASSUME NEW s \in evaluated PROVE StateOf(confirmation[s[3]]) \in State
  <2>1. confirmation[s[3]] \in Confirmation
    OBVIOUS
  <2>2. confirmation[s[3]].invalidated \in BOOLEAN
    BY <2>1 DEF Confirmation
  <2>3. CASE confirmation[s[3]].invalidated
    BY <2>3 DEF StateOf, State
  <2>4. CASE ~confirmation[s[3]].invalidated /\ confirmation[s[3]].gates = Gate
    BY <2>4 DEF StateOf, State
  <2>5. CASE ~confirmation[s[3]].invalidated /\ confirmation[s[3]].gates # Gate
    BY <2>5 DEF StateOf, State
  <2> QED BY <2>2, <2>3, <2>4, <2>5
<1>2. evaluated \subseteq Signal
  BY DEF Monitored
<1>3. Recordable(states)
  BY <1>1, <1>2 DEF Recordable, State
<1>4. /\ Record(states) /\ pc = "close" /\ pc' = "select" /\ then' = "up"
      /\ UNCHANGED <<members, market, at, dispatch>>
  BY DEF Evaluate
<1> QED BY <1>3, <1>4 DEF Recorded

-----------------------------------------------------------------------------
(***************************************************************************)
(* Types.  A push is a transition, so pushes stay within the transitions.  *)
(***************************************************************************)
PushesCounted == \A s \in Signal : pushes[s] <= row[s].count

TypeInv == TypeOK /\ PushesCounted

\* What Record leaves of the signals: each keeps its row or counts one more.
LEMMA RecordRows ==
    ASSUME TypeInv, NEW states, Recordable(states), Record(states), NEW s \in Signal
    PROVE  /\ row[s] \in [state: State, count: Count] \cup {NoRow}
           /\ row[s].count \in 0..MaxCount
           /\ \/ /\ s \notin Changed(states)
                 /\ row'[s] = row[s] /\ pushes'[s] = pushes[s]
              \/ /\ s \in Changed(states)
                 /\ row'[s] = [state |-> states[s], count |-> row[s].count + 1]
                 /\ row'[s] \in [state: State, count: Count]
                 /\ row'[s].count = row[s].count + 1 /\ row'[s].count \in Count
                 /\ Upsert(row[s], states[s]).count = row[s].count + 1
                 /\ pushes'[s] = IF states[s] \in Pushed THEN pushes[s] + 1 ELSE pushes[s]
<1>1. row[s] \in [state: State, count: Count] \cup {NoRow}
  BY DEF TypeInv, TypeOK
<1>2. row[s].count \in 0..MaxCount /\ MaxCount \in Nat
  BY <1>1, ConstantsAssumption DEF NoRow, Count
<1>3. CASE s \notin Changed(states)
  <2>1. row'[s] = row[s]
    BY <1>3 DEF Record, Changed, Upsert
  <2>2. pushes'[s] = pushes[s]
    BY <1>3 DEF Record
  <2> QED BY <1>1, <1>2, <1>3, <2>1, <2>2
<1>4. CASE s \in Changed(states)
  <2>1. s \in DOMAIN states /\ row[s].state # states[s] /\ states[s] \in State
    BY <1>4 DEF Changed, Recordable
  <2>2. Upsert(row[s], states[s]) = [state |-> states[s], count |-> row[s].count + 1]
    BY <2>1 DEF Upsert
  <2>3. row'[s] = [state |-> states[s], count |-> row[s].count + 1]
    BY <2>1, <2>2 DEF Record
  <2>4. row[s].count + 1 \in Count
    BY <1>4, <1>2 DEF Record, Room, Count
  <2>5. pushes'[s] = IF states[s] \in Pushed THEN pushes[s] + 1 ELSE pushes[s]
    BY <1>4 DEF Record
  <2> QED BY <1>1, <1>2, <1>4, <2>1, <2>2, <2>3, <2>4, <2>5
<1> QED BY <1>3, <1>4

LEMMA RecordType ==
    ASSUME TypeInv, NEW states, Recordable(states), Record(states)
    PROVE  /\ row' \in [Signal -> [state: State, count: Count] \cup {NoRow}]
           /\ note' \in [Key -> {"none", "pending", "sent", "cancelled"}]
           /\ pushes' \in [Signal -> 0..MaxCount]
           /\ PushesCounted'
<1>1. pushes \in [Signal -> 0..MaxCount] /\ PushesCounted /\ MaxCount \in Nat
      /\ note \in [Key -> {"none", "pending", "sent", "cancelled"}]
  BY ConstantsAssumption DEF TypeInv, TypeOK
<1>2. ASSUME NEW s \in Signal
      PROVE  /\ row'[s] \in [state: State, count: Count] \cup {NoRow}
             /\ pushes'[s] \in 0..MaxCount /\ pushes'[s] <= row'[s].count
  <2>1. pushes[s] \in 0..MaxCount /\ pushes[s] <= row[s].count
    BY <1>1 DEF PushesCounted
  <2>2. CASE s \notin Changed(states)
    BY <2>1, <2>2, RecordRows
  <2>3. CASE s \in Changed(states)
    <3>1. row'[s].count = row[s].count + 1 /\ row'[s].count \in Count
          /\ row[s].count \in 0..MaxCount
          /\ row'[s] \in [state: State, count: Count]
      BY <2>3, RecordRows
    <3>2. pushes'[s] \in {pushes[s], pushes[s] + 1}
      BY <2>3, RecordRows
    <3> QED BY <2>1, <3>1, <3>2, <1>1 DEF Count
  <2> QED BY <2>2, <2>3
<1>3. row' = [s \in Signal |->
        IF s \in DOMAIN states THEN Upsert(row[s], states[s]) ELSE row[s]]
  BY DEF Record
<1>4. pushes' = [s \in Signal |->
        IF s \in Changed(states) /\ states[s] \in Pushed THEN pushes[s] + 1 ELSE pushes[s]]
  BY DEF Record
<1>5. note' \in [Key -> {"none", "pending", "sent", "cancelled"}]
  BY <1>1 DEF Record
<1>6. row' \in [Signal -> [state: State, count: Count] \cup {NoRow}]
  BY <1>2, <1>3
<1>7. pushes' \in [Signal -> 0..MaxCount]
  BY <1>2, <1>4
<1> QED BY <1>2, <1>5, <1>6, <1>7 DEF PushesCounted

LEMMA TypeInit == Init => TypeInv
  BY SomePairInSet, ConstantsAssumption
  DEF Init, TypeInv, TypeOK, PushesCounted, NoRow, NothingDone

LEMMA TypeStep == TypeInv /\ [Next]_vars => TypeInv'
<1> SUFFICES ASSUME TypeInv, [Next]_vars PROVE TypeInv'
  OBVIOUS
<1>t. TypeOK /\ PushesCounted
  BY DEF TypeInv
<1> USE DEF TypeInv, vars, database, market, dispatch, history
<1>1. CASE UNCHANGED vars
  BY <1>1, <1>t DEF TypeOK, PushesCounted
<1>2. CASE Connect \/ StreamFails \/ NoStaleCheck \/ NoCandleClosed
  BY <1>2, <1>t DEF TypeOK, PushesCounted, Connect, StreamFails, NoStaleCheck, NoCandleClosed
<1>3. ASSUME NEW p \in Pair, Frame(p) PROVE TypeInv'
  BY <1>3, <1>t DEF TypeOK, PushesCounted, Frame
<1>4. CASE Recorded
  <2>1. PICK states : Recordable(states) /\ Record(states)
    BY <1>4 DEF Recorded
  <2>2. /\ row' \in [Signal -> [state: State, count: Count] \cup {NoRow}]
        /\ note' \in [Key -> {"none", "pending", "sent", "cancelled"}]
        /\ pushes' \in [Signal -> 0..MaxCount] /\ PushesCounted'
    BY <2>1, RecordType
  <2>3. UNCHANGED <<backoff, channel, watched, sends, touched, faults>>
    BY <2>1 DEF Record
  <2> QED BY <1>4, <1>t, <2>2, <2>3 DEF TypeOK, Recorded
<1>6. ASSUME NEW eligible \in SUBSET watched, RefreshWatchlist(eligible) \/ Restart(eligible)
      PROVE  TypeInv'
  BY <1>6, <1>t, SomePairInSet, ConstantsAssumption
  DEF TypeOK, PushesCounted, RefreshWatchlist, Restart, Eligible, NothingDone
<1>7. CASE SelectBatch
  BY <1>7, <1>t DEF TypeOK, PushesCounted, SelectBatch
<1>8. ASSUME NEW k \in Key, Load(k) \/ RetryDue(k) PROVE TypeInv'
  BY <1>8, <1>t DEF TypeOK, PushesCounted, Load, RetryDue
<1>9. CASE Send \/ SendFails
  <2>1. key \in Key
    BY <1>9, <1>t DEF Send, SendFails, Answered, TypeOK
  <2> QED BY <1>9, <2>1, <1>t DEF TypeOK, PushesCounted, Send, SendFails, Answered
<1>10. CASE CommitDispatch
  BY <1>10, <1>t DEF TypeOK, PushesCounted, CommitDispatch, Handled, NothingDone
<1>11. CASE DispatchFails
  BY <1>11, <1>t, ConstantsAssumption DEF TypeOK, PushesCounted, DispatchFails, NothingDone
<1>12. ASSUME NEW c \in Channel, NEW status \in {"absent", "off", "bare", "on"},
              SetChannel(c, status)
       PROVE  TypeInv'
  BY <1>12, <1>t DEF TypeOK, PushesCounted, SetChannel
<1>13. ASSUME NEW w \in User \X Pair, Watch(w) \/ Unwatch(w) PROVE TypeInv'
  BY <1>13, <1>t DEF TypeOK, PushesCounted, Watch, Unwatch
<1>14. ASSUME NEW p \in Pair, Fade(p) \/ Toggle(p) PROVE TypeInv'
  BY <1>14, <1>t DEF TypeOK, PushesCounted, Fade, Toggle
<1> QED
  BY <1>1, <1>2, <1>3, <1>4, <1>6, <1>7, <1>8, <1>9, <1>10, <1>11, <1>12, <1>13, <1>14,
     StaleCheckRecords, EvaluationRecords
  DEF Next, Stream, Dispatch, Settings, Exchange

\* Every variable of the worker and of its tables stays in its set.
THEOREM TypeCorrect == Spec => []TypeOK
<1>1. TypeInv => TypeOK
  BY DEF TypeInv
<1> QED BY <1>1, TypeInit, TypeStep, PTL DEF Spec

-----------------------------------------------------------------------------
(***************************************************************************)
(* The dispatch of one worker.  A notification it has at hand (in the rest *)
(* of the batch, being sent, or with a status not yet committed) is        *)
(* pending in the table, or went away with its channel.                    *)
(***************************************************************************)
DispatchShape ==
    /\ pc \notin {"send", "commit"} => todo = {} /\ key = NoKey /\ done = NothingDone
    /\ pc = "commit" => todo = {} /\ key = NoKey
    /\ key \notin todo
    /\ \A k \in Key : k \in todo \/ k = key => done[k] = "none"

AtHand(k) == k \in todo \/ k = key \/ done[k] # "none"

\* A row that is still to be sent was received at most once per fault; a status
\* "sent" has its send; keys of transitions that have not happened are unused.
OutboxOf(k) ==
    /\ AtHand(k) => note[k] \in {"none", "pending"}
    /\ k.count > row[k.signal].count => note[k] = "none" /\ sends[k] = 0 /\ ~AtHand(k)
    /\ sends[k] <= 1 + faults
    /\ note[k] = "pending" /\ done[k] # "sent" => sends[k] <= faults
    /\ k \in todo \/ k = key => sends[k] <= faults
    /\ done[k] = "sent" \/ note[k] = "sent" => sends[k] > 0

Outbox == \A k \in Key : OutboxOf(k)

OutboxInv == TypeInv /\ DispatchShape /\ Outbox

LEMMA DispatchStep == OutboxInv /\ [Next]_vars => DispatchShape'
<1> SUFFICES ASSUME OutboxInv, [Next]_vars PROVE DispatchShape'
  OBVIOUS
<1>t. TypeOK /\ DispatchShape
  BY DEF OutboxInv, TypeInv
<1>k. NoKey \notin Key
  BY KeyFields
<1> USE DEF DispatchShape, vars, database, market, dispatch, history
<1>1. CASE UNCHANGED vars \/ Recorded
  BY <1>1, <1>t DEF Recorded
<1>2. CASE Connect \/ StreamFails \/ NoStaleCheck \/ NoCandleClosed
  BY <1>2, <1>t DEF Connect, StreamFails, NoStaleCheck, NoCandleClosed
<1>3. ASSUME NEW p \in Pair, Frame(p) \/ Fade(p) \/ Toggle(p) PROVE DispatchShape'
  BY <1>3, <1>t DEF Frame, Fade, Toggle
<1>4. ASSUME NEW eligible \in SUBSET watched, RefreshWatchlist(eligible) \/ Restart(eligible)
      PROVE  DispatchShape'
  BY <1>4, <1>t, <1>k DEF RefreshWatchlist, Restart, NothingDone
<1>5. CASE SelectBatch
  <2>1. then \in {"up", "close"} /\ todo' \subseteq Key
    BY <1>5, <1>t DEF SelectBatch, TypeOK
  <2> QED BY <1>5, <2>1, <1>t, <1>k DEF SelectBatch, NothingDone
<1>6. ASSUME NEW k \in Key, Load(k) PROVE DispatchShape'
  <2>1. done \in [Key -> {"none", "sent", "failed", "cancelled"}] /\ todo \subseteq Key
    BY <1>t DEF TypeOK
  <2> QED BY <1>6, <2>1, <1>t, <1>k DEF Load
<1>7. ASSUME NEW k \in Key, RetryDue(k) PROVE DispatchShape'
  BY <1>7, <1>t DEF RetryDue
<1>8. CASE Send \/ SendFails
  <2>1. PICK status : Answered(status)
    BY <1>8 DEF Send, SendFails
  <2>2. done \in [Key -> {"none", "sent", "failed", "cancelled"}] /\ key \in Key
        /\ todo \subseteq Key
    BY <2>1, <1>t DEF Answered, TypeOK
  <2> QED BY <2>1, <2>2, <1>t, <1>k DEF Answered
<1>9. CASE CommitDispatch
  <2>1. then \in {"up", "close"}
    BY <1>t DEF TypeOK
  <2> QED BY <1>9, <2>1, <1>t, <1>k DEF CommitDispatch, NothingDone
<1>10. CASE DispatchFails
  BY <1>10, <1>t, <1>k DEF DispatchFails, NothingDone
<1>11. ASSUME NEW c \in Channel, NEW status \in {"absent", "off", "bare", "on"},
              SetChannel(c, status)
       PROVE  DispatchShape'
  BY <1>11, <1>t DEF SetChannel
<1>12. ASSUME NEW w \in User \X Pair, Watch(w) \/ Unwatch(w) PROVE DispatchShape'
  BY <1>12, <1>t DEF Watch, Unwatch
<1> QED
  BY <1>1, <1>2, <1>3, <1>4, <1>5, <1>6, <1>7, <1>8, <1>9, <1>10, <1>11, <1>12,
     StaleCheckRecords, EvaluationRecords
  DEF Next, Stream, Dispatch, Settings, Exchange

LEMMA OutboxStep == OutboxInv /\ [Next]_vars => Outbox'
<1> SUFFICES ASSUME OutboxInv, [Next]_vars, NEW k \in Key PROVE OutboxOf(k)'
  BY DEF Outbox
<1>t. /\ TypeInv /\ TypeOK /\ DispatchShape /\ OutboxOf(k)
      /\ k.signal \in Signal /\ k.count \in Nat
      /\ done \in [Key -> {"none", "sent", "failed", "cancelled"}]
      /\ note \in [Key -> {"none", "pending", "sent", "cancelled"}]
      /\ sends \in [Key -> Nat] /\ todo \subseteq Key
      /\ faults \in Nat /\ MaxFaults \in Nat
  BY KeyFields, ConstantsAssumption DEF OutboxInv, TypeInv, TypeOK, Outbox
<1>k. NoKey \notin Key
  BY KeyFields
<1> USE DEF OutboxOf, AtHand, vars, database, market, dispatch, history
<1>1. CASE UNCHANGED vars
  BY <1>1, <1>t
<1>2. CASE Connect \/ StreamFails \/ NoStaleCheck \/ NoCandleClosed
  BY <1>2, <1>t DEF Connect, StreamFails, NoStaleCheck, NoCandleClosed
<1>3. ASSUME NEW p \in Pair, Frame(p) \/ Fade(p) \/ Toggle(p) PROVE OutboxOf(k)'
  BY <1>3, <1>t DEF Frame, Fade, Toggle
<1>4. CASE Recorded
  <2>1. PICK states : Recordable(states) /\ Record(states)
    BY <1>4 DEF Recorded
  <2>2. UNCHANGED <<sends, faults, todo, key, done>>
    BY <1>4, <2>1 DEF Recorded, Record
  <2>3. row[k.signal].count \in Nat
    <3>1. row[k.signal].count \in 0..MaxCount
      BY <2>1, <1>t, RecordRows
    <3> QED BY <3>1
  <2>4. row'[k.signal].count \in {row[k.signal].count, row[k.signal].count + 1}
    BY <2>1, <1>t, RecordRows
  <2>5. CASE Enqueued(states, k)
    <3>1. k.signal \in Changed(states)
      BY <2>5 DEF Enqueued
    <3>2. /\ k.count = row[k.signal].count + 1
          /\ row'[k.signal].count = row[k.signal].count + 1
      BY <2>1, <2>5, <3>1, <1>t, RecordRows DEF Enqueued
    <3>3. note'[k] = "pending"
      BY <2>1, <2>5 DEF Record
    <3> QED BY <3>2, <3>3, <2>2, <2>3, <1>t
  <2>6. CASE ~Enqueued(states, k)
    <3>1. note'[k] = note[k]
      BY <2>1, <2>6 DEF Record
    <3> QED BY <3>1, <2>2, <2>3, <2>4, <1>t
  <2> QED BY <2>5, <2>6
<1>5. ASSUME NEW eligible \in SUBSET watched, RefreshWatchlist(eligible) PROVE OutboxOf(k)'
  BY <1>5, <1>t DEF RefreshWatchlist
<1>6. ASSUME NEW eligible \in SUBSET watched, Restart(eligible) PROVE OutboxOf(k)'
  BY <1>6, <1>t, <1>k DEF Restart, NothingDone
<1>7. CASE SelectBatch
  BY <1>7, <1>t DEF SelectBatch, Due, DispatchShape, NothingDone
<1>8. ASSUME NEW x \in Key, Load(x) PROVE OutboxOf(k)'
  BY <1>8, <1>t DEF Load
<1>9. ASSUME NEW x \in Key, RetryDue(x) PROVE OutboxOf(k)'
  BY <1>9, <1>t DEF RetryDue
<1>10. CASE Send \/ SendFails
  <2>1. key \in Key /\ key \notin todo
    BY <1>10, <1>t DEF Send, SendFails, Answered, TypeOK, DispatchShape
  <2>2. /\ note' = note /\ row' = row /\ todo' = todo /\ key' = NoKey /\ faults' = faults
    BY <1>10 DEF Send, SendFails, Answered
  <2>3. CASE k # key
    <3>1. done'[k] = done[k] /\ sends'[k] = sends[k]
      BY <1>10, <2>1, <2>3, <1>t DEF Send, SendFails, Answered
    <3> QED BY <2>2, <2>3, <3>1, <1>t, <1>k
  <2>4. CASE k = key /\ Send
    <3>1. done'[k] = "sent" /\ sends'[k] = sends[k] + 1
      BY <2>4, <1>t DEF Send, Answered
    <3> QED BY <2>1, <2>2, <2>4, <3>1, <1>t, <1>k
  <2>5. CASE k = key /\ SendFails
    <3>1. done'[k] = "failed" /\ sends'[k] = sends[k]
      BY <2>5, <1>t DEF SendFails, Answered
    <3> QED BY <2>1, <2>2, <2>5, <3>1, <1>t, <1>k
  <2> QED BY <1>10, <2>3, <2>4, <2>5
<1>11. CASE CommitDispatch
  <2>1. todo = {} /\ key = NoKey
    BY <1>11, <1>t DEF CommitDispatch, DispatchShape
  <2>2. /\ todo' = {} /\ key' = NoKey /\ done'[k] = "none"
        /\ row' = row /\ sends' = sends /\ faults' = faults
        /\ done[k] # "none" => note[k] # "none"
        /\ note'[k] = IF done[k] \in {"sent", "cancelled"} THEN done[k] ELSE note[k]
    BY <1>11, <2>1 DEF CommitDispatch, NothingDone, Handled
  <2> QED BY <2>1, <2>2, <1>t, <1>k
<1>12. CASE DispatchFails
  BY <1>12, <1>t, <1>k DEF DispatchFails, NothingDone
<1>13. ASSUME NEW c \in Channel, NEW status \in {"absent", "off", "bare", "on"},
              SetChannel(c, status)
       PROVE  OutboxOf(k)'
  <2>1. note'[k] \in {"none", note[k]}
        /\ UNCHANGED <<row, sends, faults, todo, key, done>>
    BY <1>13 DEF SetChannel
  <2> QED BY <2>1, <1>t
<1>14. ASSUME NEW w \in User \X Pair, Watch(w) \/ Unwatch(w) PROVE OutboxOf(k)'
  BY <1>14, <1>t DEF Watch, Unwatch
<1> QED
  BY <1>1, <1>2, <1>3, <1>4, <1>5, <1>6, <1>7, <1>8, <1>9, <1>10, <1>11, <1>12, <1>13, <1>14,
     StaleCheckRecords, EvaluationRecords
  DEF Next, Stream, Dispatch, Settings, Exchange

LEMMA OutboxInit == Init => OutboxInv
<1> SUFFICES ASSUME Init PROVE OutboxInv
  OBVIOUS
<1>1. TypeInv
  BY TypeInit
<1>2. DispatchShape
  BY DEF Init, DispatchShape, NothingDone
<1>3. ASSUME NEW k \in Key PROVE OutboxOf(k)
  BY <1>3, KeyFields DEF Init, OutboxOf, AtHand, NothingDone
<1> QED BY <1>1, <1>2, <1>3 DEF OutboxInv, Outbox

LEMMA OutboxHolds == Spec => []OutboxInv
<1>1. OutboxInv /\ [Next]_vars => OutboxInv'
  BY TypeStep, DispatchStep, OutboxStep DEF OutboxInv
<1> QED BY <1>1, OutboxInit, PTL DEF Spec

\* A user receives a notification at most once more than the worker died or lost
\* the commit of a dispatch (dispatch_pending_notifications sends before it commits).
THEOREM RepeatsAreBounded == Spec => []SendsBounded
<1>1. OutboxInv => SendsBounded
  BY DEF OutboxInv, Outbox, OutboxOf, SendsBounded
<1> QED BY <1>1, OutboxHolds, PTL

\* The status "sent" is never written for a message that was not sent.
THEOREM SentWasReceived == Spec => []SentIsBacked
<1>1. OutboxInv => SentIsBacked
  BY DEF OutboxInv, Outbox, OutboxOf, SentIsBacked
<1> QED BY <1>1, OutboxHolds, PTL

\* Nothing the worker does later, or loses, reopens a notification that was sent
\* or cancelled: only its channel takes it away.
THEOREM SettledStaysSettled == Spec => SettledIsFinal
<1> DEFINE Stays == \A k \in Key :
             note[k] \in {"sent", "cancelled"} => note'[k] \in {note[k], "none"}
<1>1. OutboxInv /\ [Next]_vars => Stays
  <2> SUFFICES ASSUME OutboxInv, [Next]_vars, NEW k \in Key, note[k] \in {"sent", "cancelled"}
               PROVE  note'[k] \in {note[k], "none"}
    OBVIOUS
  <2>1. CASE note' = note
    BY <2>1
  <2>2. CASE Recorded
    <3>1. PICK states : Recordable(states) /\ Record(states)
      BY <2>2 DEF Recorded
    <3> QED BY <3>1 DEF Record, Enqueued
  <2>3. CASE CommitDispatch
    <3>1. done[k] = "none"
      BY DEF OutboxInv, Outbox, OutboxOf, AtHand
    <3> QED BY <2>3, <3>1 DEF CommitDispatch
  <2>4. ASSUME NEW c \in Channel, NEW status \in {"absent", "off", "bare", "on"},
               SetChannel(c, status)
        PROVE  note'[k] \in {note[k], "none"}
    BY <2>4 DEF SetChannel
  <2> QED
    BY <2>1, <2>2, <2>3, <2>4, StaleCheckRecords, EvaluationRecords
    DEF Next, Stream, Dispatch, Settings, Exchange, vars, database, history,
        Connect, StreamFails, Frame, NoStaleCheck, NoCandleClosed, RefreshWatchlist,
        SelectBatch, Load, Send, SendFails, Answered, DispatchFails, RetryDue, Restart,
        Watch, Unwatch, Fade, Toggle
<1> QED BY <1>1, OutboxHolds, PTL DEF Spec, SettledIsFinal

-----------------------------------------------------------------------------
(***************************************************************************)
(* No transition without its notifications.                                *)
(***************************************************************************)
KeyOf(s, c, n) == [signal |-> s, channel |-> c, count |-> n]

Queued(s, c) == {n \in Count : note[KeyOf(s, c, n)] # "none"}

UntouchedIsOn == \A c \in Channel \ touched : channel[c] = "on"

QueueInv == OutboxInv /\ UntouchedIsOn /\ TransitionsAreQueued

LEMMA KeyOfFields ==
    ASSUME NEW s \in Signal, NEW c \in Channel, NEW n \in Count
    PROVE  /\ KeyOf(s, c, n) \in Key
           /\ KeyOf(s, c, n).signal = s /\ KeyOf(s, c, n).channel = c
           /\ KeyOf(s, c, n).count = n
  BY DEF KeyOf, Key

LEMMA QueuedFinite ==
    ASSUME NEW s \in Signal, NEW c \in Channel
    PROVE  IsFiniteSet(Queued(s, c)) /\ Cardinality(Queued(s, c)) \in Nat
<1>1. IsFiniteSet(Count)
  BY FS_Interval, ConstantsAssumption DEF Count
<1>2. Queued(s, c) \subseteq Count
  BY DEF Queued
<1>3. IsFiniteSet(Queued(s, c))
  BY <1>1, <1>2, FS_Subset
<1> QED BY <1>3, FS_CardinalityType

\* A step of the worker or of a user that records nothing keeps every row of a
\* channel that was not touched, as a row; pushes do not change.
LEMMA RowsStay ==
    ASSUME OutboxInv, [Next]_vars
    PROVE  \/ Recorded
           \/ /\ pushes' = pushes /\ touched \subseteq touched'
              /\ \A c \in Channel \ touched' : channel'[c] = channel[c]
              /\ \A k \in Key : k.channel \notin touched' =>
                    (note'[k] = "none" <=> note[k] = "none")
<1> USE DEF vars, database, market, dispatch, history
<1>1. CASE UNCHANGED <<note, channel, pushes, touched>>
  BY <1>1
<1>2. CASE CommitDispatch
  <2>1. UNCHANGED <<channel, pushes, touched>>
    BY <1>2 DEF CommitDispatch
  <2>2. ASSUME NEW k \in Key PROVE note'[k] = "none" <=> note[k] = "none"
    BY <1>2 DEF CommitDispatch, Handled
  <2> QED BY <2>1, <2>2
<1>3. ASSUME NEW c \in Channel, NEW status \in {"absent", "off", "bare", "on"},
             SetChannel(c, status)
      PROVE  /\ pushes' = pushes /\ touched \subseteq touched'
             /\ \A d \in Channel \ touched' : channel'[d] = channel[d]
             /\ \A k \in Key : k.channel \notin touched' =>
                    (note'[k] = "none" <=> note[k] = "none")
  <2>1. /\ pushes' = pushes /\ touched' = touched \cup {c}
        /\ channel' = [channel EXCEPT ![c] = status]
        /\ note' = [k \in Key |-> IF status = "absent" /\ k.channel = c THEN "none" ELSE note[k]]
    BY <1>3 DEF SetChannel
  <2>2. channel \in [Channel -> {"absent", "off", "bare", "on"}]
    BY DEF OutboxInv, TypeInv, TypeOK
  <2> QED BY <2>1, <2>2
<1> QED
  BY <1>1, <1>2, <1>3, StaleCheckRecords, EvaluationRecords
  DEF Next, Stream, Dispatch, Settings, Exchange, Connect, StreamFails, Frame,
      NoStaleCheck, NoCandleClosed, RefreshWatchlist, SelectBatch, Load, Send, SendFails,
      Answered, DispatchFails, RetryDue, Restart, Watch, Unwatch, Fade, Toggle

LEMMA RecordQueues ==
    ASSUME QueueInv, NEW states, Recordable(states), Record(states),
           NEW s \in Signal, NEW c \in Channel \ touched, Owner[c] = s[1]
    PROVE  Cardinality(Queued(s, c)') = pushes'[s]
<1>t. /\ TypeInv /\ Outbox /\ channel[c] = "on"
      /\ Cardinality(Queued(s, c)) = pushes[s]
      /\ pushes[s] \in Nat
  BY DEF QueueInv, OutboxInv, UntouchedIsOn, TransitionsAreQueued, Queued, KeyOf, TypeInv, TypeOK
<1>n. note' = [k \in Key |-> IF Enqueued(states, k) THEN "pending" ELSE note[k]]
  BY DEF Record
<1>1. CASE s \in Changed(states) /\ states[s] \in Pushed
  <2> DEFINE m == row[s].count + 1
  <2>1. /\ row[s].count \in 0..MaxCount /\ m \in Count
        /\ Upsert(row[s], states[s]).count = m /\ pushes'[s] = pushes[s] + 1
    BY <1>1, <1>t, RecordRows
  <2>2. m > row[s].count
    BY <2>1
  <2>3. note[KeyOf(s, c, m)] = "none"
    <3>1. OutboxOf(KeyOf(s, c, m))
      BY <2>1, <1>t, KeyOfFields DEF Outbox
    <3>2. KeyOf(s, c, m).signal = s /\ KeyOf(s, c, m).count = m
      BY <2>1, KeyOfFields
    <3> HIDE DEF m
    <3> QED BY <3>1, <3>2, <2>2 DEF OutboxOf
  <2> HIDE DEF m
  <2>4. ASSUME NEW n \in Count
        PROVE  Enqueued(states, KeyOf(s, c, n)) <=> n = m
    BY <2>1, <2>3, <1>1, <1>t, KeyOfFields DEF Enqueued
  <2>5. Queued(s, c)' = Queued(s, c) \cup {m}
    <3>1. ASSUME NEW n \in Count
          PROVE  note'[KeyOf(s, c, n)] = IF n = m THEN "pending" ELSE note[KeyOf(s, c, n)]
      BY <2>4, <1>n, KeyOfFields
    <3>2. Queued(s, c)' = {n \in Count : note'[KeyOf(s, c, n)] # "none"}
      BY DEF Queued, KeyOf
    <3> QED BY <3>1, <3>2, <2>1 DEF Queued
  <2>6. m \notin Queued(s, c)
    BY <2>3 DEF Queued
  <2>7. Cardinality(Queued(s, c) \cup {m}) = Cardinality(Queued(s, c)) + 1
    BY <2>6, QueuedFinite, FS_AddElement
  <2> QED BY <2>1, <2>5, <2>7, <1>t
<1>2. CASE ~(s \in Changed(states) /\ states[s] \in Pushed)
  <2>1. pushes'[s] = pushes[s]
    BY <1>2, <1>t, RecordRows
  <2>2. ASSUME NEW n \in Count PROVE note'[KeyOf(s, c, n)] = note[KeyOf(s, c, n)]
    <3>1. ~Enqueued(states, KeyOf(s, c, n))
      BY <1>2, KeyOfFields DEF Enqueued
    <3> QED BY <3>1, <1>n, KeyOfFields
  <2>3. Queued(s, c)' = {n \in Count : note'[KeyOf(s, c, n)] # "none"}
    BY DEF Queued, KeyOf
  <2>4. Queued(s, c)' = Queued(s, c)
    BY <2>2, <2>3 DEF Queued
  <2> QED BY <2>1, <2>4, <1>t
<1> QED BY <1>1, <1>2

LEMMA QueueStep == QueueInv /\ [Next]_vars => (UntouchedIsOn /\ TransitionsAreQueued)'
<1> SUFFICES ASSUME QueueInv, [Next]_vars PROVE UntouchedIsOn' /\ TransitionsAreQueued'
  OBVIOUS
<1>t. OutboxInv /\ UntouchedIsOn /\ TransitionsAreQueued
  BY DEF QueueInv
<1>1. CASE Recorded
  <2>1. PICK states : Recordable(states) /\ Record(states)
    BY <1>1 DEF Recorded
  <2>2. touched' = touched /\ channel' = channel
    BY <2>1 DEF Record
  <2>3. \A s \in Signal, c \in Channel \ touched : Owner[c] = s[1] =>
            Cardinality(Queued(s, c)') = pushes'[s]
    BY <2>1, RecordQueues
  <2> QED BY <2>2, <2>3, <1>t DEF UntouchedIsOn, TransitionsAreQueued, Queued, KeyOf
<1>2. CASE /\ pushes' = pushes /\ touched \subseteq touched'
           /\ \A c \in Channel \ touched' : channel'[c] = channel[c]
           /\ \A k \in Key : k.channel \notin touched' =>
                (note'[k] = "none" <=> note[k] = "none")
  <2>1. UntouchedIsOn'
    BY <1>2, <1>t DEF UntouchedIsOn
  <2>2. ASSUME NEW s \in Signal, NEW c \in Channel \ touched', Owner[c] = s[1]
        PROVE  Cardinality(Queued(s, c)') = pushes'[s]
    <3>1. ASSUME NEW n \in Count
          PROVE  note'[KeyOf(s, c, n)] = "none" <=> note[KeyOf(s, c, n)] = "none"
      BY <1>2, <2>2, KeyOfFields
    <3>2. Queued(s, c)' = {n \in Count : note'[KeyOf(s, c, n)] # "none"}
      BY DEF Queued, KeyOf
    <3>3. Queued(s, c)' = Queued(s, c)
      BY <3>1, <3>2 DEF Queued
    <3>4. Cardinality(Queued(s, c)) = pushes[s]
      BY <1>2, <2>2, <1>t DEF TransitionsAreQueued, Queued, KeyOf
    <3> QED BY <3>3, <3>4, <1>2
  <2>3. TransitionsAreQueued'
    BY <2>2 DEF TransitionsAreQueued, Queued, KeyOf
  <2> QED BY <2>1, <2>3
<1> QED BY <1>1, <1>2, <1>t, RowsStay

\* Whatever crashes or fails to commit, a channel that stayed as it was has one
\* notification for each transition into ACTIONABLE or INVALIDATED
\* (record_transition and enqueue_transition_notifications share a transaction).
\* With it everything the runs check of the store and its dispatcher.
THEOREM RealtimeHolds == Spec => []RealtimeInv
<1>1. Init => QueueInv
  <2> SUFFICES ASSUME Init PROVE QueueInv
    OBVIOUS
  <2>1. UntouchedIsOn
    BY DEF Init, UntouchedIsOn
  <2>2. ASSUME NEW s \in Signal, NEW c \in Channel
        PROVE  Cardinality(Queued(s, c)) = pushes[s]
    <3>1. Queued(s, c) = {} /\ pushes[s] = 0
      BY KeyOfFields DEF Init, Queued
    <3> QED BY <3>1, FS_EmptySet
  <2> QED BY <2>1, <2>2, OutboxInit DEF QueueInv, TransitionsAreQueued, Queued, KeyOf
<1>2. QueueInv /\ [Next]_vars => QueueInv'
  BY QueueStep, TypeStep, DispatchStep, OutboxStep DEF QueueInv, OutboxInv
<1>3. QueueInv => RealtimeInv
  BY DEF QueueInv, OutboxInv, TypeInv, Outbox, OutboxOf, RealtimeInv, SendsBounded, SentIsBacked
<1> QED BY <1>1, <1>2, <1>3, PTL DEF Spec

-----------------------------------------------------------------------------
(***************************************************************************)
(* CandleSeries: what a decision rests on.                                 *)
(*                                                                         *)
(* The deque and the wire are one stream: each candle is followed by a     *)
(* copy of the same candle, or by a later one, and then it is final and    *)
(* what lies between was traded unseen.  A frame only moves the place      *)
(* where the stream is cut, and the deque drops its oldest candle.         *)
(***************************************************************************)
Missed(a, b) == \A t \in Time : a < t /\ t < b => t \in unseen

Final(candle) == candle.t \in unseen \/ candle.v = updates[candle.t]

Follows(c, d) == c.t <= d.t /\ Missed(c.t, d.t) /\ (c.t < d.t => Final(c))

\* The candle the deque ends with, and the frames under way.
On(j) == IF j = 0 THEN series[MaxLen] ELSE wire[j]

InDeque ==
    /\ Len(series) = MaxLen
    /\ \A i \in 1..MaxLen : series[i].t <= now
    /\ \A i \in 1..MaxLen : i < MaxLen =>
           series[i].t < series[i + 1].t /\ Follows(series[i], series[i + 1])

OnWire ==
    /\ \A j \in 0..Len(wire) : On(j).t <= now
    /\ \A j \in 0..Len(wire) : j < Len(wire) => Follows(On(j), On(j + 1))
    /\ Final(On(Len(wire))) /\ Missed(On(Len(wire)).t, now + 1)

Started == \A t \in Time : t <= now => updates[t] >= 1

CandleIInv ==
    /\ CandleInv
    /\ now >= MaxLen /\ Started
    /\ phase # "up" => wire = <<>>
    /\ phase # "down" => InDeque /\ OnWire

LEMMA AddHistory ==
    ASSUME NEW s \in Seq(Candle), NEW h \in Seq(Candle), Len(h) = MaxLen
    PROVE  Add(s, h) = h
<1>1. ASSUME NEW base \in Seq(Candle) PROVE Trim(base \o h) = h
  <2>1. Len(base \o h) = Len(base) + MaxLen /\ MaxLen \in Nat \ {0}
    BY CandleAssumption
  <2>2. CASE Len(base) = 0
    BY <2>1, <2>2 DEF Trim
  <2>3. CASE Len(base) > 0
    <3>1. Trim(base \o h) = SubSeq(base \o h, Len(base) + 1, Len(base) + MaxLen)
      BY <2>1, <2>3 DEF Trim
    <3> QED BY <2>1, <3>1
  <2> QED BY <2>2, <2>3
<1>2. ASSUME s # <<>> PROVE Front(s) \in Seq(Candle)
  BY <1>2 DEF Front
<1> QED BY <1>1, <1>2 DEF Add, SameCandle

LEMMA TrimShort ==
    ASSUME NEW s, Len(s) = MaxLen
    PROVE  Trim(s) = s
BY CandleAssumption DEF Trim

LEMMA TrimLong ==
    ASSUME NEW s, Len(s) = MaxLen + 1
    PROVE  Trim(s) = SubSeq(s, 2, MaxLen + 1)
<1>1. MaxLen \in Nat /\ MaxLen + 1 > MaxLen /\ MaxLen + 1 - MaxLen + 1 = 2
  BY CandleAssumption
<1> QED BY <1>1 DEF Trim

LEMMA TailOf ==
    ASSUME NEW S, NEW s \in Seq(S), NEW n \in Nat, n >= 1, Len(s) = n
    PROVE  /\ SubSeq(s, 2, n) \in Seq(S) /\ Len(SubSeq(s, 2, n)) = n - 1
           /\ \A i \in 1..(n - 1) : SubSeq(s, 2, n)[i] = s[i + 1]
<1>1. CASE n = 1
  BY <1>1
<1>2. CASE n > 1
  BY <1>2
<1> QED BY <1>1, <1>2

LEMMA AddSame ==
    ASSUME NEW s \in Seq(Candle), NEW c \in Candle, Len(s) = MaxLen, s[MaxLen].t = c.t
    PROVE  /\ Add(s, <<c>>) \in Seq(Candle) /\ Len(Add(s, <<c>>)) = MaxLen
           /\ \A i \in 1..MaxLen : Add(s, <<c>>)[i] = IF i < MaxLen THEN s[i] ELSE c
<1>1. MaxLen \in Nat \ {0} /\ s # <<>> /\ SameCandle(s, Head(<<c>>))
  BY CandleAssumption DEF SameCandle, Last
<1> DEFINE old == SubSeq(s, 1, MaxLen - 1)
<1>2. old \in Seq(Candle) /\ Len(old) = MaxLen - 1 /\ \A i \in 1..(MaxLen - 1) : old[i] = s[i]
  BY <1>1
<1>3. Add(s, <<c>>) = Trim(old \o <<c>>)
  BY <1>1 DEF Add, Front
<1> HIDE DEF old
<1>4. /\ old \o <<c>> \in Seq(Candle) /\ Len(old \o <<c>>) = MaxLen
      /\ \A i \in 1..MaxLen : (old \o <<c>>)[i] = IF i < MaxLen THEN old[i] ELSE c
  BY <1>1, <1>2
<1>5. Add(s, <<c>>) = old \o <<c>>
  BY <1>3, <1>4, TrimShort
<1>6. \A i \in 1..MaxLen : i < MaxLen => i \in 1..(MaxLen - 1)
  BY <1>1
<1> QED BY <1>2, <1>4, <1>5, <1>6

LEMMA AddNew ==
    ASSUME NEW s \in Seq(Candle), NEW c \in Candle, Len(s) = MaxLen, s[MaxLen].t # c.t
    PROVE  /\ Add(s, <<c>>) \in Seq(Candle) /\ Len(Add(s, <<c>>)) = MaxLen
           /\ \A i \in 1..MaxLen : Add(s, <<c>>)[i] = IF i < MaxLen THEN s[i + 1] ELSE c
<1>1. MaxLen \in Nat \ {0} /\ ~ SameCandle(s, Head(<<c>>))
  BY CandleAssumption DEF SameCandle, Last
<1>2. s \o <<c>> \in Seq(Candle) /\ Len(s \o <<c>>) = MaxLen + 1
  BY <1>1
<1>3. Add(s, <<c>>) = SubSeq(s \o <<c>>, 2, MaxLen + 1)
  BY <1>1, <1>2, TrimLong DEF Add
<1>4. \A i \in 1..(MaxLen + 1) : (s \o <<c>>)[i] = IF i <= MaxLen THEN s[i] ELSE c
  BY <1>1
<1> DEFINE all == s \o <<c>>
<1> HIDE DEF all
<1>5. /\ SubSeq(all, 2, MaxLen + 1) \in Seq(Candle) /\ Len(SubSeq(all, 2, MaxLen + 1)) = MaxLen
      /\ \A i \in 1..MaxLen : SubSeq(all, 2, MaxLen + 1)[i] = all[i + 1]
  BY <1>1, <1>2 DEF all
<1>6. \A i \in 1..MaxLen : all[i + 1] = IF i < MaxLen THEN s[i + 1] ELSE c
  BY <1>1, <1>4 DEF all
<1> QED BY <1>3, <1>5, <1>6 DEF all

\* While the market moves on, what a decision rested on stays closed and final.
LEMMA DecidedKept ==
    ASSUME CandleInv, UNCHANGED decided, now' \in Time, now <= now', unseen \subseteq unseen',
           \A t \in Time : t < now => updates'[t] = updates[t]
    PROVE  /\ decided' \in Seq(Candle) /\ Len(decided') < MaxLen
           /\ OnlyClosed' /\ InOrder' /\ NoGap' /\ Completed'
<1>1. /\ decided \in Seq(Candle) /\ Len(decided) < MaxLen
      /\ now \in Time /\ Time \subseteq Int
      /\ \A i \in 1..Len(decided) : decided[i] \in Candle /\ decided[i].t \in Time
  <2>1. decided \in Seq(Candle) /\ Len(decided) < MaxLen /\ now \in Time
    BY DEF CandleInv, CandleTypeOK
  <2>2. \A i \in 1..Len(decided) : decided[i] \in Candle
    BY <2>1
  <2>3. Time \subseteq Int /\ \A c \in Candle : c.t \in Time
    BY DEF Time, Candle
  <2> QED BY <2>1, <2>2, <2>3
<1>2. OnlyClosed /\ InOrder /\ NoGap /\ Completed
  BY DEF CandleInv
<1>3. OnlyClosed'
  <2>1. \A i \in 1..Len(decided) : decided[i].t \in Int /\ decided[i].t < now
    BY <1>1, <1>2 DEF OnlyClosed
  <2>2. now \in Int /\ now' \in Int
    BY <1>1
  <2> QED BY <2>1, <2>2 DEF OnlyClosed
<1>4. InOrder'
  BY <1>2 DEF InOrder
<1>5. NoGap'
  BY <1>2 DEF NoGap
<1>6. Completed'
  BY <1>1, <1>2 DEF Completed, OnlyClosed
<1> QED BY <1>1, <1>3, <1>4, <1>5, <1>6

\* The types of what the stream holds.
LEMMA CandleTypes ==
    ASSUME CandleTypeOK
    PROVE  /\ now \in Nat /\ now \in Time /\ MaxLen \in Nat /\ MaxLen > 0
           /\ wire \in Seq(Candle) /\ series \in Seq(Candle)
           /\ \A i \in 1..Len(series) : series[i] \in Candle
           /\ \A j \in 1..Len(wire) : wire[j] \in Candle
           /\ \A c \in Candle : c.t \in Nat /\ c.t \in Time
           /\ \A t \in Time : t \in Nat /\ updates[t] \in 0..MaxUpdates
<1>1. wire \in Seq(Candle) /\ series \in Seq(Candle) /\ now \in Time
  BY DEF CandleTypeOK
<1>2. \A i \in 1..Len(series) : series[i] \in Candle
  BY <1>1
<1>3. \A j \in 1..Len(wire) : wire[j] \in Candle
  BY <1>1
<1>4. MaxLen \in Nat /\ MaxLen > 0 /\ \A t \in Time : t \in Nat /\ updates[t] \in 0..MaxUpdates
  BY CandleAssumption DEF CandleTypeOK, Time
<1>5. \A c \in Candle : c.t \in Time
  BY DEF Candle
<1> QED BY <1>1, <1>2, <1>3, <1>4, <1>5

LEMMA BackfillPreserves ==
    ASSUME CandleIInv, Backfill
    PROVE  CandleIInv'
<1>t. CandleTypeOK /\ Started /\ now >= MaxLen /\ wire = <<>>
  BY DEF CandleIInv, CandleInv, Backfill
<1> DEFINE from == now - MaxLen
<1>1. /\ from \in Nat
      /\ History = [i \in 1..MaxLen |-> [t |-> from + i, v |-> updates[from + i]]]
  BY <1>t, CandleTypes DEF History
<1>2. \A i \in 1..MaxLen : from + i \in Time /\ updates[from + i] \in 1..MaxUpdates
  <2> SUFFICES ASSUME NEW i \in 1..MaxLen
               PROVE  from + i \in Time /\ updates[from + i] \in 1..MaxUpdates
    OBVIOUS
  <2>1. now \in 1..MaxTime /\ MaxLen \in Nat /\ MaxTime \in Nat /\ MaxUpdates \in Nat
    BY <1>t, CandleTypes, CandleAssumption DEF Time
  <2>2. from + i \in Time /\ from + i <= now
    BY <2>1, <1>1 DEF Time
  <2> HIDE DEF from
  <2>3. updates[from + i] \in 0..MaxUpdates /\ updates[from + i] >= 1
    BY <2>2, <1>t, CandleTypes DEF Started
  <2> QED BY <2>1, <2>2, <2>3
<1>3. History \in Seq(Candle) /\ Len(History) = MaxLen
  <2>1. \A i \in 1..MaxLen : [t |-> from + i, v |-> updates[from + i]] \in Candle
    BY <1>2 DEF Candle
  <2>2. MaxLen \in Nat
    BY <1>t, CandleTypes
  <2> HIDE DEF from
  <2>3. [i \in 1..MaxLen |-> [t |-> from + i, v |-> updates[from + i]]] \in [1..MaxLen -> Candle]
    BY <2>1
  <2>4. History \in [1..MaxLen -> Candle] /\ DOMAIN History = 1..MaxLen
    BY <1>1, <2>3
  <2> QED BY <2>2, <2>4
<1>4. series' = History /\ UNCHANGED <<now, updates, wire, decided, unseen>> /\ phase' = "filled"
  BY <1>3, <1>t, AddHistory, CandleTypes DEF Backfill
<1>5. \A i \in 1..MaxLen : series'[i].t = from + i /\ series'[i].v = updates[from + i]
  BY <1>1, <1>4
<1> HIDE DEF from
<1>6. InDeque'
  <2>1. \A i \in 1..MaxLen : series'[i].t <= now
    BY <1>5, <1>1, <1>t, CandleTypes DEF from
  <2>2. ASSUME NEW i \in 1..MaxLen, i < MaxLen
        PROVE  series'[i].t < series'[i + 1].t /\ Follows(series[i], series[i + 1])'
    <3>1. i + 1 \in 1..MaxLen
      BY <2>2, <1>t, CandleTypes
    <3>2. series'[i].t = from + i /\ series'[i + 1].t = from + i + 1 /\ Final(series[i])'
      <4>1. series'[i + 1].t = from + (i + 1) /\ series'[i].t = from + i /\ Final(series[i])'
        BY <1>5, <3>1, <1>4 DEF Final
      <4>2. from + (i + 1) = from + i + 1
        BY <1>1
      <4> QED BY <4>1, <4>2
    <3> QED BY <3>2, <1>1 DEF Follows, Missed, Time
  <2> QED BY <2>1, <2>2, <1>3, <1>4 DEF InDeque
<1>7. OnWire'
  <2>1. MaxLen \in 1..MaxLen /\ from + MaxLen = now /\ Len(wire') = 0
    BY <1>4, <1>t, CandleTypes DEF from
  <2>2. series'[MaxLen].t = now /\ series'[MaxLen].v = updates[now]
    BY <2>1, <1>5
  <2>3. \A j \in 0..Len(wire') : j = 0
    BY <2>1
  <2>4. On(0)' = series'[MaxLen]
    BY DEF On
  <2>5. Final(On(0))' /\ Missed(On(0).t, now + 1)'
    BY <2>2, <2>4, <1>4, <1>t, CandleTypes DEF Final, Missed, Time
  <2> QED BY <2>1, <2>2, <2>3, <2>4, <2>5, <1>4, <1>t, CandleTypes DEF OnWire
<1>8. CandleInv'
  <2>1. CandleInv
    BY DEF CandleIInv
  <2>2. /\ decided' \in Seq(Candle) /\ Len(decided') < MaxLen
        /\ OnlyClosed' /\ InOrder' /\ NoGap' /\ Completed'
    BY <1>4, <2>1, <1>t, CandleTypes, DecidedKept
  <2>3. series' \in Seq(Candle) /\ Len(series') <= MaxLen
    BY <1>3, <1>4, <1>t, CandleTypes
  <2> QED BY <1>4, <2>2, <2>3, <1>t DEF CandleInv, CandleTypeOK
<1> QED BY <1>t, <1>4, <1>6, <1>7, <1>8 DEF CandleIInv, Started

LEMMA ReceivePreserves ==
    ASSUME ~Reordered, CandleIInv, NEW i \in 1..MaxWire, Receive(i)
    PROVE  CandleIInv'
<1>t. CandleTypeOK /\ CandleInv /\ Started /\ now >= MaxLen /\ InDeque /\ OnWire /\ phase = "up"
  BY DEF CandleIInv, CandleInv, Receive
<1> DEFINE c == wire[1]
<1>1. /\ i = 1 /\ Len(wire) >= 1 /\ c \in Candle /\ wire \in Seq(Candle) /\ Len(wire) \in Nat
      /\ Len(series) = MaxLen /\ MaxLen \in 1..MaxLen /\ series \in Seq(Candle)
  BY <1>t, CandleTypes DEF Receive, InDeque
<1>2. /\ wire' \in Seq(Candle) /\ Len(wire') = Len(wire) - 1
      /\ \A j \in 1..Len(wire') : wire'[j] = wire[j + 1]
  <2>1. wire' = SubSeq(wire, 1, 0) \o SubSeq(wire, 2, Len(wire))
    BY <1>1 DEF Receive, RemoveAt
  <2>2. SubSeq(wire, 1, 0) = <<>>
    BY <1>1
  <2>3. /\ SubSeq(wire, 2, Len(wire)) \in Seq(Candle)
        /\ Len(SubSeq(wire, 2, Len(wire))) = Len(wire) - 1
        /\ \A j \in 1..(Len(wire) - 1) : SubSeq(wire, 2, Len(wire))[j] = wire[j + 1]
    BY <1>1, TailOf
  <2>4. wire' = SubSeq(wire, 2, Len(wire))
    BY <2>1, <2>2, <2>3
  <2> QED BY <2>3, <2>4
<1>3. /\ series' = Add(series, <<c>>) /\ UNCHANGED <<now, updates, phase, unseen>>
  BY <1>1 DEF Receive
<1>4. /\ On(0) = series[MaxLen] /\ On(1) = c
      /\ Follows(series[MaxLen], c) /\ c.t <= now
  <2>1. On(0) = series[MaxLen] /\ On(1) = c /\ 0 \in 0..Len(wire) /\ 1 \in 0..Len(wire) /\ 0 < Len(wire)
    BY <1>1 DEF On
  <2>2. Follows(On(0), On(0 + 1)) /\ On(1).t <= now
    BY <2>1, <1>t DEF OnWire
  <2> QED BY <2>1, <2>2
<1>5. /\ series' \in Seq(Candle) /\ Len(series') = MaxLen /\ series'[MaxLen] = c
      /\ \A k \in 1..MaxLen : k < MaxLen =>
             series'[k] = IF series[MaxLen].t = c.t THEN series[k] ELSE series[k + 1]
  BY <1>1, <1>3, AddSame, AddNew
<1> HIDE DEF c
<1>6. OnWire'
  <2>1. \A j \in 0..Len(wire') : j + 1 \in 0..Len(wire) /\ On(j)' = On(j + 1)
    <3> SUFFICES ASSUME NEW j \in 0..Len(wire')
                 PROVE  j + 1 \in 0..Len(wire) /\ On(j)' = On(j + 1)
      OBVIOUS
    <3>1. CASE j = 0
      BY <3>1, <1>1, <1>2, <1>4, <1>5 DEF On
    <3>2. CASE j # 0
      BY <3>2, <1>1, <1>2 DEF On
    <3> QED BY <3>1, <3>2
  <2>2. \A j \in 0..Len(wire') : On(j)'.t <= now'
    BY <2>1, <1>3, <1>t DEF OnWire
  <2>3. ASSUME NEW j \in 0..Len(wire'), j < Len(wire') PROVE Follows(On(j), On(j + 1))'
    <3>1. j + 1 \in 0..Len(wire) /\ j + 1 < Len(wire) /\ j + 1 \in 0..Len(wire')
      BY <2>1, <2>3, <1>1, <1>2
    <3>2. Follows(On(j + 1), On(j + 1 + 1))
      BY <3>1, <1>t DEF OnWire
    <3>3. On(j)' = On(j + 1) /\ On(j + 1)' = On(j + 1 + 1)
      BY <2>1, <3>1
    <3> QED BY <3>2, <3>3, <1>3 DEF Follows, Missed, Final
  <2>4. On(Len(wire))' = On(Len(wire))
    <3>1. Len(wire') \in 0..Len(wire') /\ Len(wire') + 1 = Len(wire)
      BY <1>1, <1>2
    <3> QED BY <2>1, <3>1
  <2>5. Final(On(Len(wire)))' /\ Missed(On(Len(wire)).t, now + 1)'
    BY <2>4, <1>3, <1>t DEF OnWire, Final, Missed
  <2> QED BY <2>2, <2>3, <2>5 DEF OnWire
<1>7. ASSUME NEW k \in 1..MaxLen, k < MaxLen
      PROVE  series'[k].t < series'[k + 1].t /\ Follows(series[k], series[k + 1])'
  <2>0. k + 1 \in 1..MaxLen /\ series[k] \in Candle /\ series[k + 1] \in Candle /\ series[MaxLen] \in Candle
    BY <1>7, <1>1, <1>t, CandleTypes
  <2>1. series[k].t < series[k + 1].t /\ Follows(series[k], series[k + 1])
    BY <1>7, <1>t DEF InDeque
  <2>2. CASE series[MaxLen].t = c.t /\ k + 1 < MaxLen
    <3>1. series'[k] = series[k] /\ series'[k + 1] = series[k + 1]
      BY <1>5, <2>0, <2>2, <1>7
    <3> QED BY <3>1, <2>1, <1>3 DEF Follows, Missed, Final
  <2>3. CASE series[MaxLen].t = c.t /\ k + 1 = MaxLen
    <3>1. series'[k] = series[k] /\ series'[k + 1] = c /\ c.t = series[k + 1].t
      BY <1>5, <2>0, <2>3, <1>7
    <3> QED BY <3>1, <2>1, <1>3 DEF Follows, Missed, Final
  <2>4. CASE series[MaxLen].t # c.t /\ k + 1 < MaxLen
    <3>1. series'[k] = series[k + 1] /\ series'[k + 1] = series[k + 2]
      BY <1>5, <2>0, <2>4, <1>7
    <3>2. series[k + 1].t < series[k + 2].t /\ Follows(series[k + 1], series[k + 2])
      BY <2>0, <2>4, <1>t DEF InDeque
    <3> QED BY <3>1, <3>2, <1>3 DEF Follows, Missed, Final
  <2>5. CASE series[MaxLen].t # c.t /\ k + 1 = MaxLen
    <3>1. series'[k] = series[MaxLen] /\ series'[k + 1] = c
      BY <1>5, <2>0, <2>5, <1>7
    <3>2. series[MaxLen].t < c.t
      BY <1>4, <2>0, <2>5, <1>1, CandleTypes, <1>t DEF Follows, c
    <3> QED BY <3>1, <3>2, <1>4, <1>3 DEF Follows, Missed, Final
  <2> QED BY <2>0, <2>2, <2>3, <2>4, <2>5, <1>1
<1>8. \A k \in 1..MaxLen : series'[k].t <= now'
  <2> SUFFICES ASSUME NEW k \in 1..MaxLen PROVE series'[k].t <= now'
    OBVIOUS
  <2>1. CASE k = MaxLen
    BY <2>1, <1>3, <1>4, <1>5
  <2>2. CASE k < MaxLen
    <3>1. k + 1 \in 1..MaxLen /\ series[k].t <= now /\ series[k + 1].t <= now
      BY <2>2, <1>1, <1>t DEF InDeque
    <3> QED BY <3>1, <2>2, <1>3, <1>5
  <2> QED BY <2>1, <2>2, <1>1
<1>9. InDeque'
  BY <1>5, <1>7, <1>8 DEF InDeque
<1>10. /\ decided' \in Seq(Candle) /\ Len(decided') < MaxLen
       /\ OnlyClosed' /\ InOrder' /\ NoGap' /\ Completed'
  <2>1. CASE decided' = decided
    BY <2>1, <1>3, <1>t, CandleTypes, DecidedKept
  <2>2. CASE decided' = Closed(series')
    <3>1. decided' = SubSeq(series', 1, MaxLen - 1)
      BY <2>2, <1>5, <1>1 DEF Closed, Front
    <3>2. /\ decided' \in Seq(Candle) /\ Len(decided') = MaxLen - 1
          /\ \A k \in 1..Len(decided') : decided'[k] = series'[k] /\ k \in 1..MaxLen /\ k + 1 \in 1..MaxLen /\ k < MaxLen
      BY <3>1, <1>5, <1>1
    <3>3. \A k \in 1..MaxLen : series'[k] \in Candle /\ series'[k].t \in Nat
      BY <1>5, <1>t, CandleTypes
    <3>4. ASSUME NEW k \in 1..Len(decided')
          PROVE  decided'[k].t < now' /\ (decided'[k].t \in unseen' \/ decided'[k].v = updates'[decided'[k].t])
      <4>1. series'[k].t < series'[k + 1].t /\ Follows(series[k], series[k + 1])' /\ series'[k + 1].t <= now'
        BY <3>2, <1>7, <1>8
      <4>2. decided'[k] = series'[k] /\ series'[k].t \in Nat /\ series'[k + 1].t \in Nat /\ now' \in Nat
        BY <3>2, <3>3, <1>3, <1>t, CandleTypes
      <4>3. series'[k].t < now'
        BY <4>1, <4>2
      <4>4. series'[k].t \in unseen' \/ series'[k].v = updates'[series'[k].t]
        BY <4>1 DEF Follows, Final
      <4> QED BY <4>2, <4>3, <4>4
    <3>5. ASSUME NEW k \in 2..Len(decided')
          PROVE  decided'[k - 1].t < decided'[k].t /\ Missed(decided[k - 1].t, decided[k].t)'
      <4>1. k - 1 \in 1..Len(decided') /\ k \in 1..Len(decided') /\ k - 1 + 1 = k
        BY <3>2, <1>1
      <4>2. series'[k - 1].t < series'[k - 1 + 1].t /\ Follows(series[k - 1], series[k - 1 + 1])'
        BY <4>1, <3>2, <1>7
      <4> QED BY <4>1, <4>2, <3>2 DEF Follows
    <3> QED BY <3>2, <3>4, <3>5, <1>1 DEF OnlyClosed, InOrder, NoGap, Completed, Missed
  <2> QED BY <2>1, <2>2 DEF Receive
<1>11. CandleTypeOK'
  <2>1. Len(wire') <= MaxWire
    BY <1>2, <1>1, <1>t, CandleAssumption DEF CandleTypeOK
  <2> QED BY <2>1, <1>2, <1>3, <1>5, <1>10, <1>1, <1>t DEF CandleTypeOK
<1> QED BY <1>t, <1>3, <1>6, <1>9, <1>10, <1>11 DEF CandleIInv, CandleInv, Started

\* The exchange updates a candle or opens one: a frame is sent, or the candle is unseen.
LEMMA PushPreserves ==
    ASSUME CandleIInv, NEW c \in Candle, c.t = now', now' = now \/ now' = now + 1,
           updates' = [updates EXCEPT ![c.t] = c.v],
           wire' = CandlePushed(c), Len(wire) < MaxWire,
           unseen' = Unseen(c.t), UNCHANGED <<phase, series, decided>>
    PROVE  CandleIInv'
<1>t. /\ CandleTypeOK /\ CandleInv /\ Started /\ now >= MaxLen
      /\ now <= now' /\ now' \in Nat /\ now' \in Time
  BY CandleTypes DEF CandleIInv, CandleInv, Candle, Time
<1>1. now' \in Time /\ c.v \in 1..MaxUpdates
  BY DEF Candle
<1>2. /\ \A t \in Time : t # now' => updates'[t] = updates[t]
      /\ updates'[now'] = c.v /\ updates' \in [Time -> 0..MaxUpdates]
  BY <1>1, <1>t, CandleAssumption DEF CandleTypeOK
<1>3. unseen \subseteq unseen' /\ unseen' \subseteq Time
  BY <1>1, <1>t DEF Unseen, CandleTypeOK
<1>4. /\ decided' \in Seq(Candle) /\ Len(decided') < MaxLen
      /\ OnlyClosed' /\ InOrder' /\ NoGap' /\ Completed'
  BY <1>t, <1>2, <1>3, CandleTypes, DecidedKept
<1>5. Started'
  BY <1>t, <1>1, <1>2, CandleTypes DEF Started
<1>6. /\ wire' \in Seq(Candle) /\ Len(wire') <= MaxWire
      /\ phase # "up" => wire' = wire
      /\ phase = "up" => /\ Len(wire') = Len(wire) + 1 /\ wire'[Len(wire) + 1] = c
                         /\ \A j \in 1..Len(wire) : wire'[j] = wire[j]
  BY <1>1, <1>t, CandleAssumption, CandleTypes DEF CandlePushed, CandleTypeOK
<1>7. CandleInv'
  BY <1>2, <1>3, <1>4, <1>6, <1>t DEF CandleInv, CandleTypeOK
<1>8. ASSUME phase # "down" PROVE InDeque' /\ OnWire'
  <2>t. /\ InDeque /\ OnWire /\ Len(wire) \in Nat
        /\ \A j \in 0..Len(wire) : On(j) \in Candle
        /\ \A k \in 1..MaxLen : series[k] \in Candle
    BY <1>8, <1>t, CandleTypes DEF CandleIInv, InDeque, On
  <2>1. ASSUME NEW x \in Candle, NEW y \in Candle, y.t <= now, Follows(x, y)
        PROVE  Follows(x, y)'
    <3>1. x.t < y.t => x.t # now'
      BY <2>1, <1>t, CandleTypes
    <3> QED BY <2>1, <3>1, <1>2, <1>3, <1>t, CandleTypes DEF Follows, Missed, Final
  <2>2. InDeque'
    <3>1. \A k \in 1..MaxLen : series'[k].t <= now'
      BY <2>t, <1>t, CandleTypes DEF InDeque
    <3>2. ASSUME NEW k \in 1..MaxLen, k < MaxLen
          PROVE  series'[k].t < series'[k + 1].t /\ Follows(series[k], series[k + 1])'
      <4>1. k + 1 \in 1..MaxLen
        BY <3>2, <1>t, CandleTypes
      <4> QED BY <4>1, <3>2, <2>t, <2>1 DEF InDeque
    <3> QED BY <3>1, <3>2, <2>t DEF InDeque
  <2>n. PICK n \in Nat : n = Len(wire)
    BY <2>t
  <2>3. \A j \in 0..n : On(j)' = On(j)
    BY <1>6, <1>8, <1>t, <2>t, <2>n DEF On, CandleTypeOK
  <2>4. /\ \A j \in 0..n : On(j).t <= now /\ (j < n => Follows(On(j), On(j + 1)))
        /\ Final(On(n)) /\ Missed(On(n).t, now + 1) /\ n \in 0..n /\ On(n).t \in Nat /\ On(n).t \in Time
    <3>1. /\ \A j \in 0..n : On(j).t <= now /\ (j < n => Follows(On(j), On(j + 1)))
          /\ Final(On(n)) /\ Missed(On(n).t, now + 1)
      BY <2>t, <2>n DEF OnWire
    <3>2. n \in 0..n /\ On(n) \in Candle
      BY <2>t, <2>n
    <3> QED BY <3>1, <3>2, <1>t, CandleTypes
  <2>5. \A j \in 0..n : On(j)'.t <= now' /\ (j < n => Follows(On(j), On(j + 1))')
    <3> SUFFICES ASSUME NEW j \in 0..n PROVE On(j)'.t <= now' /\ (j < n => Follows(On(j), On(j + 1))')
      OBVIOUS
    <3>1. On(j)'.t <= now'
      <4>1. On(j)' = On(j) /\ On(j).t <= now /\ On(j).t \in Nat
        BY <2>3, <2>4, <2>t, <2>n, CandleTypes, <1>t
      <4>2. now \in Nat /\ now <= now' /\ now' \in Nat
        BY <1>t, CandleTypes
      <4> QED BY <4>1, <4>2
    <3>2. ASSUME j < n PROVE Follows(On(j), On(j + 1))'
      <4>1. j + 1 \in 0..n
        BY <3>2, <2>t, <2>n
      <4>2. Follows(On(j), On(j + 1)) /\ On(j) \in Candle /\ On(j + 1) \in Candle /\ On(j + 1).t <= now
        BY <4>1, <3>2, <2>4, <2>t, <2>n
      <4> QED BY <4>1, <4>2, <2>1, <2>3 DEF Follows, Missed, Final
    <3> QED BY <3>1, <3>2
  <2>6. CASE phase = "filled"
    <3>1. wire' = wire /\ unseen' = unseen \cup {now'}
      BY <2>6, <1>6 DEF Unseen
    <3>2. Final(On(n))' /\ Missed(On(n).t, now + 1)'
      <4>1. Final(On(n))'
        BY <2>3, <2>4, <3>1, <1>2 DEF Final
      <4>2. Missed(On(n).t, now + 1)'
        <5>1. On(n)' = On(n) /\ Missed(On(n).t, now + 1)
          BY <2>3, <2>4
        <5>2. \A t \in Time : t < now' + 1 => t < now + 1 \/ t = now'
          <6>1. now \in Nat /\ now' \in Nat /\ now <= now' /\ (now' = now \/ now' = now + 1)
            BY <1>t, CandleTypes
          <6>2. Time \subseteq Int
            BY DEF Time
          <6>3. \A t \in Int, m, k \in Nat : (k = m \/ k = m + 1) /\ t < k + 1 => t < m + 1 \/ t = k
            OBVIOUS
          <6> QED BY <6>1, <6>2, <6>3
        <5> QED BY <5>1, <5>2, <3>1 DEF Missed
      <4> QED BY <4>1, <4>2
    <3>3. Len(wire') = n
      BY <3>1, <2>n
    <3> QED BY <2>2, <2>5, <3>1, <3>2, <3>3 DEF OnWire
  <2>7. CASE phase = "up"
    <3>1. Len(wire') = n + 1 /\ On(n + 1)' = c /\ unseen' = unseen
      BY <2>7, <1>6, <2>t, <2>n DEF On, Unseen
    <3>2. c.t = now' /\ Final(c)' /\ Missed(c.t, now + 1)'
      <4>1. c.t = now' /\ c.v = updates'[c.t]
        BY <1>2
      <4>2. \A t \in Time : ~ (now' < t /\ t < now' + 1)
        <5>1. now' \in Nat /\ Time \subseteq Int
          BY <1>t DEF Time
        <5>2. \A t \in Int, m \in Nat : ~ (m < t /\ t < m + 1)
          OBVIOUS
        <5> QED BY <5>1, <5>2
      <4> QED BY <4>1, <4>2 DEF Final, Missed
    <3>3. Follows(On(n), On(n + 1))'
      <4>1. Follows(On(n), c)'
        <5>1. On(n).t < now' => Final(On(n))'
          BY <2>3, <2>4, <1>2, <1>3 DEF Final
        <5>2. Missed(On(n).t, c.t)'
          BY <2>3, <2>4, <3>2, <1>3, <1>t, CandleTypes DEF Missed, Time
        <5> QED BY <5>1, <5>2, <2>3, <2>4, <3>2, <1>t, CandleTypes DEF Follows
      <4> QED BY <4>1, <3>1 DEF Follows
    <3>4. \A j \in 0..(n + 1) : On(j)'.t <= now' /\ (j < n + 1 => Follows(On(j), On(j + 1))')
      <4> SUFFICES ASSUME NEW j \in 0..(n + 1)
                   PROVE On(j)'.t <= now' /\ (j < n + 1 => Follows(On(j), On(j + 1))')
        OBVIOUS
      <4>1. CASE j = n + 1
        BY <4>1, <3>1, <3>2, <1>t, <2>t, <2>n
      <4>2. CASE j = n
        BY <4>2, <3>3, <2>5, <2>4
      <4>3. CASE j < n
        <5>1. j \in 0..n
          BY <4>3, <2>t, <2>n
        <5> QED BY <4>3, <5>1, <2>5, <2>t, <2>n
      <4> QED BY <4>1, <4>2, <4>3, <2>t, <2>n
    <3> QED BY <2>2, <3>1, <3>2, <3>4 DEF OnWire
  <2> QED BY <2>6, <2>7, <1>8, <1>t DEF CandleTypeOK
<1> QED BY <1>t, <1>5, <1>6, <1>7, <1>8, CandleTypes DEF CandleIInv

LEMMA CandleStep ==
    ASSUME ~Reordered, CandleIInv, [CandleNext]_candleVars
    PROVE  CandleIInv'
<1>t. CandleTypeOK /\ CandleInv
  BY DEF CandleIInv, CandleInv
<1>1. CASE UNCHANGED candleVars
  BY <1>1, <1>t DEF candleVars, CandleIInv, CandleInv, CandleTypeOK, OnlyClosed, InOrder, NoGap,
     Completed, Started, InDeque, OnWire, On, Follows, Missed, Final
<1>2. CASE Subscribe
  <2>1. phase = "filled" /\ phase' = "up" /\ UNCHANGED <<now, updates, wire, series, decided, unseen>>
    BY <1>2 DEF Subscribe
  <2> QED BY <2>1, <1>t DEF CandleIInv, CandleInv, CandleTypeOK, OnlyClosed, InOrder, NoGap,
     Completed, Started, InDeque, OnWire, On, Follows, Missed, Final
<1>3. CASE Disconnect
  <2>1. phase' = "down" /\ wire' = <<>> /\ UNCHANGED <<now, updates, series, decided, unseen>>
    BY <1>3 DEF Disconnect
  <2>2. wire' \in Seq(Candle) /\ Len(wire') <= MaxWire
    BY <2>1, CandleAssumption
  <2> QED BY <2>1, <2>2, <1>t DEF CandleIInv, CandleInv, CandleTypeOK, OnlyClosed, InOrder, NoGap,
     Completed, Started
<1>4. CASE Trade
  <2>1. updates[now] + 1 \in 1..MaxUpdates /\ now \in Time
    BY <1>4, <1>t, CandleTypes, CandleAssumption DEF Trade
  <2>2. /\ updates' = [updates EXCEPT ![now'] = updates[now] + 1] /\ now' = now
        /\ updates'[now] = updates[now] + 1
    BY <1>4, <2>1, <1>t DEF Trade, CandleTypeOK
  <2> DEFINE c == [t |-> now, v |-> updates[now] + 1]
  <2>3. c \in Candle /\ c.t = now' /\ c.v = updates[now] + 1
    BY <2>1, <2>2 DEF Candle
  <2>4. /\ wire' = CandlePushed(c) /\ Len(wire) < MaxWire /\ unseen' = Unseen(c.t)
        /\ UNCHANGED <<phase, series, decided>>
    BY <1>4, <2>2 DEF Trade, Market
  <2>5. updates' = [updates EXCEPT ![c.t] = c.v]
    BY <2>2
  <2> HIDE DEF c
  <2> QED BY <2>2, <2>3, <2>4, <2>5, PushPreserves
<1>5. CASE NextCandle
  <2>1. 1 \in 1..MaxUpdates /\ now + 1 \in Time
    BY <1>5, <1>t, CandleTypes, CandleAssumption DEF NextCandle, Time
  <2> DEFINE c == [t |-> now + 1, v |-> 1]
  <2>2. c \in Candle /\ c.t = now' /\ c.v = 1 /\ now' = now + 1
    BY <1>5, <2>1 DEF NextCandle, Candle
  <2>3. /\ wire' = CandlePushed(c) /\ Len(wire) < MaxWire /\ unseen' = Unseen(c.t)
        /\ UNCHANGED <<phase, series, decided>> /\ updates' = [updates EXCEPT ![c.t] = c.v]
    BY <1>5 DEF NextCandle, Market
  <2> HIDE DEF c
  <2> QED BY <2>2, <2>3, PushPreserves
<1> QED BY <1>1, <1>2, <1>3, <1>4, <1>5, BackfillPreserves, ReceivePreserves DEF CandleNext

\* Whatever reconnects, lost frames and trades come between, what a decision rests on is closed,
\* in order and final, and only what was traded between a backfill and its subscription is
\* missing: frames come in order, and the contract is no younger than the deque is long (the
\* run CandleYoung shows what a younger one does; CandleStrategy.add, _hydrate_history).
THEOREM CandlesAreComplete ==
    ASSUME ~Reordered, Age >= MaxLen
    PROVE  CandleSpec => []CandleInv
<1>1. CandleInit => CandleIInv
  <2> SUFFICES ASSUME CandleInit PROVE CandleIInv
    OBVIOUS
  <2>1. CandleTypeOK
    BY CandleAssumption DEF CandleInit, CandleTypeOK, Time
  <2>2. OnlyClosed /\ InOrder /\ NoGap /\ Completed
    BY DEF CandleInit, OnlyClosed, InOrder, NoGap, Completed
  <2>3. now >= MaxLen /\ Started
    BY CandleAssumption DEF CandleInit, Started, Time
  <2> QED BY <2>1, <2>2, <2>3 DEF CandleInit, CandleIInv, CandleInv
<1>2. CandleIInv /\ [CandleNext]_candleVars => CandleIInv'
  BY CandleStep
<1>3. CandleIInv => CandleInv
  BY DEF CandleIInv
<1> QED BY <1>1, <1>2, <1>3, PTL DEF CandleSpec

=============================================================================
