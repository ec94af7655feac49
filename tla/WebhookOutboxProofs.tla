------------------------ MODULE WebhookOutboxProofs ------------------------
(***************************************************************************)
(* Theorems about WebhookOutbox, for every value of its constants.         *)
(***************************************************************************)
EXTENDS WebhookOutbox, FiniteSetTheorems, WellFoundedInduction, TLAPS

-----------------------------------------------------------------------------
(***************************************************************************)
(* Type correctness.                                                       *)
(***************************************************************************)
LEMMA FreshRowType ==
    ASSUME NEW k \in Key
    PROVE  FreshRow(k) \in Row
BY DEF FreshRow, Row, Active

LEMMA NewTaskType ==
    ASSUME TypeOK, NEW k \in Key, NEW n \in Nat
    PROVE  NewTask(k, n) \in Task
<1>1. CASE StillValid(k)
  <2>1. channels[k.channel] \in ChannelRow
    BY <1>1 DEF StillValid, TypeOK, Key
  <2> QED BY <1>1, <2>1 DEF NewTask, Task, ChannelRow, Outcome, Key
<1>2. CASE ~StillValid(k)
  BY <1>2 DEF NewTask, Task, Outcome, Key
<1> QED BY <1>1, <1>2

LEMMA NextStatusType ==
    ASSUME NEW o \in Outcome, NEW n \in Nat
    PROVE  NextStatus(o, n) \in {"sent", "failed", "cancelled", "pending"}
BY DEF NextStatus

\* Type correctness is preserved by the settings routes and the enqueue.
LEMMA SettingsType == TypeOK /\ Settings => TypeOK'
<1> SUFFICES ASSUME TypeOK, NEW c \in Channel,
                    \/ \E u \in User, e \in BOOLEAN, f \in Config : CreateChannel(c, u, e, f)
                    \/ \E e \in BOOLEAN, f \in Config : UpdateChannel(c, e, f)
                    \/ DeleteChannel(c)
             PROVE  TypeOK'
  BY DEF Settings
<1>1. ASSUME NEW u \in User, NEW e \in BOOLEAN, NEW f \in Config, SetChannel(c, u, e, f)
      PROVE  TypeOK'
  BY <1>1 DEF SetChannel, TypeOK, ChannelRow
<1>2. ASSUME NEW u \in User, NEW e \in BOOLEAN, NEW f \in Config, CreateChannel(c, u, e, f)
      PROVE  TypeOK'
  BY <1>1, <1>2 DEF CreateChannel
<1>3. ASSUME NEW e \in BOOLEAN, NEW f \in Config, UpdateChannel(c, e, f)
      PROVE  TypeOK'
  <2>1. channels[c].owner \in User
    BY <1>3 DEF UpdateChannel, TypeOK, ChannelRow
  <2> QED BY <1>1, <1>3, <2>1 DEF UpdateChannel
<1>4. ASSUME DeleteChannel(c)
      PROVE  TypeOK'
  BY <1>4 DEF DeleteChannel, TypeOK
<1> QED BY <1>2, <1>3, <1>4

LEMMA EnqueueType == TypeOK /\ Enqueue => TypeOK'
<1> SUFFICES ASSUME TypeOK, NEW r \in RowId,
                    (\E k \in Key : Insert(k, r)) \/ Redrive(r)
             PROVE  TypeOK'
  BY DEF Enqueue
<1>1. ASSUME NEW k \in Key, Insert(k, r) PROVE TypeOK'
  BY <1>1, FreshRowType DEF Insert, TypeOK
<1>2. ASSUME Redrive(r) PROVE TypeOK'
  <2>1. rows[r].key \in Key
    BY <1>2 DEF Redrive, Live, TypeOK, Row
  <2> QED BY <1>2, <2>1, FreshRowType DEF Redrive, TypeOK
<1> QED BY <1>1, <1>2

LEMMA TaskStepType ==
    ASSUME TypeOK, NEW d \in Dispatcher, NEW r \in RowId, TaskStep(d, r)
    PROVE  TypeOK'
<1>1. CASE Claim(d, r)
  <2>1. rows[r] \in Row
    BY <1>1 DEF Claim, Due, Queued, Live, TypeOK
  <2>2. NewTask(rows[r].key, rows[r].attempts + 1) \in Task
    BY <2>1, NewTaskType DEF Row
  <2>3. task' \in [Dispatcher -> [RowId -> Task \cup {NoTask}]]
    BY <1>1, <2>2 DEF Claim, TypeOK
  <2>4. rows' \in [RowId -> Row \cup {NoRow}]
    BY <1>1, <2>1 DEF Claim, TypeOK, Row, Active
  <2>5. batch' \in [Dispatcher -> SUBSET RowId]
    BY <1>1 DEF Claim, AdmitTask, TypeOK
  <2> QED BY <1>1, <2>3, <2>4, <2>5 DEF Claim, TypeOK
<1>2. CASE ClaimRefused(d, r)
  BY <1>2 DEF ClaimRefused, AdmitTask, TypeOK
<1>3. ASSUME NEW o \in {"success", "permanent", "transient"}, Post(d, r, o)
      PROVE  TypeOK'
  <2>1. task[d][r] \in Task
    BY <1>3 DEF Post, TypeOK
  <2>2. task' \in [Dispatcher -> [RowId -> Task \cup {NoTask}]]
    BY <1>3, <2>1 DEF Post, TypeOK, Task, Outcome
  <2>3. accepted' \in SUBSET Key
    BY <1>3, <2>1 DEF Post, TypeOK, Task
  <2> QED BY <1>3, <2>2, <2>3 DEF Post, TypeOK
<1>4. CASE CheckFence(d, r)
  <2>1. task[d][r] \in Task
    BY <1>4 DEF CheckFence, TypeOK
  <2>2. task' \in [Dispatcher -> [RowId -> Task \cup {NoTask}]]
    BY <1>4, <2>1 DEF CheckFence, TypeOK, Task
  <2> QED BY <1>4, <2>2 DEF CheckFence, TypeOK
<1>5. CASE Write(d, r)
  <2>1. task[d][r] \in Task
    BY <1>5 DEF Write, TypeOK
  <2>2. task' \in [Dispatcher -> [RowId -> Task \cup {NoTask}]]
    BY <1>5 DEF Write, TypeOK
  <2>3. NextStatus(task[d][r].outcome, task[d][r].attempts) \in Active \cup Terminal
    BY <2>1, NextStatusType DEF Task, Active, Terminal
  <2>4. rows' \in [RowId -> Row \cup {NoRow}]
    BY <1>5, <2>3 DEF Write, Live, TypeOK, Row
  <2>5. recorded' \in SUBSET Key
    BY <1>5, <2>1 DEF Write, TypeOK, Task
  <2> QED BY <1>5, <2>2, <2>4, <2>5 DEF Write, TypeOK
<1> QED BY <1>1, <1>2, <1>3, <1>4, <1>5 DEF TaskStep

LEMMA TypeStep == TypeOK /\ [Next]_vars => TypeOK'
<1> SUFFICES ASSUME TypeOK, [Next]_vars PROVE TypeOK'
  OBVIOUS
<1>1. CASE UNCHANGED vars
  BY <1>1 DEF vars, TypeOK
<1>2. ASSUME NEW d \in Dispatcher, SelectBatch(d) PROVE TypeOK'
  BY <1>2 DEF SelectBatch, Selection, DueRows, TypeOK
<1>3. CASE Fault
  <2>1. ASSUME NEW d \in Dispatcher, Abandon(d) PROVE TypeOK'
    BY <2>1 DEF Abandon, TypeOK
  <2>2. ASSUME NEW d \in Dispatcher, NEW r \in RowId, TaskFails(d, r) PROVE TypeOK'
    BY <2>2 DEF TaskFails, TypeOK
  <2> QED BY <1>3, <2>1, <2>2 DEF Fault
<1>4. CASE Clock
  <2>1. ASSUME NEW r \in RowId, BecomesDue(r) PROVE TypeOK'
    BY <2>1 DEF BecomesDue, Queued, Live, TypeOK, Row
  <2>2. ASSUME NEW r \in RowId, Cleanup(r) PROVE TypeOK'
    BY <2>2 DEF Cleanup, TypeOK
  <2> QED BY <1>4, <2>1, <2>2 DEF Clock
<1> QED BY <1>1, <1>2, <1>3, <1>4, SettingsType, EnqueueType, TaskStepType DEF Next

\* Every value the outbox stores has the shape its columns and locals declare,
\* whatever the users, rows, dispatchers and limits are.
THEOREM TypeCorrect == Spec => []TypeOK
<1>1. Init => TypeOK
  BY DEF Init, TypeOK
<1> QED BY <1>1, TypeStep, PTL DEF Spec

-----------------------------------------------------------------------------
(***************************************************************************)
(* One dispatcher, as deployed (one web process, max_instances = 1).       *)
(*                                                                         *)
(* The strengthening is TaskOwnsRow (a row with a task is gone, fresh or   *)
(* held by it), which makes a late UPDATE harmless to the queue - what it  *)
(* overwrites was already counted - and AttemptsPaid, which tells the      *)
(* claims in flight from the lost ones.                                    *)
(***************************************************************************)
SingleDispatcher == \A d, e \in Dispatcher : d = e

IInv == TypeOK /\ TaskOwnsRow /\ AttemptsPaid

\* What a step other than an enqueue may do to the table: nothing, take rows
\* away, or update one queued row without changing whose delivery it is.
Erases == \E S \in SUBSET RowId :
    rows' = [r \in RowId |-> IF r \in S THEN NoRow ELSE rows[r]]

Updates == \E r \in RowId, x \in Row :
    Queued(r) /\ x.key = rows[r].key /\ rows' = [rows EXCEPT ![r] = x]

LEMMA WriteUpdates ==
    ASSUME TypeOK, TaskOwnsRow, NEW d \in Dispatcher, NEW r \in RowId, Write(d, r)
    PROVE  Updates \/ rows' = rows
<1> DEFINE st == NextStatus(task[d][r].outcome, task[d][r].attempts)
           x  == [rows[r] EXCEPT !.status = st, !.due = FALSE, !.lease = NoLease]
<1>1. CASE ~Live(r)
  BY <1>1 DEF Write
<1>2. CASE Live(r)
  <2>1. rows[r] \in Row
    BY <1>2 DEF Live, TypeOK
  <2>2. Queued(r)
    BY <1>2 DEF Write, TaskOwnsRow, Fresh, Holds, Queued, Active
  <2>3. task[d][r] \in Task
    BY DEF Write, TypeOK
  <2>4. st \in Active \cup Terminal
    BY <2>3, NextStatusType DEF Task, Active, Terminal
  <2>5. x \in Row /\ x.key = rows[r].key
    BY <2>1, <2>4 DEF Row
  <2>6. rows' = [rows EXCEPT ![r] = x]
    BY <1>2 DEF Write, TypeOK
  <2> QED BY <2>2, <2>5, <2>6 DEF Updates
<1> QED BY <1>1, <1>2

LEMMA RowStep ==
    ASSUME TypeOK, TaskOwnsRow, Next, ~Enqueue
    PROVE  Erases \/ Updates \/ rows' = rows
<1>1. CASE Settings
  <2>1. ASSUME NEW c \in Channel, DeleteChannel(c) PROVE Erases
    <3> DEFINE S == {r \in RowId : Live(r) /\ rows[r].key.channel = c}
    <3>1. rows' = [r \in RowId |-> IF r \in S THEN NoRow ELSE rows[r]]
      BY <2>1 DEF DeleteChannel
    <3> QED BY <3>1 DEF Erases
  <2> QED BY <1>1, <2>1 DEF Settings, CreateChannel, UpdateChannel, SetChannel
<1>2. ASSUME NEW d \in Dispatcher, SelectBatch(d) PROVE rows' = rows
  BY <1>2 DEF SelectBatch
<1>3. ASSUME NEW d \in Dispatcher, NEW r \in RowId, TaskStep(d, r)
      PROVE  Updates \/ rows' = rows
  <2>1. CASE Claim(d, r)
    <3> DEFINE n == rows[r].attempts + 1
               x == [rows[r] EXCEPT !.status = "processing", !.attempts = n,
                                    !.due = FALSE, !.lease = d]
    <3>1. Queued(r) /\ rows[r] \in Row /\ n \in Nat
      BY <2>1 DEF Claim, Due, Queued, Live, TypeOK, Row
    <3>2. x \in Row /\ x.key = rows[r].key
      <4> HIDE DEF n
      <4> QED BY <3>1 DEF Row, Active
    <3>3. rows' = [rows EXCEPT ![r] = x]
      BY <2>1 DEF Claim, TypeOK
    <3> QED BY <3>1, <3>2, <3>3 DEF Updates
  <2>2. CASE Write(d, r)
    BY <2>2, WriteUpdates
  <2>3. CASE ClaimRefused(d, r)
    BY <2>3 DEF ClaimRefused
  <2>4. ASSUME NEW o \in {"success", "permanent", "transient"}, Post(d, r, o)
        PROVE  rows' = rows
    BY <2>4 DEF Post
  <2>5. CASE CheckFence(d, r)
    BY <2>5 DEF CheckFence
  <2> QED BY <1>3, <2>1, <2>2, <2>3, <2>4, <2>5 DEF TaskStep
<1>4. CASE Fault
  BY <1>4 DEF Fault, Abandon, TaskFails
<1>5. CASE Clock
  <2>1. ASSUME NEW r \in RowId, BecomesDue(r) PROVE Updates
    <3> DEFINE x == [rows[r] EXCEPT !.due = TRUE]
    <3>1. Queued(r) /\ rows[r] \in Row
      BY <2>1 DEF BecomesDue, Queued, Live, TypeOK
    <3>2. x \in Row /\ x.key = rows[r].key
      BY <3>1 DEF Row
    <3>3. rows' = [rows EXCEPT ![r] = x]
      BY <2>1 DEF BecomesDue, TypeOK
    <3> QED BY <3>1, <3>2, <3>3 DEF Updates
  <2>2. ASSUME NEW n \in RowId, Cleanup(n) PROVE Erases
    <3> DEFINE S == {r \in RowId : Expired(r, n)}
    <3>1. rows' = [r \in RowId |-> IF r \in S THEN NoRow ELSE rows[r]]
      BY <2>2 DEF Cleanup
    <3> QED BY <3>1 DEF Erases
  <2> QED BY <1>5, <2>1, <2>2 DEF Clock
<1> QED BY <1>1, <1>2, <1>3, <1>4, <1>5 DEF Next

-----------------------------------------------------------------------------
(***************************************************************************)
(* IInv is inductive.                                                      *)
(***************************************************************************)
LEMMA ErasePreserves ==
    ASSUME IInv, Erases, UNCHANGED <<batch, task, lost>>
    PROVE  TaskOwnsRow' /\ AttemptsPaid'
<1>1. \A r \in RowId : rows'[r] = NoRow \/ rows'[r] = rows[r]
  BY DEF Erases
<1>2. TaskOwnsRow'
  BY <1>1 DEF IInv, TaskOwnsRow, Live, Fresh, Holds
<1>3. AttemptsPaid'
  BY <1>1 DEF IInv, AttemptsPaid, Live
<1> QED BY <1>2, <1>3

LEMMA SettingsPreserves == IInv /\ Settings => TaskOwnsRow' /\ AttemptsPaid'
<1> SUFFICES ASSUME IInv, Settings PROVE TaskOwnsRow' /\ AttemptsPaid'
  OBVIOUS
<1>1. ASSUME NEW c \in Channel, DeleteChannel(c) PROVE Erases /\ UNCHANGED <<batch, task, lost>>
  <2> DEFINE S == {r \in RowId : Live(r) /\ rows[r].key.channel = c}
  <2>1. rows' = [r \in RowId |-> IF r \in S THEN NoRow ELSE rows[r]]
    BY <1>1 DEF DeleteChannel
  <2> QED BY <1>1, <2>1 DEF Erases, DeleteChannel
<1>2. ASSUME UNCHANGED <<rows, batch, task, lost>>
      PROVE  TaskOwnsRow' /\ AttemptsPaid'
  BY <1>2 DEF IInv, TaskOwnsRow, AttemptsPaid, Live, Fresh, Holds
<1> QED BY <1>1, <1>2, ErasePreserves DEF Settings, CreateChannel, UpdateChannel, SetChannel

\* A row that becomes fresh while no task, or only a stale one, knows its id.
LEMMA EnqueuePreserves == IInv /\ Enqueue => TaskOwnsRow' /\ AttemptsPaid'
<1> SUFFICES ASSUME IInv, NEW r \in RowId,
                    (\E k \in Key : Insert(k, r)) \/ Redrive(r)
             PROVE  TaskOwnsRow' /\ AttemptsPaid'
  BY DEF Enqueue
<1>1. PICK k \in Key : rows' = [rows EXCEPT ![r] = FreshRow(k)]
  <2>1. CASE Redrive(r)
    <3>1. rows[r].key \in Key
      BY <2>1 DEF Redrive, Live, IInv, TypeOK, Row
    <3> QED BY <2>1, <3>1 DEF Redrive, IInv, TypeOK
  <2> QED BY <2>1 DEF Insert
<1>2. UNCHANGED <<batch, task, lost>>
  BY DEF Insert, Redrive
<1>3. ~Queued(r)
  <2>1. CASE Redrive(r)
    BY <2>1 DEF Redrive, Redrivable, Queued, Active
  <2>2. ASSUME NEW j \in Key, Insert(j, r), Live(r) PROVE FALSE
    <3>1. r < r
      BY <2>2 DEF Insert, NextRowId
    <3> QED BY <3>1, BoundsAssumption
  <2> QED BY <2>1, <2>2 DEF Queued
<1>4. rows'[r] = FreshRow(k) /\ \A q \in RowId \ {r} : rows'[q] = rows[q]
  BY <1>1 DEF IInv, TypeOK
<1>5. FreshRow(k) # NoRow
  BY NullAssumption, FreshRowType
<1>6. TaskOwnsRow'
  <2> SUFFICES ASSUME NEW d \in Dispatcher, NEW q \in RowId, task[d][q] # NoTask
               PROVE  /\ q \notin batch[d]
                      /\ \/ ~Live(q)'
                         \/ Fresh(q)'
                         \/ Holds(d, q)' /\ rows'[q].attempts = task[d][q].attempts
    BY <1>2 DEF TaskOwnsRow
  <2>1. CASE q = r
    BY <1>4, <1>5, <2>1 DEF IInv, TaskOwnsRow, Fresh, Live, FreshRow
  <2>2. CASE q # r
    BY <1>4, <2>2 DEF IInv, TaskOwnsRow, Fresh, Live, Holds
  <2> QED BY <2>1, <2>2
<1>7. AttemptsPaid'
  <2> SUFFICES ASSUME NEW q \in RowId, Live(q)'
               PROVE  /\ rows'[q].attempts <= MAX_DELIVERY_ATTEMPTS + lost
                      /\ rows'[q].status = "pending" => rows'[q].attempts < MAX_DELIVERY_ATTEMPTS
                      /\ rows'[q].status = "processing" =>
                            /\ rows'[q].lease \in Dispatcher
                            /\ task[rows'[q].lease][q] = NoTask =>
                                rows'[q].attempts < MAX_DELIVERY_ATTEMPTS + lost
    BY <1>2 DEF AttemptsPaid
  <2>1. CASE q = r
    BY <1>4, <2>1, BoundsAssumption DEF FreshRow, IInv, TypeOK
  <2>2. CASE q # r
    BY <1>4, <2>2 DEF IInv, AttemptsPaid, Live
  <2> QED BY <2>1, <2>2
<1> QED BY <1>6, <1>7

\* Facts about one row and the tasks on it, carried over when neither changes.
LEMMA OthersPreserved ==
    ASSUME IInv, NEW q \in RowId, rows'[q] = rows[q],
           \A d \in Dispatcher : task'[d][q] = task[d][q],
           \A d \in Dispatcher : batch'[d] \subseteq batch[d],
           lost' \in Nat, lost' >= lost
    PROVE  /\ \A d \in Dispatcher : task'[d][q] # NoTask =>
                /\ q \notin batch'[d]
                /\ \/ ~Live(q)'
                   \/ Fresh(q)'
                   \/ Holds(d, q)' /\ rows'[q].attempts = task'[d][q].attempts
           /\ Live(q)' =>
                /\ rows'[q].attempts <= MAX_DELIVERY_ATTEMPTS + lost'
                /\ rows'[q].status = "pending" => rows'[q].attempts < MAX_DELIVERY_ATTEMPTS
                /\ rows'[q].status = "processing" =>
                    /\ rows'[q].lease \in Dispatcher
                    /\ task'[rows'[q].lease][q] = NoTask =>
                            rows'[q].attempts < MAX_DELIVERY_ATTEMPTS + lost'
<1>1. Live(q) => rows[q].attempts \in Nat
  BY DEF IInv, TypeOK, Row, Live
<1>2. MAX_DELIVERY_ATTEMPTS \in Nat /\ lost \in Nat
  BY BoundsAssumption DEF IInv, TypeOK
<1> QED BY <1>1, <1>2 DEF IInv, TaskOwnsRow, AttemptsPaid, Live, Fresh, Holds

LEMMA ClaimPreserves ==
    ASSUME IInv, SingleDispatcher, NEW d \in Dispatcher, NEW r \in RowId, Claim(d, r)
    PROVE  TaskOwnsRow' /\ AttemptsPaid'
<1>1. /\ rows[r] \in Row /\ Queued(r) /\ Live(r)
      /\ r \in batch[d] /\ task[d][r] = NoTask
      /\ batch' = [batch EXCEPT ![d] = @ \ {r}] /\ lost' = lost
  BY DEF Claim, AdmitTask, Due, Queued, Live, IInv, TypeOK, TaskOwnsRow
<1>2. /\ rows'[r] = [rows[r] EXCEPT !.status = "processing", !.attempts = @ + 1,
                                    !.due = FALSE, !.lease = d]
      /\ \A q \in RowId \ {r} : rows'[q] = rows[q]
  BY DEF Claim, IInv, TypeOK
<1>3. /\ rows'[r].status = "processing" /\ rows'[r].lease = d
      /\ rows'[r].attempts = rows[r].attempts + 1
  BY <1>1, <1>2 DEF Row
<1>4. /\ task'[d][r] = NewTask(rows[r].key, rows[r].attempts + 1)
      /\ \A q \in RowId \ {r}, e \in Dispatcher : task'[e][q] = task[e][q]
  BY DEF Claim, IInv, TypeOK
<1>5. NewTask(rows[r].key, rows[r].attempts + 1).attempts = rows[r].attempts + 1
  BY DEF NewTask
<1>6. NewTask(rows[r].key, rows[r].attempts + 1) # NoTask
  BY <1>1, NewTaskType, NullAssumption DEF IInv, Row
<1>7. \A e \in Dispatcher : e = d
  BY DEF SingleDispatcher
<1>8. \A e \in Dispatcher : batch'[e] \subseteq batch[e]
  BY <1>1 DEF IInv, TypeOK
<1>9. r \notin batch'[d]
  BY <1>1 DEF IInv, TypeOK
<1>10. rows[r].attempts + 1 <= MAX_DELIVERY_ATTEMPTS + lost
  <2>1. rows[r].attempts < MAX_DELIVERY_ATTEMPTS + lost \/ rows[r].attempts < MAX_DELIVERY_ATTEMPTS
    BY <1>1, <1>7 DEF IInv, AttemptsPaid, Queued, Active
  <2>2. rows[r].attempts \in Nat /\ lost \in Nat /\ MAX_DELIVERY_ATTEMPTS \in Nat
    BY <1>1, BoundsAssumption DEF IInv, TypeOK, Row
  <2> QED BY <2>1, <2>2
<1>11. TaskOwnsRow'
  <2> SUFFICES ASSUME NEW e \in Dispatcher, NEW q \in RowId, task'[e][q] # NoTask
               PROVE  /\ q \notin batch'[e]
                      /\ \/ ~Live(q)'
                         \/ Fresh(q)'
                         \/ Holds(e, q)' /\ rows'[q].attempts = task'[e][q].attempts
    BY DEF TaskOwnsRow
  <2>1. CASE q = r
    <3>1. e = d BY <1>7
    <3>2. rows'[r] # NoRow => Holds(d, r)'
      BY <1>3 DEF Holds, Live
    <3> QED BY <1>3, <1>4, <1>5, <1>9, <2>1, <3>1, <3>2 DEF Live
  <2>2. CASE q # r
    BY <1>1, <1>2, <1>4, <1>8, <2>2, OthersPreserved DEF IInv, TypeOK
  <2> QED BY <2>1, <2>2
<1>12. AttemptsPaid'
  <2> SUFFICES ASSUME NEW q \in RowId, Live(q)'
               PROVE  /\ rows'[q].attempts <= MAX_DELIVERY_ATTEMPTS + lost'
                      /\ rows'[q].status = "pending" => rows'[q].attempts < MAX_DELIVERY_ATTEMPTS
                      /\ rows'[q].status = "processing" =>
                            /\ rows'[q].lease \in Dispatcher
                            /\ task'[rows'[q].lease][q] = NoTask =>
                                rows'[q].attempts < MAX_DELIVERY_ATTEMPTS + lost'
    BY DEF AttemptsPaid
  <2>1. CASE q = r
    BY <1>1, <1>3, <1>4, <1>6, <1>10, <2>1
  <2>2. CASE q # r
    BY <1>1, <1>2, <1>4, <1>8, <2>2, OthersPreserved DEF IInv, TypeOK
  <2> QED BY <2>1, <2>2
<1> QED BY <1>11, <1>12

\* Only the holder of a lease, or nobody, is affected when a task goes away.
LEMMA WritePreserves ==
    ASSUME IInv, SingleDispatcher, NEW d \in Dispatcher, NEW r \in RowId, Write(d, r)
    PROVE  TaskOwnsRow' /\ AttemptsPaid'
<1> DEFINE st == NextStatus(task[d][r].outcome, task[d][r].attempts)
<1>1. /\ task[d][r] \in Task /\ st \in {"sent", "failed", "cancelled", "pending"}
      /\ UNCHANGED <<batch, lost>>
  BY NextStatusType DEF Write, IInv, TypeOK, Task
<1>2. /\ task'[d][r] = NoTask
      /\ \A q \in RowId \ {r}, e \in Dispatcher : task'[e][q] = task[e][q]
  BY DEF Write, IInv, TypeOK
<1>3. \A e \in Dispatcher : e = d
  BY DEF SingleDispatcher
<1>4. \A q \in RowId \ {r} : rows'[q] = rows[q]
  BY DEF Write, IInv, TypeOK
<1>5. Live(r)' => /\ Live(r) /\ rows[r] \in Row
                  /\ rows'[r].status = st /\ rows'[r].attempts = rows[r].attempts
  <2>1. CASE ~Live(r)
    BY <2>1 DEF Write, Live
  <2>2. CASE Live(r)
    <3>1. rows[r] \in Row
      BY <2>2 DEF Live, IInv, TypeOK
    <3>2. rows'[r] = [rows[r] EXCEPT !.status = st, !.due = FALSE, !.lease = NoLease]
      BY <2>2 DEF Write, IInv, TypeOK
    <3> HIDE DEF st
    <3> QED BY <2>2, <3>1, <3>2 DEF Row
  <2> QED BY <2>1, <2>2
<1>6. Live(r) => /\ rows[r].attempts <= MAX_DELIVERY_ATTEMPTS + lost
                 /\ st = "pending" => rows[r].attempts < MAX_DELIVERY_ATTEMPTS
  <2>1. st = "pending" => task[d][r].attempts < MAX_DELIVERY_ATTEMPTS
    BY <1>1, BoundsAssumption DEF NextStatus, Task
  <2>2. Live(r) => \/ rows[r].attempts = 0
                   \/ rows[r].attempts = task[d][r].attempts
    BY DEF Write, IInv, TaskOwnsRow, Fresh
  <2>3. Live(r) => rows[r].attempts <= MAX_DELIVERY_ATTEMPTS + lost
    BY DEF IInv, AttemptsPaid
  <2> HIDE DEF st
  <2> QED BY <2>1, <2>2, <2>3, BoundsAssumption
<1> HIDE DEF st
<1>7. TaskOwnsRow'
  <2> SUFFICES ASSUME NEW e \in Dispatcher, NEW q \in RowId, task'[e][q] # NoTask
               PROVE  /\ q \notin batch'[e]
                      /\ \/ ~Live(q)'
                         \/ Fresh(q)'
                         \/ Holds(e, q)' /\ rows'[q].attempts = task'[e][q].attempts
    BY DEF TaskOwnsRow
  <2>1. q # r
    BY <1>2, <1>3
  <2> QED BY <1>1, <1>2, <1>4, <2>1, OthersPreserved DEF IInv, TypeOK
<1>8. AttemptsPaid'
  <2> SUFFICES ASSUME NEW q \in RowId, Live(q)'
               PROVE  /\ rows'[q].attempts <= MAX_DELIVERY_ATTEMPTS + lost'
                      /\ rows'[q].status = "pending" => rows'[q].attempts < MAX_DELIVERY_ATTEMPTS
                      /\ rows'[q].status = "processing" =>
                            /\ rows'[q].lease \in Dispatcher
                            /\ task'[rows'[q].lease][q] = NoTask =>
                                rows'[q].attempts < MAX_DELIVERY_ATTEMPTS + lost'
    BY DEF AttemptsPaid
  <2>1. CASE q = r
    BY <1>1, <1>5, <1>6, <2>1
  <2>2. CASE q # r
    BY <1>1, <1>2, <1>4, <2>2, OthersPreserved DEF IInv, TypeOK
  <2> QED BY <2>1, <2>2
<1> QED BY <1>7, <1>8

\* Steps that leave the table alone: a task starts or ends its POST, loses its
\* fence, or is lost together with its claim.
LEMMA TaskPreserves ==
    ASSUME IInv, SingleDispatcher, NEW d \in Dispatcher, NEW r \in RowId,
           \/ ClaimRefused(d, r)
           \/ \E o \in {"success", "permanent", "transient"} : Post(d, r, o)
           \/ CheckFence(d, r)
           \/ TaskFails(d, r)
           \/ Abandon(d)
    PROVE  TaskOwnsRow' /\ AttemptsPaid'
<1>1. \A e \in Dispatcher : e = d
  BY DEF SingleDispatcher
<1>2. rows' = rows /\ \A e \in Dispatcher : batch'[e] \subseteq batch[e]
  BY DEF ClaimRefused, AdmitTask, Post, CheckFence, TaskFails, Abandon, IInv, TypeOK
<1>3. lost \in Nat /\ lost' \in Nat /\ lost' >= lost
  BY DEF ClaimRefused, Post, CheckFence, TaskFails, Abandon, IInv, TypeOK
<1>4. \A q \in RowId : task'[d][q] # NoTask =>
          task[d][q] # NoTask /\ task'[d][q].attempts = task[d][q].attempts
  <2>1. ASSUME NEW o \in {"success", "permanent", "transient"}, Post(d, r, o)
        PROVE  \A q \in RowId : task'[d][q] # NoTask =>
                  task[d][q] # NoTask /\ task'[d][q].attempts = task[d][q].attempts
    <3>1. task[d][r] \in Task
      BY <2>1 DEF Post, IInv, TypeOK
    <3> QED BY <2>1, <3>1 DEF Post, IInv, TypeOK, Task
  <2>2. CASE CheckFence(d, r)
    <3>1. task[d][r] \in Task
      BY <2>2 DEF CheckFence, IInv, TypeOK
    <3> QED BY <2>2, <3>1 DEF CheckFence, IInv, TypeOK, Task
  <2>3. CASE ClaimRefused(d, r) \/ TaskFails(d, r) \/ Abandon(d)
    BY <2>3 DEF ClaimRefused, TaskFails, Abandon, IInv, TypeOK
  <2> QED BY <2>1, <2>2, <2>3
<1>5. \A q \in RowId : task'[d][q] = NoTask /\ task[d][q] # NoTask =>
          lost' = lost + 1 \/ ~Holds(d, q)
  <2>1. ASSUME NEW o \in {"success", "permanent", "transient"}, Post(d, r, o)
        PROVE  \A q \in RowId : task'[d][q] = NoTask => task[d][q] = NoTask
    <3>1. task[d][r] \in Task
      BY <2>1 DEF Post, IInv, TypeOK
    <3>2. task'[d][r] \in Task
      BY <2>1, <3>1 DEF Post, IInv, TypeOK, Task, Outcome
    <3> QED BY <2>1, <3>2, NullAssumption DEF Post, IInv, TypeOK
  <2>2. ASSUME CheckFence(d, r), Holds(d, r)
        PROVE  \A q \in RowId : task'[d][q] = NoTask => task[d][q] = NoTask
    <3>1. task[d][r] \in Task
      BY <2>2 DEF CheckFence, IInv, TypeOK
    <3>2. task'[d][r] \in Task
      BY <2>2, <3>1 DEF CheckFence, IInv, TypeOK, Task
    <3> QED BY <2>2, <3>2, NullAssumption DEF CheckFence, IInv, TypeOK
  <2>3. ASSUME CheckFence(d, r), ~Holds(d, r)
        PROVE  \A q \in RowId \ {r} : task'[d][q] = task[d][q]
    BY <2>3 DEF CheckFence, IInv, TypeOK
  <2>4. CASE ClaimRefused(d, r) \/ TaskFails(d, r) \/ Abandon(d)
    BY <2>4 DEF ClaimRefused, TaskFails, Abandon
  <2> QED BY <2>1, <2>2, <2>3, <2>4
<1>6. TaskOwnsRow'
  BY <1>1, <1>2, <1>4 DEF IInv, TaskOwnsRow, Live, Fresh, Holds
<1>7. AttemptsPaid'
  <2> SUFFICES ASSUME NEW q \in RowId, Live(q)
               PROVE  /\ rows[q].attempts <= MAX_DELIVERY_ATTEMPTS + lost'
                      /\ rows[q].status = "pending" => rows[q].attempts < MAX_DELIVERY_ATTEMPTS
                      /\ rows[q].status = "processing" =>
                            /\ rows[q].lease \in Dispatcher
                            /\ task'[rows[q].lease][q] = NoTask =>
                                rows[q].attempts < MAX_DELIVERY_ATTEMPTS + lost'
    BY <1>2 DEF AttemptsPaid, Live
  <2>1. /\ rows[q].attempts \in Nat /\ MAX_DELIVERY_ATTEMPTS \in Nat
        /\ rows[q].attempts <= MAX_DELIVERY_ATTEMPTS + lost
        /\ rows[q].status = "pending" => rows[q].attempts < MAX_DELIVERY_ATTEMPTS
    BY BoundsAssumption DEF IInv, TypeOK, Row, Live, AttemptsPaid
  <2>2. ASSUME rows[q].status = "processing"
        PROVE  /\ rows[q].lease = d
               /\ task[d][q] = NoTask => rows[q].attempts < MAX_DELIVERY_ATTEMPTS + lost
    BY <1>1, <2>2 DEF IInv, AttemptsPaid
  <2>3. ASSUME rows[q].status = "processing", task'[d][q] = NoTask
        PROVE  rows[q].attempts < MAX_DELIVERY_ATTEMPTS + lost'
    <3>1. Holds(d, q)
      BY <2>2, <2>3 DEF Holds
    <3> QED BY <1>3, <1>5, <2>1, <2>2, <2>3, <3>1
  <2> QED BY <1>3, <2>1, <2>2, <2>3
<1> QED BY <1>6, <1>7

LEMMA SelectPreserves ==
    ASSUME IInv, NEW d \in Dispatcher, SelectBatch(d)
    PROVE  TaskOwnsRow' /\ AttemptsPaid'
<1>1. UNCHANGED <<rows, task, lost>> /\ \A r \in RowId : task[d][r] = NoTask
  BY DEF SelectBatch, Running
<1>2. \A e \in Dispatcher \ {d} : batch'[e] = batch[e]
  BY DEF SelectBatch, IInv, TypeOK
<1>3. TaskOwnsRow'
  BY <1>1, <1>2 DEF IInv, TaskOwnsRow, Live, Fresh, Holds
<1>4. AttemptsPaid'
  BY <1>1 DEF IInv, AttemptsPaid, Live
<1> QED BY <1>3, <1>4

LEMMA DuePreserves ==
    ASSUME IInv, NEW r \in RowId, BecomesDue(r)
    PROVE  TaskOwnsRow' /\ AttemptsPaid'
<1>1. UNCHANGED <<batch, task, lost>> /\ Live(r) /\ rows[r] \in Row
  BY DEF BecomesDue, Queued, Live, IInv, TypeOK
<1>2. /\ rows'[r] = [rows[r] EXCEPT !.due = TRUE]
      /\ \A q \in RowId \ {r} : rows'[q] = rows[q]
  BY DEF BecomesDue, IInv, TypeOK
<1>3. \A q \in RowId : Live(q)' =>
        /\ Live(q)
        /\ rows'[q].status = rows[q].status /\ rows'[q].attempts = rows[q].attempts
        /\ rows'[q].lease = rows[q].lease
  BY <1>1, <1>2 DEF Row, Live
<1>4. TaskOwnsRow'
  BY <1>1, <1>3 DEF IInv, TaskOwnsRow, Live, Fresh, Holds
<1>5. AttemptsPaid'
  BY <1>1, <1>3 DEF IInv, AttemptsPaid
<1> QED BY <1>4, <1>5

LEMMA IInvStep == SingleDispatcher /\ IInv /\ [Next]_vars => IInv'
<1> SUFFICES ASSUME SingleDispatcher, IInv, [Next]_vars
             PROVE  TaskOwnsRow' /\ AttemptsPaid'
  BY TypeStep DEF IInv
<1>1. CASE UNCHANGED vars
  BY <1>1 DEF vars, IInv, TaskOwnsRow, AttemptsPaid, Live, Fresh, Holds
<1>2. CASE Settings
  BY <1>2, SettingsPreserves
<1>3. CASE Enqueue
  BY <1>3, EnqueuePreserves
<1>4. ASSUME NEW d \in Dispatcher, SelectBatch(d) PROVE TaskOwnsRow' /\ AttemptsPaid'
  BY <1>4, SelectPreserves
<1>5. ASSUME NEW d \in Dispatcher, NEW r \in RowId, TaskStep(d, r)
      PROVE  TaskOwnsRow' /\ AttemptsPaid'
  BY <1>5, ClaimPreserves, WritePreserves, TaskPreserves DEF TaskStep
<1>6. CASE Fault
  <2>1. ASSUME NEW d \in Dispatcher, Abandon(d) PROVE TaskOwnsRow' /\ AttemptsPaid'
    <3>1. CASE RowId = {}
      BY <2>1, <3>1 DEF TaskOwnsRow, AttemptsPaid
    <3>2. CASE RowId # {}
      BY <2>1, <3>2, TaskPreserves
    <3> QED BY <3>1, <3>2
  <2> QED BY <1>6, <2>1, TaskPreserves DEF Fault
<1>7. CASE Clock
  <2>1. ASSUME NEW n \in RowId, Cleanup(n) PROVE TaskOwnsRow' /\ AttemptsPaid'
    <3> DEFINE S == {r \in RowId : Expired(r, n)}
    <3>1. rows' = [r \in RowId |-> IF r \in S THEN NoRow ELSE rows[r]]
      BY <2>1 DEF Cleanup
    <3>2. Erases /\ UNCHANGED <<batch, task, lost>>
      BY <2>1, <3>1 DEF Erases, Cleanup
    <3> QED BY <3>2, ErasePreserves
  <2> QED BY <1>7, <2>1, DuePreserves DEF Clock
<1> QED BY <1>1, <1>2, <1>3, <1>4, <1>5, <1>6, <1>7 DEF Next

LEMMA IInvAlways ==
    ASSUME SingleDispatcher
    PROVE  Spec => []IInv
<1>1. Init => IInv
  BY DEF Init, IInv, TypeOK, TaskOwnsRow, AttemptsPaid, Live
<1>2. IInv /\ [Next]_vars => IInv'
  BY IInvStep
<1> QED BY <1>1, <1>2, PTL DEF Spec

\* With one dispatcher, the row a running task writes is gone, its own, or a
\* fresh delivery under a reused id: never one that was already settled.
THEOREM TasksOwnTheirRows ==
    ASSUME SingleDispatcher
    PROVE  Spec => []TaskOwnsRow
<1>1. IInv => TaskOwnsRow
  BY DEF IInv
<1> QED BY <1>1, IInvAlways, PTL

\* With one dispatcher, every claim beyond MAX_DELIVERY_ATTEMPTS replaces one
\* lost to a killed job or a failed task.
THEOREM RetriesAreBounded ==
    ASSUME SingleDispatcher
    PROVE  Spec => []AttemptsBounded
<1>1. IInv => AttemptsBounded
  BY DEF IInv, AttemptsPaid, AttemptsBounded
<1> QED BY <1>1, IInvAlways, PTL

-----------------------------------------------------------------------------
(***************************************************************************)
(* The queue cap, and that nothing un-sends a delivery.                    *)
(***************************************************************************)
\* Steps that are not enqueues never add to a user's queue.
LEMMA QueueShrinks ==
    ASSUME TypeOK, NEW u \in User, Erases \/ Updates \/ rows' = rows
    PROVE  QueueOf(u)' \subseteq QueueOf(u)
<1>1. CASE Erases
  BY <1>1 DEF Erases, QueueOf, Queued, Live
<1>2. CASE Updates
  <2>1. PICK r \in RowId, x \in Row :
          Queued(r) /\ x.key = rows[r].key /\ rows' = [rows EXCEPT ![r] = x]
    BY <1>2 DEF Updates
  <2>2. rows'[r] = x /\ \A q \in RowId \ {r} : rows'[q] = rows[q]
    BY <2>1 DEF TypeOK
  <2> QED BY <2>1, <2>2 DEF QueueOf, Queued, Live
<1>3. CASE rows' = rows
  BY <1>3 DEF QueueOf, Queued, Live
<1> QED BY <1>1, <1>2, <1>3

LEMMA QueueFinite == \A u \in User : IsFiniteSet(QueueOf(u))
BY BoundsAssumption, FS_Subset DEF QueueOf

LEMMA EnqueueKeepsCap ==
    ASSUME TypeOK, QueueCap, Enqueue
    PROVE  QueueCap'
<1>1. PICK r \in RowId, k \in Key :
        QueueHasRoom(k.user) /\ rows' = [rows EXCEPT ![r] = FreshRow(k)]
  <2>1. ASSUME NEW r \in RowId, Redrive(r)
        PROVE  /\ rows[r].key \in Key /\ QueueHasRoom(rows[r].key.user)
               /\ rows' = [rows EXCEPT ![r] = FreshRow(rows[r].key)]
    BY <2>1 DEF Redrive, Live, TypeOK, Row
  <2> QED BY <2>1 DEF Enqueue, Insert
<1>2. rows'[r] = FreshRow(k) /\ \A q \in RowId \ {r} : rows'[q] = rows[q]
  BY <1>1 DEF TypeOK
<1>3. ASSUME NEW u \in User
      PROVE  Cardinality(QueueOf(u)') <= MAX_PENDING_PER_USER
  <2>1. IsFiniteSet(QueueOf(u)) /\ Cardinality(QueueOf(u)) \in Nat
    BY QueueFinite, FS_CardinalityType
  <2>2. CASE k.user = u
    <3>1. QueueOf(u)' \subseteq QueueOf(u) \cup {r}
      BY <1>2 DEF QueueOf, Queued, Live
    <3>2. /\ IsFiniteSet(QueueOf(u) \cup {r})
          /\ Cardinality(QueueOf(u) \cup {r}) <= Cardinality(QueueOf(u)) + 1
      BY <2>1, FS_AddElement
    <3>3. Cardinality(QueueOf(u)) < MAX_PENDING_PER_USER
      BY <1>1, <2>2 DEF QueueHasRoom
    <3>4. Cardinality(QueueOf(u)') <= Cardinality(QueueOf(u) \cup {r})
      BY <3>1, <3>2, FS_Subset
    <3>5. Cardinality(QueueOf(u)') \in Nat /\ Cardinality(QueueOf(u) \cup {r}) \in Nat
      BY <3>1, <3>2, FS_Subset, FS_CardinalityType
    <3> QED BY <2>1, <3>2, <3>3, <3>4, <3>5, BoundsAssumption
  <2>3. CASE k.user # u
    <3>1. QueueOf(u)' \subseteq QueueOf(u)
      BY <1>2, <2>3 DEF QueueOf, Queued, Live, FreshRow
    <3>2. Cardinality(QueueOf(u)') <= Cardinality(QueueOf(u))
      BY <2>1, <3>1, FS_Subset
    <3>3. Cardinality(QueueOf(u)') \in Nat
      BY <2>1, <3>1, FS_Subset, FS_CardinalityType
    <3> QED BY <2>1, <3>2, <3>3, BoundsAssumption DEF QueueCap
  <2> QED BY <2>2, <2>3
<1> QED BY <1>3 DEF QueueCap

LEMMA CapStep == IInv /\ QueueCap /\ [Next]_vars => QueueCap'
<1> SUFFICES ASSUME IInv, QueueCap, [Next]_vars PROVE QueueCap'
  OBVIOUS
<1>1. CASE Enqueue
  BY <1>1, EnqueueKeepsCap DEF IInv
<1>2. CASE ~Enqueue
  <2>1. Erases \/ Updates \/ rows' = rows
    BY <1>2, RowStep DEF IInv, vars
  <2> SUFFICES ASSUME NEW u \in User
               PROVE  Cardinality(QueueOf(u)') <= MAX_PENDING_PER_USER
    BY DEF QueueCap
  <2>2. QueueOf(u)' \subseteq QueueOf(u)
    BY <2>1, QueueShrinks DEF IInv
  <2>3. IsFiniteSet(QueueOf(u)) /\ Cardinality(QueueOf(u)) \in Nat
    BY QueueFinite, FS_CardinalityType
  <2>4. /\ Cardinality(QueueOf(u)') <= Cardinality(QueueOf(u))
        /\ Cardinality(QueueOf(u)') \in Nat
    BY <2>2, <2>3, FS_Subset, FS_CardinalityType
  <2> QED BY <2>3, <2>4, BoundsAssumption DEF QueueCap
<1> QED BY <1>1, <1>2

\* The per-user cap is hard with one dispatcher, for any number of users, rows,
\* channels and concurrent enqueues.
THEOREM QueueIsCapped ==
    ASSUME SingleDispatcher
    PROVE  Spec => []QueueCap
<1>1. Init => QueueCap
  <2>1. ASSUME Init, NEW u \in User PROVE QueueOf(u) = {}
    BY <2>1 DEF Init, QueueOf, Queued, Live
  <2> QED BY <2>1, FS_EmptySet, BoundsAssumption DEF QueueCap
<1>2. IInv /\ QueueCap /\ [Next]_vars => QueueCap'
  BY CapStep
<1> QED BY <1>1, <1>2, IInvAlways, PTL DEF Spec

\* A delivery recorded as sent is never queued, failed or cancelled afterwards,
\* with one dispatcher.
THEOREM SentStaysSent ==
    ASSUME SingleDispatcher
    PROVE  Spec => SentIsFinal
<1> DEFINE Final == \A r \in RowId :
                      Live(r) /\ rows[r].status = "sent" /\ Live(r)' => rows'[r].status = "sent"
<1>1. IInv /\ [Next]_vars => [Final]_vars
  <2> SUFFICES ASSUME IInv, Next, NEW r \in RowId,
                      Live(r), rows[r].status = "sent", Live(r)'
               PROVE  rows'[r].status = "sent"
    OBVIOUS
  <2>1. CASE Enqueue
    <3>1. ASSUME NEW k \in Key, NEW q \in RowId, Insert(k, q) PROVE q # r
      <4>1. q = r => r < r
        BY <3>1 DEF Insert, NextRowId
      <4> QED BY <4>1, BoundsAssumption
    <3>2. ASSUME NEW q \in RowId, Redrive(q) PROVE q # r
      BY <3>2 DEF Redrive, Redrivable
    <3>3. rows'[r] = rows[r]
      BY <2>1, <3>1, <3>2 DEF Enqueue, Insert, Redrive, IInv, TypeOK
    <3> QED BY <3>3
  <2>2. CASE ~Enqueue
    <3>1. Erases \/ Updates \/ rows' = rows
      BY <2>2, RowStep DEF IInv
    <3>2. Erases => rows'[r] = rows[r]
      BY DEF Erases, Live
    <3>3. Updates => rows'[r] = rows[r]
      BY DEF Updates, Queued, Active, IInv, TypeOK
    <3> QED BY <3>1, <3>2, <3>3
  <2> QED BY <2>1, <2>2
<1> QED BY <1>1, IInvAlways, PTL DEF Spec, SentIsFinal

-----------------------------------------------------------------------------
(***************************************************************************)
(* The outbox implements the queue its callers see.                        *)
(***************************************************************************)
LEMMA ItemOf ==
    ASSUME TypeOK, NEW r \in RowId, Live(r)
    PROVE  /\ items[r] = [user |-> rows[r].key.user, state |-> AbstractState(rows[r].status)]
           /\ items[r] # NoRow
           /\ AbstractState(rows[r].status) = "queued" <=> rows[r].status \in Active
<1>1. rows[r] \in Row
  BY DEF TypeOK, Live
<1>2. items[r] = [user |-> rows[r].key.user, state |-> AbstractState(rows[r].status)]
  BY DEF items
<1>3. rows[r].key.user \in User /\ AbstractState(rows[r].status) \in {"queued", "delivered", "dropped"}
  BY <1>1 DEF Row, Key, AbstractState
<1>4. items[r] # NoRow
  BY <1>2, <1>3, NullAssumption
<1>5. AbstractState(rows[r].status) = "queued" <=> rows[r].status \in Active
  BY DEF AbstractState
<1> QED BY <1>2, <1>4, <1>5

LEMMA SameRoom ==
    ASSUME TypeOK, NEW u \in User
    PROVE  Queue!HasRoom(u) <=> QueueHasRoom(u)
<1>1. \A r \in RowId : ~Live(r) => items[r] = NoRow
  BY DEF items
<1>2. \A r \in RowId : Live(r) =>
        /\ items[r] # NoRow
        /\ items[r].user = rows[r].key.user
        /\ items[r].state = "queued" <=> rows[r].status \in Active
  <2> SUFFICES ASSUME NEW r \in RowId, Live(r)
               PROVE  /\ items[r] # NoRow
                      /\ items[r].user = rows[r].key.user
                      /\ items[r].state = "queued" <=> rows[r].status \in Active
    OBVIOUS
  <2>1. /\ items[r] = [user |-> rows[r].key.user, state |-> AbstractState(rows[r].status)]
        /\ items[r] # NoRow
        /\ AbstractState(rows[r].status) = "queued" <=> rows[r].status \in Active
    BY ItemOf
  <2> QED BY <2>1
<1>3. Queue!QueuedItems(u) = QueueOf(u)
  BY <1>1, <1>2 DEF Queue!QueuedItems, QueueOf, Queued
<1>4. Queue!Cardinality(QueueOf(u)) = Cardinality(QueueOf(u))
  BY DEF Queue!Cardinality, Cardinality
<1> QED BY <1>3, <1>4 DEF Queue!HasRoom, QueueHasRoom

LEMMA EnqueueRefines ==
    ASSUME TypeOK, TypeOK', Enqueue
    PROVE  Queue!Next
<1>1. ASSUME NEW r \in RowId, NEW k \in Key, rows' = [rows EXCEPT ![r] = FreshRow(k)]
      PROVE  items' = [items EXCEPT ![r] = [user |-> k.user, state |-> "queued"]]
  <2>1. rows'[r] = FreshRow(k) /\ \A q \in RowId \ {r} : rows'[q] = rows[q]
    BY <1>1 DEF TypeOK
  <2>2. FreshRow(k) # NoRow /\ FreshRow(k).key = k /\ FreshRow(k).status = "pending"
    BY NullAssumption, FreshRowType DEF FreshRow
  <2> QED BY <2>1, <2>2 DEF items, Live, AbstractState, Active
<1>2. ASSUME NEW r \in RowId, NEW k \in Key, Insert(k, r)
      PROVE  Queue!Submit(r, k.user)
  <2>1. ~Live(r)
    <3>1. Live(r) => r < r
      BY <1>2 DEF Insert, NextRowId
    <3> QED BY <3>1, BoundsAssumption
  <2>2. items[r] = NoRow
    BY <2>1 DEF items
  <2>3. Queue!HasRoom(k.user)
    BY <1>2, SameRoom DEF Insert, Key
  <2> QED BY <1>1, <1>2, <2>2, <2>3 DEF Queue!Submit, Insert
<1>3. ASSUME NEW r \in RowId, Redrive(r)
      PROVE  Queue!Resubmit(r)
  <2>1. Live(r) /\ rows[r] \in Row /\ rows[r].key \in Key /\ rows[r].key.user \in User
    BY <1>3 DEF Redrive, Live, TypeOK, Row, Key
  <2>2. /\ items[r] = [user |-> rows[r].key.user, state |-> "dropped"]
        /\ items[r] # NoRow
    BY <1>3, <2>1, ItemOf DEF Redrive, Redrivable, AbstractState, Active
  <2>3. Queue!HasRoom(items[r].user)
    BY <1>3, <2>1, <2>2, SameRoom DEF Redrive
  <2>4. items' = [items EXCEPT ![r] = [user |-> rows[r].key.user, state |-> "queued"]]
    BY <1>1, <1>3, <2>1 DEF Redrive
  <2>5. [items[r] EXCEPT !.state = "queued"] = [user |-> rows[r].key.user, state |-> "queued"]
    BY <2>2
  <2>6. items' = [items EXCEPT ![r].state = "queued"]
    BY <2>4, <2>5, Zenon
  <2> QED BY <2>2, <2>3, <2>6 DEF Queue!Resubmit
<1>4. PICK r \in RowId : (\E k \in Key : Insert(k, r)) \/ Redrive(r)
  BY DEF Enqueue
<1> QED BY <1>2, <1>3, <1>4 DEF Queue!Next, Key

LEMMA RowStepRefines ==
    ASSUME TypeOK, TypeOK', Erases \/ Updates \/ rows' = rows
    PROVE  Queue!Next \/ items' = items
<1>1. CASE Erases
  <2>1. PICK S \in SUBSET RowId :
          rows' = [r \in RowId |-> IF r \in S THEN NoRow ELSE rows[r]]
    BY <1>1 DEF Erases
  <2>2. items' = [r \in RowId |-> IF r \in S THEN NoRow ELSE items[r]]
    BY <2>1 DEF items, Live
  <2> QED BY <2>2 DEF Queue!Next, Queue!Remove
<1>2. CASE Updates
  <2>1. PICK r \in RowId, x \in Row :
          Queued(r) /\ x.key = rows[r].key /\ rows' = [rows EXCEPT ![r] = x]
    BY <1>2 DEF Updates
  <2>2. rows'[r] = x /\ \A q \in RowId \ {r} : rows'[q] = rows[q]
    BY <2>1 DEF TypeOK
  <2>3. x # NoRow
    BY NullAssumption
  <2>4. /\ items[r] = [user |-> rows[r].key.user, state |-> "queued"]
        /\ items[r] # NoRow
    BY <2>1, ItemOf DEF Queued, AbstractState
  <2>5. items' = [items EXCEPT ![r] = [user |-> rows[r].key.user, state |-> AbstractState(x.status)]]
    BY <2>1, <2>2, <2>3 DEF items, Live
  <2>6. CASE x.status \in Active
    BY <2>4, <2>5, <2>6 DEF AbstractState, items
  <2>7. CASE x.status \notin Active
    <3>1. AbstractState(x.status) \in {"delivered", "dropped"}
      BY <2>7 DEF AbstractState
    <3>2. [items[r] EXCEPT !.state = AbstractState(x.status)]
            = [user |-> rows[r].key.user, state |-> AbstractState(x.status)]
      BY <2>4
    <3>3. items' = [items EXCEPT ![r].state = AbstractState(x.status)]
      BY <2>5, <3>2, Zenon
    <3>4. items[r].state = "queued"
      BY <2>4
    <3>5. Queue!Settle(r)
      BY <2>4, <3>1, <3>3, <3>4, Zenon DEF Queue!Settle
    <3> QED BY <3>5 DEF Queue!Next
  <2> QED BY <2>6, <2>7
<1>3. CASE rows' = rows
  BY <1>3 DEF items, Live
<1> QED BY <1>1, <1>2, <1>3

\* With one dispatcher, leases, retries, faults, cascades and cleanups add up to
\* the bounded queue of DeliveryQueue.
THEOREM OutboxImplementsQueue ==
    ASSUME SingleDispatcher
    PROVE  Spec => ImplementsQueue
<1>1. Init => Queue!Init
  BY DEF Init, Queue!Init, items, Live
<1>2. IInv /\ IInv' /\ [Next]_vars => [Queue!Next]_items
  <2> SUFFICES ASSUME IInv, IInv', [Next]_vars PROVE Queue!Next \/ items' = items
    OBVIOUS
  <2>1. CASE Enqueue
    BY <2>1, EnqueueRefines DEF IInv
  <2>2. CASE ~Enqueue
    <3>1. Erases \/ Updates \/ rows' = rows
      BY <2>2, RowStep DEF IInv, vars
    <3> QED BY <3>1, RowStepRefines DEF IInv
  <2> QED BY <2>1, <2>2
<1> QED BY <1>1, <1>2, IInvAlways, PTL DEF Spec, ImplementsQueue, Queue!Spec

-----------------------------------------------------------------------------
(***************************************************************************)
(* What holds for any number of dispatchers: no duplicate rows, and no     *)
(* redirected delivery.                                                    *)
(***************************************************************************)
LEMMA KeysKept ==
    ASSUME TypeOK, Next, ~\E k \in Key, r \in RowId : Insert(k, r), NEW q \in RowId, Live(q)'
    PROVE  Live(q) /\ rows'[q].key = rows[q].key
<1> DEFINE Kept == Live(q) /\ rows'[q].key = rows[q].key
<1>1. Live(q) => rows[q] \in Row
  BY DEF TypeOK, Live
<1>2. CASE rows'[q] = rows[q]
  BY <1>2 DEF Live
<1>3. CASE Settings
  BY <1>3 DEF Settings, CreateChannel, UpdateChannel, SetChannel, DeleteChannel, Live
<1>4. CASE Enqueue
  BY <1>4 DEF Enqueue, Redrive, FreshRow, TypeOK, Live
<1>5. ASSUME NEW d \in Dispatcher, NEW r \in RowId, Claim(d, r) PROVE Kept
  <2>1. Live(r) /\ rows[r] \in Row
    BY <1>5 DEF Claim, Due, Queued, Live, TypeOK
  <2>2. q # r => rows'[q] = rows[q]
    BY <1>5 DEF Claim, TypeOK
  <2>3. rows'[r].key = rows[r].key
    BY <1>5, <2>1 DEF Claim, TypeOK, Row
  <2> QED BY <1>2, <2>1, <2>2, <2>3
<1>6. ASSUME NEW d \in Dispatcher, NEW r \in RowId, Write(d, r) PROVE Kept
  <2>1. q # r => rows'[q] = rows[q]
    BY <1>6 DEF Write, TypeOK
  <2>2. CASE ~Live(r)
    BY <1>2, <1>6, <2>2 DEF Write
  <2>3. CASE Live(r)
    <3>1. rows[r] \in Row
      BY <2>3 DEF Live, TypeOK
    <3>2. rows'[r].key = rows[r].key
      BY <1>6, <2>3, <3>1 DEF Write, TypeOK, Row
    <3> QED BY <1>2, <2>1, <2>3, <3>2
  <2> QED BY <2>2, <2>3
<1>7. ASSUME NEW r \in RowId, BecomesDue(r) PROVE Kept
  <2>1. Live(r) /\ rows[r] \in Row
    BY <1>7 DEF BecomesDue, Queued, Live, TypeOK
  <2>2. q # r => rows'[q] = rows[q]
    BY <1>7 DEF BecomesDue, TypeOK
  <2>3. rows'[r].key = rows[r].key
    BY <1>7, <2>1 DEF BecomesDue, TypeOK, Row
  <2> QED BY <1>2, <2>1, <2>2, <2>3
<1>8. ASSUME NEW n \in RowId, Cleanup(n) PROVE Kept
  BY <1>8 DEF Cleanup, Live
<1>9. ASSUME NEW d \in Dispatcher, SelectBatch(d) \/ Abandon(d) PROVE Kept
  BY <1>2, <1>9 DEF SelectBatch, Abandon
<1>10. ASSUME NEW d \in Dispatcher, NEW r \in RowId,
              \/ ClaimRefused(d, r)
              \/ \E o \in {"success", "permanent", "transient"} : Post(d, r, o)
              \/ CheckFence(d, r)
              \/ TaskFails(d, r)
       PROVE  Kept
  BY <1>2, <1>10 DEF ClaimRefused, Post, CheckFence, TaskFails
<1> QED BY <1>3, <1>4, <1>5, <1>6, <1>7, <1>8, <1>9, <1>10 DEF Next, TaskStep, Fault, Clock

\* Whatever enqueues, redrives, cascades, cleanups and dispatchers do, one
\* delivery has at most one row.
THEOREM DeliveriesHaveOneRow == Spec => []OneRowPerDelivery
<1>1. Init => OneRowPerDelivery
  BY DEF Init, OneRowPerDelivery, Live
<1>2. TypeOK /\ OneRowPerDelivery /\ [Next]_vars => OneRowPerDelivery'
  <2> SUFFICES ASSUME TypeOK, OneRowPerDelivery, [Next]_vars PROVE OneRowPerDelivery'
    OBVIOUS
  <2>1. CASE UNCHANGED vars
    BY <2>1 DEF vars, OneRowPerDelivery, Live
  <2>2. ASSUME NEW k \in Key, NEW r \in RowId, Insert(k, r) PROVE OneRowPerDelivery'
    <3>1. rows'[r].key = k /\ \A q \in RowId \ {r} : rows'[q] = rows[q]
      BY <2>2 DEF Insert, TypeOK, FreshRow
    <3>2. \A q \in RowId : Live(q) => rows[q].key # k
      BY <2>2 DEF Insert
    <3> QED BY <3>1, <3>2 DEF OneRowPerDelivery, Live
  <2>3. CASE Next /\ ~\E k \in Key, r \in RowId : Insert(k, r)
    BY <2>3, KeysKept DEF OneRowPerDelivery
  <2> QED BY <2>1, <2>2, <2>3
<1> QED BY <1>1, <1>2, TypeCorrect, PTL DEF Spec

\* The strengthening for NeverRedirected: an enabled channel is one a scan may
\* have read.
ChannelsRemembered ==
    \A c \in Channel : channels[c] # NoChannel /\ channels[c].enabled =>
        <<channels[c].owner, channels[c].config>> \in ever[c]

LEMMA OnlySettingsTouchChannels == [Next]_vars /\ ~Settings => UNCHANGED <<channels, ever>>
<1> SUFFICES ASSUME [Next]_vars, ~Settings PROVE UNCHANGED <<channels, ever>>
  OBVIOUS
<1>1. CASE UNCHANGED vars
  BY <1>1 DEF vars
<1>2. CASE Enqueue
  BY <1>2 DEF Enqueue, Insert, Redrive
<1>3. ASSUME NEW d \in Dispatcher, SelectBatch(d) PROVE UNCHANGED <<channels, ever>>
  BY <1>3 DEF SelectBatch
<1>4. ASSUME NEW d \in Dispatcher, NEW r \in RowId, TaskStep(d, r)
      PROVE  UNCHANGED <<channels, ever>>
  <2>1. CASE Claim(d, r)
    BY <2>1 DEF Claim
  <2>2. CASE ClaimRefused(d, r)
    BY <2>2 DEF ClaimRefused
  <2>3. ASSUME NEW o, Post(d, r, o) PROVE UNCHANGED <<channels, ever>>
    BY <2>3 DEF Post
  <2>4. CASE CheckFence(d, r)
    BY <2>4 DEF CheckFence
  <2>5. CASE Write(d, r)
    BY <2>5 DEF Write
  <2> QED BY <1>4, <2>1, <2>2, <2>3, <2>4, <2>5 DEF TaskStep
<1>5. CASE Fault
  BY <1>5 DEF Fault, Abandon, TaskFails
<1>6. CASE Clock
  BY <1>6 DEF Clock, BecomesDue, Cleanup
<1> QED BY <1>1, <1>2, <1>3, <1>4, <1>5, <1>6 DEF Next

LEMMA RememberedStep == TypeOK /\ ChannelsRemembered /\ [Next]_vars => ChannelsRemembered'
<1> SUFFICES ASSUME TypeOK, ChannelsRemembered, [Next]_vars PROVE ChannelsRemembered'
  OBVIOUS
<1>1. CASE UNCHANGED <<channels, ever>>
  BY <1>1 DEF ChannelsRemembered
<1>2. ASSUME NEW c \in Channel, NEW u, NEW e \in BOOLEAN, NEW f, SetChannel(c, u, e, f)
      PROVE  ChannelsRemembered'
  <2>1. /\ channels'[c] = [owner |-> u, enabled |-> e, config |-> f]
        /\ ever'[c] = IF e THEN ever[c] \cup {<<u, f>>} ELSE ever[c]
        /\ \A b \in Channel \ {c} : channels'[b] = channels[b] /\ ever'[b] = ever[b]
    BY <1>2 DEF SetChannel, TypeOK
  <2> QED BY <2>1 DEF ChannelsRemembered
<1>3. ASSUME NEW c \in Channel, DeleteChannel(c) PROVE ChannelsRemembered'
  BY <1>3 DEF DeleteChannel, ChannelsRemembered, TypeOK
<1>4. CASE Settings
  BY <1>2, <1>3, <1>4 DEF Settings, CreateChannel, UpdateChannel
<1>5. CASE ~Settings
  BY <1>1, <1>5, OnlySettingsTouchChannels
<1> QED BY <1>4, <1>5

LEMMA EverGrows == TypeOK /\ [Next]_vars => \A c \in Channel : ever[c] \subseteq ever'[c]
<1> SUFFICES ASSUME TypeOK, [Next]_vars PROVE \A c \in Channel : ever[c] \subseteq ever'[c]
  OBVIOUS
<1>1. CASE UNCHANGED ever
  BY <1>1
<1>2. CASE Settings
  BY <1>2 DEF Settings, CreateChannel, UpdateChannel, SetChannel, DeleteChannel, TypeOK
<1>3. CASE ~Settings
  BY <1>1, <1>3, OnlySettingsTouchChannels
<1> QED BY <1>2, <1>3

\* The only step that makes a task post is a claim that found the channel valid.
LEMMA RedirectStep ==
    TypeOK /\ TypeOK' /\ ChannelsRemembered /\ NeverRedirected /\ [Next]_vars => NeverRedirected'
<1> SUFFICES ASSUME TypeOK, TypeOK', ChannelsRemembered, NeverRedirected, [Next]_vars,
                    NEW e \in Dispatcher, NEW q \in RowId,
                    task'[e][q] # NoTask, task'[e][q].pc = "post"
             PROVE  /\ task'[e][q].target = <<task'[e][q].key.user, task'[e][q].key.config>>
                    /\ task'[e][q].target \in ever'[task'[e][q].key.channel]
  BY DEF NeverRedirected
<1>1. task'[e][q].key.channel \in Channel
  BY DEF TypeOK, Task, Key
<1>2. CASE task'[e][q] = task[e][q]
  BY <1>1, <1>2, EverGrows DEF NeverRedirected
<1>3. ASSUME NEW d \in Dispatcher, NEW r \in RowId, Claim(d, r), d = e, r = q
      PROVE  /\ task'[e][q].target = <<task'[e][q].key.user, task'[e][q].key.config>>
             /\ task'[e][q].target \in ever'[task'[e][q].key.channel]
  <2> DEFINE k == rows[r].key
  <2>1. task'[e][q] = NewTask(k, rows[r].attempts + 1) /\ ever' = ever
    BY <1>3 DEF Claim, TypeOK
  <2>2. StillValid(k)
    BY <2>1 DEF NewTask
  <2>3. /\ task'[e][q].key = k
        /\ task'[e][q].target = <<channels[k.channel].owner, channels[k.channel].config>>
    BY <2>1, <2>2 DEF NewTask
  <2> QED BY <1>1, <2>1, <2>2, <2>3 DEF StillValid, ChannelsRemembered
<1>4. ASSUME NEW d \in Dispatcher, NEW r \in RowId, TaskStep(d, r), ~(Claim(d, r) /\ d = e /\ r = q)
      PROVE  task'[e][q] = task[e][q]
  <2>1. ASSUME NEW o \in {"success", "permanent", "transient"}, Post(d, r, o)
        PROVE  task'[e][q] = task[e][q]
    <3>1. task[d][r] \in Task
      BY <2>1 DEF Post, TypeOK
    <3>2. task'[d][r].pc = "record"
      BY <2>1, <3>1 DEF Post, TypeOK, Task
    <3> QED BY <2>1, <3>2 DEF Post, TypeOK
  <2>2. CASE CheckFence(d, r)
    <3>1. task[d][r] \in Task
      BY <2>2 DEF CheckFence, TypeOK
    <3>2. task'[d][r] = NoTask \/ task'[d][r].pc = "write"
      BY <2>2, <3>1 DEF CheckFence, TypeOK, Task
    <3> QED BY <2>2, <3>2 DEF CheckFence, TypeOK
  <2>3. CASE Claim(d, r)
    BY <1>4, <2>3 DEF Claim, TypeOK
  <2>4. CASE ClaimRefused(d, r)
    BY <2>4 DEF ClaimRefused
  <2>5. CASE Write(d, r)
    BY <2>5 DEF Write, TypeOK
  <2> QED BY <1>4, <2>1, <2>2, <2>3, <2>4, <2>5 DEF TaskStep
<1>5. CASE Fault
  <2>1. task'[e][q] = task[e][q]
    BY <1>5 DEF Fault, Abandon, TaskFails, TypeOK
  <2> QED BY <1>2, <2>1
<1>6. CASE task' = task
  BY <1>2, <1>6
<1> QED BY <1>2, <1>3, <1>4, <1>5, <1>6 DEF vars, Next, Settings, CreateChannel, UpdateChannel,
      SetChannel, DeleteChannel, Enqueue, Insert, Redrive, SelectBatch, Clock, BecomesDue, Cleanup

\* A signal is only ever posted to its own user's channel, in the configuration
\* it was queued for, whatever happens to channels while it waits.
THEOREM SignalsAreNeverRedirected == Spec => []NeverRedirected
<1>1. Init => NeverRedirected /\ ChannelsRemembered
  BY DEF Init, NeverRedirected, ChannelsRemembered
<1> QED BY <1>1, TypeStep, TypeCorrect, RememberedStep, RedirectStep, PTL DEF Spec

-----------------------------------------------------------------------------
(***************************************************************************)
(* The fence of one dispatcher, as long as no channel is deleted: then a   *)
(* row with a task can only be settled by that task.                       *)
(***************************************************************************)
LeasesKept ==
    \A d \in Dispatcher, r \in RowId : task[d][r] # NoTask => Holds(d, r)

LEMMA LeasesKeptStep ==
    ASSUME SingleDispatcher, ~ChannelsMayVanish, TypeOK, TaskOwnsRow, LeasesKept, [Next]_vars
    PROVE  LeasesKept'
<1> SUFFICES ASSUME NEW e \in Dispatcher, NEW q \in RowId, task'[e][q] # NoTask
             PROVE  Holds(e, q)'
  BY DEF LeasesKept
<1>1. ASSUME task[e][q] # NoTask, rows'[q] = rows[q] PROVE Holds(e, q)'
  BY <1>1 DEF LeasesKept, Holds, Live
<1>2. CASE UNCHANGED <<rows, task>>
  BY <1>1, <1>2
<1>3. CASE Settings
  BY <1>2, <1>3 DEF Settings, CreateChannel, UpdateChannel, SetChannel, DeleteChannel
<1>4. ASSUME NEW k \in Key, NEW r \in RowId, Insert(k, r) PROVE Holds(e, q)'
  <2>1. task[e][q] # NoTask /\ Live(q)
    BY <1>4 DEF Insert, LeasesKept, Holds
  <2>2. q # r
    BY <1>4, <2>1, BoundsAssumption DEF Insert, NextRowId
  <2> QED BY <1>1, <1>4, <2>1, <2>2 DEF Insert, TypeOK
<1>5. ASSUME NEW r \in RowId, Redrive(r) PROVE Holds(e, q)'
  <2>1. task[e][q] # NoTask /\ rows[q].status = "processing"
    BY <1>5 DEF Redrive, LeasesKept, Holds
  <2>2. q # r
    BY <1>5, <2>1 DEF Redrive, Redrivable
  <2> QED BY <1>1, <1>5, <2>1, <2>2 DEF Redrive, TypeOK
<1>6. ASSUME NEW d \in Dispatcher, NEW r \in RowId, Claim(d, r) PROVE Holds(e, q)'
  <2>1. CASE q = r
    <3>1. rows[r] \in Row /\ d = e /\ Live(r)
      BY <1>6 DEF SingleDispatcher, Claim, Due, Queued, Live, TypeOK
    <3>2. rows'[r] = [rows[r] EXCEPT !.status = "processing", !.attempts = @ + 1,
                                     !.due = FALSE, !.lease = d]
      BY <1>6 DEF Claim, TypeOK
    <3>3. rows'[r].status = "processing" /\ rows'[r].lease = d
      BY <3>1, <3>2 DEF Row
    <3>4. rows'[r] # NoRow
      <4>1. rows'[r].key = rows[r].key /\ rows'[r].due = FALSE
        BY <3>1, <3>2 DEF Row
      <4>2. rows[r].attempts + 1 \in Nat /\ rows[r].key \in Key
        BY <3>1 DEF Row
      <4>3. rows'[r] \in Row
        <5> DEFINE n == rows[r].attempts + 1
        <5>1. rows'[r] = [rows[r] EXCEPT !.status = "processing", !.attempts = n,
                                         !.due = FALSE, !.lease = d]
          BY <3>2
        <5>2. n \in Nat
          BY <4>2
        <5> HIDE DEF n
        <5> QED BY <3>1, <5>1, <5>2 DEF Row, Active
      <4> QED BY <4>3, NullAssumption
    <3> QED BY <2>1, <3>1, <3>3, <3>4 DEF Holds, Live
  <2>2. CASE q # r
    BY <1>1, <1>6, <2>2 DEF Claim, TypeOK
  <2> QED BY <2>1, <2>2
<1>7. ASSUME NEW d \in Dispatcher, NEW r \in RowId, Write(d, r) PROVE Holds(e, q)'
  <2>1. q # r
    BY <1>7 DEF SingleDispatcher, Write, TypeOK
  <2> QED BY <1>1, <1>7, <2>1 DEF Write, TypeOK
<1>8. ASSUME NEW d \in Dispatcher, NEW r \in RowId,
             \/ ClaimRefused(d, r)
             \/ \E o \in {"success", "permanent", "transient"} : Post(d, r, o)
             \/ CheckFence(d, r)
             \/ TaskFails(d, r)
      PROVE  Holds(e, q)'
  <2>1. rows' = rows /\ task[e][q] # NoTask
    <3>1. CASE ClaimRefused(d, r)
      BY <3>1 DEF ClaimRefused
    <3>2. ASSUME NEW o, Post(d, r, o) PROVE rows' = rows /\ task[e][q] # NoTask
      BY <3>2 DEF Post, TypeOK
    <3>3. CASE CheckFence(d, r)
      BY <3>3 DEF CheckFence, TypeOK
    <3>4. CASE TaskFails(d, r)
      BY <3>4 DEF TaskFails, TypeOK
    <3> QED BY <1>8, <3>1, <3>2, <3>3, <3>4
  <2> QED BY <1>1, <2>1
<1>9. ASSUME NEW d \in Dispatcher, SelectBatch(d) \/ Abandon(d) PROVE Holds(e, q)'
  BY <1>1, <1>9 DEF SelectBatch, Abandon, TypeOK
<1>10. ASSUME NEW r \in RowId, BecomesDue(r) PROVE Holds(e, q)'
  <2>1. task[e][q] # NoTask /\ Holds(e, q)
    BY <1>10 DEF BecomesDue, LeasesKept
  <2>2. CASE q = r
    <3>1. rows[r] \in Row /\ rows'[r] = [rows[r] EXCEPT !.due = TRUE]
      BY <1>10 DEF BecomesDue, Queued, Live, TypeOK
    <3>2. rows'[r] \in Row /\ rows'[r].status = rows[r].status /\ rows'[r].lease = rows[r].lease
      BY <3>1 DEF Row
    <3> QED BY <2>1, <2>2, <3>2, NullAssumption DEF Holds, Live
  <2>3. CASE q # r
    BY <1>1, <1>10, <2>1, <2>3 DEF BecomesDue, TypeOK
  <2> QED BY <2>2, <2>3
<1>11. ASSUME NEW n \in RowId, Cleanup(n) PROVE Holds(e, q)'
  <2>1. task[e][q] # NoTask /\ rows[q].status = "processing"
    BY <1>11 DEF Cleanup, LeasesKept, Holds
  <2>2. rows'[q] = rows[q]
    BY <1>11, <2>1 DEF Cleanup, Expired, Terminal
  <2> QED BY <1>1, <2>1, <2>2
<1> QED BY <1>2, <1>3, <1>4, <1>5, <1>6, <1>7, <1>8, <1>9, <1>10, <1>11
        DEF vars, Next, Enqueue, TaskStep, Fault, Clock

\* A single dispatcher never records a result over a lease it no longer holds,
\* whatever jobs are killed, leases expire and rows are redriven meanwhile - if
\* channels are never deleted, so that no id changes hands.
THEOREM LateResultsAreFenced ==
    ASSUME SingleDispatcher, ~ChannelsMayVanish
    PROVE  Spec => []FenceHolds
<1>1. Init => LeasesKept
  BY DEF Init, LeasesKept
<1>2. TypeOK /\ TaskOwnsRow /\ LeasesKept /\ [Next]_vars => LeasesKept'
  BY LeasesKeptStep
<1>3. LeasesKept => FenceHolds
  BY DEF LeasesKept, FenceHolds
<1> QED BY <1>1, <1>2, <1>3, TypeCorrect, TasksOwnTheirRows, PTL DEF Spec

-----------------------------------------------------------------------------
(***************************************************************************)
(* What "sent" means, under the same two conditions.  ResultsMatch says    *)
(* that a task knows the delivery of the row it works on, and that it      *)
(* takes for a success only what a receiver processed.                     *)
(***************************************************************************)
ResultsMatch ==
    \A d \in Dispatcher, r \in RowId : task[d][r] # NoTask =>
        /\ task[d][r].key = rows[r].key
        /\ task[d][r].outcome = "success" => task[d][r].key \in accepted

\* Nothing is taken out of the histories.
LEMMA HistoriesGrow ==
    ASSUME [Next]_vars
    PROVE  accepted \subseteq accepted' /\ recorded \subseteq recorded'
<1> DEFINE Grow == accepted \subseteq accepted' /\ recorded \subseteq recorded'
<1>1. CASE UNCHANGED vars
  BY <1>1 DEF vars
<1>2. CASE Settings
  BY <1>2 DEF Settings, CreateChannel, UpdateChannel, SetChannel, DeleteChannel
<1>3. CASE Enqueue
  BY <1>3 DEF Enqueue, Insert, Redrive
<1>4. ASSUME NEW d \in Dispatcher, SelectBatch(d) PROVE Grow
  BY <1>4 DEF SelectBatch
<1>5. ASSUME NEW d \in Dispatcher, NEW r \in RowId, TaskStep(d, r) PROVE Grow
  <2>1. CASE Claim(d, r)
    BY <2>1 DEF Claim
  <2>2. CASE ClaimRefused(d, r)
    BY <2>2 DEF ClaimRefused
  <2>3. ASSUME NEW o, Post(d, r, o) PROVE Grow
    BY <2>3 DEF Post
  <2>4. CASE CheckFence(d, r)
    BY <2>4 DEF CheckFence
  <2>5. CASE Write(d, r)
    BY <2>5 DEF Write
  <2> QED BY <1>5, <2>1, <2>2, <2>3, <2>4, <2>5 DEF TaskStep
<1>6. CASE Fault
  BY <1>6 DEF Fault, Abandon, TaskFails
<1>7. CASE Clock
  BY <1>7 DEF Clock, BecomesDue, Cleanup
<1> QED BY <1>1, <1>2, <1>3, <1>4, <1>5, <1>6, <1>7 DEF Next

\* A task keeps its delivery, and learns of a success only from the receiver.
LEMMA TaskKept ==
    ASSUME TypeOK, [Next]_vars, NEW e \in Dispatcher, NEW q \in RowId,
           task'[e][q] # NoTask, ~ Claim(e, q)
    PROVE  /\ task[e][q] # NoTask /\ task'[e][q].key = task[e][q].key
           /\ task'[e][q].outcome = "success" =>
                  task[e][q].outcome = "success" \/ task[e][q].key \in accepted'
<1> DEFINE Kept == /\ task[e][q] # NoTask /\ task'[e][q].key = task[e][q].key
                   /\ task'[e][q].outcome = "success" =>
                          task[e][q].outcome = "success" \/ task[e][q].key \in accepted'
<1>1. CASE task'[e][q] = task[e][q]
  BY <1>1
<1>2. CASE UNCHANGED vars
  BY <1>1, <1>2 DEF vars
<1>3. CASE Settings
  BY <1>1, <1>3 DEF Settings, CreateChannel, UpdateChannel, SetChannel, DeleteChannel
<1>4. CASE Enqueue
  BY <1>1, <1>4 DEF Enqueue, Insert, Redrive
<1>5. ASSUME NEW d \in Dispatcher, SelectBatch(d) PROVE Kept
  BY <1>1, <1>5 DEF SelectBatch
<1>6. ASSUME NEW d \in Dispatcher, NEW r \in RowId, TaskStep(d, r) PROVE Kept
  <2>1. CASE Claim(d, r)
    BY <1>1, <2>1 DEF Claim, TypeOK
  <2>2. CASE ClaimRefused(d, r)
    BY <1>1, <2>2 DEF ClaimRefused
  <2>3. ASSUME NEW o, Post(d, r, o) PROVE Kept
    <3>1. CASE d = e /\ r = q
      <4>1. task[e][q] \in Task /\ task[e][q] # NoTask
        BY <2>3, <3>1 DEF Post, TypeOK
      <4>2. task'[e][q] = [task[e][q] EXCEPT !.pc = "record", !.outcome = o]
        BY <2>3, <3>1 DEF Post, TypeOK
      <4>3. task'[e][q].key = task[e][q].key /\ task'[e][q].outcome = o
        BY <4>1, <4>2 DEF Task
      <4>4. o = "success" => task[e][q].key \in accepted'
        BY <2>3, <3>1 DEF Post
      <4> QED BY <4>1, <4>3, <4>4
    <3>2. CASE ~ (d = e /\ r = q)
      BY <1>1, <2>3, <3>2 DEF Post, TypeOK
    <3> QED BY <3>1, <3>2
  <2>4. CASE CheckFence(d, r)
    <3>1. CASE d = e /\ r = q
      <4>1. task[e][q] \in Task /\ task[e][q] # NoTask
        BY <2>4, <3>1 DEF CheckFence, TypeOK
      <4>2. task'[e][q] = [task[e][q] EXCEPT !.pc = "write"]
        BY <2>4, <3>1 DEF CheckFence, TypeOK
      <4>3. task'[e][q].key = task[e][q].key /\ task'[e][q].outcome = task[e][q].outcome
        BY <4>1, <4>2 DEF Task
      <4> QED BY <4>1, <4>3
    <3>2. CASE ~ (d = e /\ r = q)
      BY <1>1, <2>4, <3>2 DEF CheckFence, TypeOK
    <3> QED BY <3>1, <3>2
  <2>5. CASE Write(d, r)
    BY <1>1, <2>5 DEF Write, TypeOK
  <2> QED BY <1>6, <2>1, <2>2, <2>3, <2>4, <2>5 DEF TaskStep
<1>7. CASE Fault
  BY <1>1, <1>7 DEF Fault, Abandon, TaskFails, TypeOK
<1>8. CASE Clock
  BY <1>1, <1>8 DEF Clock, BecomesDue, Cleanup
<1> QED BY <1>2, <1>3, <1>4, <1>5, <1>6, <1>7, <1>8 DEF Next

\* The row of a running task stays the row of the same delivery.
LEMMA TaskKeepsRow ==
    ASSUME TypeOK, LeasesKept, LeasesKept', [Next]_vars,
           NEW e \in Dispatcher, NEW q \in RowId, task'[e][q] # NoTask,
           task[e][q] # NoTask \/ Claim(e, q)
    PROVE  rows'[q].key = rows[q].key
<1>1. Live(q)'
  BY DEF LeasesKept, Holds
<1>2. Live(q)
  BY DEF LeasesKept, Holds, Claim, Due, Queued
<1>3. CASE UNCHANGED vars
  BY <1>3 DEF vars
<1>4. ASSUME NEW k \in Key, NEW r \in RowId, Insert(k, r) PROVE rows'[q].key = rows[q].key
  <2>1. q # r
    BY <1>2, <1>4, BoundsAssumption DEF Insert, NextRowId
  <2> QED BY <1>4, <2>1 DEF Insert, TypeOK
<1>5. CASE Next /\ ~ \E k \in Key, r \in RowId : Insert(k, r)
  BY <1>1, <1>5, KeysKept
<1> QED BY <1>3, <1>4, <1>5

LEMMA ResultsMatchStep ==
    ASSUME TypeOK, LeasesKept, LeasesKept', ResultsMatch, [Next]_vars
    PROVE  ResultsMatch'
<1> SUFFICES ASSUME NEW e \in Dispatcher, NEW q \in RowId, task'[e][q] # NoTask
             PROVE  /\ task'[e][q].key = rows'[q].key
                    /\ task'[e][q].outcome = "success" => task'[e][q].key \in accepted'
  BY DEF ResultsMatch
<1>1. CASE Claim(e, q)
  <2>1. task'[e][q] = NewTask(rows[q].key, rows[q].attempts + 1)
    BY <1>1 DEF Claim, TypeOK
  <2>2. task'[e][q].key = rows[q].key /\ task'[e][q].outcome \in {"unknown", "cancelled"}
    BY <2>1 DEF NewTask
  <2>3. rows'[q].key = rows[q].key
    BY <1>1, TaskKeepsRow
  <2> QED BY <2>2, <2>3
<1>2. CASE ~ Claim(e, q)
  <2>1. /\ task[e][q] # NoTask /\ task'[e][q].key = task[e][q].key
        /\ task'[e][q].outcome = "success" =>
               task[e][q].outcome = "success" \/ task[e][q].key \in accepted'
    BY <1>2, TaskKept
  <2>2. rows'[q].key = rows[q].key
    BY <2>1, TaskKeepsRow
  <2> QED BY <2>1, <2>2, HistoriesGrow DEF ResultsMatch
<1> QED BY <1>1, <1>2

\* Only the write of a task makes a row a sent one.
LEMMA SentBefore ==
    ASSUME TypeOK, [Next]_vars, NEW q \in RowId, Live(q)', rows'[q].status = "sent",
           ~ \E d \in Dispatcher : Write(d, q)
    PROVE  rows'[q] = rows[q]
<1>1. CASE UNCHANGED vars
  BY <1>1 DEF vars
<1>2. CASE Settings
  BY <1>2 DEF Settings, CreateChannel, UpdateChannel, SetChannel, DeleteChannel, Live
<1>3. CASE Enqueue
  <2>1. PICK r, k : r \in RowId /\ rows' = [rows EXCEPT ![r] = FreshRow(k)]
    BY <1>3 DEF Enqueue, Insert, Redrive, TypeOK
  <2>2. FreshRow(k).status = "pending"
    BY DEF FreshRow
  <2> QED BY <2>1, <2>2 DEF TypeOK
<1>4. ASSUME NEW d \in Dispatcher, NEW r \in RowId, Claim(d, r) PROVE rows'[q] = rows[q]
  <2>1. CASE q = r
    <3>1. rows[r] \in Row
      BY <1>4 DEF Claim, Due, Queued, Live, TypeOK
    <3>2. rows'[r].status = "processing"
      BY <1>4, <3>1 DEF Claim, TypeOK, Row
    <3> QED BY <2>1, <3>2
  <2>2. CASE q # r
    BY <1>4, <2>2 DEF Claim, TypeOK
  <2> QED BY <2>1, <2>2
<1>5. ASSUME NEW d \in Dispatcher, NEW r \in RowId, Write(d, r) PROVE rows'[q] = rows[q]
  <2>1. q # r
    BY <1>5
  <2> QED BY <1>5, <2>1 DEF Write, TypeOK
<1>6. ASSUME NEW r \in RowId, BecomesDue(r) PROVE rows'[q] = rows[q]
  <2>1. CASE q = r
    <3>1. rows[r] \in Row /\ rows[r].status # "sent"
      BY <1>6 DEF BecomesDue, Queued, Active, Live, TypeOK
    <3>2. rows'[r].status = rows[r].status
      BY <1>6, <3>1 DEF BecomesDue, TypeOK, Row
    <3> QED BY <2>1, <3>1, <3>2
  <2>2. CASE q # r
    BY <1>6, <2>2 DEF BecomesDue, TypeOK
  <2> QED BY <2>1, <2>2
<1>7. ASSUME NEW n \in RowId, Cleanup(n) PROVE rows'[q] = rows[q]
  BY <1>7 DEF Cleanup, Live
<1>8. ASSUME NEW d \in Dispatcher, SelectBatch(d) \/ Abandon(d) PROVE rows'[q] = rows[q]
  BY <1>8 DEF SelectBatch, Abandon
<1>9. ASSUME NEW d \in Dispatcher, NEW r \in RowId,
              \/ ClaimRefused(d, r)
              \/ \E o \in {"success", "permanent", "transient"} : Post(d, r, o)
              \/ CheckFence(d, r)
              \/ TaskFails(d, r)
      PROVE  rows'[q] = rows[q]
  BY <1>9 DEF ClaimRefused, Post, CheckFence, TaskFails
<1> QED BY <1>1, <1>2, <1>3, <1>4, <1>5, <1>6, <1>7, <1>8, <1>9 DEF Next, TaskStep, Fault, Clock

LEMMA BackedStep ==
    ASSUME TypeOK, ResultsMatch, SentIsBacked, [Next]_vars
    PROVE  SentIsBacked'
<1> SUFFICES ASSUME NEW q \in RowId, Live(q)', rows'[q].status = "sent"
             PROVE  rows'[q].key \in accepted' \cap recorded'
  BY DEF SentIsBacked
<1>1. ASSUME NEW d \in Dispatcher, Write(d, q) PROVE rows'[q].key \in accepted' \cap recorded'
  <2>1. CASE ~ Live(q)
    BY <1>1, <2>1 DEF Write, Live
  <2>2. CASE Live(q)
    <3>1. rows[q] \in Row /\ task[d][q] # NoTask
      BY <1>1, <2>2 DEF Write, Live, TypeOK
    <3> DEFINE st == NextStatus(task[d][q].outcome, task[d][q].attempts)
    <3>2. rows'[q] = [rows[q] EXCEPT !.status = st, !.due = FALSE, !.lease = NoLease]
      BY <1>1, <2>2 DEF Write, TypeOK
    <3> HIDE DEF st
    <3>3. st = "sent" /\ rows'[q].key = rows[q].key
      BY <3>1, <3>2 DEF Row
    <3>4. task[d][q].outcome = "success"
      BY <3>3 DEF st, NextStatus
    <3>5. /\ recorded' = recorded \cup {task[d][q].key} /\ accepted' = accepted
          /\ task[d][q].key = rows[q].key /\ task[d][q].key \in accepted
      BY <1>1, <2>2, <3>1, <3>4 DEF Write, ResultsMatch
    <3> QED BY <3>3, <3>5
  <2> QED BY <2>1, <2>2
<1>2. CASE ~ \E d \in Dispatcher : Write(d, q)
  <2>1. rows'[q] = rows[q]
    BY <1>2, SentBefore
  <2>2. rows[q].key \in accepted \cap recorded
    BY <2>1 DEF SentIsBacked, Live
  <2> QED BY <2>1, <2>2, HistoriesGrow
<1> QED BY <1>1, <1>2

\* A delivery that is marked as sent was processed by its receiver and is in the alert history,
\* whatever answers are lost, jobs killed and leases expired: with one dispatcher, and as long as
\* no channel is deleted (the run OutboxIdReuse shows what a reused id does otherwise).
THEOREM SentWasDelivered ==
    ASSUME SingleDispatcher, ~ChannelsMayVanish
    PROVE  Spec => []SentIsBacked
<1> DEFINE Backed == LeasesKept /\ ResultsMatch /\ SentIsBacked
<1>1. Init => Backed
  BY DEF Init, LeasesKept, ResultsMatch, SentIsBacked, Live
<1>2. TypeOK /\ TaskOwnsRow /\ Backed /\ [Next]_vars => Backed'
  BY LeasesKeptStep, ResultsMatchStep, BackedStep
<1>3. Backed => SentIsBacked
  OBVIOUS
<1> QED BY <1>1, <1>2, <1>3, TypeCorrect, TasksOwnTheirRows, PTL DEF Spec

-----------------------------------------------------------------------------
(***************************************************************************)
(* Fairness between users.                                                 *)
(***************************************************************************)

\* A set of naturals that is not empty has a least element, and a greatest one if
\* it is finite: the one with the fewest elements above it.
LEMMA LeastRow ==
    ASSUME NEW S \in SUBSET Nat, S # {}
    PROVE  \E n \in S : \A m \in S : n <= m
<1>1. PICK n \in S : \A m \in S : ~ (<<m, n>> \in OpToRel(<, Nat))
  BY NatLessThanWellFounded, WFMin
<1>2. ASSUME NEW m \in S PROVE n <= m
  <2>1. n \in Nat /\ m \in Nat
    OBVIOUS
  <2>2. ASSUME m < n PROVE <<m, n>> \in OpToRel(<, Nat)
    <3>1. <<m, n>> \in Nat \X Nat /\ <<m, n>>[1] < <<m, n>>[2]
      BY <2>1, <2>2
    <3> QED BY <3>1 DEF OpToRel
  <2>3. ~ (m < n)
    BY <1>1, <2>2
  <2> QED BY <2>1, <2>3
<1> QED BY <1>2

LEMMA GreatestRow ==
    ASSUME NEW S \in SUBSET Nat, S # {}, IsFiniteSet(S)
    PROVE  \E n \in S : \A m \in S : m <= n
<1> DEFINE Above(n) == {m \in S : n < m}
           Counts == {Cardinality(Above(n)) : n \in S}
<1>1. \A n \in S : IsFiniteSet(Above(n)) /\ Cardinality(Above(n)) \in Nat
  BY FS_Subset, FS_CardinalityType
<1>2. PICK c \in Counts : \A e \in Counts : c <= e
  <2>1. Counts \in SUBSET Nat /\ Counts # {}
    BY <1>1
  <2> HIDE DEF Counts
  <2> QED BY <2>1, LeastRow
<1>3. PICK n \in S : c = Cardinality(Above(n))
  OBVIOUS
<1>4. ASSUME NEW m \in S PROVE m <= n
  <2>1. SUFFICES ASSUME n < m PROVE FALSE
    OBVIOUS
  <2>2. Above(m) \subseteq Above(n) /\ m \in Above(n) /\ m \notin Above(m)
    <3>1. n \in Nat /\ m \in Nat
      OBVIOUS
    <3>2. \A x \in Nat : m < x => n < x
      BY <2>1, <3>1
    <3>3. ~ (m < m)
      BY <3>1
    <3>4. \A x \in S : m < x => n < x
      BY <3>2
    <3> QED BY <2>1, <3>3, <3>4
  <2>3. Cardinality(Above(m)) <= Cardinality(Above(n))
    BY <1>1, <2>2, FS_Subset
  <2>4. Cardinality(Above(m)) # Cardinality(Above(n))
    BY <1>1, <2>2, FS_Subset
  <2>5. Cardinality(Above(n)) <= Cardinality(Above(m))
    BY <1>2, <1>3
  <2> QED BY <1>1, <2>3, <2>4, <2>5
<1> QED BY <1>4

\* How the rows of two users stand in a selection: the first row of u that is left
\* out ranks one behind those of u that are in, and every selected row of v ranks
\* before it or with it.
LEMMA SelectionIsFair ==
    ASSUME NEW S, Selection(S), NEW u \in User, NEW v \in User,
           SelectedFor(u, DueRows \ S) # {}
    PROVE  Cardinality(SelectedFor(v, S)) <= Cardinality(SelectedFor(u, S)) + 1
<1> DEFINE U == SelectedFor(u, S)
           V == SelectedFor(v, S)
           Ahead(r) == {q \in DueRows : rows[q].key.user = rows[r].key.user /\ q <= r}
<1>1. S \subseteq DueRows /\ \A r \in S, q \in DueRows \ S : Precedes(r, q)
  BY DEF Selection
<1>2. DueRows \subseteq RowId /\ RowId \subseteq Nat /\ IsFiniteSet(DueRows) /\ IsFiniteSet(S)
  BY <1>1, BoundsAssumption, FS_Subset DEF DueRows
<1>3. /\ U \subseteq S /\ IsFiniteSet(U) /\ Cardinality(U) \in Nat
      /\ V \subseteq S /\ IsFiniteSet(V) /\ Cardinality(V) \in Nat
  <2>1. U \subseteq S /\ V \subseteq S
    BY DEF SelectedFor
  <2> QED BY <1>2, <2>1, FS_Subset, FS_CardinalityType
<1>4. \A r \in RowId : IsFiniteSet(Ahead(r)) /\ UserRank(r) = Cardinality(Ahead(r)) /\ UserRank(r) \in Nat
  <2> TAKE r \in RowId
  <2>1. Ahead(r) \subseteq DueRows
    OBVIOUS
  <2>2. UserRank(r) = Cardinality(Ahead(r))
    BY DEF UserRank
  <2> QED BY <1>2, <2>1, <2>2, FS_Subset, FS_CardinalityType
<1>5. PICK q \in SelectedFor(u, DueRows \ S) : \A p \in SelectedFor(u, DueRows \ S) : q <= p
  <2>1. SelectedFor(u, DueRows \ S) \in SUBSET Nat
    BY <1>2 DEF SelectedFor
  <2> QED BY <2>1, LeastRow
<1>6. q \in DueRows \ S /\ rows[q].key.user = u /\ q \in RowId
  BY <1>2 DEF SelectedFor
<1>7. UserRank(q) <= Cardinality(U) + 1
  <2>1. Ahead(q) \subseteq U \cup {q}
    <3> SUFFICES ASSUME NEW p \in Ahead(q), p # q PROVE p \in U
      OBVIOUS
    <3>1. p \in DueRows /\ rows[p].key.user = u /\ p <= q
      BY <1>6
    <3>2. p \in Nat /\ q \in Nat
      BY <1>2, <1>6, <3>1
    <3>3. ~ (q <= p)
      BY <3>1, <3>2
    <3>4. p \notin SelectedFor(u, DueRows \ S)
      BY <1>5, <3>3
    <3> QED BY <3>1, <3>4 DEF SelectedFor
  <2>2. IsFiniteSet(U \cup {q}) /\ Cardinality(U \cup {q}) <= Cardinality(U) + 1
        /\ Cardinality(U \cup {q}) \in Nat
    <3> HIDE DEF U
    <3>1. IsFiniteSet(U \cup {q})
      BY <1>3, FS_AddElement
    <3>2. Cardinality(U \cup {q}) = Cardinality(U) \/ Cardinality(U \cup {q}) = Cardinality(U) + 1
      BY <1>3, FS_AddElement
    <3> QED BY <1>3, <3>1, <3>2
  <2>3. Cardinality(Ahead(q)) <= Cardinality(U \cup {q})
    BY <2>1, <2>2, FS_Subset
  <2> HIDE DEF U, Ahead
  <2> QED BY <1>3, <1>4, <1>6, <2>2, <2>3
<1>8. CASE V = {}
  <2>1. Cardinality(V) = 0
    BY <1>8, FS_EmptySet
  <2> QED BY <1>3, <2>1
<1>9. CASE V # {}
  <2>1. PICK r \in V : \A p \in V : p <= r
    <3>1. V \in SUBSET Nat
      BY <1>1, <1>2, <1>3
    <3> HIDE DEF V
    <3> QED BY <1>3, <1>9, <3>1, GreatestRow
  <2>2. r \in S /\ r \in RowId /\ rows[r].key.user = v
    BY <1>1, <1>2 DEF SelectedFor
  <2>3. V \subseteq Ahead(r)
    BY <1>1, <2>1, <2>2 DEF SelectedFor
  <2>4. Cardinality(V) <= UserRank(r)
    <3>1. IsFiniteSet(Ahead(r)) /\ UserRank(r) = Cardinality(Ahead(r))
      BY <1>4, <2>2
    <3> HIDE DEF V, Ahead
    <3> QED BY <2>3, <3>1, FS_Subset
  <2>5. UserRank(r) \in Nat /\ UserRank(q) \in Nat
    BY <1>4, <1>6, <2>2
  <2>6. UserRank(r) <= UserRank(q)
    <3>1. Precedes(r, q)
      BY <1>1, <1>6, <2>2
    <3>2. UserRank(r) < UserRank(q) \/ UserRank(r) = UserRank(q)
      BY <3>1 DEF Precedes
    <3> QED BY <2>5, <3>2
  <2>7. Cardinality(V) <= Cardinality(U) + 1
    <3> HIDE DEF U, V
    <3> QED BY <1>3, <1>7, <2>4, <2>6, <2>5
  <2> QED BY <2>7
<1> QED BY <1>8, <1>9

\* Only a selection fills an empty batch.
LEMMA BatchIsSelection ==
    ASSUME TypeOK, [Next]_vars, NEW d \in Dispatcher, batch[d] = {}, batch'[d] # {}
    PROVE  Selection(batch'[d])
<1>1. PICK e \in Dispatcher : SelectBatch(e)
  <2>1. Settings \/ Enqueue \/ Clock \/ UNCHANGED vars => batch' = batch
    BY DEF Settings, CreateChannel, UpdateChannel, SetChannel, DeleteChannel, Enqueue, Insert,
           Redrive, Clock, BecomesDue, Cleanup, vars
  <2>2. ASSUME NEW e \in Dispatcher, NEW r \in RowId, TaskStep(e, r) PROVE batch'[d] \subseteq batch[d]
    BY <2>2 DEF TypeOK, TaskStep, Claim, ClaimRefused, AdmitTask, Post, CheckFence, Write
  <2>3. Fault => batch'[d] \subseteq batch[d]
    BY DEF TypeOK, Fault, Abandon, TaskFails
  <2> QED BY <2>1, <2>2, <2>3 DEF Next
<1>2. PICK S \in SUBSET DueRows : Selection(S) /\ batch' = [batch EXCEPT ![e] = S]
  BY <1>1 DEF SelectBatch
<1>3. e = d
  BY <1>2 DEF TypeOK
<1> QED BY <1>2, <1>3 DEF TypeOK

\* No user waits for another: a batch takes of one user at most one row more than
\* of another one it leaves a due row of (FairBatch), for any users, rows and limits.
THEOREM BatchesAreFair == Spec => FairBatch
<1> DEFINE Fair == \A d \in Dispatcher : batch[d] = {} =>
        \A u, v \in User :
            SelectedFor(u, DueRows \ batch'[d]) # {} /\ batch'[d] # {} =>
                Cardinality(SelectedFor(v, batch'[d]))
                    <= Cardinality(SelectedFor(u, batch'[d])) + 1
<1>1. TypeOK /\ [Next]_vars => [Fair]_vars
  <2> SUFFICES ASSUME TypeOK, [Next]_vars, NEW d \in Dispatcher, batch[d] = {},
                      NEW u \in User, NEW v \in User,
                      SelectedFor(u, DueRows \ batch'[d]) # {}, batch'[d] # {}
               PROVE  Cardinality(SelectedFor(v, batch'[d]))
                        <= Cardinality(SelectedFor(u, batch'[d])) + 1
    OBVIOUS
  <2>1. Selection(batch'[d])
    BY BatchIsSelection
  <2> QED BY <2>1, SelectionIsFair
<1> QED BY <1>1, TypeCorrect, PTL DEF Spec, FairBatch

=============================================================================
