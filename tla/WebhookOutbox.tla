--------------------------- MODULE WebhookOutbox ---------------------------
(***************************************************************************)
(* The durable outbox of signed signal webhooks:                           *)
(* src/backend/alerts/webhook_outbox.py, with the channel rows its         *)
(* deliveries hang from (src/backend/routes/settings.py).                  *)
(*                                                                         *)
(* Each action is one database transaction, one network call, or one       *)
(* statement that another connection may be scheduled after.  SQLAlchemy   *)
(* over sqlite3 opens a transaction at the first INSERT/UPDATE/DELETE, not *)
(* at a SELECT, so "SELECT, test in Python, UPDATE" is two actions unless  *)
(* the code writes first (_dispatch_one) or says BEGIN IMMEDIATE           *)
(* (enqueue_signal_webhook).                                               *)
(*                                                                         *)
(* Wall-clock readings are only ever compared with a stored deadline, so a *)
(* deadline is a Boolean that turns TRUE at an arbitrary moment: "due" for *)
(* next_attempt_at / lease_expires_at; the retention cutoff is a free      *)
(* choice among the creation times.                                        *)
(* lease_expires_at is also the fencing token of a claim; a token is the   *)
(* dispatcher that claimed, which has at most one task per row.            *)
(***************************************************************************)
EXTENDS Naturals, FiniteSets

CONSTANTS
    User,
    Channel,                \* alert_channels ids; SQLite reuses a freed id
    Event,                  \* logical signal events (one scan instance of one pair)
    Config,                 \* (webhook_url, signing_secret) generations
    RowId,                  \* signal_webhook_deliveries ids
    Dispatcher,             \* processes running dispatch_pending_signal_webhooks
    MAX_PENDING_PER_USER,
    DISPATCH_BATCH_SIZE,
    DISPATCH_CONCURRENCY,
    MAX_DELIVERY_ATTEMPTS,
    MaxClaims,              \* bound: claims of one row since it was (re)queued
    MaxLost,                \* bound: jobs killed or tasks failed in a behaviour
    ChannelsMayVanish,      \* bound: whether channels are deleted
    NoRow, NoChannel, NoTask, NoLease

Key == [user: User, channel: Channel, event: Event, config: Config]

ChannelRow == [owner: User, enabled: BOOLEAN, config: Config]

Active == {"pending", "processing"}

\* Mutant of Redrivable: every settled delivery may be queued again.
RedrivableWhenSettled == {"sent", "failed", "cancelled"}

Redrivable == {"failed", "cancelled"}
Terminal == {"sent", "failed", "cancelled"}

Row == [key: Key, status: Active \cup Terminal, attempts: Nat,
        due: BOOLEAN, lease: Dispatcher \cup {NoLease}]

Outcome == {"unknown", "success", "permanent", "transient", "cancelled"}

\* What one _dispatch_one coroutine holds in local variables across its awaits.
Task == [pc: {"post", "record", "write"}, key: Key, attempts: Nat,
         target: User \X Config, outcome: Outcome]

ASSUME BoundsAssumption ==
    /\ RowId \subseteq Nat /\ IsFiniteSet(RowId)
    /\ MAX_PENDING_PER_USER \in Nat
    /\ DISPATCH_BATCH_SIZE \in Nat \ {0}
    /\ DISPATCH_CONCURRENCY \in Nat \ {0}
    /\ MAX_DELIVERY_ATTEMPTS \in Nat \ {0}
    /\ MaxClaims \in Nat
    /\ MaxLost \in Nat
    /\ ChannelsMayVanish \in BOOLEAN

ASSUME NullAssumption ==
    /\ NoRow \notin Row \cup [user: User, state: {"queued", "delivered", "dropped"}]
    /\ NoChannel \notin ChannelRow
    /\ NoTask \notin Task
    /\ NoLease \notin Dispatcher

VARIABLES
    channels,   \* alert_channels
    rows,       \* signal_webhook_deliveries
    batch,      \* delivery_ids a running job selected and has not started
    task,       \* the running _dispatch_one coroutines
    lost,       \* how many times a job was killed or a task raised
    ever,       \* history: the (owner, config) pairs each channel id has been
                \* enabled with, which a scan may have read
    accepted,   \* history: the deliveries some receiver processed
    recorded    \* alert_histories rows (channel webhook, status sent)

vars == <<channels, rows, batch, task, lost, ever, accepted, recorded>>

TypeOK ==
    /\ channels \in [Channel -> ChannelRow \cup {NoChannel}]
    /\ rows \in [RowId -> Row \cup {NoRow}]
    /\ batch \in [Dispatcher -> SUBSET RowId]
    /\ task \in [Dispatcher -> [RowId -> Task \cup {NoTask}]]
    /\ lost \in Nat
    /\ ever \in [Channel -> SUBSET (User \X Config)]
    /\ accepted \in SUBSET Key
    /\ recorded \in SUBSET Key

-----------------------------------------------------------------------------
Live(r) == rows[r] # NoRow

Queued(r) == Live(r) /\ rows[r].status \in Active

QueueOf(u) == {r \in RowId : Queued(r) /\ rows[r].key.user = u}

\* Mutant of Due: a processing row whose lease ran out is not eligible.
DueWhenPending(r) == Live(r) /\ rows[r].status = "pending" /\ rows[r].due

\* _eligible_delivery: a pending row whose retry time has come, or a processing
\* row whose lease has run out.
Due(r) == Queued(r) /\ rows[r].due

DueRows == {r \in RowId : Due(r)}

\* The id SQLite gives a new row: one more than the largest in the table.
NextRowId(r) ==
    /\ \A q \in RowId : Live(q) => q < r
    /\ \A q \in RowId : q < r => \E p \in RowId : q <= p /\ Live(p)

Running(d) == {r \in RowId : task[d][r] # NoTask}

\* Mutant of UserRank: the window is not partitioned by user.
UserRankOverall(r) == Cardinality({q \in DueRows : q <= r})

\* row_number() over (partition by user order by created_at, id): a new id is
\* larger than every live one, so id order is creation order.
UserRank(r) ==
    Cardinality({q \in DueRows : rows[q].key.user = rows[r].key.user /\ q <= r})

Precedes(r, q) ==
    \/ UserRank(r) < UserRank(q)
    \/ UserRank(r) = UserRank(q) /\ r < q

\* ORDER BY user_rank, created_at, id LIMIT DISPATCH_BATCH_SIZE
Selection(S) ==
    /\ S \subseteq DueRows
    /\ S # {}
    /\ Cardinality(S) <= DISPATCH_BATCH_SIZE
    /\ S # DueRows => Cardinality(S) = DISPATCH_BATCH_SIZE
    /\ \A r \in S, q \in DueRows \ S : Precedes(r, q)

-----------------------------------------------------------------------------
Init ==
    /\ channels = [c \in Channel |-> NoChannel]
    /\ rows = [r \in RowId |-> NoRow]
    /\ batch = [d \in Dispatcher |-> {}]
    /\ task = [d \in Dispatcher |-> [r \in RowId |-> NoTask]]
    /\ lost = 0
    /\ ever = [c \in Channel |-> {}]
    /\ accepted = {}
    /\ recorded = {}

(***************************************************************************)
(* The settings routes.                                                    *)
(***************************************************************************)
SetChannel(c, u, e, f) ==
    /\ channels' = [channels EXCEPT ![c] =
                        [owner |-> u, enabled |-> e, config |-> f]]
    /\ ever' = [ever EXCEPT ![c] = IF e THEN @ \cup {<<u, f>>} ELSE @]
    /\ UNCHANGED <<rows, batch, task, lost, accepted, recorded>>

CreateChannel(c, u, e, f) ==
    /\ channels[c] = NoChannel
    /\ SetChannel(c, u, e, f)

UpdateChannel(c, e, f) ==
    /\ channels[c] # NoChannel
    /\ SetChannel(c, channels[c].owner, e, f)

\* ON DELETE CASCADE removes the channel's deliveries in the same transaction.
DeleteChannel(c) ==
    /\ ChannelsMayVanish
    /\ channels[c] # NoChannel
    /\ channels' = [channels EXCEPT ![c] = NoChannel]
    /\ rows' = [r \in RowId |->
                    IF Live(r) /\ rows[r].key.channel = c THEN NoRow ELSE rows[r]]
    /\ UNCHANGED <<batch, task, lost, ever, accepted, recorded>>

(***************************************************************************)
(* enqueue_signal_webhook, one BEGIN IMMEDIATE transaction.  The caller    *)
(* read the channel's owner and configuration earlier, in a session of its *)
(* own, so the pair is one the channel id has had at some time.  A         *)
(* duplicate of an active or sent row, and a full queue, change nothing.   *)
(***************************************************************************)
QueueHasRoom(u) == Cardinality(QueueOf(u)) < MAX_PENDING_PER_USER

FreshRow(k) == [key |-> k, status |-> "pending", attempts |-> 0, due |-> TRUE,
                lease |-> NoLease]

Insert(k, r) ==
    /\ <<k.user, k.config>> \in ever[k.channel]
    /\ channels[k.channel] # NoChannel          \* the foreign key
    /\ \A q \in RowId : Live(q) => rows[q].key # k
    /\ QueueHasRoom(k.user)
    /\ NextRowId(r)
    /\ rows' = [rows EXCEPT ![r] = FreshRow(k)]
    /\ UNCHANGED <<channels, batch, task, lost, ever, accepted, recorded>>

\* Mutant of Redrive: the queue is not counted for a row that exists already.
RedriveUncounted(r) ==
    /\ Live(r)
    /\ rows[r].status \in Redrivable
    /\ rows' = [rows EXCEPT ![r] = FreshRow(@.key)]
    /\ UNCHANGED <<channels, batch, task, lost, ever, accepted, recorded>>

\* A failed or cancelled delivery starts over.
Redrive(r) ==
    /\ Live(r)
    /\ rows[r].status \in Redrivable
    /\ QueueHasRoom(rows[r].key.user)
    /\ rows' = [rows EXCEPT ![r] = FreshRow(@.key)]
    /\ UNCHANGED <<channels, batch, task, lost, ever, accepted, recorded>>

(***************************************************************************)
(* dispatch_pending_signal_webhooks: max_instances = 1, so a dispatcher    *)
(* selects a batch only when its previous job has ended.                   *)
(***************************************************************************)
\* Mutant of SelectBatch: a job starts while tasks of the previous one still run.
SelectBatchOverlapping(d) ==
    /\ batch[d] = {}
    /\ \E S \in SUBSET DueRows :
        /\ Selection(S)
        /\ batch' = [batch EXCEPT ![d] = S]
    /\ UNCHANGED <<channels, rows, task, lost, ever, accepted, recorded>>

SelectBatch(d) ==
    /\ batch[d] = {}
    /\ Running(d) = {}
    /\ \E S \in SUBSET DueRows :
        /\ Selection(S)
        /\ batch' = [batch EXCEPT ![d] = S]
    /\ UNCHANGED <<channels, rows, task, lost, ever, accepted, recorded>>

\* Mutant of StillValid: the owner is not compared.
StillValidForAnyOwner(k) ==
    /\ channels[k.channel] # NoChannel
    /\ channels[k.channel].enabled
    /\ channels[k.channel].config = k.config

\* The channel, as the claiming transaction reads it, is still the one the row
\* was created for: same owner, enabled, same URL and secret.
StillValid(k) ==
    /\ channels[k.channel] # NoChannel
    /\ channels[k.channel].owner = k.user
    /\ channels[k.channel].enabled
    /\ channels[k.channel].config = k.config

\* What the coroutine keeps: where it will POST (the channel as read, never the
\* row), or that the row is to be cancelled without a network call.
NewTask(k, n) ==
    IF StillValid(k)
      THEN [pc |-> "post", key |-> k, attempts |-> n, outcome |-> "unknown",
            target |-> <<channels[k.channel].owner, channels[k.channel].config>>]
      ELSE [pc |-> "record", key |-> k, attempts |-> n, outcome |-> "cancelled",
            target |-> <<k.user, k.config>>]

AdmitTask(d, r) ==
    /\ r \in batch[d]
    /\ Cardinality(Running(d)) < DISPATCH_CONCURRENCY
    /\ batch' = [batch EXCEPT ![d] = @ \ {r}]

\* _dispatch_one up to its first commit: the conditional UPDATE takes the write
\* lock, then the row and its channel are read under it.
Claim(d, r) ==
    /\ AdmitTask(d, r)
    /\ Due(r)
    /\ rows[r].attempts < MaxClaims
    /\ rows' = [rows EXCEPT ![r].status = "processing", ![r].attempts = @ + 1,
                            ![r].due = FALSE, ![r].lease = d]
    /\ task' = [task EXCEPT ![d][r] = NewTask(rows[r].key, rows[r].attempts + 1)]
    /\ UNCHANGED <<channels, lost, ever, accepted, recorded>>

\* claim.rowcount != 1
ClaimRefused(d, r) ==
    /\ AdmitTask(d, r)
    /\ ~Due(r)
    /\ UNCHANGED <<channels, rows, task, lost, ever, accepted, recorded>>

\* Mutant of Post: an answer that never came counts as a success.
PostWithoutAnswer(d, r, outcome) ==
    /\ task[d][r] # NoTask
    /\ task[d][r].pc = "post"
    /\ task' = [task EXCEPT ![d][r].pc = "record", ![d][r].outcome = outcome]
    /\ accepted' \in {accepted, accepted \cup {task[d][r].key}}
    /\ UNCHANGED <<channels, rows, batch, lost, ever, recorded>>

\* send_signal_webhook.  The receiver may have processed a POST whose answer is
\* lost, and sees nothing of one refused before the network is reached.
Post(d, r, outcome) ==
    /\ task[d][r] # NoTask
    /\ task[d][r].pc = "post"
    /\ task' = [task EXCEPT ![d][r].pc = "record", ![d][r].outcome = outcome]
    /\ \/ accepted' = accepted \cup {task[d][r].key}
       \/ outcome # "success" /\ accepted' = accepted
    /\ UNCHANGED <<channels, rows, batch, lost, ever, recorded>>

Holds(d, r) ==
    /\ Live(r)
    /\ rows[r].status = "processing"
    /\ rows[r].lease = d

\* The SELECT and the fencing test of _record_attempt / _finalize_without_attempt.
CheckFence(d, r) ==
    /\ task[d][r] # NoTask
    /\ task[d][r].pc = "record"
    /\ task' = IF Holds(d, r) THEN [task EXCEPT ![d][r].pc = "write"]
                              ELSE [task EXCEPT ![d][r] = NoTask]
    /\ UNCHANGED <<channels, rows, batch, lost, ever, accepted, recorded>>

\* Mutants of NextStatus: one attempt too many, or a status no query knows.
NextStatusOneMore(outcome, attempts) ==
    CASE outcome = "success"   -> "sent"
      [] outcome = "cancelled" -> "cancelled"
      [] outcome = "permanent" -> "failed"
      [] OTHER -> IF attempts > MAX_DELIVERY_ATTEMPTS THEN "failed" ELSE "pending"

NextStatusUnknown(outcome, attempts) ==
    CASE outcome = "success"   -> "sent"
      [] outcome = "cancelled" -> "cancelled"
      [] outcome = "permanent" -> "failed"
      [] OTHER -> "retrying"

NextStatus(outcome, attempts) ==
    CASE outcome = "success"   -> "sent"
      [] outcome = "cancelled" -> "cancelled"
      [] outcome = "permanent" -> "failed"
      [] OTHER -> IF attempts >= MAX_DELIVERY_ATTEMPTS THEN "failed" ELSE "pending"

\* Their UPDATE ... WHERE id = ?, the AlertHistory INSERT, and the commit.  When
\* the row is gone the unit of work raises and the history row rolls back.
Write(d, r) ==
    /\ task[d][r] # NoTask
    /\ task[d][r].pc = "write"
    /\ task' = [task EXCEPT ![d][r] = NoTask]
    /\ \/ /\ Live(r)
          /\ rows' = [rows EXCEPT
                        ![r].status = NextStatus(task[d][r].outcome, task[d][r].attempts),
                        ![r].due = FALSE,
                        ![r].lease = NoLease]
          /\ recorded' = IF task[d][r].outcome = "success"
                           THEN recorded \cup {task[d][r].key} ELSE recorded
       \/ ~Live(r) /\ UNCHANGED <<rows, recorded>>
    /\ UNCHANGED <<channels, batch, lost, ever, accepted>>

(***************************************************************************)
(* Faults: the job deadline cancels every task, or the process dies; one   *)
(* task raises (a database error).  Leases stay behind.                    *)
(***************************************************************************)
Abandon(d) ==
    /\ batch[d] # {} \/ Running(d) # {}
    /\ lost < MaxLost
    /\ lost' = lost + 1
    /\ batch' = [batch EXCEPT ![d] = {}]
    /\ task' = [task EXCEPT ![d] = [r \in RowId |-> NoTask]]
    /\ UNCHANGED <<channels, rows, ever, accepted, recorded>>

TaskFails(d, r) ==
    /\ task[d][r] # NoTask
    /\ lost < MaxLost
    /\ lost' = lost + 1
    /\ task' = [task EXCEPT ![d][r] = NoTask]
    /\ UNCHANGED <<channels, rows, batch, ever, accepted, recorded>>

(***************************************************************************)
(* Time and retention.                                                     *)
(***************************************************************************)
BecomesDue(r) ==
    /\ Queued(r) /\ ~rows[r].due
    /\ rows' = [rows EXCEPT ![r].due = TRUE]
    /\ UNCHANGED <<channels, batch, task, lost, ever, accepted, recorded>>

\* The daily job deletes the settled rows created before a cutoff; ids are in
\* creation order.
\* (ExpiredUnsettled: a mutant that forgets the status.)
ExpiredUnsettled(r, cutoff) == Live(r) /\ r <= cutoff

Expired(r, cutoff) == Live(r) /\ rows[r].status \in Terminal /\ r <= cutoff

Cleanup(cutoff) ==
    /\ \E r \in RowId : Expired(r, cutoff)
    /\ rows' = [r \in RowId |-> IF Expired(r, cutoff) THEN NoRow ELSE rows[r]]
    /\ UNCHANGED <<channels, batch, task, lost, ever, accepted, recorded>>

-----------------------------------------------------------------------------
Settings ==
    \E c \in Channel :
        \/ \E u \in User, e \in BOOLEAN, f \in Config : CreateChannel(c, u, e, f)
        \/ \E e \in BOOLEAN, f \in Config : UpdateChannel(c, e, f)
        \/ DeleteChannel(c)

Enqueue ==
    \E r \in RowId :
        \/ \E k \in Key : Insert(k, r)
        \/ Redrive(r)

TaskStep(d, r) ==
    \/ Claim(d, r)
    \/ ClaimRefused(d, r)
    \/ \E o \in {"success", "permanent", "transient"} : Post(d, r, o)
    \/ CheckFence(d, r)
    \/ Write(d, r)

Fault == \E d \in Dispatcher : Abandon(d) \/ \E r \in RowId : TaskFails(d, r)

Clock == \E r \in RowId : BecomesDue(r) \/ Cleanup(r)

Next ==
    \/ Settings
    \/ Enqueue
    \/ \E d \in Dispatcher : SelectBatch(d) \/ \E r \in RowId : TaskStep(d, r)
    \/ Fault
    \/ Clock

Spec == Init /\ [][Next]_vars

\* The scheduler starts the job every minute, its coroutines are scheduled, the
\* transport has a hard timeout, and time passes.  Users, scans, faults and the
\* cleanup job owe nothing.
Fairness ==
    /\ \A d \in Dispatcher :
        /\ WF_vars(SelectBatch(d))
        /\ \A r \in RowId : WF_vars(TaskStep(d, r))
    /\ \A r \in RowId : WF_vars(BecomesDue(r))

FairSpec == Spec /\ Fairness
-----------------------------------------------------------------------------
(***************************************************************************)
(* What the outbox promises.                                               *)
(***************************************************************************)

\* The table never holds two rows for one delivery: enqueue_signal_webhook's
\* look-up and insert are one write transaction, so concurrent scans, redrives
\* and id reuse cannot queue the same signal twice.
OneRowPerDelivery ==
    \A q, r \in RowId : Live(q) /\ Live(r) /\ rows[q].key = rows[r].key => q = r

\* MAX_PENDING_PER_USER is a hard cap: no interleaving of enqueues, redrives,
\* claims, retries and late records leaves a user with more active rows.
QueueCap == \A u \in User : Cardinality(QueueOf(u)) <= MAX_PENDING_PER_USER

\* A POST in flight carries a signal to its own user's channel and to the URL
\* and secret generation it was queued for, however the channel was rotated,
\* deleted or recreated (even by another user) in between.
NeverRedirected ==
    \A d \in Dispatcher, r \in RowId :
        task[d][r] # NoTask /\ task[d][r].pc = "post" =>
            LET t == task[d][r]
            IN  /\ t.target = <<t.key.user, t.key.config>>
                /\ t.target \in ever[t.key.channel]

\* When a task writes a result, the row it writes is the one it claimed and it
\* still holds the lease: the fence is as strong as its wording.
FenceHolds ==
    \A d \in Dispatcher, r \in RowId :
        task[d][r] # NoTask /\ task[d][r].pc = "write" /\ Live(r) => Holds(d, r)

\* The weaker fence that one dispatcher has even when ids are reused: the row of
\* a running task is gone, still held by it with its attempt number, or a fresh
\* delivery that took over the id; so a late UPDATE never revives a settled row.
Fresh(r) == Live(r) /\ rows[r].status = "pending" /\ rows[r].attempts = 0

TaskOwnsRow ==
    \A d \in Dispatcher, r \in RowId : task[d][r] # NoTask =>
        /\ r \notin batch[d]
        /\ \/ ~Live(r)
           \/ Fresh(r)
           \/ Holds(d, r) /\ rows[r].attempts = task[d][r].attempts

\* A row says "sent" only if a receiver did process that delivery and the alert
\* history, from which the cooldown is counted, says so too.
SentIsBacked ==
    \A r \in RowId : Live(r) /\ rows[r].status = "sent" =>
        rows[r].key \in accepted \cap recorded

\* Retries are bounded: beyond MAX_DELIVERY_ATTEMPTS each further claim is paid
\* for by a claim lost to a killed job or a failed task, and a row waiting for a
\* retry has attempts left.
AttemptsBounded ==
    \A r \in RowId : Live(r) =>
        /\ rows[r].attempts <= MAX_DELIVERY_ATTEMPTS + lost
        /\ rows[r].status = "pending" => rows[r].attempts < MAX_DELIVERY_ATTEMPTS

\* AttemptsBounded made inductive: a processing row without a task is a lost one.
AttemptsPaid ==
    \A r \in RowId : Live(r) =>
        /\ rows[r].attempts <= MAX_DELIVERY_ATTEMPTS + lost
        /\ rows[r].status = "pending" => rows[r].attempts < MAX_DELIVERY_ATTEMPTS
        /\ rows[r].status = "processing" =>
            /\ rows[r].lease \in Dispatcher
            /\ task[rows[r].lease][r] = NoTask =>
                    rows[r].attempts < MAX_DELIVERY_ATTEMPTS + lost

\* Nothing un-sends a delivery: a late result, an expired lease or a redrive
\* never puts a sent row back in the queue.
SentIsFinal ==
    [][\A r \in RowId : Live(r) /\ rows[r].status = "sent" /\ Live(r)' =>
            rows'[r].status = "sent"]_vars

\* A batch never serves one user twice more than another whose due row it left.
SelectedFor(u, S) == {r \in S : rows[r].key.user = u}

FairBatch ==
    [][\A d \in Dispatcher : batch[d] = {} =>
        \A u, v \in User :
            SelectedFor(u, DueRows \ batch'[d]) # {} /\ batch'[d] # {} =>
                Cardinality(SelectedFor(v, batch'[d]))
                    <= Cardinality(SelectedFor(u, batch'[d])) + 1]_vars

\* Every queued delivery is eventually sent, given up, cancelled or deleted,
\* whatever leases a finite number of killed jobs leave behind.  A redriven row
\* keeps its place at the head of the queue, so the promise needs redrives to
\* stop: with more of them than a batch holds, younger rows would starve.
RedrivesStop == <>[][\A r \in RowId : ~Redrive(r)]_vars

EverySettles == RedrivesStop => \A r \in RowId : Queued(r) ~> ~Queued(r)

-----------------------------------------------------------------------------
(***************************************************************************)
(* The queue a caller sees: the abstract specification and the mapping.    *)
(***************************************************************************)
AbstractState(status) ==
    IF status \in Active THEN "queued"
    ELSE IF status = "sent" THEN "delivered" ELSE "dropped"

items == [r \in RowId |->
            IF Live(r) THEN [user  |-> rows[r].key.user,
                             state |-> AbstractState(rows[r].status)]
                       ELSE NoRow]

Queue == INSTANCE DeliveryQueue WITH
            Item <- RowId, Capacity <- MAX_PENDING_PER_USER, NoItem <- NoRow

ImplementsQueue == Queue!Spec
=============================================================================
