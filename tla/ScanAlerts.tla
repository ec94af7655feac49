----------------------------- MODULE ScanAlerts -----------------------------
(***************************************************************************)
(* Scans and the alerts they raise: run_scheduled_scan                     *)
(* (src/backend/scheduler.py), the manual and deep scan routes             *)
(* (src/backend/routes/scan.py) and the alert manager both call            *)
(* (src/backend/alerts/manager.py).                                        *)
(*                                                                         *)
(* A scan holds one database session.  It adds its AlertHistory rows to    *)
(* the session, reads with no_autoflush, and commits once, at its end:     *)
(* until then nobody sees them, itself included.  Outside a write          *)
(* transaction each SELECT sees the database as it is at that SELECT, so   *)
(* the two queries of _count_recent_alerts are two actions.                *)
(*                                                                         *)
(* What a market analysis finds, and which channels and pair settings a    *)
(* user has when they are read, are free choices.  "Recent" stands for     *)
(* "within the last DEFAULT_COOLDOWN_HOURS"; a queued webhook is settled   *)
(* within that time (its retries take minutes).                            *)
(***************************************************************************)
EXTENDS Naturals, FiniteSets

CONSTANTS
    User,
    Pair,
    Direct,         \* telegram and e-mail channels
    Webhook,        \* signed webhook channels
    Request,        \* scan requests that may be under way at once
    Job,            \* the scheduled job, of which one instance runs at a time
    Serial,         \* bound: numbers that tell concurrent alerts apart
    MaxFaults       \* bound: crashes, failed commits and lost answers

Channel == Direct \cup Webhook
Scanner == Request \cup {Job}
Topic == User \X Pair

ASSUME ConstantsAssumption ==
    /\ User # {} /\ Pair # {}
    /\ Job \notin Request
    /\ Direct \cap Webhook = {}
    /\ Serial \subseteq Nat /\ Serial # {}
    /\ MaxFaults \in Nat
    /\ IsFiniteSet(Scanner)

VARIABLES
    running,    \* how many scan_runs rows have status running
    session,    \* what each scan holds in its session and local variables
    recent,     \* topics with a recent AlertHistory row of status sent
    queued,     \* recent pending or processing webhook deliveries, per topic
    reached,    \* history: the recent alerts that did reach the user, per topic
    faults

vars == <<running, session, recent, queued, reached, faults>>

\* topic, channels and serial are those of the user and result at hand.
Session ==
    [pc: {"idle", "analyse", "results", "history", "queue", "deliver"},
     todo: SUBSET Topic, channels: SUBSET Channel, users: SUBSET User,
     topic: Topic, serial: Serial, left: SUBSET Channel,
     log: SUBSET Topic]         \* AlertHistory rows (sent) not yet committed

SomeTopic == CHOOSE t \in Topic : TRUE
SomeSerial == CHOOSE n \in Serial : TRUE

Idle == [pc |-> "idle", todo |-> {}, channels |-> {}, users |-> {},
         topic |-> SomeTopic, serial |-> SomeSerial, left |-> {}, log |-> {}]

TypeOK ==
    /\ running \in Nat
    /\ session \in [Scanner -> Session]
    /\ recent \in SUBSET Topic
    /\ queued \in [Topic -> SUBSET Serial]
    /\ reached \in [Topic -> SUBSET Serial]
    /\ faults \in 0..MaxFaults

Init ==
    /\ running = 0
    /\ session = [s \in Scanner |-> Idle]
    /\ recent = {}
    /\ queued = [t \in Topic |-> {}]
    /\ reached = [t \in Topic |-> {}]
    /\ faults = 0

-----------------------------------------------------------------------------
(***************************************************************************)
(* How a scan starts.                                                      *)
(***************************************************************************)
StartJob ==
    /\ session[Job].pc = "idle"
    /\ running' = running + 1
    /\ session' = [session EXCEPT ![Job].pc = "analyse"]
    /\ UNCHANGED <<recent, queued, reached, faults>>

\* The job marks its own row completed or failed.
EndRun(s) == IF s = Job THEN running - 1 ELSE running

\* Mutant of NothingToScan: the early return does not touch the row.
NothingToScanReturns ==
    /\ session[Job].pc = "analyse"
    /\ session' = [session EXCEPT ![Job] = Idle]
    /\ UNCHANGED <<running, recent, queued, reached, faults>>

NothingToScan ==
    /\ session[Job].pc = "analyse"
    /\ running' = EndRun(Job)
    /\ session' = [session EXCEPT ![Job] = Idle]
    /\ UNCHANGED <<recent, queued, reached, faults>>

\* The watchlist is read once; some pairs are analysed, some fail.
Analyse(results) ==
    /\ session[Job].pc = "analyse"
    /\ session' = [session EXCEPT ![Job] = [Idle EXCEPT !.pc = "results", !.todo = results]]
    /\ UNCHANGED <<running, recent, queued, reached, faults>>

\* A manual or deep scan whose answer did not come from the cache.
StartRequest(s, t) ==
    /\ session[s].pc = "idle"
    /\ session' = [session EXCEPT ![s] = [Idle EXCEPT !.pc = "results", !.todo = {t}]]
    /\ UNCHANGED <<running, recent, queued, reached, faults>>

(***************************************************************************)
(* process_scan_results and _process_single_result.                        *)
(***************************************************************************)

\* users: whose channels and settings this scan has read and not finished with.
UserDone(s) == \A t \in session[s].todo : t[1] \notin session[s].users

\* A user without an enabled channel is passed over.
BeginUser(s, u, enabled) ==
    /\ session[s].pc = "results"
    /\ UserDone(s)
    /\ \E t \in session[s].todo : t[1] = u
    /\ session' = IF enabled = {}
                    THEN [session EXCEPT ![s].todo = {t \in @ : t[1] # u}]
                    ELSE [session EXCEPT ![s].users = {u}, ![s].channels = enabled]
    /\ UNCHANGED <<running, recent, queued, reached, faults>>

\* The result is no alert (not confirmed, below the threshold, muted, malformed)
\* or goes on to the cooldown check.  The channels are those in the pair's list.
TakeResult(s, t, alert, listed) ==
    /\ session[s].pc = "results"
    /\ t \in session[s].todo
    /\ t[1] \in session[s].users
    /\ session' = IF alert
                    THEN [session EXCEPT ![s].pc = "history", ![s].topic = t,
                                         ![s].todo = @ \ {t},
                                         ![s].left = session[s].channels \cap listed]
                    ELSE [session EXCEPT ![s].todo = @ \ {t}]
    /\ UNCHANGED <<running, recent, queued, reached, faults>>

\* _count_recent_alerts, first query: sent rows of alert_histories.
CountHistory(s) ==
    /\ session[s].pc = "history"
    /\ session' = [session EXCEPT
                    ![s].pc = IF session[s].topic \in recent THEN "results" ELSE "queue"]
    /\ UNCHANGED <<running, recent, queued, reached, faults>>

\* Second query: pending or processing deliveries.  Then, if a channel is left,
\* the alert goes out.
CountQueue(s, n) ==
    /\ session[s].pc = "queue"
    /\ session' = [session EXCEPT
                    ![s].pc = IF queued[session[s].topic] # {} \/ session[s].left = {}
                                THEN "results" ELSE "deliver",
                    ![s].serial = n]
    /\ UNCHANGED <<running, recent, queued, reached, faults>>

Delivering(s, c) == session[s].pc = "deliver" /\ c \in session[s].left

\* Mutant of AfterChannel: no AlertHistory row is added.
AfterChannelUnlogged(s, c, sent) ==
    LET left == session[s].left \ {c}
    IN  [session EXCEPT ![s].left = left,
                        ![s].pc = IF left = {} THEN "results" ELSE @]

\* The session once channel c is dealt with, and whether a sent row is added.
AfterChannel(s, c, sent) ==
    LET left == session[s].left \ {c}
    IN  [session EXCEPT ![s].left = left,
                        ![s].pc = IF left = {} THEN "results" ELSE @,
                        ![s].log = IF sent THEN @ \cup {session[s].topic} ELSE @]

Send(s, c) ==
    /\ c \in Direct /\ Delivering(s, c)
    /\ session' = AfterChannel(s, c, TRUE)
    /\ reached' = [reached EXCEPT ![session[s].topic] = @ \cup {session[s].serial}]
    /\ UNCHANGED <<running, recent, queued, faults>>

\* Refused, misconfigured, raised, or over the queue limit.
SendFails(s, c) ==
    /\ Delivering(s, c)
    /\ session' = AfterChannel(s, c, FALSE)
    /\ UNCHANGED <<running, recent, queued, reached, faults>>

\* The message arrives, its answer does not: it is logged as failed.
AnswerLost(s, c) ==
    /\ c \in Direct /\ Delivering(s, c)
    /\ faults < MaxFaults
    /\ faults' = faults + 1
    /\ session' = AfterChannel(s, c, FALSE)
    /\ reached' = [reached EXCEPT ![session[s].topic] = @ \cup {session[s].serial}]
    /\ UNCHANGED <<running, recent, queued>>

\* enqueue_signal_webhook commits the delivery in a transaction of its own.
Queue(s, c) ==
    /\ c \in Webhook /\ Delivering(s, c)
    /\ session' = AfterChannel(s, c, FALSE)
    /\ queued' = [queued EXCEPT ![session[s].topic] = @ \cup {session[s].serial}]
    /\ UNCHANGED <<running, recent, reached, faults>>

(***************************************************************************)
(* How a scan ends.                                                        *)
(***************************************************************************)
Finished(s) == session[s].pc = "results" /\ session[s].todo = {}

\* Mutant of Commit: the session is closed without a commit.
CommitMissing(s) ==
    /\ Finished(s)
    /\ running' = EndRun(s)
    /\ session' = [session EXCEPT ![s] = Idle]
    /\ UNCHANGED <<recent, queued, reached, faults>>

Commit(s) ==
    /\ Finished(s)
    /\ recent' = recent \cup session[s].log
    /\ running' = EndRun(s)
    /\ session' = [session EXCEPT ![s] = Idle]
    /\ UNCHANGED <<queued, reached, faults>>

\* The commit raises: the rows of the session are lost, the job marks its run
\* failed in a second commit, which may raise too.
CommitFails(s) ==
    /\ Finished(s)
    /\ faults < MaxFaults
    /\ faults' = faults + 1
    /\ running' \in {EndRun(s), running}
    /\ session' = [session EXCEPT ![s] = Idle]
    /\ UNCHANGED <<recent, queued, reached>>

\* The web process dies and is restarted: every scan is gone, no row says so.
Crash ==
    /\ \E s \in Scanner : session[s] # Idle
    /\ faults < MaxFaults
    /\ faults' = faults + 1
    /\ session' = [s \in Scanner |-> Idle]
    /\ UNCHANGED <<running, recent, queued, reached>>

(***************************************************************************)
(* The outbox (module WebhookOutbox) and time.                             *)
(***************************************************************************)

\* The sent status and the AlertHistory row are one transaction.
Deliver(t, n) ==
    /\ n \in queued[t]
    /\ queued' = [queued EXCEPT ![t] = @ \ {n}]
    /\ recent' = recent \cup {t}
    /\ reached' = [reached EXCEPT ![t] = @ \cup {n}]
    /\ UNCHANGED <<running, session, faults>>

GiveUp(t, n) ==
    /\ n \in queued[t]
    /\ queued' = [queued EXCEPT ![t] = @ \ {n}]
    /\ UNCHANGED <<running, session, recent, reached, faults>>

\* The receiver processed the delivery, but its answer was lost each time: the
\* user has the alert, the history has no row of it.
GiveUpUnanswered(t, n) ==
    /\ n \in queued[t]
    /\ faults < MaxFaults
    /\ faults' = faults + 1
    /\ queued' = [queued EXCEPT ![t] = @ \ {n}]
    /\ reached' = [reached EXCEPT ![t] = @ \cup {n}]
    /\ UNCHANGED <<running, session, recent>>

CoolDown(t) ==
    /\ queued[t] = {}
    /\ t \in recent \/ reached[t] # {}
    /\ recent' = recent \ {t}
    /\ reached' = [reached EXCEPT ![t] = {}]
    /\ UNCHANGED <<running, session, queued, faults>>

-----------------------------------------------------------------------------
\* A number no alert of the topic still in sight bears.
NewSerial(t, n) ==
    /\ n \notin reached[t] \cup queued[t]
    /\ \A s \in Scanner : session[s].pc = "deliver" /\ session[s].topic = t =>
            session[s].serial # n

FirstSerial(t, n) == NewSerial(t, n) /\ \A m \in Serial : NewSerial(t, m) => n <= m

Start ==
    \/ StartJob
    \/ \E s \in Request, t \in Topic : StartRequest(s, t)

Scan == NothingToScan \/ \E results \in SUBSET Topic : Analyse(results)

Process(s) ==
    \/ \E u \in User, enabled \in SUBSET Channel : BeginUser(s, u, enabled)
    \/ \E t \in Topic, alert \in BOOLEAN, listed \in SUBSET Channel :
            TakeResult(s, t, alert, listed)
    \/ CountHistory(s)
    \/ \E n \in Serial : FirstSerial(session[s].topic, n) /\ CountQueue(s, n)
    \/ \E c \in Channel : Send(s, c) \/ SendFails(s, c) \/ AnswerLost(s, c) \/ Queue(s, c)
    \/ Commit(s)
    \/ CommitFails(s)

Environment ==
    \E t \in Topic :
        \/ CoolDown(t)
        \/ \E n \in Serial : Deliver(t, n) \/ GiveUp(t, n) \/ GiveUpUnanswered(t, n)

Next ==
    \/ Start
    \/ Scan
    \/ \E s \in Scanner : Process(s)
    \/ Crash
    \/ Environment

Spec == Init /\ [][Next]_vars

-----------------------------------------------------------------------------
(***************************************************************************)
(* What the alert manager promises.                                        *)
(***************************************************************************)

\* The module's "Dedup": within a cooldown a user is alerted once about a pair.
\* It holds of one scanner without webhooks; the runs show what breaks it.
AlertedOnce == \A t \in Topic : Cardinality(reached[t]) <= 1

\* What is left of it when scans overlap: each scan under way adds at most one
\* alert, and with webhooks one more that slips through between the two queries
\* of the count while a delivery moves from the queue to the history.
AlertsBounded ==
    \A t \in Topic : Cardinality(reached[t]) <=
        Cardinality(Scanner) * ((IF Webhook = {} THEN 1 ELSE 2) + faults)

\* "Persist every actual send attempt": an alert the user has received is in the
\* history, or will be when the scan that sent it commits.
SentIsLogged ==
    faults = 0 => \A t \in Topic : reached[t] # {} =>
        t \in recent \/ \E s \in Scanner : t \in session[s].log

\* A scan_runs row that says "running" without a job working on it is one a
\* crash, or a failure while recording a failure, left behind.
RunsTrackJob == running <= faults + (IF session[Job].pc = "idle" THEN 0 ELSE 1)
=============================================================================
