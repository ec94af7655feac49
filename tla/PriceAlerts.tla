----------------------------- MODULE PriceAlerts -----------------------------
(***************************************************************************)
(* Price alerts: the routes and the chart setup that write price_alerts    *)
(* (src/backend/services/price_alert_service.py, routes/chart_alerts.py)   *)
(* and the two scheduled jobs that fire them, check_price_alerts and       *)
(* check_advanced_alerts_job (src/backend/scheduler.py).                   *)
(*                                                                         *)
(* A job reads the active alerts once, then awaits prices or candles and   *)
(* fires one alert after the other.  Firing sets the status in the session; *)
(* the next SELECT flushes it as UPDATE ... WHERE id, which takes SQLite's *)
(* write lock, and the commit comes after the messages were sent.  Until   *)
(* then readers see the row as it was and writers wait.                    *)
(*                                                                         *)
(* Rows carry a generation, so that a row that took over a freed id can be *)
(* told from the one that had it before.                                   *)
(***************************************************************************)
EXTENDS Naturals, FiniteSets

CONSTANTS
    Alert,          \* row ids
    Type,           \* the alert types in use: price (also target, stop), rsi (also
                    \* ema_cross, volume_spike)
    MaxRows,        \* bound: rows that are ever inserted
    MaxPriceFaults       \* bound: crashes and failed commits

Job == {"price", "advanced"}

ASSUME PriceAssumption ==
    /\ Type \subseteq {"price", "rsi"}
    /\ MaxRows \in Nat \ {0} /\ MaxPriceFaults \in Nat

VARIABLES
    alertRow,        \* price_alerts
    used,       \* rows inserted so far
    hit,        \* the alerts whose price condition is met
    job,        \* the session and local variables of each job
    fired,      \* history: messages sent for the present row of each id
    priceFaults

priceVars == <<alertRow, used, hit, job, fired, priceFaults>>

AlertRow == [type: Type, status: {"active", "triggered", "cancelled"}, gen: 1..MaxRows]
NoAlertRow == [gen |-> 0]
NoAlert == "none"

\* seen: the rows as the job read them; from send on its session holds the write lock.
JobState == [pc: {"idle", "check", "send", "commit"}, todo: SUBSET Alert,
             seen: [Alert -> AlertRow \cup {NoAlertRow}], alert: Alert \cup {NoAlert}]

PriceTypeOK ==
    /\ alertRow \in [Alert -> AlertRow \cup {NoAlertRow}]
    /\ used \in 0..MaxRows
    /\ hit \subseteq Alert
    /\ job \in [Job -> JobState]
    /\ fired \in [Alert -> Nat]
    /\ priceFaults \in 0..MaxPriceFaults

IdleJob == [pc |-> "idle", todo |-> {}, seen |-> [a \in Alert |-> NoAlertRow],
            alert |-> NoAlert]

PriceInit ==
    /\ alertRow = [a \in Alert |-> NoAlertRow]
    /\ used = 0
    /\ hit = {}
    /\ job = [j \in Job |-> IdleJob]
    /\ fired = [a \in Alert |-> 0]
    /\ priceFaults = 0

Exists(a) == alertRow[a] # NoAlertRow
Locked == \E j \in Job : job[j].pc \in {"send", "commit"}

-----------------------------------------------------------------------------
(***************************************************************************)
(* The web routes.  Each write waits for the write lock.                   *)
(***************************************************************************)
InsertAlert(a, type) ==
    /\ used < MaxRows
    /\ alertRow' = [alertRow EXCEPT ![a] =
                [type |-> type, status |-> "active", gen |-> used + 1]]
    /\ used' = used + 1
    /\ fired' = [fired EXCEPT ![a] = 0]
    /\ UNCHANGED <<hit, job, priceFaults>>

\* The id may be that of a row deleted before.
Create(a, type) ==
    /\ ~Locked
    /\ ~Exists(a)
    /\ InsertAlert(a, type)

\* sync_server_setup deletes the rows of a chart and inserts the new levels in
\* one transaction: a new row can get the id of an old one.
SyncSetup(a) ==
    /\ ~Locked
    /\ Exists(a) /\ alertRow[a].type = "price"
    /\ InsertAlert(a, "price")

Cancel(a) ==
    /\ ~Locked
    /\ Exists(a)
    /\ alertRow' = [alertRow EXCEPT ![a].status = "cancelled"]
    /\ UNCHANGED <<used, hit, job, fired, priceFaults>>

Delete(a) ==
    /\ ~Locked
    /\ Exists(a)
    /\ alertRow' = [alertRow EXCEPT ![a] = NoAlertRow]
    /\ UNCHANGED <<used, hit, job, fired, priceFaults>>

(***************************************************************************)
(* The jobs.                                                               *)
(***************************************************************************)

ActiveAlerts(j) ==
    {a \in Alert : Exists(a) /\ alertRow[a].status = "active" /\ (j = "advanced" => alertRow[a].type = "rsi")}

\* Mutant of Selected: LIMIT 1.
SelectedFirst(j) == {a \in ActiveAlerts(j) : \A b \in ActiveAlerts(j) : alertRow[a].gen <= alertRow[b].gen}

\* The price job takes the active alerts of every type.
Selected(j) == ActiveAlerts(j)

StartJob(j) ==
    /\ job[j].pc = "idle"
    /\ Selected(j) # {}
    /\ job' = [job EXCEPT ![j] = [IdleJob EXCEPT
                    !.pc = "check", !.todo = Selected(j),
                    !.seen = [a \in Alert |-> IF a \in Selected(j) THEN alertRow[a] ELSE NoAlertRow]]]
    /\ UNCHANGED <<alertRow, used, hit, fired, priceFaults>>

\* The job's state once it is done with a.
After(j, a) ==
    LET left == job[j].todo \ {a}
    IN  IF left = {} THEN IdleJob ELSE [job[j] EXCEPT !.pc = "check", !.todo = left, !.alert = NoAlert,
                                      !.seen[a] = NoAlertRow]

\* No price or candles, no matching signal, or in cooldown.
Pass(j, a) ==
    /\ job[j].pc = "check" /\ a \in job[j].todo
    /\ job' = [job EXCEPT ![j] = After(j, a)]
    /\ UNCHANGED <<alertRow, used, hit, fired, priceFaults>>

\* triggered_at is written with the status triggered and at no other time, so a
\* row that was read active is never in its cooldown.
InCooldown(r) == r.status = "triggered"

\* The level is hit, or the detector of its type reports a signal.
Fires(j, a) ==
    /\ job[j].pc = "check" /\ a \in job[j].todo
    /\ j = "price" => a \in hit
    /\ ~InCooldown(job[j].seen[a])

\* _trigger_alert up to its SELECT, which flushes the UPDATE by id.
Flush(j, a) ==
    /\ Fires(j, a)
    /\ ~Locked /\ Exists(a)
    /\ job' = [job EXCEPT ![j].pc = "send", ![j].alert = a]
    /\ UNCHANGED <<alertRow, used, hit, fired, priceFaults>>

\* The row is gone or the lock does not come free in time: the flush raises and
\* the job ends.
FlushFails(j, a) ==
    /\ Fires(j, a)
    /\ Locked \/ ~Exists(a)
    /\ job' = [job EXCEPT ![j] = IdleJob]
    /\ UNCHANGED <<alertRow, used, hit, fired, priceFaults>>

\* The user's channels are tried; at least one message arrives or none does.
Notify(j, arrives) ==
    LET a == job[j].alert
    IN  /\ job[j].pc = "send"
        /\ job' = [job EXCEPT ![j].pc = "commit"]
        /\ fired' = [fired EXCEPT ![a] =
                        IF arrives /\ alertRow[a].gen = job[j].seen[a].gen THEN @ + 1 ELSE @]
        /\ UNCHANGED <<alertRow, used, hit, priceFaults>>

\* Mutant of Commit: the status is not written.
CommitForgetsAlert(j) ==
    /\ job[j].pc = "commit"
    /\ job' = [job EXCEPT ![j] = After(j, job[j].alert)]
    /\ UNCHANGED <<alertRow, used, hit, fired, priceFaults>>

Commit(j) ==
    LET a == job[j].alert
    IN  /\ job[j].pc = "commit"
        /\ alertRow' = [alertRow EXCEPT ![a].status = "triggered"]
        /\ job' = [job EXCEPT ![j] = After(j, a)]
        /\ UNCHANGED <<used, hit, fired, priceFaults>>

\* The commit fails or the process dies: the session is gone.
Fail(j) ==
    /\ job[j].pc # "idle"
    /\ priceFaults < MaxPriceFaults
    /\ priceFaults' = priceFaults + 1
    /\ job' = [job EXCEPT ![j] = IdleJob]
    /\ UNCHANGED <<alertRow, used, hit, fired>>

(***************************************************************************)
(* The market.                                                             *)
(***************************************************************************)
PriceMoves(a) ==
    /\ hit' = IF a \in hit THEN hit \ {a} ELSE hit \cup {a}
    /\ UNCHANGED <<alertRow, used, job, fired, priceFaults>>

-----------------------------------------------------------------------------
Routes ==
    \E a \in Alert : SyncSetup(a) \/ Cancel(a) \/ Delete(a) \/ \E type \in Type : Create(a, type)

Check(j) ==
    \/ StartJob(j)
    \/ \E a \in Alert : Pass(j, a) \/ Flush(j, a) \/ FlushFails(j, a)
    \/ \E arrives \in BOOLEAN : Notify(j, arrives)
    \/ Commit(j)

PriceNext ==
    \/ Routes
    \/ \E j \in Job : Check(j) \/ Fail(j)
    \/ \E a \in Alert : PriceMoves(a)

PriceSpec == PriceInit /\ [][PriceNext]_priceVars

\* The jobs run again and again; prices are not unavailable, nor is the database
\* locked, for ever.
PriceFairness ==
    \A j \in Job :
        /\ WF_priceVars(Check(j))
        /\ \A a \in Alert : SF_priceVars(Flush(j, a))

PriceFairSpec == PriceSpec /\ PriceFairness

-----------------------------------------------------------------------------
(***************************************************************************)
(* Properties.                                                             *)
(***************************************************************************)
JobsFor(type) == IF type = "rsi" THEN 2 ELSE 1

\* An alert is received at most once per job that selects its type, plus once
\* for every crash or failed commit: the status is written before the messages
\* go out and committed after them, and no other writer can take the lock in
\* between (price_alert_service.py, _trigger_alert).
FiredOncePerJob ==
    \A a \in Alert : Exists(a) => fired[a] <= JobsFor(alertRow[a].type) + priceFaults

\* An alert whose level stays hit does not stay active: failed passes, prices
\* that were unavailable and writers that held the lock only delay it
\* (check_price_alerts, run every two minutes).
NeverForgotten ==
    \A a \in Alert : ~<>[](Exists(a) /\ alertRow[a].status = "active" /\ a \in hit)

=============================================================================
