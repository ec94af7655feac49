---------------------------- MODULE PositionAlerts ----------------------------
(***************************************************************************)
(* check_position_alerts_job of src/backend/scheduler.py: every ten        *)
(* minutes the open positions of each connected exchange are held against  *)
(* the scan, and a DANGER alert goes to the user's Telegram channel, at    *)
(* most once an hour per user, symbol and type.                            *)
(*                                                                         *)
(* The dedup store is a dict in memory, keyed without exchange, side or    *)
(* timeframe; it is filled after a send succeeded, with the time at which  *)
(* the job started.  Users share nothing (the key has the user id), so the *)
(* model follows one, with several exchanges.                              *)
(***************************************************************************)
EXTENDS Naturals, FiniteSets

CONSTANTS
    ConnectedExchange,  \* the exchanges the user is connected to
    Danger,         \* the DANGER alerts the user's positions can give rise to
    KeyOf,          \* the (symbol, type) of each of them
    MaxRestarts     \* bound: restarts of the process

ASSUME PositionAssumption == KeyOf \in [Danger -> {KeyOf[d] : d \in Danger}] /\ MaxRestarts \in Nat

AlertKey == {KeyOf[d] : d \in Danger}

VARIABLES
    danger,         \* what an evaluation of each account would find now
    telegram,       \* the user's enabled Telegram channels: none, one or many
    dedup,          \* _position_alert_dedup: how old the entry of each key is
    pass,           \* the local variables of the running job
    sent,           \* history: messages for each key since its last hour ran out
    restarts

positionVars == <<danger, telegram, dedup, pass, sent, restarts>>

\* recent: less than an hour; stale: more than two.
DedupAge == {"none", "recent", "old", "stale"}

\* skip: the keys that were recent when the job read its clock, or were sent by it.
PassState == [pc: {"idle", "rows", "send"}, rows: SUBSET ConnectedExchange, items: SUBSET Danger,
         skip: SUBSET AlertKey]
NoPass == [pc |-> "idle", rows |-> {}, items |-> {}, skip |-> {}]

PositionTypeOK ==
    /\ danger \in [ConnectedExchange -> SUBSET Danger]
    /\ telegram \in {"none", "one", "many"}
    /\ dedup \in [AlertKey -> DedupAge]
    /\ pass \in PassState /\ (pass.pc = "send" => pass.items # {})
    /\ sent \in [AlertKey -> Nat]
    /\ restarts \in 0..MaxRestarts

PositionInit ==
    /\ danger = [a \in ConnectedExchange |-> {}]
    /\ telegram = "none"
    /\ dedup = [k \in AlertKey |-> "none"]
    /\ pass = NoPass
    /\ sent = [k \in AlertKey |-> 0]
    /\ restarts = 0

-----------------------------------------------------------------------------
(***************************************************************************)
(* The job.                                                                *)
(***************************************************************************)
StartPass ==
    /\ pass.pc = "idle"
    /\ pass' = [NoPass EXCEPT !.pc = "rows", !.rows = ConnectedExchange,
                              !.skip = {k \in AlertKey : dedup[k] = "recent"}]
    /\ UNCHANGED <<danger, telegram, dedup, sent, restarts>>

\* The positions are loaded and compared with a scan, then the channel is read:
\* scalar_one_or_none raises when there is more than one.
EvaluateRow(a) ==
    /\ pass.pc = "rows" /\ a \in pass.rows
    /\ pass' = IF danger[a] # {} /\ telegram = "one"
               THEN [pass EXCEPT !.pc = "send", !.rows = @ \ {a}, !.items = danger[a]]
               ELSE [pass EXCEPT !.rows = @ \ {a}]
    /\ UNCHANGED <<danger, telegram, dedup, sent, restarts>>

\* The exchange, the database or the scan does not answer: the next row.
EvaluateRowFails(a) ==
    /\ pass.pc = "rows" /\ a \in pass.rows
    /\ pass' = [pass EXCEPT !.rows = @ \ {a}]
    /\ UNCHANGED <<danger, telegram, dedup, sent, restarts>>

Without(d) ==
    [pass EXCEPT !.items = @ \ {d}, !.pc = IF pass.items = {d} THEN "rows" ELSE "send"]

\* Mutant of SkipDanger: a danger that is skipped starts the hour of its key again.
SkipDangerRemembers(d) ==
    /\ pass.pc = "send" /\ d \in pass.items
    /\ KeyOf[d] \in pass.skip
    /\ dedup' = [dedup EXCEPT ![KeyOf[d]] = "recent"]
    /\ pass' = Without(d)
    /\ UNCHANGED <<danger, telegram, sent, restarts>>

SkipDanger(d) ==
    /\ pass.pc = "send" /\ d \in pass.items
    /\ KeyOf[d] \in pass.skip
    /\ pass' = Without(d)
    /\ UNCHANGED <<danger, telegram, dedup, sent, restarts>>

\* Mutant of SendDanger: the key is not remembered.
SendDangerForgets(d) ==
    /\ pass.pc = "send" /\ d \in pass.items
    /\ KeyOf[d] \notin pass.skip
    /\ sent[KeyOf[d]] <= MaxRestarts + 1
    /\ sent' = [sent EXCEPT ![KeyOf[d]] = @ + 1]
    /\ pass' = Without(d)
    /\ UNCHANGED <<danger, telegram, dedup, restarts>>

SendDanger(d) ==
    /\ pass.pc = "send" /\ d \in pass.items
    /\ KeyOf[d] \notin pass.skip
    /\ sent' = [sent EXCEPT ![KeyOf[d]] = @ + 1]
    /\ dedup' = [dedup EXCEPT ![KeyOf[d]] = "recent"]
    /\ pass' = [Without(d) EXCEPT !.skip = @ \cup {KeyOf[d]}]
    /\ UNCHANGED <<danger, telegram, restarts>>

\* send_alert returns False: nothing is remembered.
SendDangerRefused(d) ==
    /\ pass.pc = "send" /\ d \in pass.items
    /\ KeyOf[d] \notin pass.skip
    /\ pass' = Without(d)
    /\ UNCHANGED <<danger, telegram, dedup, sent, restarts>>

\* Entries of more than two hours are purged at the end.
EndPass ==
    /\ pass.pc = "rows" /\ pass.rows = {}
    /\ dedup' = [k \in AlertKey |-> IF dedup[k] = "stale" THEN "none" ELSE dedup[k]]
    /\ pass' = NoPass
    /\ UNCHANGED <<danger, telegram, sent, restarts>>

(***************************************************************************)
(* Time, the market, the user, and the process.                            *)
(***************************************************************************)
Ages(k) ==
    \/ /\ dedup[k] = "recent"
       /\ dedup' = [dedup EXCEPT ![k] = "old"]
       /\ sent' = [sent EXCEPT ![k] = 0]
       /\ UNCHANGED <<danger, telegram, pass, restarts>>
    \/ /\ dedup[k] = "old"
       /\ dedup' = [dedup EXCEPT ![k] = "stale"]
       /\ UNCHANGED <<danger, telegram, pass, sent, restarts>>

DangerChanges(a) ==
    /\ \E S \in SUBSET Danger : S # danger[a] /\ danger' = [danger EXCEPT ![a] = S]
    /\ UNCHANGED <<telegram, dedup, pass, sent, restarts>>

ChannelsChange ==
    /\ \E c \in {"none", "one", "many"} \ {telegram} : telegram' = c
    /\ UNCHANGED <<danger, dedup, pass, sent, restarts>>

SchedulerRestarts ==
    /\ restarts < MaxRestarts
    /\ restarts' = restarts + 1
    /\ dedup' = [k \in AlertKey |-> "none"]
    /\ pass' = NoPass
    /\ UNCHANGED <<danger, telegram, sent>>

-----------------------------------------------------------------------------
Works ==
    \/ StartPass \/ EndPass
    \/ \E a \in ConnectedExchange : EvaluateRow(a) \/ EvaluateRowFails(a)
    \/ \E d \in Danger : SkipDanger(d) \/ SendDanger(d) \/ SendDangerRefused(d)

PositionNext ==
    \/ Works
    \/ \E k \in AlertKey : Ages(k)
    \/ \E a \in ConnectedExchange : DangerChanges(a)
    \/ ChannelsChange
    \/ SchedulerRestarts

PositionSpec == PositionInit /\ [][PositionNext]_positionVars

\* The job runs every ten minutes and an hour passes; an account that is looked
\* at again and again answers once, and so does Telegram.
PositionFairness ==
    /\ WF_positionVars(Works)
    /\ \A k \in AlertKey : WF_positionVars(Ages(k))
    /\ \A a \in ConnectedExchange : SF_positionVars(EvaluateRow(a))
    /\ \A d \in Danger : SF_positionVars(SendDanger(d))

PositionFairSpec == PositionSpec /\ PositionFairness

-----------------------------------------------------------------------------
(***************************************************************************)
(* Properties.                                                             *)
(***************************************************************************)

\* Failed sends, several exchanges and several timeframes notwithstanding, a key
\* is sent once an hour, and once more for each restart, which forgets what was
\* sent (scheduler.py, _position_alert_dedup).
OncePerHour == \A k \in AlertKey : sent[k] <= 1 + restarts

\* A message of the key was sent within the hour, and the store knows of it.
ToldOf(k) == sent[k] > 0 /\ dedup[k] = "recent"

\* While the user has exactly one channel, a danger that lasts does not go
\* without a message of its key for ever: what silences it for an hour is a message
\* that was sent, and the hour ends (check_position_alerts_job: "For any DANGER alert,
\* sends a Telegram notification (1-hour dedup)").
DangerIsTold ==
    \A a \in ConnectedExchange, d \in Danger :
        ~<>[](d \in danger[a] /\ telegram = "one" /\ ~ToldOf(KeyOf[d]))

\* The same whatever the number of channels.
DangerReachesUser ==
    \A a \in ConnectedExchange, d \in Danger :
        ~<>[](d \in danger[a] /\ telegram # "none" /\ ~ToldOf(KeyOf[d]))

\* What the position alert job preserves: a danger is sent once while its key is remembered,
\* and once more per restart.
PositionInv ==
    /\ PositionTypeOK
    /\ OncePerHour

=============================================================================
