---------------------------- MODULE AlertChannels ----------------------------
(***************************************************************************)
(* The channel routes of src/backend/routes/settings.py, for one user: the *)
(* cap of webhook channels, and the e-mail address that is kept as a       *)
(* channel of its own.                                                     *)
(*                                                                         *)
(* A webhook channel is counted, its destination is resolved (an await of  *)
(* seconds), and it is counted again under BEGIN IMMEDIATE.  The e-mail    *)
(* route looks its row up and inserts one when there is none; reading it   *)
(* back raises when there are two.                                         *)
(***************************************************************************)
EXTENDS Integers, FiniteSets

CONSTANTS
    Visit,                          \* places for concurrent requests
    MAX_WEBHOOK_CHANNELS_PER_USER,
    MaxRowsOfType                   \* bound: rows of the types that have no cap

Nobody == "nobody"

ASSUME ChannelsAssumption ==
    /\ MAX_WEBHOOK_CHANNELS_PER_USER \in Nat \ {0} /\ MaxRowsOfType \in Nat \ {0}
    /\ Nobody \notin Visit

VARIABLES
    rows,       \* alert_channels: how many of the user's rows have each type
    lock,       \* who has SQLite's write reservation
    visit       \* where each request is

channelVars == <<rows, lock, visit>>

ChannelType == {"webhook", "email", "telegram"}
Free == lock = Nobody

ChannelsTypeOK ==
    /\ rows \in [ChannelType -> Nat]
    /\ lock \in Visit \cup {Nobody}
    /\ visit \in [Visit -> {"idle", "resolving", "reserve", "recount", "insert", "noEmail"}]

ChannelsInit ==
    /\ rows = [t \in ChannelType |-> 0]
    /\ lock = Nobody
    /\ visit = [v \in Visit |-> "idle"]

Moves(v, from, to) == visit[v] = from /\ visit' = [visit EXCEPT ![v] = to]
BelowCap == rows["webhook"] < MAX_WEBHOOK_CHANNELS_PER_USER

-----------------------------------------------------------------------------
(***************************************************************************)
(* create_alert_channel for a webhook.                                     *)
(***************************************************************************)
FirstCount(v) ==
    /\ BelowCap
    /\ Moves(v, "idle", "resolving")
    /\ UNCHANGED <<rows, lock>>

\* The destination is refused (422), or accepted; the rollback ends the read.
Resolved(v) ==
    /\ \E to \in {"idle", "reserve"} : Moves(v, "resolving", to)
    /\ UNCHANGED <<rows, lock>>

BeginImmediate(v) ==
    /\ Free
    /\ Moves(v, "reserve", "recount")
    /\ lock' = v
    /\ UNCHANGED rows

\* The reservation does not come free within the busy timeout.
BeginFails(v) ==
    /\ ~Free
    /\ Moves(v, "reserve", "idle")
    /\ UNCHANGED <<rows, lock>>

\* Mutant of Recount: the first count is trusted.
RecountSkipped(v) ==
    /\ Moves(v, "recount", "insert")
    /\ UNCHANGED <<rows, lock>>

\* At the cap: 409, and the session is rolled back.
Recount(v) ==
    /\ IF BelowCap THEN Moves(v, "recount", "insert") /\ UNCHANGED lock
                   ELSE Moves(v, "recount", "idle") /\ lock' = Nobody
    /\ UNCHANGED rows

InsertAndCommit(v) ==
    /\ Moves(v, "insert", "idle")
    /\ rows' = [rows EXCEPT !["webhook"] = @ + 1]
    /\ lock' = Nobody

\* The insert or its commit fails.
InsertFails(v) ==
    /\ Moves(v, "insert", "idle")
    /\ lock' = Nobody
    /\ UNCHANGED rows

(***************************************************************************)
(* The other writers: one statement and its commit each.                   *)
(***************************************************************************)
\* create_alert_channel for the types without a cap.
CreateOther(type) ==
    /\ Free
    /\ rows[type] < MaxRowsOfType
    /\ rows' = [rows EXCEPT ![type] = @ + 1]
    /\ UNCHANGED <<lock, visit>>

DeleteChannel(type) ==
    /\ Free
    /\ rows[type] > 0
    /\ rows' = [rows EXCEPT ![type] = @ - 1]
    /\ UNCHANGED <<lock, visit>>

(***************************************************************************)
(* update_email_settings: updates the row there is, inserts one if none;   *)
(* with several scalar_one_or_none raises, which is no step.               *)
(***************************************************************************)
FindEmail(v) ==
    /\ rows["email"] = 0
    /\ Moves(v, "idle", "noEmail")
    /\ UNCHANGED <<rows, lock>>

InsertEmail(v) ==
    /\ Free
    /\ rows["email"] < MaxRowsOfType
    /\ Moves(v, "noEmail", "idle")
    /\ rows' = [rows EXCEPT !["email"] = @ + 1]
    /\ UNCHANGED lock

-----------------------------------------------------------------------------
ChannelsNext ==
    \/ \E v \in Visit :
        \/ FirstCount(v) \/ Resolved(v) \/ BeginImmediate(v) \/ BeginFails(v)
        \/ Recount(v) \/ InsertAndCommit(v) \/ InsertFails(v)
        \/ FindEmail(v) \/ InsertEmail(v)
    \/ \E type \in {"email", "telegram"} : CreateOther(type)
    \/ \E type \in ChannelType : DeleteChannel(type)

ChannelsSpec == ChannelsInit /\ [][ChannelsNext]_channelVars

-----------------------------------------------------------------------------
(***************************************************************************)
(* Properties.                                                             *)
(***************************************************************************)

\* However many requests resolve their destination at once, a user never has
\* more webhook channels than the cap (settings.py, "makes the five-channel
\* security cap race-safe").
CapHolds == rows["webhook"] <= MAX_WEBHOOK_CHANNELS_PER_USER

\* Who holds the reservation is about to use it: an error does not leave the
\* database locked for the other writers.
ReservationIsUsed == ~Free => visit[lock] \in {"recount", "insert"}

\* What concurrent channel requests preserve: the cap of webhook channels, and a write
\* reservation that belongs to the request that counts or inserts under it.
ChannelsInv ==
    /\ ChannelsTypeOK
    /\ CapHolds
    /\ ReservationIsUsed

=============================================================================
