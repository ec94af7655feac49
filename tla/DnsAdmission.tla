----------------------------- MODULE DnsAdmission -----------------------------
(***************************************************************************)
(* _resolve_hostname_with of src/backend/alerts/webhook.py: DNS lookups    *)
(* run in a small thread pool behind a semaphore.  A call gives up after   *)
(* DNS_TIMEOUT_SECONDS, wherever it is; a lookup that is under way cannot  *)
(* be stopped and keeps its slot until its thread is done.  There are two  *)
(* such pools, for deliveries and for the settings, which share nothing.   *)
(***************************************************************************)
EXTENDS Integers, FiniteSets

CONSTANTS
    Call,           \* places for concurrent calls
    MAX_IN_FLIGHT   \* DNS_MAX_IN_FLIGHT, CONFIG_DNS_MAX_IN_FLIGHT

ASSUME DnsAssumption == IsFiniteSet(Call) /\ MAX_IN_FLIGHT \in Nat \ {0}

VARIABLES
    free,           \* the value of the semaphore
    call,           \* where each call is
    orphans         \* lookups whose caller has given up

dnsVars == <<free, call, orphans>>

\* granted: a slot was handed to the call, whose coroutine has not run since.
DnsPlace == {"idle", "waiting", "granted", "lookup"}

DnsTypeOK ==
    /\ free \in 0..MAX_IN_FLIGHT
    /\ call \in [Call -> DnsPlace]
    /\ orphans \in 0..MAX_IN_FLIGHT

DnsInit ==
    /\ free = MAX_IN_FLIGHT
    /\ call = [c \in Call |-> "idle"]
    /\ orphans = 0

At(place) == {c \in Call : call[c] = place}
Goes(c, place) == call' = [call EXCEPT ![c] = place]

-----------------------------------------------------------------------------
(***************************************************************************)
(* asyncio.Semaphore: release hands the slot to a waiting call, if any; a  *)
(* call that is cancelled after that hands it on.                          *)
(***************************************************************************)
Released(place, c) ==
    \/ /\ At("waiting") \ {c} = {}
       /\ free' = free + 1
       /\ Goes(c, place)
    \/ \E d \in At("waiting") \ {c} :
        /\ call' = [call EXCEPT ![c] = place, ![d] = "granted"]
        /\ free' = free

\* admission.acquire()
Acquire(c) ==
    /\ call[c] = "idle"
    /\ IF free > 0 THEN free' = free - 1 /\ Goes(c, "granted")
                   ELSE free' = free /\ Goes(c, "waiting")
    /\ UNCHANGED orphans

\* run_in_executor
Submit(c) ==
    /\ call[c] = "granted"
    /\ Goes(c, "lookup")
    /\ UNCHANGED <<free, orphans>>

\* The executor does not take it: the slot is released at once.
SubmitFails(c) ==
    /\ call[c] = "granted"
    /\ Released("idle", c)
    /\ UNCHANGED orphans

\* The thread is done: the callback releases the slot and the call gets its answer.
LookupEnds(c) ==
    /\ call[c] = "lookup"
    /\ Released("idle", c)
    /\ UNCHANGED orphans

OrphanEnds ==
    /\ orphans > 0
    /\ orphans' = orphans - 1
    /\ \/ At("waiting") = {} /\ free' = free + 1 /\ call' = call
       \/ \E d \in At("waiting") : Goes(d, "granted") /\ free' = free

\* Mutants of TimesOut: the slot of a lookup that is under way is released with
\* the call (and again by its thread); the wait for a slot has no deadline.
TimesOutReleasing(c) ==
    \/ /\ call[c] = "waiting"
       /\ Goes(c, "idle")
       /\ UNCHANGED <<free, orphans>>
    \/ /\ call[c] \in {"granted", "lookup"}
       /\ Released("idle", c)
       /\ orphans' = IF call[c] = "lookup" /\ orphans < MAX_IN_FLIGHT THEN orphans + 1 ELSE orphans

TimesOutOnceAdmitted(c) ==
    /\ call[c] = "lookup"
    /\ Goes(c, "idle")
    /\ orphans' = orphans + 1
    /\ UNCHANGED free

\* wait_for covers the wait for a slot and the lookup, which is shielded.
TimesOut(c) ==
    \/ /\ call[c] = "waiting"
       /\ Goes(c, "idle")
       /\ UNCHANGED <<free, orphans>>
    \/ /\ call[c] = "granted"
       /\ Released("idle", c)
       /\ UNCHANGED orphans
    \/ /\ call[c] = "lookup"
       /\ Goes(c, "idle")
       /\ orphans' = orphans + 1
       /\ UNCHANGED free

-----------------------------------------------------------------------------
DnsNext ==
    \/ \E c \in Call :
        Acquire(c) \/ Submit(c) \/ SubmitFails(c) \/ LookupEnds(c) \/ TimesOut(c)
    \/ OrphanEnds

DnsSpec == DnsInit /\ [][DnsNext]_dnsVars

\* Deadlines come and coroutines are scheduled; a lookup may hang for ever.
DnsFairness == \A c \in Call : WF_dnsVars(TimesOut(c)) /\ WF_dnsVars(Submit(c))

DnsFairSpec == DnsSpec /\ DnsFairness

-----------------------------------------------------------------------------
(***************************************************************************)
(* Properties.                                                             *)
(***************************************************************************)

\* Whatever times out, fails or hangs, no slot is lost and none is given back
\* twice, so that the executor never has more lookups than threads (webhook.py,
\* "so executor submissions stay bounded").
SlotsBalance ==
    free + orphans + Cardinality(At("granted")) + Cardinality(At("lookup")) = MAX_IN_FLIGHT

\* Even when every thread hangs, a call ends.
CallsEnd == \A c \in Call : call[c] # "idle" ~> call[c] = "idle"

\* What the bounded DNS admission preserves: every slot is free, held by a call, or owed by
\* a thread that still runs.
DnsInv ==
    /\ DnsTypeOK
    /\ SlotsBalance

=============================================================================
