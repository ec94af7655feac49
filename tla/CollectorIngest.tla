--------------------------- MODULE CollectorIngest ---------------------------
(***************************************************************************)
(* ingest_collector_report of src/backend/routes/collector_reports.py: a   *)
(* signed report is first entered with its nonce and committed, then       *)
(* judged, and stored in a second transaction.  Submissions of several     *)
(* collectors, and repetitions of one, interleave; a crash may come        *)
(* between the two transactions.                                           *)
(*                                                                         *)
(* A signature covers nonce and body, so that what was received is a pair  *)
(* of them.  The digest of a body is the body; bodies that differ in their *)
(* formatting have the same content, hence the same report id.             *)
(***************************************************************************)
EXTENDS Naturals, FiniteSets

CONSTANTS
    Submission,     \* places for concurrent requests
    Nonce,
    Body,           \* bodies
    ReportOf        \* the report id of a body that is valid, Rejected of another

Rejected == "rejected"

NobodyIngests == "nobody"

ASSUME IngestAssumption == DOMAIN ReportOf = Body /\ NobodyIngests \notin Submission

VARIABLES
    replays,        \* collector_ingest_replays: nonce and digest
    events,         \* collector_ingest_events
    failures,       \* collector_ingest_failures: the nonces
    reports,        \* collector_reports: validated ones by id, and rejected shells
    ingestLock,     \* the submission whose transaction has SQLite's write lock
    submission      \* where each request is

ingestVars == <<replays, events, failures, reports, ingestLock, submission>>

Report == {[id |-> ReportOf[b], digest |-> b] : b \in Body}
Event == [nonce: Nonce, digest: Body, status: {"received", "validated", "failed"}]
NoSubmission == [pc |-> "idle"]

IngestTypeOK ==
    /\ replays \subseteq Nonce \X Body
    /\ events \subseteq Event
    /\ failures \subseteq Nonce
    /\ reports \subseteq Report
    /\ submission \in [Submission ->
            {NoSubmission} \cup [pc: {"entered", "insert", "commit"}, nonce: Nonce, body: Body]]
    /\ ingestLock = NobodyIngests \/ submission[ingestLock].pc = "commit"

IngestInit ==
    /\ replays = {} /\ events = {} /\ failures = {} /\ reports = {}
    /\ ingestLock = NobodyIngests
    /\ submission = [s \in Submission |-> NoSubmission]

IngestUnlocked == ingestLock = NobodyIngests
Advance(s, pc) == submission' = [submission EXCEPT ![s].pc = pc]
Leave(s) == submission' = [submission EXCEPT ![s] = NoSubmission]
EventOf(s, status) == [nonce |-> submission[s].nonce, digest |-> submission[s].body, status |-> status]
ReportIn(s) == ReportOf[submission[s].body]

-----------------------------------------------------------------------------
Entered(s, n, b) ==
    /\ replays' = replays \cup {<<n, b>>}
    /\ events' = events \cup {[nonce |-> n, digest |-> b, status |-> "received"]}
    /\ submission' = [submission EXCEPT ![s] = [pc |-> "entered", nonce |-> n, body |-> b]]
    /\ UNCHANGED <<failures, reports, ingestLock>>

\* A nonce that is there already makes the insert fail: 409.
ReceiveReport(s, n, b) ==
    /\ submission[s] = NoSubmission /\ IngestUnlocked
    /\ \A r \in replays : r[1] # n
    /\ Entered(s, n, b)

\* _persist_semantic_failure.  Its SELECT flushes the audit rows first, which
\* takes the write lock: the rest is not disturbed.  A body with a usable symbol
\* leaves a shell, one for each digest.
RejectBody(s, shell) ==
    /\ submission[s].pc = "entered" /\ ReportIn(s) = Rejected
    /\ IngestUnlocked
    /\ events' = events \cup {EventOf(s, "failed")}
    /\ failures' = failures \cup {submission[s].nonce}
    /\ reports' = IF shell THEN reports \cup {[id |-> Rejected, digest |-> submission[s].body]}
                           ELSE reports
    /\ Leave(s)
    /\ UNCHANGED <<replays, ingestLock>>

Stored(s) == {r \in reports : r.id = ReportIn(s)}

\* Mutant of LookUpReport: a report of another digest is replaced.
LookUpReportReplacing(s) ==
    /\ submission[s].pc = "entered" /\ ReportIn(s) # Rejected
    /\ reports' = reports \ {r \in Stored(s) : r.digest # submission[s].body}
    /\ IF Stored(s) = {} THEN Advance(s, "insert") ELSE Leave(s)
    /\ UNCHANGED <<replays, events, failures, ingestLock>>

\* A stored report of the same digest is the answer, of another one a 409.
LookUpReport(s) ==
    /\ submission[s].pc = "entered" /\ ReportIn(s) # Rejected
    /\ IF Stored(s) = {} THEN Advance(s, "insert") ELSE Leave(s)
    /\ UNCHANGED <<replays, events, failures, reports, ingestLock>>

\* The insert takes the write lock, unless the unique id fails it.
InsertReport(s) ==
    /\ submission[s].pc = "insert" /\ IngestUnlocked
    /\ IF Stored(s) = {} THEN Advance(s, "commit") /\ ingestLock' = s
                         ELSE Leave(s) /\ UNCHANGED ingestLock
    /\ UNCHANGED <<replays, events, failures, reports>>

CommitReport(s) ==
    /\ submission[s].pc = "commit"
    /\ reports' = reports \cup {[id |-> ReportIn(s), digest |-> submission[s].body]}
    /\ events' = events \cup {EventOf(s, "validated")}
    /\ ingestLock' = NobodyIngests
    /\ Leave(s)
    /\ UNCHANGED <<replays, failures>>

\* A transaction that fails (the database is locked, the disk is full, the client
\* went away) or a crash of the process loses what is not committed.
Abort(s) ==
    /\ submission[s] # NoSubmission
    /\ ingestLock' = IF ingestLock = s THEN NobodyIngests ELSE ingestLock
    /\ Leave(s)
    /\ UNCHANGED <<replays, events, failures, reports>>

-----------------------------------------------------------------------------
IngestNext ==
    \E s \in Submission :
        \/ \E n \in Nonce, b \in Body : ReceiveReport(s, n, b)
        \/ \E shell \in BOOLEAN : RejectBody(s, shell)
        \/ LookUpReport(s) \/ InsertReport(s) \/ CommitReport(s)
        \/ Abort(s)

IngestSpec == IngestInit /\ [][IngestNext]_ingestVars

-----------------------------------------------------------------------------
(***************************************************************************)
(* Properties.                                                             *)
(***************************************************************************)
Final(n) == {e \in events : e.nonce = n /\ e.status # "received"}

\* However submissions repeat, race and break off, a nonce comes to at most one
\* verdict, on the body it was received with, and what failed has its failure row
\* (collector_reports.py, ingest_collector_report and _persist_semantic_failure).
OneVerdict ==
    \A n \in Nonce :
        /\ Cardinality(Final(n)) <= 1
        /\ \A e \in Final(n) : <<n, e.digest>> \in replays
        /\ n \in failures <=> \E e \in Final(n) : e.status = "failed"

\* A report id stands for the first body that was validated under it: each stored
\* report has exactly one validation, of its digest, and each validation its report.
ReportIsItsValidation ==
    \A id \in {ReportOf[b] : b \in Body} \ {Rejected} :
        LET validations == {e \in events : e.status = "validated" /\ ReportOf[e.digest] = id}
        IN  /\ Cardinality(validations) <= 1
            /\ {r.digest : r \in {q \in reports : q.id = id}} = {e.digest : e \in validations}

\* What retries, races and crashes of submissions preserve: one verdict per report and a
\* stored report that is the one its validation event speaks of.
IngestInv ==
    /\ IngestTypeOK
    /\ OneVerdict
    /\ ReportIsItsValidation

=============================================================================
