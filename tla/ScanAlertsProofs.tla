-------------------------- MODULE ScanAlertsProofs --------------------------
(***************************************************************************)
(* Theorems about ScanAlerts, for every set of users, pairs, channels and  *)
(* scans.                                                                  *)
(***************************************************************************)
EXTENDS ScanAlerts, FiniteSetTheorems, TLAPS

LEMMA SomeInSets == SomeTopic \in Topic /\ SomeSerial \in Serial
<1>1. PICK u \in User, p \in Pair : TRUE
  BY ConstantsAssumption
<1>2. <<u, p>> \in Topic
  BY <1>1 DEF Topic
<1>3. SomeTopic \in Topic
  BY <1>2, Zenon DEF SomeTopic
<1>4. SomeSerial \in Serial
  BY ConstantsAssumption, Zenon DEF SomeSerial
<1> QED BY <1>3, <1>4

LEMMA IdleInSession == Idle \in Session
  BY SomeInSets DEF Idle, Session

LEMMA AfterChannelType ==
    ASSUME TypeOK, NEW s \in Scanner, NEW c \in Channel, NEW sent \in BOOLEAN
    PROVE  AfterChannel(s, c, sent) \in [Scanner -> Session]
<1> DEFINE left == session[s].left \ {c}
           r == [session[s] EXCEPT !.left = left,
                                   !.pc = IF left = {} THEN "results" ELSE @,
                                   !.log = IF sent THEN @ \cup {session[s].topic} ELSE @]
<1>1. session \in [Scanner -> Session] /\ session[s] \in Session
  BY DEF TypeOK
<1>2. left \in SUBSET Channel /\ session[s].log \cup {session[s].topic} \in SUBSET Topic
  BY <1>1 DEF Session
<1>3. r \in Session
  BY <1>1, <1>2 DEF Session
<1>4. AfterChannel(s, c, sent) = [session EXCEPT ![s] = r]
  BY <1>1 DEF AfterChannel
<1> HIDE DEF r
<1> QED BY <1>1, <1>3, <1>4

LEMMA AfterChannelSession ==
    ASSUME session \in [Scanner -> Session], NEW s \in Scanner, NEW c \in Channel,
           NEW sent \in BOOLEAN, session[s].pc = "deliver",
           session' = AfterChannel(s, c, sent)
    PROVE  /\ \A x \in Scanner \ {s} : session'[x] = session[x]
           /\ session'[s].pc \in {"results", "deliver"}
           /\ session[s].log \subseteq session'[s].log
           /\ sent => session[s].topic \in session'[s].log
<1> DEFINE pc == IF session[s].left \ {c} = {} THEN "results" ELSE session[s].pc
           log == IF sent THEN session[s].log \cup {session[s].topic} ELSE session[s].log
           r == [session[s] EXCEPT !.left = session[s].left \ {c}, !.pc = pc, !.log = log]
<1>1. session[s] \in Session
  OBVIOUS
<1>2. pc \in {"results", "deliver"} /\ session[s].log \subseteq log
      /\ (sent => session[s].topic \in log)
  OBVIOUS
<1>3. session' = [session EXCEPT ![s] = r]
  BY <1>1 DEF AfterChannel, Session
<1> HIDE DEF pc, log
<1>4. r.pc = pc /\ r.log = log
  BY <1>1 DEF Session
<1> HIDE DEF r
<1> QED BY <1>2, <1>3, <1>4

\* TypeOK with what keeps the counter of running rows from going below zero.
TypeInv == TypeOK /\ (session[Job].pc # "idle" => running >= 1)

LEMMA TypeInit == Init => TypeInv
<1> SUFFICES ASSUME Init PROVE TypeInv
  OBVIOUS
<1>1. Job \in Scanner
  BY DEF Scanner
<1>2. session \in [Scanner -> Session]
  BY IdleInSession DEF Init
<1>3. session[Job].pc = "idle"
  BY <1>1 DEF Init, Idle
<1> QED
  BY <1>2, <1>3, ConstantsAssumption DEF Init, TypeInv, TypeOK

LEMMA TypeStep == TypeInv /\ [Next]_vars => TypeInv'
<1> SUFFICES ASSUME TypeInv, [Next]_vars PROVE TypeInv'
  OBVIOUS
<1>j. Job \in Scanner /\ Request \subseteq Scanner
  BY DEF Scanner
<1>t. TypeOK /\ (session[Job].pc # "idle" => running >= 1)
  BY DEF TypeInv
<1>i. Idle \in Session /\ Idle.pc = "idle"
  BY IdleInSession DEF Idle
<1> USE DEF TypeInv
<1>1. CASE UNCHANGED vars
  BY <1>1, <1>t DEF TypeOK, vars
<1>2. CASE StartJob
  <2>1. session' \in [Scanner -> Session]
    BY <1>2, <1>t, <1>j DEF StartJob, TypeOK, Session
  <2>2. QED BY <1>2, <2>1, <1>t DEF StartJob, TypeOK
<1>3. ASSUME NEW s \in Request, NEW t \in Topic, StartRequest(s, t) PROVE TypeInv'
  <2>1. [Idle EXCEPT !.pc = "results", !.todo = {t}] \in Session
    BY <1>i DEF Session
  <2>2. session' \in [Scanner -> Session]
    BY <1>3, <2>1, <1>t, <1>j DEF StartRequest, TypeOK
  <2>3. s # Job
    BY ConstantsAssumption
  <2>4. session'[Job] = session[Job]
    BY <1>3, <2>3, <1>t, <1>j DEF StartRequest, TypeOK
  <2> QED BY <1>3, <2>2, <2>4, <1>t DEF StartRequest, TypeOK
<1>4. CASE NothingToScan
  <2>1. session' \in [Scanner -> Session] /\ session'[Job].pc = "idle"
    BY <1>4, <1>t, <1>j, <1>i DEF NothingToScan, TypeOK
  <2>2. running' \in Nat
    BY <1>4, <1>t DEF NothingToScan, EndRun, TypeOK
  <2> QED BY <1>4, <2>1, <2>2, <1>t DEF NothingToScan, TypeOK
<1>5. ASSUME NEW results \in SUBSET Topic, Analyse(results) PROVE TypeInv'
  <2>1. [Idle EXCEPT !.pc = "results", !.todo = results] \in Session
    BY <1>i DEF Session
  <2>2. session' \in [Scanner -> Session]
    BY <1>5, <2>1, <1>t, <1>j DEF Analyse, TypeOK
  <2> QED BY <1>5, <2>2, <1>t DEF Analyse, TypeOK
<1>6. ASSUME NEW s \in Scanner, Process(s) PROVE TypeInv'
  <2>1. ASSUME NEW u \in User, NEW enabled \in SUBSET Channel, BeginUser(s, u, enabled)
        PROVE  TypeInv'
    <3>1. session' \in [Scanner -> Session] /\ session'[Job].pc = session[Job].pc
      <4>1. CASE enabled = {}
        BY <2>1, <4>1, <1>t, <1>j DEF BeginUser, TypeOK, Session
      <4>2. CASE enabled # {}
        <5> DEFINE r == [session[s] EXCEPT !.users = {u}, !.channels = enabled]
        <5>1. session[s] \in Session
          BY <1>t DEF TypeOK
        <5>2. r \in Session /\ r.pc = session[s].pc
          BY <5>1 DEF Session
        <5>3. session' = [session EXCEPT ![s] = r]
          BY <2>1, <4>2, <1>t DEF BeginUser, TypeOK
        <5> HIDE DEF r
        <5> QED BY <5>2, <5>3, <1>t, <1>j DEF TypeOK
      <4> QED BY <4>1, <4>2
    <3> QED BY <2>1, <3>1, <1>t DEF BeginUser, TypeOK
  <2>2. ASSUME NEW t \in Topic, NEW alert \in BOOLEAN, NEW listed \in SUBSET Channel,
               TakeResult(s, t, alert, listed)
        PROVE  TypeInv'
    <3>1. session' \in [Scanner -> Session]
      BY <2>2, <1>t, <1>j DEF TakeResult, TypeOK, Session
    <3>2. session'[Job].pc # "idle" => session[Job].pc # "idle"
      BY <2>2, <1>t, <1>j DEF TakeResult, TypeOK, Session
    <3> QED BY <2>2, <3>1, <3>2, <1>t DEF TakeResult, TypeOK
  <2>3. CASE CountHistory(s)
    <3>1. session' \in [Scanner -> Session]
      BY <2>3, <1>t, <1>j DEF CountHistory, TypeOK, Session
    <3>2. session'[Job].pc # "idle" => session[Job].pc # "idle"
      BY <2>3, <1>t, <1>j DEF CountHistory, TypeOK, Session
    <3> QED BY <2>3, <3>1, <3>2, <1>t DEF CountHistory, TypeOK
  <2>4. ASSUME NEW n \in Serial, CountQueue(s, n) PROVE TypeInv'
    <3> DEFINE pc == IF queued[session[s].topic] # {} \/ session[s].left = {}
                       THEN "results" ELSE "deliver"
               r == [session[s] EXCEPT !.pc = pc, !.serial = n]
    <3>0. pc \in {"results", "deliver"}
      OBVIOUS
    <3>s. session' = [session EXCEPT ![s] = r] /\ session[s].pc = "queue"
      BY <2>4, <1>t DEF CountQueue, TypeOK
    <3> HIDE DEF pc
    <3>r. r \in Session
      BY <3>0, <1>t DEF TypeOK, Session
    <3> HIDE DEF r
    <3>1. session' \in [Scanner -> Session]
      BY <3>s, <3>r, <1>t DEF TypeOK
    <3>2. session'[Job].pc # "idle" => session[Job].pc # "idle"
      BY <3>s, <1>t, <1>j DEF TypeOK
    <3> QED BY <2>4, <3>1, <3>2, <1>t DEF CountQueue, TypeOK
  <2>5. ASSUME NEW c \in Channel, Send(s, c) \/ SendFails(s, c) \/ AnswerLost(s, c) \/ Queue(s, c)
        PROVE  TypeInv'
    <3>1. PICK sent \in BOOLEAN : session' = AfterChannel(s, c, sent)
      BY <2>5 DEF Send, SendFails, AnswerLost, Queue
    <3>2. session' \in [Scanner -> Session]
      BY <3>1, <1>t, AfterChannelType
    <3>3. session'[Job].pc # "idle" => session[Job].pc # "idle"
      BY <2>5, <3>1, <1>t, <1>j
      DEF Send, SendFails, AnswerLost, Queue, Delivering, AfterChannel, TypeOK
    <3>4. session[s].topic \in Topic /\ session[s].serial \in Serial
      BY <1>t DEF TypeOK, Session
    <3>5. /\ running' = running /\ recent' = recent
          /\ reached' \in [Topic -> SUBSET Serial]
          /\ queued' \in [Topic -> SUBSET Serial]
          /\ faults' \in 0..MaxFaults
      <4>1. CASE Send(s, c)
        BY <4>1, <1>t, <3>4 DEF Send, TypeOK
      <4>2. CASE SendFails(s, c)
        BY <4>2, <1>t, <3>4 DEF SendFails, TypeOK
      <4>3. CASE AnswerLost(s, c)
        BY <4>3, <1>t, <3>4, ConstantsAssumption DEF AnswerLost, TypeOK
      <4>4. CASE Queue(s, c)
        BY <4>4, <1>t, <3>4 DEF Queue, TypeOK
      <4> QED BY <2>5, <4>1, <4>2, <4>3, <4>4
    <3> QED BY <3>2, <3>3, <3>5, <1>t DEF TypeOK
  <2>6. ASSUME Commit(s) \/ CommitFails(s) PROVE TypeInv'
    <3>1. session' = [session EXCEPT ![s] = Idle] /\ session[s].pc # "idle"
      BY <2>6 DEF Commit, CommitFails, Finished
    <3>2. session' \in [Scanner -> Session]
      BY <3>1, <1>t, <1>i DEF TypeOK
    <3>3. running' \in {EndRun(s), running}
      BY <2>6 DEF Commit, CommitFails
    <3>4. running' \in Nat /\ (session'[Job].pc # "idle" => running' >= 1)
      <4>1. CASE s = Job
        BY <4>1, <3>1, <3>3, <1>t, <1>i, <1>j DEF EndRun, TypeOK
      <4>2. CASE s # Job
        BY <4>2, <3>1, <3>3, <1>t, <1>j DEF EndRun, TypeOK
      <4> QED BY <4>1, <4>2
    <3>5. recent' \in SUBSET Topic
      BY <2>6, <1>t DEF Commit, CommitFails, TypeOK, Session
    <3>6. faults' \in 0..MaxFaults
      BY <2>6, <1>t, ConstantsAssumption DEF Commit, CommitFails, TypeOK
    <3>7. UNCHANGED <<queued, reached>>
      BY <2>6 DEF Commit, CommitFails
    <3> QED BY <3>2, <3>4, <3>5, <3>6, <3>7, <1>t DEF TypeOK
  <2> QED BY <1>6, <2>1, <2>2, <2>3, <2>4, <2>5, <2>6 DEF Process
<1>7. CASE Crash
  <2>1. session' \in [Scanner -> Session] /\ session'[Job].pc = "idle"
    BY <1>7, <1>i, <1>j DEF Crash
  <2> QED BY <1>7, <2>1, <1>t, ConstantsAssumption DEF Crash, TypeOK
<1>8. ASSUME NEW t \in Topic, NEW n \in Serial, Deliver(t, n) \/ GiveUp(t, n) \/ GiveUpUnanswered(t, n)
      PROVE  TypeInv'
  BY <1>8, <1>t, ConstantsAssumption DEF Deliver, GiveUp, GiveUpUnanswered, TypeOK
<1>9. ASSUME NEW t \in Topic, CoolDown(t) PROVE TypeInv'
  BY <1>9, <1>t DEF CoolDown, TypeOK
<1> QED
  BY <1>1, <1>2, <1>3, <1>4, <1>5, <1>6, <1>7, <1>8, <1>9
  DEF Next, Start, Scan, Environment

\* Every variable stays in its set (the tables and session fields of the
\* alert manager and the scheduler).
THEOREM TypeCorrect == Spec => []TypeOK
<1>1. TypeInv => TypeOK
  BY DEF TypeInv
<1> QED BY <1>1, TypeInit, TypeStep, PTL DEF Spec

-----------------------------------------------------------------------------
(***************************************************************************)
(* What a step of a scan does to its session.                              *)
(***************************************************************************)

\* A step that is neither the start nor the end of a scan.
Inside(s) ==
    \/ \E u \in User, enabled \in SUBSET Channel : BeginUser(s, u, enabled)
    \/ \E t \in Topic, alert \in BOOLEAN, listed \in SUBSET Channel :
            TakeResult(s, t, alert, listed)
    \/ CountHistory(s)
    \/ \E n \in Serial : CountQueue(s, n)
    \/ \E c \in Channel : Send(s, c) \/ SendFails(s, c) \/ AnswerLost(s, c) \/ Queue(s, c)

Working == {"results", "history", "queue", "deliver"}

\* Inside a scan the session of the others is not touched, its own is not
\* closed, and no row of its log is dropped.
LEMMA InsideSession ==
    ASSUME TypeInv, NEW s \in Scanner, Inside(s)
    PROVE  /\ \A x \in Scanner \ {s} : session'[x] = session[x]
           /\ session[s].pc \in Working /\ session'[s].pc \in Working
           /\ session[s].log \subseteq session'[s].log
           /\ running' = running /\ recent' = recent
           /\ faults' \in {faults, faults + 1}
<1>t. TypeOK /\ session \in [Scanner -> Session] /\ session[s] \in Session
  BY DEF TypeInv, TypeOK
<1> USE DEF Working
<1>1. ASSUME NEW u \in User, NEW enabled \in SUBSET Channel, BeginUser(s, u, enabled)
      PROVE  /\ \A x \in Scanner \ {s} : session'[x] = session[x]
             /\ session'[s].pc = session[s].pc /\ session'[s].log = session[s].log
  <2>1. CASE enabled = {}
    BY <1>1, <2>1, <1>t DEF BeginUser, Session
  <2>2. CASE enabled # {}
    <3> DEFINE r == [session[s] EXCEPT !.users = {u}, !.channels = enabled]
    <3>1. r.log = session[s].log /\ r.pc = session[s].pc
      BY <1>t DEF Session
    <3>2. session' = [session EXCEPT ![s] = r]
      BY <1>1, <2>2, <1>t DEF BeginUser
    <3> HIDE DEF r
    <3> QED BY <3>1, <3>2, <1>t
  <2> QED BY <2>1, <2>2
<1>2. ASSUME NEW t \in Topic, NEW alert \in BOOLEAN, NEW listed \in SUBSET Channel,
             TakeResult(s, t, alert, listed)
      PROVE  /\ \A x \in Scanner \ {s} : session'[x] = session[x]
             /\ session[s].pc = "results" /\ session'[s].pc \in {"results", "history"}
             /\ session'[s].log = session[s].log
  <2>1. CASE alert
    <3> DEFINE r == [session[s] EXCEPT !.pc = "history", !.topic = t, !.todo = @ \ {t},
                                       !.left = session[s].channels \cap listed]
    <3>1. r.log = session[s].log /\ r.pc = "history"
      BY <1>t DEF Session
    <3>2. session' = [session EXCEPT ![s] = r]
      BY <1>2, <2>1, <1>t DEF TakeResult
    <3>3. session[s].pc = "results"
      BY <1>2 DEF TakeResult
    <3> HIDE DEF r
    <3> QED BY <3>1, <3>2, <3>3, <1>t
  <2>2. CASE ~ alert
    BY <1>2, <2>2, <1>t DEF TakeResult, Session
  <2> QED BY <2>1, <2>2
<1>3. ASSUME CountHistory(s)
      PROVE  /\ \A x \in Scanner \ {s} : session'[x] = session[x]
             /\ session[s].pc = "history" /\ session'[s].pc \in {"results", "queue"}
             /\ session'[s].log = session[s].log
  BY <1>3, <1>t DEF CountHistory, Session
<1>4. ASSUME NEW n \in Serial, CountQueue(s, n)
      PROVE  /\ \A x \in Scanner \ {s} : session'[x] = session[x]
             /\ session[s].pc = "queue" /\ session'[s].pc \in {"results", "deliver"}
             /\ session'[s].log = session[s].log
  <2> DEFINE pc == IF queued[session[s].topic] # {} \/ session[s].left = {}
                     THEN "results" ELSE "deliver"
             r == [session[s] EXCEPT !.pc = pc, !.serial = n]
  <2>0. pc \in {"results", "deliver"}
    OBVIOUS
  <2>1. session' = [session EXCEPT ![s] = r] /\ session[s].pc = "queue"
    BY <1>4, <1>t DEF CountQueue
  <2> HIDE DEF pc
  <2>2. r.log = session[s].log /\ r.pc = pc
    BY <1>t DEF Session
  <2> HIDE DEF r
  <2> QED BY <2>0, <2>1, <2>2, <1>t
<1>5. ASSUME NEW c \in Channel, NEW sent \in BOOLEAN,
             session[s].pc = "deliver", session' = AfterChannel(s, c, sent)
      PROVE  /\ \A x \in Scanner \ {s} : session'[x] = session[x]
             /\ session'[s].pc \in {"results", "deliver"}
             /\ session[s].log \subseteq session'[s].log
  BY <1>5, <1>t, AfterChannelSession
<1>6. ASSUME NEW c \in Channel,
             Send(s, c) \/ SendFails(s, c) \/ AnswerLost(s, c) \/ Queue(s, c)
      PROVE  /\ session[s].pc = "deliver"
             /\ \E sent \in BOOLEAN : session' = AfterChannel(s, c, sent)
             /\ running' = running /\ recent' = recent /\ faults' \in {faults, faults + 1}
  BY <1>6 DEF Send, SendFails, AnswerLost, Queue, Delivering
<1>7. CASE \E u \in User, enabled \in SUBSET Channel : BeginUser(s, u, enabled)
  BY <1>7, <1>1 DEF BeginUser
<1>8. CASE \E t \in Topic, alert \in BOOLEAN, listed \in SUBSET Channel :
              TakeResult(s, t, alert, listed)
  BY <1>8, <1>2 DEF TakeResult
<1>9. CASE CountHistory(s)
  BY <1>9, <1>3 DEF CountHistory
<1>10. CASE \E n \in Serial : CountQueue(s, n)
  BY <1>10, <1>4 DEF CountQueue
<1>11. CASE \E c \in Channel :
              Send(s, c) \/ SendFails(s, c) \/ AnswerLost(s, c) \/ Queue(s, c)
  BY <1>11, <1>5, <1>6
<1> QED BY <1>7, <1>8, <1>9, <1>10, <1>11 DEF Inside

LEMMA ProcessSplit ==
    ASSUME NEW s \in Scanner, Process(s)
    PROVE  Inside(s) \/ Commit(s) \/ CommitFails(s)
BY DEF Process, Inside

-----------------------------------------------------------------------------
LEMMA RunsStep == TypeInv /\ RunsTrackJob /\ [Next]_vars => RunsTrackJob'
<1> SUFFICES ASSUME TypeInv, RunsTrackJob, [Next]_vars PROVE RunsTrackJob'
  OBVIOUS
<1>j. Job \in Scanner
  BY DEF Scanner
<1>t. /\ running \in Nat /\ faults \in Nat /\ session \in [Scanner -> Session]
      /\ session[Job].pc # "idle" => running >= 1
  BY ConstantsAssumption DEF TypeInv, TypeOK
<1>i. Idle.pc = "idle"
  BY DEF Idle
<1> USE DEF RunsTrackJob
<1>1. CASE UNCHANGED vars
  BY <1>1 DEF vars
<1>2. CASE StartJob
  BY <1>2, <1>t, <1>j DEF StartJob, Session
<1>3. ASSUME NEW s \in Request, NEW t \in Topic, StartRequest(s, t) PROVE RunsTrackJob'
  <2>1. s # Job /\ s \in Scanner
    BY ConstantsAssumption DEF Scanner
  <2> QED BY <1>3, <2>1, <1>t, <1>j DEF StartRequest
<1>4. CASE NothingToScan
  BY <1>4, <1>t, <1>j, <1>i DEF NothingToScan, EndRun
<1>5. ASSUME NEW results \in SUBSET Topic, Analyse(results) PROVE RunsTrackJob'
  <2>1. session'[Job].pc = "results"
    BY <1>5, <1>t, <1>j DEF Analyse, Idle
  <2> QED BY <1>5, <2>1, <1>t DEF Analyse
<1>6. ASSUME NEW s \in Scanner, Inside(s) PROVE RunsTrackJob'
  <2>1. session[Job].pc # "idle" => session'[Job].pc # "idle"
    BY <1>6, <1>j, InsideSession DEF Working
  <2>2. running' = running /\ faults' \in {faults, faults + 1}
    BY <1>6, InsideSession
  <2> QED BY <2>1, <2>2, <1>t
<1>7. ASSUME NEW s \in Scanner, Commit(s) PROVE RunsTrackJob'
  BY <1>7, <1>t, <1>j, <1>i DEF Commit, EndRun, Finished
<1>8. ASSUME NEW s \in Scanner, CommitFails(s) PROVE RunsTrackJob'
  BY <1>8, <1>t, <1>j, <1>i DEF CommitFails, EndRun, Finished
<1>9. CASE Crash
  BY <1>9, <1>t, <1>j, <1>i DEF Crash
<1>10. CASE Environment
  BY <1>10, <1>t DEF Environment, Deliver, GiveUp, GiveUpUnanswered, CoolDown
<1> QED
  BY <1>1, <1>2, <1>3, <1>4, <1>5, <1>6, <1>7, <1>8, <1>9, <1>10, ProcessSplit
  DEF Next, Start, Scan

\* Every scan_runs row that says "running" has a job working on it, or a fault
\* behind it, whatever scans overlap with the job (run_scheduled_scan).
THEOREM RunsTracked == Spec => []RunsTrackJob
<1>1. Init => RunsTrackJob
  BY ConstantsAssumption DEF Init, RunsTrackJob
<1> QED BY <1>1, TypeInit, TypeStep, RunsStep, PTL DEF Spec

-----------------------------------------------------------------------------
\* A scan that has not begun to process results holds no row.
LogOfScan == \A s \in Scanner : session[s].pc \in {"idle", "analyse"} => session[s].log = {}

LogInv == TypeInv /\ LogOfScan /\ SentIsLogged

LEMMA LogOfScanStep == TypeInv /\ LogOfScan /\ [Next]_vars => LogOfScan'
<1> SUFFICES ASSUME TypeInv, LogOfScan, [Next]_vars PROVE LogOfScan'
  OBVIOUS
<1>j. Job \in Scanner /\ Request \subseteq Scanner
  BY DEF Scanner
<1>t. session \in [Scanner -> Session]
  BY DEF TypeInv, TypeOK
<1>i. Idle.log = {}
  BY DEF Idle
<1> USE DEF LogOfScan
<1>1. CASE UNCHANGED vars
  BY <1>1 DEF vars
<1>2. CASE StartJob
  BY <1>2, <1>t, <1>j DEF StartJob, Session
<1>3. ASSUME NEW s \in Request, NEW t \in Topic, StartRequest(s, t) PROVE LogOfScan'
  BY <1>3, <1>t, <1>j DEF StartRequest, Idle
<1>4. CASE NothingToScan
  BY <1>4, <1>t, <1>j, <1>i DEF NothingToScan
<1>5. ASSUME NEW results \in SUBSET Topic, Analyse(results) PROVE LogOfScan'
  BY <1>5, <1>t, <1>j DEF Analyse, Idle
<1>6. ASSUME NEW s \in Scanner, Inside(s) PROVE LogOfScan'
  BY <1>6, InsideSession DEF Working
<1>7. ASSUME NEW s \in Scanner, Commit(s) \/ CommitFails(s) PROVE LogOfScan'
  BY <1>7, <1>t, <1>i DEF Commit, CommitFails
<1>9. CASE Crash
  BY <1>9, <1>i DEF Crash
<1>10. CASE Environment
  BY <1>10 DEF Environment, Deliver, GiveUp, GiveUpUnanswered, CoolDown
<1> QED
  BY <1>1, <1>2, <1>3, <1>4, <1>5, <1>6, <1>7, <1>9, <1>10, ProcessSplit
  DEF Next, Start, Scan

\* A step after which no alert is new and every row is still there.
LEMMA RowsKept ==
    ASSUME SentIsLogged, faults' = 0 => faults = 0,
           NEW x \in Topic, faults' = 0 => reached'[x] = reached[x],
           recent \subseteq recent',
           \A s \in Scanner : session[s].log \subseteq session'[s].log \cup recent'
    PROVE  faults' = 0 /\ reached'[x] # {} =>
              x \in recent' \/ \E s \in Scanner : x \in session'[s].log
BY DEF SentIsLogged

LEMMA SentIsLoggedStep == LogInv /\ [Next]_vars => SentIsLogged'
<1> SUFFICES ASSUME LogInv, [Next]_vars, NEW x \in Topic, faults' = 0, reached'[x] # {}
             PROVE  x \in recent' \/ \E s \in Scanner : x \in session'[s].log
  BY DEF SentIsLogged
<1>j. Job \in Scanner /\ Request \subseteq Scanner
  BY DEF Scanner
<1>v. TypeInv /\ LogOfScan /\ SentIsLogged
  BY DEF LogInv
<1>t. /\ faults \in Nat /\ session \in [Scanner -> Session]
      /\ reached \in [Topic -> SUBSET Serial]
  BY <1>v, ConstantsAssumption DEF TypeInv, TypeOK
<1> DEFINE Kept == x \in recent' \/ \E s \in Scanner : x \in session'[s].log
<1>1. CASE UNCHANGED vars
  BY <1>1, <1>v, RowsKept DEF vars
<1>2. CASE StartJob
  <2>1. \A s \in Scanner : session'[s].log = session[s].log
    BY <1>2, <1>t, <1>j DEF StartJob, Session
  <2> QED BY <1>2, <2>1, <1>v, RowsKept DEF StartJob
<1>3. ASSUME NEW s \in Request, NEW t \in Topic, StartRequest(s, t) PROVE Kept
  <2>1. session[s].log = {}
    BY <1>3, <1>v, <1>j DEF StartRequest, LogOfScan
  <2>2. \A y \in Scanner : session[y].log \subseteq session'[y].log
    BY <1>3, <2>1, <1>t, <1>j DEF StartRequest
  <2> QED BY <1>3, <2>2, <1>v, RowsKept DEF StartRequest
<1>4. CASE NothingToScan
  <2>1. session[Job].log = {}
    BY <1>4, <1>v, <1>j DEF NothingToScan, LogOfScan
  <2>2. \A y \in Scanner : session[y].log \subseteq session'[y].log
    BY <1>4, <2>1, <1>t, <1>j DEF NothingToScan
  <2> QED BY <1>4, <2>2, <1>v, RowsKept DEF NothingToScan
<1>5. ASSUME NEW results \in SUBSET Topic, Analyse(results) PROVE Kept
  <2>1. session[Job].log = {}
    BY <1>5, <1>v, <1>j DEF Analyse, LogOfScan
  <2>2. \A y \in Scanner : session[y].log \subseteq session'[y].log
    BY <1>5, <2>1, <1>t, <1>j DEF Analyse
  <2> QED BY <1>5, <2>2, <1>v, RowsKept DEF Analyse
<1>6. ASSUME NEW s \in Scanner, Inside(s) PROVE Kept
  <2>1. /\ \A y \in Scanner : session[y].log \subseteq session'[y].log
        /\ recent' = recent /\ (faults' = 0 => faults = 0)
    BY <1>6, <1>v, <1>t, InsideSession
  <2>2. CASE \E c \in Channel : Send(s, c)
    <3>1. PICK c \in Channel : Send(s, c)
      BY <2>2
    <3>2. session[s].topic \in session'[s].log
      BY <3>1, <1>t, AfterChannelSession DEF Send, Delivering
    <3>3. reached' = [reached EXCEPT ![session[s].topic] = @ \cup {session[s].serial}]
      BY <3>1 DEF Send
    <3>4. CASE x = session[s].topic
      BY <3>2, <3>4
    <3>5. CASE x # session[s].topic
      <4>1. reached'[x] = reached[x]
        BY <3>3, <3>5, <1>t
      <4> QED BY <2>1, <4>1, <1>v, RowsKept
    <3> QED BY <3>4, <3>5
  <2>3. CASE \E c \in Channel : AnswerLost(s, c)
    <3>1. faults' = faults + 1
      BY <2>3 DEF AnswerLost
    <3> QED BY <3>1, <1>t
  <2>4. CASE reached' = reached
    BY <2>1, <2>4, <1>v, RowsKept
  <2> QED BY <1>6, <2>2, <2>3, <2>4
          DEF Inside, BeginUser, TakeResult, CountHistory, CountQueue, SendFails, Queue
<1>7. ASSUME NEW s \in Scanner, Commit(s) PROVE Kept
  <2>1. \A y \in Scanner : session[y].log \subseteq session'[y].log \cup recent'
    BY <1>7, <1>t DEF Commit
  <2> QED BY <1>7, <2>1, <1>v, RowsKept DEF Commit
<1>8. ASSUME NEW s \in Scanner, CommitFails(s) PROVE Kept
  BY <1>8, <1>t DEF CommitFails
<1>9. CASE Crash
  BY <1>9, <1>t DEF Crash
<1>10. ASSUME NEW t \in Topic, NEW n \in Serial, Deliver(t, n) PROVE Kept
  <2>1. CASE x = t
    BY <1>10, <2>1 DEF Deliver
  <2>2. CASE x # t
    <3>1. reached'[x] = reached[x]
      BY <1>10, <2>2, <1>t DEF Deliver
    <3> QED BY <1>10, <3>1, <1>v, RowsKept DEF Deliver
  <2> QED BY <2>1, <2>2
<1>11. ASSUME NEW t \in Topic, NEW n \in Serial, GiveUp(t, n) PROVE Kept
  BY <1>11, <1>v, RowsKept DEF GiveUp
<1>13. ASSUME NEW t \in Topic, NEW n \in Serial, GiveUpUnanswered(t, n) PROVE Kept
  BY <1>13, <1>t DEF GiveUpUnanswered
<1>12. ASSUME NEW t \in Topic, CoolDown(t) PROVE Kept
  <2>1. x # t
    BY <1>12, <1>t DEF CoolDown
  <2>2. reached[x] # {} /\ faults = 0
    BY <1>12, <2>1, <1>t DEF CoolDown
  <2>3. x \in recent \/ \E s \in Scanner : x \in session[s].log
    BY <2>2, <1>v DEF SentIsLogged
  <2> QED BY <1>12, <2>1, <2>3 DEF CoolDown
<1> QED
  BY <1>1, <1>2, <1>3, <1>4, <1>5, <1>6, <1>7, <1>8, <1>9, <1>10, <1>11, <1>12, <1>13, ProcessSplit
  DEF Next, Start, Scan, Environment

\* Unless something fails, an alert that reached a user is in alert_histories,
\* or in the session of a scan that is still going to commit it
\* (process_scan_results adds its rows without a commit).
THEOREM AlertsLogged == Spec => []SentIsLogged
<1>1. Init => LogInv
  <2>1. Init => LogOfScan /\ SentIsLogged
    BY DEF Init, Idle, LogOfScan, SentIsLogged
  <2> QED BY <2>1, TypeInit DEF LogInv
<1>2. LogInv /\ [Next]_vars => LogInv'
  BY TypeStep, LogOfScanStep, SentIsLoggedStep DEF LogInv
<1>3. LogInv => SentIsLogged
  BY DEF LogInv
<1> QED BY <1>1, <1>2, <1>3, PTL DEF Spec

-----------------------------------------------------------------------------
(***************************************************************************)
(* The cooldown, where nothing overlaps: the scheduled job alone, without  *)
(* signed webhooks and without faults.  Every topic of a run is looked at  *)
(* once (it leaves todo, and enters the log only then), and an alert that  *)
(* reached the user is in one of the two places the count looks at or, if  *)
(* this very scan sent it, is no longer in todo.                           *)
(***************************************************************************)
Alone == Request = {} /\ Webhook = {} /\ MaxFaults = 0

OnePass ==
    LET j == session[Job]
    IN  /\ j.log \cap j.todo = {}
        /\ j.pc \in {"history", "queue", "deliver"} => j.topic \notin j.todo
        /\ j.pc \in {"history", "queue"} => j.topic \notin j.log
        /\ j.pc = "queue" => j.topic \notin recent
        /\ j.pc = "deliver" => reached[j.topic] \subseteq {j.serial}

AtMostOne == \A t \in Topic : \E n \in Serial : reached[t] \subseteq {n}

OnceInv == LogInv /\ queued = [t \in Topic |-> {}] /\ OnePass /\ AtMostOne

LEMMA AloneFacts ==
    ASSUME Alone, TypeInv
    PROVE  /\ Scanner = {Job} /\ faults = 0 /\ Webhook = {}
           /\ session = [s \in Scanner |-> session[Job]] /\ session[Job] \in Session
           /\ reached \in [Topic -> SUBSET Serial]
           /\ \A s \in Scanner : ~ CommitFails(s) /\ \A c \in Channel : ~ AnswerLost(s, c)
           /\ ~ Crash
<1>1. Scanner = {Job} /\ Webhook = {} /\ MaxFaults = 0
  BY DEF Alone, Scanner
<1>2. session \in [Scanner -> Session] /\ faults \in 0..MaxFaults
      /\ reached \in [Topic -> SUBSET Serial]
  BY DEF TypeInv, TypeOK
<1>3. faults = 0 /\ session[Job] \in Session
  BY <1>1, <1>2
<1>4. ~ (faults < MaxFaults)
  BY <1>1, <1>3
<1>5. session = [s \in Scanner |-> session[Job]]
  BY <1>1, <1>2
<1> QED BY <1>1, <1>2, <1>3, <1>4, <1>5 DEF CommitFails, AnswerLost, Crash

\* What the sessions of OnePass look like after a step, action by action.
LEMMA OnePassStep ==
    ASSUME Alone, OnceInv, [Next]_vars
    PROVE  OnePass' /\ AtMostOne' /\ queued' = [t \in Topic |-> {}]
<1>v. LogInv /\ TypeInv /\ LogOfScan /\ SentIsLogged /\ OnePass /\ AtMostOne
      /\ queued = [t \in Topic |-> {}]
  BY DEF OnceInv, LogInv
<1>a. /\ Scanner = {Job} /\ faults = 0 /\ Webhook = {}
      /\ session \in [Scanner -> Session] /\ session[Job] \in Session
      /\ reached \in [Topic -> SUBSET Serial]
      /\ \A s \in Scanner : ~ CommitFails(s) /\ \A c \in Channel : ~ AnswerLost(s, c)
      /\ ~ Crash /\ Request = {}
  BY <1>v, AloneFacts DEF Alone, TypeInv, TypeOK
<1> DEFINE j == session[Job]
<1> DEFINE Goal == OnePass' /\ AtMostOne' /\ queued' = [t \in Topic |-> {}]
<1>1. CASE UNCHANGED vars
  BY <1>1, <1>v DEF vars, OnePass, AtMostOne
<1>2. CASE StartJob
  <2>1. session'[Job].pc = "analyse" /\ session'[Job].log = j.log
        /\ j.pc = "idle" /\ reached' = reached /\ queued' = queued
    BY <1>2, <1>a DEF StartJob, Session
  <2>2. j.log = {}
    BY <2>1, <1>a, <1>v DEF LogOfScan
  <2> QED BY <2>1, <2>2, <1>v DEF OnePass, AtMostOne
<1>3. CASE NothingToScan \/ Commit(Job)
  <2>1. session'[Job] = Idle /\ reached' = reached /\ queued' = queued
    BY <1>3, <1>a DEF NothingToScan, Commit
  <2>2. Idle.log = {} /\ Idle.pc = "idle"
    BY DEF Idle
  <2> QED BY <2>1, <2>2, <1>v DEF OnePass, AtMostOne
<1>4. ASSUME NEW results \in SUBSET Topic, Analyse(results) PROVE Goal
  <2>1. session'[Job].pc = "results" /\ session'[Job].log = {}
        /\ reached' = reached /\ queued' = queued
    BY <1>4, <1>a DEF Analyse, Idle
  <2> QED BY <2>1, <1>v DEF OnePass, AtMostOne
<1>5. ASSUME NEW u \in User, NEW enabled \in SUBSET Channel, BeginUser(Job, u, enabled)
      PROVE  Goal
  <2>1. /\ session'[Job].pc = "results" /\ session'[Job].log = j.log
        /\ session'[Job].todo \subseteq j.todo
    <3>1. CASE enabled = {}
      BY <1>5, <3>1, <1>a DEF BeginUser, Session
    <3>2. CASE enabled # {}
      <4> DEFINE r == [j EXCEPT !.users = {u}, !.channels = enabled]
      <4>1. r.pc = j.pc /\ r.log = j.log /\ r.todo = j.todo
        BY <1>a DEF Session
      <4>2. session' = [session EXCEPT ![Job] = r] /\ j.pc = "results"
        BY <1>5, <3>2, <1>a DEF BeginUser
      <4> HIDE DEF r
      <4> QED BY <4>1, <4>2, <1>a
    <3> QED BY <3>1, <3>2
  <2>2. reached' = reached /\ queued' = queued
    BY <1>5 DEF BeginUser
  <2> QED BY <2>1, <2>2, <1>v DEF OnePass, AtMostOne
<1>6. ASSUME NEW t \in Topic, NEW alert \in BOOLEAN, NEW listed \in SUBSET Channel,
             TakeResult(Job, t, alert, listed)
      PROVE  Goal
  <2>1. t \in j.todo /\ reached' = reached /\ queued' = queued
    BY <1>6 DEF TakeResult
  <2>2. t \notin j.log
    BY <2>1, <1>v DEF OnePass
  <2>3. /\ session'[Job].log = j.log /\ session'[Job].todo = j.todo \ {t}
        /\ \/ session'[Job].pc = "results"
           \/ session'[Job].pc = "history" /\ session'[Job].topic = t
    <3>1. CASE alert
      <4> DEFINE r == [j EXCEPT !.pc = "history", !.topic = t, !.todo = @ \ {t},
                                !.left = j.channels \cap listed]
      <4>1. r.pc = "history" /\ r.log = j.log /\ r.todo = j.todo \ {t} /\ r.topic = t
        BY <1>a DEF Session
      <4>2. session' = [session EXCEPT ![Job] = r]
        BY <1>6, <3>1, <1>a DEF TakeResult
      <4> HIDE DEF r
      <4> QED BY <4>1, <4>2, <1>a
    <3>2. CASE ~ alert
      BY <1>6, <3>2, <1>a DEF TakeResult, Session
    <3> QED BY <3>1, <3>2
  <2> QED BY <2>1, <2>2, <2>3, <1>v DEF OnePass, AtMostOne
<1>7. CASE CountHistory(Job)
  <2>1. /\ session'[Job].log = j.log /\ session'[Job].todo = j.todo
        /\ session'[Job].topic = j.topic /\ j.pc = "history"
        /\ session'[Job].pc = IF j.topic \in recent THEN "results" ELSE "queue"
        /\ reached' = reached /\ queued' = queued /\ recent' = recent
    BY <1>7, <1>a DEF CountHistory, Session
  <2> QED BY <2>1, <1>v DEF OnePass, AtMostOne
<1>8. ASSUME NEW n \in Serial, CountQueue(Job, n) PROVE Goal
  <2> DEFINE pc == IF queued[j.topic] # {} \/ j.left = {} THEN "results" ELSE "deliver"
             r == [j EXCEPT !.pc = pc, !.serial = n]
  <2>0. pc \in {"results", "deliver"}
    OBVIOUS
  <2>1. session' = [session EXCEPT ![Job] = r] /\ j.pc = "queue"
        /\ reached' = reached /\ queued' = queued /\ recent' = recent
    BY <1>8, <1>a DEF CountQueue
  <2> HIDE DEF pc
  <2>2. r.log = j.log /\ r.pc = pc /\ r.todo = j.todo /\ r.topic = j.topic
    BY <1>a DEF Session
  <2> HIDE DEF r
  <2>3. session'[Job] = r
    BY <2>1, <1>a
  <2>4. j.topic \notin j.todo /\ j.topic \notin j.log /\ j.topic \notin recent
    BY <2>1, <1>v DEF OnePass
  <2>5. reached[j.topic] = {}
    <3>1. j.topic \in Topic
      BY <1>a DEF Session
    <3>2. \A s \in Scanner : j.topic \notin session[s].log
      BY <2>4, <1>a
    <3> QED BY <3>1, <3>2, <2>4, <1>v, <1>a DEF SentIsLogged
  <2> QED BY <2>0, <2>1, <2>2, <2>3, <2>4, <2>5, <1>v DEF OnePass, AtMostOne
<1>9. ASSUME NEW c \in Channel, Send(Job, c) \/ SendFails(Job, c) PROVE Goal
  <2>1. PICK sent \in BOOLEAN : session' = AfterChannel(Job, c, sent)
    BY <1>9 DEF Send, SendFails
  <2>2. j.pc = "deliver" /\ queued' = queued /\ recent' = recent
    BY <1>9 DEF Send, SendFails, Delivering
  <2> DEFINE pc == IF j.left \ {c} = {} THEN "results" ELSE j.pc
             log == IF sent THEN j.log \cup {j.topic} ELSE j.log
             r == [j EXCEPT !.left = j.left \ {c}, !.pc = pc, !.log = log]
  <2>3. session'[Job] = r
    BY <2>1, <1>a DEF AfterChannel
  <2>4. pc \in {"results", "deliver"} /\ log \subseteq j.log \cup {j.topic}
    BY <2>2
  <2> HIDE DEF pc, log
  <2>5. r.log = log /\ r.pc = pc /\ r.todo = j.todo /\ r.topic = j.topic
        /\ r.serial = j.serial
    BY <1>a DEF Session
  <2> HIDE DEF r
  <2>6. j.topic \notin j.todo /\ reached[j.topic] \subseteq {j.serial}
        /\ j.topic \in Topic /\ j.serial \in Serial
    BY <2>2, <1>v, <1>a DEF OnePass, Session
  <2>7. reached'[j.topic] \subseteq {j.serial}
        /\ \A t \in Topic \ {j.topic} : reached'[t] = reached[t]
    <3>1. CASE Send(Job, c)
      BY <3>1, <2>6, <1>a DEF Send
    <3>2. CASE SendFails(Job, c)
      BY <3>2, <2>6 DEF SendFails
    <3> QED BY <3>1, <3>2, <1>9
  <2>8. AtMostOne'
    BY <2>6, <2>7, <1>v DEF AtMostOne
  <2>9. j.log \cap j.todo = {}
    BY <1>v DEF OnePass
  <2>10. OnePass'
    BY <2>3, <2>4, <2>5, <2>6, <2>7, <2>9 DEF OnePass
  <2> QED BY <2>2, <2>8, <2>10, <1>v
<1>10. ASSUME NEW t \in Topic, CoolDown(t) PROVE Goal
  <2>1. /\ session' = session /\ queued' = queued /\ recent' \subseteq recent
        /\ \A x \in Topic : reached'[x] \subseteq reached[x]
    BY <1>10, <1>a DEF CoolDown
  <2>2. j.topic \in Topic
    BY <1>a DEF Session
  <2> QED BY <2>1, <2>2, <1>v DEF OnePass, AtMostOne
<1>11. \A t \in Topic, n \in Serial : ~ Deliver(t, n) /\ ~ GiveUp(t, n) /\ ~ GiveUpUnanswered(t, n)
  BY <1>v DEF Deliver, GiveUp, GiveUpUnanswered
<1>12. \A c \in Channel : ~ Queue(Job, c) /\ ~ AnswerLost(Job, c)
  BY <1>a DEF Queue
<1>13. ASSUME NEW s \in Scanner, Process(s) PROVE Goal
  <2>1. s = Job /\ ~ CommitFails(s)
    BY <1>a
  <2> QED BY <1>13, <2>1, <1>3, <1>5, <1>6, <1>7, <1>8, <1>9, <1>12 DEF Process
<1> QED
  BY <1>1, <1>2, <1>3, <1>4, <1>10, <1>11, <1>13, <1>a DEF Next, Start, Scan, Environment

LEMMA OneIsEnough == ASSUME TypeInv, AtMostOne PROVE AlertedOnce
<1> SUFFICES ASSUME NEW t \in Topic PROVE Cardinality(reached[t]) <= 1
  BY DEF AlertedOnce
<1>1. PICK n \in Serial : reached[t] \subseteq {n}
  BY DEF AtMostOne
<1>2. reached[t] = {} \/ reached[t] = {n}
  BY <1>1
<1>3. CASE reached[t] = {}
  BY <1>3, FS_EmptySet
<1>4. CASE reached[t] = {n}
  <2>1. Cardinality({n}) = 1
    BY FS_Singleton
  <2> QED BY <1>4, <2>1
<1> QED BY <1>2, <1>3, <1>4

\* The cooldown of _process_single_result does what its module promises, for
\* every set of users and pairs and every direct channel, as long as the
\* scheduled job is alone: without another scan, a queued webhook or a fault no
\* user is alerted twice about a pair within the cooldown.
THEOREM CooldownAlone ==
    ASSUME Alone
    PROVE  Spec => []AlertedOnce
<1>1. Init => OnceInv
  <2> SUFFICES ASSUME Init PROVE OnceInv
    OBVIOUS
  <2>1. TypeInv
    BY TypeInit
  <2>2. session[Job] = Idle /\ SomeSerial \in Serial
    BY SomeInSets DEF Init, Scanner
  <2>3. LogOfScan /\ SentIsLogged
    BY DEF Init, Idle, LogOfScan, SentIsLogged
  <2>4. OnePass
    BY <2>2 DEF OnePass, Idle
  <2>5. AtMostOne
    BY <2>2 DEF Init, AtMostOne
  <2> QED BY <2>1, <2>3, <2>4, <2>5 DEF OnceInv, LogInv, Init
<1>2. OnceInv /\ [Next]_vars => OnceInv'
  <2> SUFFICES ASSUME OnceInv, [Next]_vars PROVE OnceInv'
    OBVIOUS
  <2>1. LogInv'
    BY TypeStep, LogOfScanStep, SentIsLoggedStep DEF OnceInv, LogInv
  <2>2. OnePass' /\ AtMostOne' /\ queued' = [t \in Topic |-> {}]
    BY OnePassStep
  <2> QED BY <2>1, <2>2 DEF OnceInv
<1>3. OnceInv => AlertedOnce
  BY OneIsEnough DEF OnceInv, LogInv
<1> QED BY <1>1, <1>2, <1>3, PTL DEF Spec

-----------------------------------------------------------------------------
(***************************************************************************)
(* The cooldown when scans overlap.  For a topic t: Asking has passed the  *)
(* first query of the count, Pending is about to send an alert with a      *)
(* number nobody has seen, Paid has a row in its log for what it sent.     *)
(***************************************************************************)
Known(t) == reached[t] \cup queued[t]

AtDelivery(s, t) == session[s].pc = "deliver" /\ session[s].topic = t

Asking(t) == {s \in Scanner : session[s].pc = "queue" /\ session[s].topic = t}

Pending(t) == {s \in Scanner : AtDelivery(s, t) /\ session[s].serial \notin Known(t)}

Paid(t) ==
    {s \in Scanner : t \in session[s].log
                     /\ ~(AtDelivery(s, t) /\ session[s].serial \notin reached[t])}

Scanners == Cardinality(Scanner)
Limit == Scanners * ((IF Webhook = {} THEN 1 ELSE 2) + faults)

\* Before the history shows t, every alert is paid for by a log or a fault; while
\* deliveries are queued nobody can join those at delivery; once the history shows
\* t, only those that have passed the first query can.
BoundOf(t) ==
    /\ t \notin recent => Cardinality(reached[t]) <= Cardinality(Paid(t)) + Scanners * faults
    /\ t \notin recent /\ queued[t] # {} =>
            Cardinality(Known(t)) + Cardinality(Pending(t)) <= Scanners + Scanners * faults
    /\ t \in recent =>
            Cardinality(Known(t)) + Cardinality(Pending(t)) + Cardinality(Asking(t)) <= Limit

\* Each scan looks at a topic once and logs it only while it is at hand.
OnePassOf(s) ==
    /\ session[s].log \cap session[s].todo = {}
    /\ session[s].pc \in {"history", "queue", "deliver"} => session[s].topic \notin session[s].todo
    /\ session[s].pc \in {"history", "queue"} => session[s].topic \notin session[s].log

OwnSerials ==
    \A s, x \in Scanner :
        /\ s # x /\ session[s].pc = "deliver" /\ session[x].pc = "deliver"
        /\ session[s].topic = session[x].topic
        => session[s].serial # session[x].serial

BoundInv ==
    /\ TypeInv /\ LogOfScan
    /\ \A s \in Scanner : OnePassOf(s)
    /\ OwnSerials
    /\ \A t \in Topic : queued[t] # {} => Webhook # {}
    /\ \A t \in Topic : IsFiniteSet(Known(t))
    /\ \A t \in Topic : BoundOf(t)

-----------------------------------------------------------------------------
\* What each step inside a scan does to the fields the bound is about.
Alone1(s) == \A x \in Scanner \ {s} : session'[x] = session[x]

LEMMA BeginUserFields ==
    ASSUME TypeInv, NEW s \in Scanner, NEW u \in User, NEW enabled \in SUBSET Channel,
           BeginUser(s, u, enabled)
    PROVE  /\ Alone1(s) /\ session[s].pc = "results" /\ session'[s].pc = "results"
           /\ session'[s].log = session[s].log
           /\ session'[s].todo \subseteq session[s].todo
<1>t. session \in [Scanner -> Session] /\ session[s] \in Session
  BY DEF TypeInv, TypeOK
<1>1. CASE enabled = {}
  BY <1>1, <1>t DEF BeginUser, Session, Alone1
<1>2. CASE enabled # {}
  <2> DEFINE r == [session[s] EXCEPT !.users = {u}, !.channels = enabled]
  <2>1. r.log = session[s].log /\ r.pc = session[s].pc /\ r.todo = session[s].todo
    BY <1>t DEF Session
  <2>2. session' = [session EXCEPT ![s] = r] /\ session[s].pc = "results"
    BY <1>2, <1>t DEF BeginUser
  <2> HIDE DEF r
  <2> QED BY <2>1, <2>2, <1>t DEF Alone1
<1> QED BY <1>1, <1>2

LEMMA TakeResultFields ==
    ASSUME TypeInv, NEW s \in Scanner, NEW t \in Topic, NEW alert \in BOOLEAN,
           NEW listed \in SUBSET Channel, TakeResult(s, t, alert, listed)
    PROVE  /\ Alone1(s) /\ session[s].pc = "results"
           /\ session'[s].log = session[s].log
           /\ t \in session[s].todo /\ session'[s].todo = session[s].todo \ {t}
           /\ \/ session'[s].pc = "results"
              \/ session'[s].pc = "history" /\ session'[s].topic = t
<1>t. session \in [Scanner -> Session] /\ session[s] \in Session
  BY DEF TypeInv, TypeOK
<1>0. t \in session[s].todo /\ session[s].pc = "results"
  BY DEF TakeResult
<1>1. CASE alert
  <2> DEFINE r == [session[s] EXCEPT !.pc = "history", !.topic = t, !.todo = @ \ {t},
                                     !.left = session[s].channels \cap listed]
  <2>1. r.log = session[s].log /\ r.pc = "history" /\ r.topic = t
        /\ r.todo = session[s].todo \ {t}
    BY <1>t DEF Session
  <2>2. session' = [session EXCEPT ![s] = r]
    BY <1>1, <1>t DEF TakeResult
  <2> HIDE DEF r
  <2> QED BY <1>0, <2>1, <2>2, <1>t DEF Alone1
<1>2. CASE ~ alert
  BY <1>0, <1>2, <1>t DEF TakeResult, Session, Alone1
<1> QED BY <1>1, <1>2

LEMMA CountHistoryFields ==
    ASSUME TypeInv, NEW s \in Scanner, CountHistory(s)
    PROVE  /\ Alone1(s) /\ session[s].pc = "history"
           /\ session'[s].pc = IF session[s].topic \in recent THEN "results" ELSE "queue"
           /\ session'[s].log = session[s].log /\ session'[s].todo = session[s].todo
           /\ session'[s].topic = session[s].topic
BY DEF CountHistory, Session, TypeInv, TypeOK, Alone1

LEMMA CountQueueFields ==
    ASSUME TypeInv, NEW s \in Scanner, NEW n \in Serial, CountQueue(s, n)
    PROVE  /\ Alone1(s) /\ session[s].pc = "queue"
           /\ session'[s].pc \in {"results", "deliver"}
           /\ session'[s].pc = "deliver" => queued[session[s].topic] = {}
           /\ session'[s].log = session[s].log /\ session'[s].todo = session[s].todo
           /\ session'[s].topic = session[s].topic /\ session'[s].serial = n
<1>t. session \in [Scanner -> Session] /\ session[s] \in Session
  BY DEF TypeInv, TypeOK
<1> DEFINE pc == IF queued[session[s].topic] # {} \/ session[s].left = {}
                   THEN "results" ELSE "deliver"
           r == [session[s] EXCEPT !.pc = pc, !.serial = n]
<1>0. pc \in {"results", "deliver"} /\ (pc = "deliver" => queued[session[s].topic] = {})
  OBVIOUS
<1>1. session' = [session EXCEPT ![s] = r] /\ session[s].pc = "queue"
  BY <1>t DEF CountQueue
<1> HIDE DEF pc
<1>2. r.log = session[s].log /\ r.pc = pc /\ r.todo = session[s].todo
      /\ r.topic = session[s].topic /\ r.serial = n
  BY <1>t DEF Session
<1> HIDE DEF r
<1> QED BY <1>0, <1>1, <1>2, <1>t DEF Alone1

LEMMA DeliveryFields ==
    ASSUME TypeInv, NEW s \in Scanner, NEW c \in Channel, NEW sent \in BOOLEAN,
           session[s].pc = "deliver", session' = AfterChannel(s, c, sent)
    PROVE  /\ Alone1(s) /\ session'[s].pc \in {"results", "deliver"}
           /\ session'[s].log =
                IF sent THEN session[s].log \cup {session[s].topic} ELSE session[s].log
           /\ session'[s].todo = session[s].todo
           /\ session'[s].topic = session[s].topic /\ session'[s].serial = session[s].serial
<1>t. session \in [Scanner -> Session] /\ session[s] \in Session
  BY DEF TypeInv, TypeOK
<1> DEFINE pc == IF session[s].left \ {c} = {} THEN "results" ELSE session[s].pc
           log == IF sent THEN session[s].log \cup {session[s].topic} ELSE session[s].log
           r == [session[s] EXCEPT !.left = session[s].left \ {c}, !.pc = pc, !.log = log]
<1>1. pc \in {"results", "deliver"}
  OBVIOUS
<1>2. session' = [session EXCEPT ![s] = r]
  BY <1>t DEF AfterChannel, Session
<1> HIDE DEF pc, log
<1>3. r.pc = pc /\ r.log = log /\ r.todo = session[s].todo
      /\ r.topic = session[s].topic /\ r.serial = session[s].serial
  BY <1>t DEF Session
<1> HIDE DEF r
<1>4. session'[s].pc = pc /\ session'[s].log = log /\ session'[s].todo = session[s].todo
      /\ session'[s].topic = session[s].topic /\ session'[s].serial = session[s].serial
      /\ Alone1(s)
  BY <1>2, <1>3, <1>t DEF Alone1
<1> QED BY <1>1, <1>4 DEF log

\* The start and the end of a scan: the topics at hand and the log are empty or kept.
Outside(s) ==
    \/ s = Job /\ (StartJob \/ NothingToScan \/ \E results \in SUBSET Topic : Analyse(results))
    \/ s \in Request /\ \E t \in Topic : StartRequest(s, t)
    \/ Commit(s) \/ CommitFails(s)

LEMMA OutsideFields ==
    ASSUME TypeInv, LogOfScan, NEW s \in Scanner, Outside(s)
    PROVE  /\ Alone1(s) /\ session'[s].pc \in {"idle", "analyse", "results"}
           /\ session'[s].log = {}
           /\ session[s].log = {} \/ Commit(s) \/ CommitFails(s)
           /\ session[s].pc \in {"idle", "analyse", "results"}
           /\ UNCHANGED <<queued, reached>>
           /\ recent' = recent \/ Commit(s)
           /\ faults' = faults \/ CommitFails(s)
<1>t. session \in [Scanner -> Session] /\ session[s] \in Session
  BY DEF TypeInv, TypeOK
<1>i. Idle.log = {} /\ Idle.pc = "idle"
  BY DEF Idle
<1>1. CASE s = Job /\ StartJob
  BY <1>1, <1>t DEF StartJob, LogOfScan, Session, Alone1
<1>2. CASE s = Job /\ NothingToScan
  BY <1>2, <1>t, <1>i DEF NothingToScan, LogOfScan, Alone1
<1>3. ASSUME NEW results \in SUBSET Topic, s = Job, Analyse(results)
      PROVE  /\ Alone1(s) /\ session'[s].pc = "results" /\ session'[s].log = {}
             /\ session[s].log = {} /\ session[s].pc = "analyse"
             /\ UNCHANGED <<queued, reached, recent, faults>>
  BY <1>3, <1>t DEF Analyse, LogOfScan, Alone1, Idle
<1>4. ASSUME NEW t \in Topic, s \in Request, StartRequest(s, t)
      PROVE  /\ Alone1(s) /\ session'[s].pc = "results" /\ session'[s].log = {}
             /\ session[s].log = {} /\ session[s].pc = "idle"
             /\ UNCHANGED <<queued, reached, recent, faults>>
  BY <1>4, <1>t DEF StartRequest, LogOfScan, Alone1, Idle
<1>5. CASE Commit(s)
  BY <1>5, <1>t, <1>i DEF Commit, Finished, Alone1
<1>6. CASE CommitFails(s)
  BY <1>6, <1>t, <1>i DEF CommitFails, Finished, Alone1
<1> QED BY <1>1, <1>2, <1>3, <1>4, <1>5, <1>6 DEF Outside

-----------------------------------------------------------------------------
\* Counting scans.
LEMMA CountScanners ==
    /\ Scanners \in Nat \ {0}
    /\ \A A \in SUBSET Scanner : Cardinality(A) \in Nat /\ Cardinality(A) <= Scanners
    /\ \A A, B \in SUBSET Scanner : A \subseteq B => Cardinality(A) <= Cardinality(B)
    /\ \A A, B \in SUBSET Scanner, s \in Scanner :
            A \subseteq B \ {s} /\ s \in B => Cardinality(A) + 1 <= Cardinality(B)
    /\ \A A, B \in SUBSET Scanner, s \in Scanner :
            A \subseteq B \cup {s} => Cardinality(A) <= Cardinality(B) + 1
<1>f. IsFiniteSet(Scanner) /\ Job \in Scanner
  BY ConstantsAssumption DEF Scanner
<1>1. \A A \in SUBSET Scanner : IsFiniteSet(A) /\ Cardinality(A) \in Nat
                                /\ Cardinality(A) <= Scanners
  <2> TAKE A \in SUBSET Scanner
  <2> IsFiniteSet(A) /\ Cardinality(A) <= Scanners
    BY <1>f, FS_Subset DEF Scanners
  <2> QED BY FS_CardinalityType
<1>2. Scanners \in Nat \ {0}
  BY <1>f, <1>1, FS_EmptySet DEF Scanners
<1>3. \A A, B \in SUBSET Scanner : A \subseteq B => Cardinality(A) <= Cardinality(B)
  BY <1>1, FS_Subset
<1>4. ASSUME NEW A \in SUBSET Scanner, NEW B \in SUBSET Scanner, NEW s \in Scanner,
             A \subseteq B \ {s}, s \in B
      PROVE  Cardinality(A) + 1 <= Cardinality(B)
  <2>1. IsFiniteSet(A) /\ s \notin A /\ A \cup {s} \in SUBSET Scanner /\ A \cup {s} \subseteq B
    BY <1>1, <1>4
  <2>2. Cardinality(A \cup {s}) = Cardinality(A) + 1
    BY <2>1, FS_AddElement
  <2> QED BY <2>1, <2>2, <1>3
<1>5. ASSUME NEW A \in SUBSET Scanner, NEW B \in SUBSET Scanner, NEW s \in Scanner,
             A \subseteq B \cup {s}
      PROVE  Cardinality(A) <= Cardinality(B) + 1
  <2>1. IsFiniteSet(B) /\ B \cup {s} \in SUBSET Scanner
    BY <1>1
  <2>2. Cardinality(B) \in Nat /\ Cardinality(B \cup {s}) \in Nat
    BY <2>1, <1>1
  <2>3. Cardinality(B \cup {s}) <= Cardinality(B) + 1
    BY SMTT(30), <2>1, <2>2, FS_AddElement
  <2>4. Cardinality(A) <= Cardinality(B \cup {s}) /\ Cardinality(A) \in Nat
    BY <2>1, <1>5, <1>1, <1>3
  <2> QED BY <2>2, <2>3, <2>4
<1> QED BY <1>1, <1>2, <1>3, <1>4, <1>5

LEMMA CountDisjoint ==
    ASSUME NEW A \in SUBSET Scanner, NEW B \in SUBSET Scanner, A \cap B = {}
    PROVE  Cardinality(A) + Cardinality(B) = Cardinality(A \cup B)
<1>1. IsFiniteSet(A) /\ IsFiniteSet(B)
  BY ConstantsAssumption, FS_Subset
<1>2. Cardinality(A \cup B) = Cardinality(A) + Cardinality(B) - Cardinality({})
  BY <1>1, FS_Union
<1> QED BY <1>1, <1>2, FS_EmptySet, FS_CardinalityType

\* A fault pays for one more alert of every scan.
LEMMA OneMoreFault ==
    ASSUME NEW f \in Nat
    PROVE  Scanners * (f + 1) = Scanners * f + Scanners /\ Scanners * f \in Nat
<1> Scanners \in Nat
  BY CountScanners
<1> HIDE DEF Scanners
<1> QED OBVIOUS

LEMMA LimitIs ==
    ASSUME faults \in Nat
    PROVE  /\ Limit \in Nat
           /\ Webhook = {} => Limit = Scanners + Scanners * faults
           /\ Webhook # {} => Limit = Scanners + Scanners + Scanners * faults
<1> Scanners \in Nat
  BY CountScanners
<1> HIDE DEF Scanners
<1>1. CASE Webhook = {}
  BY <1>1 DEF Limit
<1>2. CASE Webhook # {}
  BY <1>2 DEF Limit
<1> QED BY <1>1, <1>2

\* The sizes the bound is about are numbers.
LEMMA Sizes ==
    ASSUME BoundInv, NEW t \in Topic
    PROVE  /\ Cardinality(reached[t]) \in Nat /\ Cardinality(Known(t)) \in Nat
           /\ Cardinality(reached[t]) <= Cardinality(Known(t))
           /\ Pending(t) \in SUBSET Scanner /\ Paid(t) \in SUBSET Scanner
           /\ Asking(t) \in SUBSET Scanner
           /\ Cardinality(Pending(t)) \in Nat /\ Cardinality(Paid(t)) \in 0..Scanners
           /\ Cardinality(Asking(t)) \in 0..Scanners
           /\ faults \in Nat
<1>1. IsFiniteSet(Known(t)) /\ reached[t] \in SUBSET Known(t) /\ faults \in Nat
  BY ConstantsAssumption DEF BoundInv, TypeInv, TypeOK, Known
<1>2. IsFiniteSet(reached[t]) /\ Cardinality(reached[t]) <= Cardinality(Known(t))
  BY <1>1, FS_Subset
<1>3. Cardinality(reached[t]) \in Nat /\ Cardinality(Known(t)) \in Nat
  BY <1>1, <1>2, FS_CardinalityType
<1>4. Pending(t) \in SUBSET Scanner /\ Paid(t) \in SUBSET Scanner /\ Asking(t) \in SUBSET Scanner
  BY DEF Pending, Paid, Asking
<1> QED BY <1>1, <1>2, <1>3, <1>4, CountScanners

\* While the history does not show t, scans that paid, that are about to send
\* and that ask are different scans, or a delivery is queued.
LEMMA BeforeHistory ==
    ASSUME BoundInv, NEW t \in Topic, t \notin recent
    PROVE  /\ Cardinality(Known(t)) + Cardinality(Pending(t)) <= Scanners + Scanners * faults
           /\ Cardinality(Known(t)) + Cardinality(Pending(t)) + Cardinality(Asking(t)) <= Limit
<1> DEFINE R == Cardinality(reached[t])
           K == Cardinality(Known(t))
           P == Cardinality(Pending(t))
           D == Cardinality(Paid(t))
           A == Cardinality(Asking(t))
<1>s. /\ R \in Nat /\ K \in Nat /\ P \in Nat /\ D \in Nat /\ A \in Nat /\ A <= Scanners
      /\ Pending(t) \in SUBSET Scanner /\ Paid(t) \in SUBSET Scanner
      /\ Asking(t) \in SUBSET Scanner /\ faults \in Nat
  BY Sizes
<1>l. /\ Limit \in Nat /\ Scanners \in Nat /\ Scanners * faults \in Nat
      /\ Webhook = {} => Limit = Scanners + Scanners * faults
      /\ Webhook # {} => Limit = Scanners + Scanners + Scanners * faults
  BY <1>s, LimitIs, CountScanners, OneMoreFault
<1> HIDE DEF Scanners, Limit
<1>1. CASE queued[t] # {}
  <2>1. K + P <= Scanners + Scanners * faults /\ Webhook # {}
    BY <1>1 DEF BoundInv, BoundOf
  <2> HIDE DEF K, P, A
  <2>2. K + P + A <= Limit
    BY <2>1, <1>s, <1>l
  <2> QED BY <2>1, <2>2 DEF K, P, A
<1>2. CASE queued[t] = {}
  <2>1. Known(t) = reached[t] /\ R <= D + Scanners * faults
    BY <1>2 DEF Known, BoundInv, BoundOf
  <2>2. Paid(t) \cap Pending(t) = {}
    BY <2>1 DEF Paid, Pending, AtDelivery
  <2>3. (Paid(t) \cup Pending(t)) \cap Asking(t) = {}
    BY DEF Paid, Pending, Asking, AtDelivery, BoundInv, OnePassOf
  <2>4. D + P + A <= Scanners
    <3>1. D + P = Cardinality(Paid(t) \cup Pending(t))
      BY <2>2, <1>s, CountDisjoint
    <3>2. Cardinality(Paid(t) \cup Pending(t)) + A
            = Cardinality(Paid(t) \cup Pending(t) \cup Asking(t))
      BY <2>3, <1>s, CountDisjoint
    <3> QED BY <3>1, <3>2, <1>s, CountScanners
  <2>5. K = R
    BY <2>1
  <2> HIDE DEF K, R, P, D, A
  <2>6. K + P + A <= Scanners + Scanners * faults
    BY <2>1, <2>4, <2>5, <1>s, <1>l
  <2>7. K + P <= Scanners + Scanners * faults /\ K + P + A <= Limit
    BY <2>6, <1>s, <1>l
  <2> QED BY <2>7 DEF K, P, A
<1> QED BY <1>1, <1>2

\* AlertsBounded is what is left of the three parts.
LEMMA BoundIsEnough == ASSUME BoundInv PROVE AlertsBounded
<1> SUFFICES ASSUME NEW t \in Topic PROVE Cardinality(reached[t]) <= Limit
  BY DEF AlertsBounded, Limit, Scanners
<1>1. Cardinality(Known(t)) + Cardinality(Pending(t)) + Cardinality(Asking(t)) <= Limit
  BY BeforeHistory DEF BoundInv, BoundOf
<1>2. faults \in Nat
  BY Sizes
<1> QED BY <1>1, <1>2, Sizes, LimitIs

-----------------------------------------------------------------------------
\* A step keeps the bound: what has to be shown of it, by what the history says.
InUse(t) == Cardinality(Known(t)) + Cardinality(Pending(t)) + Cardinality(Asking(t))

LEMMA InHistory ==
    ASSUME BoundInv, NEW t \in Topic, t \in recent', faults' \in {faults, faults + 1},
           InUse(t)' \in Nat, InUse(t)' <= InUse(t)
    PROVE  BoundOf(t)'
<1>s. faults \in Nat /\ InUse(t) \in Nat
  BY Sizes DEF InUse
<1>1. InUse(t) <= Limit
  BY BeforeHistory DEF BoundInv, BoundOf, InUse
<1>2. Limit \in Nat /\ Limit' \in Nat /\ Limit <= Limit'
  <2> DEFINE width == IF Webhook = {} THEN 1 ELSE 2
             L(f) == Scanners * (width + f)
  <2>1. width \in Nat /\ Scanners \in Nat
    BY CountScanners
  <2> HIDE DEF Scanners, width
  <2>2. \A f \in Nat : L(f) \in Nat /\ L(f + 1) = L(f) + Scanners
    BY <2>1
  <2>3. Limit = L(faults) /\ Limit' = L(faults')
    BY DEF Limit, width, Scanners
  <2> HIDE DEF L
  <2> QED BY <1>s, <2>1, <2>2, <2>3
<1>3. InUse(t)' <= Limit'
  BY <1>s, <1>1, <1>2
<1> QED BY <1>3 DEF BoundOf, InUse

LEMMA NotInHistory ==
    ASSUME BoundInv, NEW t \in Topic, t \notin recent, t \notin recent',
           Cardinality(reached[t])' \in Nat,
           \/ /\ faults' = faults
              /\ Cardinality(reached[t])' <= Cardinality(reached[t])
              /\ Cardinality(Paid(t)) <= Cardinality(Paid(t))'
           \/ /\ faults' = faults
              /\ Cardinality(reached[t])' <= Cardinality(reached[t]) + 1
              /\ Cardinality(Paid(t)) + 1 <= Cardinality(Paid(t))'
           \/ /\ faults' = faults + 1
              /\ Cardinality(reached[t])' <= Cardinality(reached[t])
           \/ /\ faults' = faults + 1
              /\ Cardinality(reached[t])' <= Cardinality(reached[t]) + 1
              /\ Cardinality(Paid(t)) <= Cardinality(Paid(t))',
           queued'[t] # {} =>
              /\ Cardinality(Known(t))' + Cardinality(Pending(t))' \in Nat
              /\ Cardinality(Known(t))' + Cardinality(Pending(t))'
                    <= Cardinality(Known(t)) + Cardinality(Pending(t))
    PROVE  BoundOf(t)'
<1> DEFINE R == Cardinality(reached[t])
           R2 == Cardinality(reached[t])'
           D == Cardinality(Paid(t))
           D2 == Cardinality(Paid(t))'
           KP == Cardinality(Known(t)) + Cardinality(Pending(t))
           KP2 == Cardinality(Known(t))' + Cardinality(Pending(t))'
<1>s. R \in Nat /\ D \in 0..Scanners /\ KP \in Nat /\ faults \in Nat /\ Scanners \in Nat \ {0}
  BY Sizes, CountScanners
<1>d. D2 \in 0..Scanners /\ R2 \in Nat
  <2> Paid(t)' \in SUBSET Scanner
    BY DEF Paid
  <2> QED BY CountScanners
<1>f. Scanners * (faults + 1) = Scanners * faults + Scanners /\ Scanners * faults \in Nat
  BY <1>s, OneMoreFault
<1>1. R <= D + Scanners * faults /\ KP <= Scanners + Scanners * faults
  BY BeforeHistory DEF BoundInv, BoundOf
<1>2. \/ faults' = faults /\ R2 <= R /\ D <= D2
      \/ faults' = faults /\ R2 <= R + 1 /\ D + 1 <= D2
      \/ faults' = faults + 1 /\ R2 <= R
      \/ faults' = faults + 1 /\ R2 <= R + 1 /\ D <= D2
  OBVIOUS
<1>3. queued'[t] # {} => KP2 \in Nat /\ KP2 <= KP
  OBVIOUS
<1> HIDE DEF R, R2, D, D2, KP, KP2, Scanners
<1>4. R2 <= D2 + Scanners * faults'
  BY <1>s, <1>d, <1>f, <1>1, <1>2
<1>5. Scanners * faults <= Scanners * faults' /\ Scanners * faults' \in Nat
  BY <1>s, <1>f, <1>2
<1>6. queued'[t] # {} => KP2 <= Scanners + Scanners * faults'
  BY <1>s, <1>f, <1>1, <1>3, <1>5
<1>7. Scanners' = Scanners
  BY DEF Scanners
<1> QED BY <1>4, <1>6, <1>7 DEF BoundOf, R2, D2, KP2

\* Most steps leave alone what is known of a topic.
LEMMA QuietStep ==
    ASSUME BoundInv, NEW t \in Topic,
           queued'[t] = queued[t], reached'[t] = reached[t],
           Pending(t)' \subseteq Pending(t),
           t \in recent' => Asking(t)' \subseteq Asking(t),
           faults' \in {faults, faults + 1},
           t \notin recent' => t \notin recent,
           t \notin recent' /\ faults' = faults => Paid(t) \subseteq Paid(t)'
    PROVE  BoundOf(t)'
<1>s. /\ Pending(t) \in SUBSET Scanner /\ Asking(t) \in SUBSET Scanner
      /\ Paid(t) \in SUBSET Scanner /\ Paid(t)' \in SUBSET Scanner
      /\ Pending(t)' \in SUBSET Scanner /\ Asking(t)' \in SUBSET Scanner
  BY DEF Pending, Asking, Paid
<1>n. Cardinality(reached[t]) \in Nat /\ Cardinality(Known(t)) \in Nat /\ faults \in Nat
  BY Sizes
<1>k. Known(t)' = Known(t)
  BY DEF Known
<1>p. /\ Cardinality(Pending(t)) \in Nat /\ Cardinality(Pending(t)') \in Nat
      /\ Cardinality(Pending(t)') <= Cardinality(Pending(t))
  BY <1>s, CountScanners
<1>1. CASE t \in recent'
  <2>1. /\ Cardinality(Asking(t)) \in Nat /\ Cardinality(Asking(t)') \in Nat
        /\ Cardinality(Asking(t)') <= Cardinality(Asking(t))
    BY <1>1, <1>s, CountScanners
  <2>2. InUse(t)' \in Nat /\ InUse(t)' <= InUse(t)
    BY <1>n, <1>k, <1>p, <2>1 DEF InUse
  <2> QED BY <1>1, <2>2, InHistory
<1>2. CASE t \notin recent'
  <2>1. \/ faults' = faults + 1
        \/ faults' = faults /\ Cardinality(Paid(t)) <= Cardinality(Paid(t)')
    BY <1>2, <1>s, CountScanners
  <2>2. /\ Cardinality(Known(t))' + Cardinality(Pending(t))' \in Nat
        /\ Cardinality(Known(t))' + Cardinality(Pending(t))'
                <= Cardinality(Known(t)) + Cardinality(Pending(t))
    BY <1>n, <1>k, <1>p
  <2> QED BY <1>2, <1>n, <2>1, <2>2, NotInHistory
<1> QED BY <1>1, <1>2

\* The same when one scan takes the step.
LEMMA QuietScanner ==
    ASSUME BoundInv, NEW t \in Topic, NEW s \in Scanner, Alone1(s),
           queued'[t] = queued[t], reached'[t] = reached[t],
           s \in Pending(t)' => s \in Pending(t),
           t \in recent' /\ s \in Asking(t)' => s \in Asking(t),
           faults' \in {faults, faults + 1},
           t \notin recent' => t \notin recent,
           t \notin recent' /\ faults' = faults /\ s \in Paid(t) => s \in Paid(t)'
    PROVE  BoundOf(t)'
<1>k. Known(t)' = Known(t)
  BY DEF Known
<1>o. \A x \in Scanner \ {s} : session'[x] = session[x]
  BY DEF Alone1
<1>1. \A x \in Scanner \ {s} : (x \in Pending(t)' <=> x \in Pending(t))
                               /\ (x \in Asking(t)' <=> x \in Asking(t))
                               /\ (x \in Paid(t)' <=> x \in Paid(t))
  BY <1>k, <1>o DEF Pending, Asking, Paid, AtDelivery
<1>2. /\ Pending(t) \in SUBSET Scanner /\ Asking(t) \in SUBSET Scanner
      /\ Paid(t) \in SUBSET Scanner /\ Paid(t)' \in SUBSET Scanner
      /\ Pending(t)' \in SUBSET Scanner /\ Asking(t)' \in SUBSET Scanner
  BY DEF Pending, Asking, Paid
<1>3. /\ Pending(t)' \subseteq Pending(t)
      /\ t \in recent' => Asking(t)' \subseteq Asking(t)
      /\ t \notin recent' /\ faults' = faults => Paid(t) \subseteq Paid(t)'
  BY <1>1, <1>2
<1> QED BY <1>3, QuietStep

-----------------------------------------------------------------------------
\* Each action keeps the bound of every topic.
LEMMA OutsideBound ==
    ASSUME BoundInv, NEW s \in Scanner, Outside(s), NEW t \in Topic
    PROVE  BoundOf(t)'
<1>f. /\ Alone1(s) /\ session'[s].pc \in {"idle", "analyse", "results"}
      /\ session'[s].log = {}
      /\ session[s].log = {} \/ Commit(s) \/ CommitFails(s)
      /\ session[s].pc \in {"idle", "analyse", "results"}
      /\ UNCHANGED <<queued, reached>>
      /\ recent' = recent \/ Commit(s)
      /\ faults' = faults \/ CommitFails(s)
  BY OutsideFields DEF BoundInv
<1>1. /\ Commit(s) => recent' = recent \cup session[s].log /\ faults' = faults
      /\ CommitFails(s) => recent' = recent /\ faults' = faults + 1
  <2>1. Commit(s) => faults' = faults
    BY DEF Commit
  <2>2. Commit(s) => recent' = recent \cup session[s].log
    BY DEF Commit
  <2>3. CommitFails(s) => recent' = recent /\ faults' = faults + 1
    BY DEF CommitFails
  <2> QED BY <2>1, <2>2, <2>3
<1>2. s \notin Pending(t)' /\ s \notin Asking(t)'
  BY <1>f DEF Pending, Asking, AtDelivery
<1>3. t \notin recent' /\ faults' = faults => s \notin Paid(t)
  <2> SUFFICES ASSUME t \notin recent', faults' = faults PROVE t \notin session[s].log
    BY DEF Paid
  <2>1. CASE session[s].log = {}
    BY <2>1
  <2>2. CASE Commit(s)
    BY <1>1, <2>2
  <2>3. CASE CommitFails(s)
    BY <1>1, <2>3, Sizes
  <2> QED BY <1>f, <2>1, <2>2, <2>3
<1>4. faults' \in {faults, faults + 1} /\ (t \notin recent' => t \notin recent)
  BY <1>f, <1>1
<1> QED BY <1>f, <1>2, <1>3, <1>4, QuietScanner

\* A scan between two deliveries, or at the delivery of another topic.
LEMMA ResultsBound ==
    ASSUME BoundInv, NEW s \in Scanner, NEW t \in Topic, UNCHANGED <<queued, reached, recent>>,
           faults' = faults, Alone1(s), session'[s].log = session[s].log,
           session[s].pc = "results", session'[s].pc \in {"results", "history"}
    PROVE  BoundOf(t)'
<1>1. s \notin Pending(t)' /\ s \notin Asking(t)' /\ (s \in Paid(t) => s \in Paid(t)')
  BY DEF Pending, Asking, Paid, AtDelivery
<1> QED BY <1>1, QuietScanner

LEMMA CountHistoryBound ==
    ASSUME BoundInv, NEW s \in Scanner, NEW t \in Topic, CountHistory(s)
    PROVE  BoundOf(t)'
<1>f. /\ Alone1(s) /\ session[s].pc = "history"
      /\ session'[s].pc = IF session[s].topic \in recent THEN "results" ELSE "queue"
      /\ session'[s].log = session[s].log
      /\ session'[s].topic = session[s].topic
  BY CountHistoryFields DEF BoundInv
<1>u. UNCHANGED <<queued, reached, recent, faults>>
  BY DEF CountHistory
<1>1. s \notin Pending(t)' /\ (s \in Paid(t) => s \in Paid(t)')
  BY <1>f DEF Pending, Paid, AtDelivery
<1>2. t \in recent' => s \notin Asking(t)'
  BY <1>f, <1>u DEF Asking
<1> QED BY <1>f, <1>u, <1>1, <1>2, QuietScanner

LEMMA CountQueueBound ==
    ASSUME BoundInv, NEW s \in Scanner, NEW t \in Topic, NEW n \in Serial, CountQueue(s, n)
    PROVE  BoundOf(t)'
<1>f. /\ Alone1(s) /\ session[s].pc = "queue"
      /\ session'[s].pc \in {"results", "deliver"}
      /\ session'[s].pc = "deliver" => queued[session[s].topic] = {}
      /\ session'[s].log = session[s].log
      /\ session'[s].topic = session[s].topic
  BY CountQueueFields DEF BoundInv
<1>u. UNCHANGED <<queued, reached, recent, faults>>
  BY DEF CountQueue
<1>1. s \notin Asking(t)'
  BY <1>f DEF Asking
<1>2. CASE session[s].topic # t \/ session'[s].pc = "results"
  <2>1. s \notin Pending(t)' /\ (s \in Paid(t) => s \in Paid(t)')
    BY <1>f, <1>2 DEF Pending, Paid, AtDelivery
  <2> QED BY <1>f, <1>u, <1>1, <2>1, QuietScanner
\* The scan joins those at delivery: it leaves Asking, and had not paid.
<1>3. CASE session[s].topic = t /\ session'[s].pc = "deliver"
  <2>k. Known(t)' = Known(t) /\ queued'[t] = {}
    BY <1>f, <1>u, <1>3 DEF Known
  <2>o. \A x \in Scanner \ {s} : session'[x] = session[x]
    BY <1>f DEF Alone1
  <2>1. \A x \in Scanner \ {s} : (x \in Pending(t)' => x \in Pending(t))
                                 /\ (x \in Asking(t)' => x \in Asking(t))
                                 /\ (x \in Paid(t) => x \in Paid(t)')
    BY <1>u, <2>k, <2>o DEF Pending, Asking, Paid, AtDelivery
  <2>2. s \in Asking(t) /\ s \notin Paid(t)
    BY <1>f, <1>3 DEF Asking, Paid, BoundInv, OnePassOf
  <2>3. /\ Pending(t) \in SUBSET Scanner /\ Asking(t) \in SUBSET Scanner
        /\ Paid(t) \in SUBSET Scanner /\ Paid(t)' \in SUBSET Scanner
        /\ Pending(t)' \in SUBSET Scanner /\ Asking(t)' \in SUBSET Scanner
    BY DEF Pending, Asking, Paid
  <2>4. /\ Pending(t)' \subseteq Pending(t) \cup {s} /\ Asking(t)' \subseteq Asking(t) \ {s}
        /\ Paid(t) \subseteq Paid(t)'
    BY <1>1, <2>1, <2>2, <2>3
  <2>5. /\ Cardinality(Pending(t)') <= Cardinality(Pending(t)) + 1
        /\ Cardinality(Asking(t)') + 1 <= Cardinality(Asking(t))
        /\ Cardinality(Paid(t)) <= Cardinality(Paid(t)')
        /\ Cardinality(Pending(t)') \in Nat /\ Cardinality(Asking(t)') \in Nat
    BY <2>2, <2>3, <2>4, CountScanners
  <2>6. /\ Cardinality(Known(t)) \in Nat /\ Cardinality(Pending(t)) \in Nat
        /\ Cardinality(Asking(t)) \in Nat /\ Cardinality(reached[t]) \in Nat
    BY Sizes
  <2>7. CASE t \in recent
    <3>1. InUse(t)' \in Nat /\ InUse(t)' <= InUse(t)
      BY <2>k, <2>5, <2>6 DEF InUse
    <3> QED BY <1>u, <2>7, <3>1, InHistory
  <2>8. CASE t \notin recent
    BY <1>u, <2>8, <2>k, <2>5, <2>6, NotInHistory
  <2> QED BY <2>7, <2>8
<1> QED BY <1>f, <1>2, <1>3

\* A scan at delivery that alerts nobody new about t.
LEMMA OtherDeliveryBound ==
    ASSUME BoundInv, NEW s \in Scanner, NEW t \in Topic, Alone1(s),
           queued'[t] = queued[t], reached'[t] = reached[t], recent' = recent,
           faults' \in {faults, faults + 1},
           session[s].pc = "deliver", session'[s].pc \in {"results", "deliver"},
           session'[s].topic = session[s].topic, session'[s].serial = session[s].serial,
           \/ session'[s].log = session[s].log
           \/ session[s].topic # t /\ session'[s].log = session[s].log \cup {session[s].topic}
    PROVE  BoundOf(t)'
<1>k. Known(t)' = Known(t)
  BY DEF Known
<1>1. s \notin Asking(t)'
  BY DEF Asking
<1>2. s \in Pending(t)' => s \in Pending(t)
  BY <1>k DEF Pending, AtDelivery
<1>3. t \in session'[s].log <=> t \in session[s].log
  OBVIOUS
<1>4. s \in Paid(t) => s \in Paid(t)'
  BY <1>3 DEF Paid, AtDelivery
<1> QED BY <1>1, <1>2, <1>4, QuietScanner

\* An alert about t leaves: what is known grows by its number, and if it was new
\* the scan is no longer about to send it.
LEMMA AlertCounts ==
    ASSUME BoundInv, NEW s \in Scanner, NEW t \in Topic, Alone1(s), AtDelivery(s, t),
           session'[s].pc \in {"results", "deliver"},
           session'[s].topic = session[s].topic, session'[s].serial = session[s].serial,
           Known(t)' = Known(t) \cup {session[s].serial}
    PROVE  /\ Cardinality(Known(t))' + Cardinality(Pending(t))' \in Nat
           /\ Cardinality(Known(t))' + Cardinality(Pending(t))'
                    <= Cardinality(Known(t)) + Cardinality(Pending(t))
           /\ InUse(t)' \in Nat /\ InUse(t)' <= InUse(t)
<1> DEFINE n == session[s].serial
<1>k. Known(t)' = Known(t) \cup {n} /\ IsFiniteSet(Known(t))
  BY DEF BoundInv
<1>s. /\ Pending(t) \in SUBSET Scanner /\ Asking(t) \in SUBSET Scanner
      /\ Pending(t)' \in SUBSET Scanner /\ Asking(t)' \in SUBSET Scanner
      /\ Cardinality(Known(t)) \in Nat
  BY Sizes DEF Pending, Asking
<1>a. /\ Cardinality(Pending(t)) \in Nat /\ Cardinality(Pending(t)') \in Nat
      /\ Cardinality(Asking(t)) \in Nat /\ Cardinality(Asking(t)') \in Nat
  BY <1>s, CountScanners
<1>o. \A x \in Scanner \ {s} : session'[x] = session[x]
  BY DEF Alone1
<1>1. s \notin Pending(t)' /\ s \notin Asking(t)'
  BY <1>k DEF Pending, Asking
<1>2. \A x \in Scanner \ {s} : (x \in Pending(t)' => x \in Pending(t))
                               /\ (x \in Asking(t)' => x \in Asking(t))
  BY <1>k, <1>o DEF Pending, Asking, AtDelivery
<1>3. Pending(t)' \subseteq Pending(t) \ {s} /\ Asking(t)' \subseteq Asking(t)
  BY <1>1, <1>2, <1>s
<1>4. Cardinality(Asking(t)') <= Cardinality(Asking(t))
  BY <1>3, <1>s, CountScanners
<1>5. /\ Cardinality(Known(t)') \in Nat
      /\ Cardinality(Known(t)') + Cardinality(Pending(t)')
            <= Cardinality(Known(t)) + Cardinality(Pending(t))
  <2>1. CASE n \in Known(t)
    <3>1. Known(t)' = Known(t) /\ Cardinality(Pending(t)') <= Cardinality(Pending(t))
      BY <2>1, <1>k, <1>3, <1>s, CountScanners
    <3>2. Cardinality(Known(t)') = Cardinality(Known(t))
      BY <3>1
    <3> QED BY <3>1, <3>2, <1>a, <1>s
  <2>2. CASE n \notin Known(t)
    <3>1. s \in Pending(t)
      BY <2>2 DEF Pending
    <3>2. Cardinality(Pending(t)') + 1 <= Cardinality(Pending(t))
      BY <3>1, <1>3, <1>s, CountScanners
    <3>3. Cardinality(Known(t)') = Cardinality(Known(t)) + 1
      BY <2>2, <1>k, FS_AddElement
    <3> QED BY <3>2, <3>3, <1>a, <1>s
  <2> QED BY <2>1, <2>2
<1> QED BY <1>a, <1>s, <1>4, <1>5 DEF InUse

LEMMA SendBound ==
    ASSUME BoundInv, NEW s \in Scanner, NEW t \in Topic, NEW c \in Channel,
           Send(s, c) \/ AnswerLost(s, c)
    PROVE  BoundOf(t)'
<1> DEFINE n == session[s].serial
           sent == IF faults' = faults THEN TRUE ELSE FALSE
<1>t. /\ session \in [Scanner -> Session] /\ reached \in [Topic -> SUBSET Serial]
      /\ faults \in Nat /\ session[s] \in Session
  BY ConstantsAssumption DEF BoundInv, TypeInv, TypeOK
<1>n. n \in Serial /\ session[s].topic \in Topic
  BY <1>t DEF Session
<1>u. /\ session[s].pc = "deliver" /\ session' = AfterChannel(s, c, sent)
      /\ UNCHANGED <<recent, queued>> /\ faults' \in {faults, faults + 1}
      /\ reached' = [reached EXCEPT ![session[s].topic] = @ \cup {n}]
  <2>1. CASE Send(s, c)
    <3>1. faults' = faults
      BY <2>1 DEF Send
    <3>2. sent = TRUE
      BY <3>1
    <3> QED BY <2>1, <3>1, <3>2 DEF Send, Delivering
  <2>2. CASE AnswerLost(s, c)
    <3>1. faults' = faults + 1
      BY <2>2 DEF AnswerLost
    <3>2. sent = FALSE
      BY <3>1, <1>t
    <3> QED BY <2>2, <3>1, <3>2 DEF AnswerLost, Delivering
  <2> QED BY <2>1, <2>2
<1>f. /\ Alone1(s) /\ session'[s].pc \in {"results", "deliver"}
      /\ session'[s].log =
            IF sent THEN session[s].log \cup {session[s].topic} ELSE session[s].log
      /\ session'[s].topic = session[s].topic /\ session'[s].serial = n
  BY <1>u, DeliveryFields DEF BoundInv
<1>1. CASE session[s].topic # t
  BY <1>1, <1>u, <1>f, <1>t, OtherDeliveryBound
<1>2. CASE session[s].topic = t
  <2>r. reached'[t] = reached[t] \cup {n} /\ queued'[t] = queued[t]
    BY <1>2, <1>u, <1>t
  <2>k. Known(t)' = Known(t) \cup {n}
    BY <2>r DEF Known
  <2>a. AtDelivery(s, t)
    BY <1>2, <1>u DEF AtDelivery
  <2>c. /\ Cardinality(Known(t))' + Cardinality(Pending(t))' \in Nat
        /\ Cardinality(Known(t))' + Cardinality(Pending(t))'
                <= Cardinality(Known(t)) + Cardinality(Pending(t))
        /\ InUse(t)' \in Nat /\ InUse(t)' <= InUse(t)
    BY <1>f, <2>k, <2>a, AlertCounts
  <2>1. CASE t \in recent
    BY <1>u, <2>1, <2>c, InHistory
  <2>2. CASE t \notin recent
    <3>f. IsFiniteSet(reached[t]) /\ Cardinality(reached[t]) \in Nat
      <4>1. IsFiniteSet(Known(t)) /\ reached[t] \in SUBSET Known(t)
        BY DEF BoundInv, Known
      <4> QED BY <4>1, FS_Subset, Sizes
    <3>1. /\ Cardinality(reached[t])' \in Nat
          /\ Cardinality(reached[t])' <= Cardinality(reached[t]) + 1
          /\ n \in reached[t] => Cardinality(reached[t])' = Cardinality(reached[t])
      <4>1. Cardinality(reached[t] \cup {n}) = IF n \in reached[t] THEN Cardinality(reached[t])
                                                 ELSE Cardinality(reached[t]) + 1
        BY <3>f, FS_AddElement
      <4>2. Cardinality(reached'[t]) = Cardinality(reached[t] \cup {n})
        BY <2>r
      <4> QED BY <3>f, <4>1, <4>2
    <3>o. \A x \in Scanner \ {s} : session'[x] = session[x]
      BY <1>f DEF Alone1
    <3>2. \A x \in Scanner \ {s} : x \in Paid(t) => x \in Paid(t)'
      BY <3>o, <2>r DEF Paid, AtDelivery
    <3>3. s \in Paid(t) => s \in Paid(t)'
      BY <1>f, <2>r DEF Paid
    <3>4. Paid(t) \in SUBSET Scanner /\ Paid(t)' \in SUBSET Scanner
      BY DEF Paid
    <3>5. Paid(t) \subseteq Paid(t)'
      BY <3>2, <3>3, <3>4
    <3>6. Cardinality(Paid(t)) <= Cardinality(Paid(t)')
      BY <3>4, <3>5, CountScanners
    \* The scan that sends pays for it.
    <3>7. faults' = faults /\ n \notin reached[t]
            => Cardinality(Paid(t)) + 1 <= Cardinality(Paid(t)')
      <4> SUFFICES ASSUME faults' = faults, n \notin reached[t]
                   PROVE  Cardinality(Paid(t)) + 1 <= Cardinality(Paid(t)')
        OBVIOUS
      <4>1. s \in Paid(t)'
        BY <1>2, <1>f, <2>r DEF Paid
      <4>2. s \notin Paid(t)
        BY <2>a DEF Paid
      <4> QED BY <4>1, <4>2, <3>4, <3>5, CountScanners
    <3>8. CASE faults' = faults + 1
      BY <1>u, <2>2, <2>c, <3>1, <3>6, <3>8, NotInHistory
    <3>9. CASE faults' = faults /\ n \in reached[t]
      <4>1. Cardinality(reached[t])' <= Cardinality(reached[t])
        BY <3>1, <3>9, <3>f
      <4> QED BY <1>u, <2>2, <2>c, <3>1, <3>6, <3>9, <4>1, NotInHistory
    <3>10. CASE faults' = faults /\ n \notin reached[t]
      BY <1>u, <2>2, <2>c, <3>1, <3>7, <3>10, NotInHistory
    <3> QED BY <1>u, <3>8, <3>9, <3>10
  <2> QED BY <2>1, <2>2
<1> QED BY <1>1, <1>2

LEMMA SendFailsBound ==
    ASSUME BoundInv, NEW s \in Scanner, NEW t \in Topic, NEW c \in Channel, SendFails(s, c)
    PROVE  BoundOf(t)'
<1>u. /\ session[s].pc = "deliver" /\ session' = AfterChannel(s, c, FALSE)
      /\ UNCHANGED <<recent, queued, reached, faults>>
  BY DEF SendFails, Delivering
<1>f. /\ Alone1(s) /\ session'[s].pc \in {"results", "deliver"}
      /\ session'[s].log = session[s].log
      /\ session'[s].topic = session[s].topic /\ session'[s].serial = session[s].serial
  BY <1>u, DeliveryFields DEF BoundInv
<1> QED BY <1>u, <1>f, OtherDeliveryBound

LEMMA QueueBound ==
    ASSUME BoundInv, NEW s \in Scanner, NEW t \in Topic, NEW c \in Channel, Queue(s, c)
    PROVE  BoundOf(t)'
<1>t. session \in [Scanner -> Session] /\ queued \in [Topic -> SUBSET Serial]
  BY DEF BoundInv, TypeInv, TypeOK
<1>u. /\ session[s].pc = "deliver" /\ session' = AfterChannel(s, c, FALSE)
      /\ UNCHANGED <<recent, reached, faults>>
      /\ queued' = [queued EXCEPT ![session[s].topic] = @ \cup {session[s].serial}]
  BY DEF Queue, Delivering
<1>f. /\ Alone1(s) /\ session'[s].pc \in {"results", "deliver"}
      /\ session'[s].log = session[s].log
      /\ session'[s].topic = session[s].topic /\ session'[s].serial = session[s].serial
  BY <1>u, DeliveryFields DEF BoundInv
<1>1. CASE session[s].topic # t
  BY <1>1, <1>u, <1>f, <1>t, OtherDeliveryBound
<1>2. CASE session[s].topic = t
  <2>k. Known(t)' = Known(t) \cup {session[s].serial}
    BY <1>2, <1>u, <1>t DEF Known
  <2>a. AtDelivery(s, t)
    BY <1>2, <1>u DEF AtDelivery
  <2>c. /\ Cardinality(Known(t))' + Cardinality(Pending(t))' \in Nat
        /\ Cardinality(Known(t))' + Cardinality(Pending(t))'
                <= Cardinality(Known(t)) + Cardinality(Pending(t))
        /\ InUse(t)' \in Nat /\ InUse(t)' <= InUse(t)
    BY <1>f, <2>k, <2>a, AlertCounts
  <2>1. CASE t \in recent
    BY <1>u, <2>1, <2>c, InHistory
  <2>2. CASE t \notin recent
    <3>o. \A x \in Scanner \ {s} : session'[x] = session[x]
      BY <1>f DEF Alone1
    <3>1. \A x \in Scanner : x \in Paid(t) => x \in Paid(t)'
      BY <3>o, <1>f, <1>u DEF Paid, AtDelivery
    <3>2. Paid(t) \in SUBSET Scanner /\ Paid(t)' \in SUBSET Scanner /\ Paid(t) \subseteq Paid(t)'
      BY <3>1 DEF Paid
    <3>3. Cardinality(Paid(t)) <= Cardinality(Paid(t)')
      BY <3>2, CountScanners
    <3>4. Cardinality(reached[t])' = Cardinality(reached[t]) /\ Cardinality(reached[t]) \in Nat
      BY <1>u, Sizes
    <3> QED BY <1>u, <2>2, <2>c, <3>3, <3>4, NotInHistory
  <2> QED BY <2>1, <2>2
<1> QED BY <1>1, <1>2

LEMMA CrashBound ==
    ASSUME BoundInv, NEW t \in Topic, Crash
    PROVE  BoundOf(t)'
<1>1. /\ session' = [s \in Scanner |-> Idle] /\ faults' = faults + 1
      /\ UNCHANGED <<recent, queued, reached>>
  BY DEF Crash
<1>2. Pending(t)' = {} /\ Asking(t)' = {}
  BY <1>1 DEF Pending, Asking, AtDelivery, Idle
<1>3. faults' # faults
  BY <1>1, Sizes
<1> QED BY <1>1, <1>2, <1>3, QuietStep

LEMMA DeliverBound ==
    ASSUME BoundInv, NEW t \in Topic, NEW u \in Topic, NEW n \in Serial, Deliver(u, n)
    PROVE  BoundOf(t)'
<1>t. queued \in [Topic -> SUBSET Serial] /\ reached \in [Topic -> SUBSET Serial]
  BY DEF BoundInv, TypeInv, TypeOK
<1>u. /\ n \in queued[u] /\ queued' = [queued EXCEPT ![u] = @ \ {n}]
      /\ recent' = recent \cup {u} /\ reached' = [reached EXCEPT ![u] = @ \cup {n}]
      /\ UNCHANGED <<session, faults>>
  BY DEF Deliver
<1>k. Known(t)' = Known(t)
  BY <1>t, <1>u DEF Known
<1>1. Pending(t)' = Pending(t) /\ Asking(t)' = Asking(t)
  BY <1>u, <1>k DEF Pending, Asking, AtDelivery
<1>2. CASE u # t
  <2>1. reached'[t] = reached[t] /\ queued'[t] = queued[t] /\ (t \in recent' <=> t \in recent)
    BY <1>t, <1>u, <1>2
  <2>2. Paid(t)' = Paid(t)
    BY <1>u, <2>1 DEF Paid, AtDelivery
  <2> QED BY <1>1, <1>u, <2>1, <2>2, QuietStep
<1>3. CASE u = t
  <2>1. InUse(t)' = InUse(t)
    BY <1>k, <1>1 DEF InUse
  <2>2. InUse(t) \in Nat
    BY Sizes DEF InUse
  <2> QED BY <1>3, <1>u, <2>1, <2>2, InHistory
<1> QED BY <1>2, <1>3

\* A delivery given up: the one scan at delivery with its number, if any, is
\* again about to send an alert nobody has seen.
LEMMA GiveUpBound ==
    ASSUME BoundInv, NEW t \in Topic, NEW u \in Topic, NEW n \in Serial, GiveUp(u, n)
    PROVE  BoundOf(t)'
<1>t. queued \in [Topic -> SUBSET Serial]
  BY DEF BoundInv, TypeInv, TypeOK
<1>u. /\ n \in queued[u] /\ queued' = [queued EXCEPT ![u] = @ \ {n}]
      /\ UNCHANGED <<session, faults, recent, reached>>
  BY DEF GiveUp
<1>1. Asking(t)' = Asking(t) /\ Paid(t)' = Paid(t)
  BY <1>u DEF Asking, Paid, AtDelivery
<1>2. CASE u # t
  <2>1. queued'[t] = queued[t]
    BY <1>t, <1>u, <1>2
  <2>2. Pending(t)' = Pending(t)
    BY <1>u, <2>1 DEF Pending, AtDelivery, Known
  <2> QED BY <1>1, <1>u, <2>1, <2>2, QuietStep
<1>3. CASE u = t
  <2>q. queued'[t] = queued[t] \ {n} /\ n \in Known(t) /\ IsFiniteSet(Known(t))
    BY <1>t, <1>u, <1>3 DEF Known, BoundInv
  <2>s. /\ Pending(t) \in SUBSET Scanner /\ Pending(t)' \in SUBSET Scanner
        /\ Cardinality(Known(t)) \in Nat /\ Cardinality(Asking(t)) \in Nat
        /\ Cardinality(reached[t]) \in Nat /\ Cardinality(Paid(t)) \in Nat
    <3>1. Pending(t) \in SUBSET Scanner /\ Pending(t)' \in SUBSET Scanner
      BY DEF Pending
    <3> QED BY <3>1, Sizes, CountScanners
  <2>p. Cardinality(Pending(t)) \in Nat /\ Cardinality(Pending(t)') \in Nat
    BY <2>s, CountScanners
  <2>1. /\ Cardinality(Known(t)') \in Nat
        /\ Cardinality(Known(t)') + Cardinality(Pending(t)')
                <= Cardinality(Known(t)) + Cardinality(Pending(t))
    <3>1. CASE n \in reached[t]
      <4>1. Known(t)' = Known(t)
        BY <1>u, <2>q, <3>1 DEF Known
      <4>2. Pending(t)' = Pending(t)
        BY <1>u, <4>1 DEF Pending, AtDelivery
      <4> QED BY <4>1, <4>2, <2>s, <2>p
    <3>2. CASE n \notin reached[t]
      <4>1. Known(t)' = Known(t) \ {n}
        BY <1>u, <2>q, <3>2 DEF Known
      <4>2. Cardinality(Known(t) \ {n}) = Cardinality(Known(t)) - 1
        BY <2>q, FS_RemoveElement
      <4>3. Cardinality(Known(t)') = Cardinality(Known(t)) - 1 /\ Cardinality(Known(t)') \in Nat
        <5>1. IsFiniteSet(Known(t) \ {n})
          BY <2>q, FS_RemoveElement
        <5>2. Cardinality(Known(t) \ {n}) \in Nat
          BY <5>1, FS_CardinalityType
        <5> QED BY <4>1, <4>2, <5>2
      <4>4. \A x \in Pending(t)' : x \in Pending(t) \/ (AtDelivery(x, t) /\ session[x].serial = n)
        BY <1>u, <4>1 DEF Pending, AtDelivery
      <4>5. Cardinality(Pending(t)') <= Cardinality(Pending(t)) + 1
        <5>1. CASE \E x \in Scanner : AtDelivery(x, t) /\ session[x].serial = n
          <6>1. PICK x \in Scanner : AtDelivery(x, t) /\ session[x].serial = n
            BY <5>1
          <6>2. \A y \in Scanner : AtDelivery(y, t) /\ session[y].serial = n => y = x
            BY <6>1 DEF BoundInv, OwnSerials, AtDelivery
          <6>3. Pending(t)' \subseteq Pending(t) \cup {x}
            BY <4>4, <6>2, <2>s
          <6> QED BY <6>3, <2>s, CountScanners
        <5>2. CASE ~ \E x \in Scanner : AtDelivery(x, t) /\ session[x].serial = n
          <6>1. Pending(t)' \subseteq Pending(t)
            BY <4>4, <5>2, <2>s
          <6>2. Cardinality(Pending(t)') <= Cardinality(Pending(t))
            BY <6>1, <2>s, CountScanners
          <6> QED BY <6>2, <2>p
        <5> QED BY <5>1, <5>2
      <4> QED BY <4>3, <4>5, <2>s, <2>p
    <3> QED BY <3>1, <3>2
  <2>2. InUse(t)' \in Nat /\ InUse(t)' <= InUse(t)
    BY <2>1, <1>1, <2>s, <2>p DEF InUse
  <2>3. CASE t \in recent
    BY <1>u, <2>2, <2>3, InHistory
  <2>4. CASE t \notin recent
    <3>1. Cardinality(reached[t])' = Cardinality(reached[t])
          /\ Cardinality(Paid(t))' = Cardinality(Paid(t))
      BY <1>u, <1>1
    <3>2. /\ Cardinality(Known(t))' + Cardinality(Pending(t))' \in Nat
          /\ Cardinality(Known(t))' + Cardinality(Pending(t))'
                <= Cardinality(Known(t)) + Cardinality(Pending(t))
      BY <2>1, <2>p
    <3> QED BY <1>u, <2>4, <3>1, <3>2, <2>s, NotInHistory
  <2> QED BY <2>3, <2>4
<1> QED BY <1>2, <1>3

\* A delivery given up that the receiver has processed: one alert more has reached
\* the user, and one fault has happened.
LEMMA UnansweredBound ==
    ASSUME BoundInv, NEW t \in Topic, NEW u \in Topic, NEW n \in Serial, GiveUpUnanswered(u, n)
    PROVE  BoundOf(t)'
<1>t. queued \in [Topic -> SUBSET Serial] /\ reached \in [Topic -> SUBSET Serial]
  BY DEF BoundInv, TypeInv, TypeOK
<1>u. /\ n \in queued[u] /\ queued' = [queued EXCEPT ![u] = @ \ {n}]
      /\ reached' = [reached EXCEPT ![u] = @ \cup {n}] /\ faults' = faults + 1
      /\ UNCHANGED <<session, recent>>
  BY DEF GiveUpUnanswered
<1>k. Known(t)' = Known(t)
  BY <1>t, <1>u DEF Known
<1>1. Pending(t)' = Pending(t) /\ Asking(t)' = Asking(t)
  BY <1>u, <1>k DEF Pending, Asking, AtDelivery
<1>s. /\ Cardinality(Known(t)) \in Nat /\ Cardinality(Pending(t)) \in Nat /\ Cardinality(Asking(t)) \in Nat
      /\ Cardinality(reached[t]) \in Nat /\ faults \in Nat
  BY Sizes
<1>2. CASE u # t
  <2>1. reached'[t] = reached[t] /\ queued'[t] = queued[t] /\ (t \in recent' <=> t \in recent)
    BY <1>t, <1>u, <1>2
  <2>2. Paid(t)' = Paid(t)
    BY <1>u, <2>1 DEF Paid, AtDelivery
  <2>3. faults' \in {faults, faults + 1}
    BY <1>u
  <2> QED BY <1>1, <2>1, <2>2, <2>3, QuietStep
<1>3. CASE u = t
  <2>1. InUse(t)' = InUse(t) /\ InUse(t) \in Nat
    BY <1>k, <1>1, <1>s DEF InUse
  <2>2. CASE t \in recent
    BY <1>u, <2>1, <2>2, InHistory
  <2>3. CASE t \notin recent
    <3>1. reached'[t] = reached[t] \cup {n} /\ IsFiniteSet(reached[t])
      <4>1. IsFiniteSet(Known(t)) /\ reached[t] \subseteq Known(t)
        BY DEF BoundInv, Known
      <4> QED BY <1>t, <1>u, <1>3, <4>1, FS_Subset
    <3>2. /\ Cardinality(reached[t])' \in Nat
          /\ Cardinality(reached[t])' <= Cardinality(reached[t]) + 1
      <4>1. /\ IsFiniteSet(reached[t] \cup {n})
            /\ Cardinality(reached[t] \cup {n}) = Cardinality(reached[t])
               \/ Cardinality(reached[t] \cup {n}) = Cardinality(reached[t]) + 1
        BY <3>1, FS_AddElement
      <4>2. Cardinality(reached[t] \cup {n}) \in Nat
        BY <4>1, FS_CardinalityType
      <4>3. Cardinality(reached[t])' = Cardinality(reached[t] \cup {n})
        BY <3>1
      <4> QED BY <4>1, <4>2, <4>3, <1>s
    <3>3. Paid(t) \subseteq Paid(t)'
      BY <1>u, <3>1 DEF Paid, AtDelivery
    <3>4. Paid(t) \in SUBSET Scanner /\ Paid(t)' \in SUBSET Scanner
      BY DEF Paid
    <3>5. Cardinality(Paid(t)) <= Cardinality(Paid(t))'
      BY <3>3, <3>4, CountScanners
    <3>6. /\ Cardinality(Known(t))' + Cardinality(Pending(t))' \in Nat
          /\ Cardinality(Known(t))' + Cardinality(Pending(t))'
                <= Cardinality(Known(t)) + Cardinality(Pending(t))
      BY <1>k, <1>1, <1>s
    <3> QED BY <1>u, <2>3, <3>2, <3>5, <3>6, NotInHistory
  <2> QED BY <2>2, <2>3
<1> QED BY <1>2, <1>3

LEMMA CoolDownBound ==
    ASSUME BoundInv, NEW t \in Topic, NEW u \in Topic, CoolDown(u)
    PROVE  BoundOf(t)'
<1>t. queued \in [Topic -> SUBSET Serial] /\ reached \in [Topic -> SUBSET Serial]
  BY DEF BoundInv, TypeInv, TypeOK
<1>u. /\ queued[u] = {} /\ recent' = recent \ {u} /\ reached' = [reached EXCEPT ![u] = {}]
      /\ UNCHANGED <<session, faults, queued>>
  BY DEF CoolDown
<1>1. CASE u # t
  <2>1. reached'[t] = reached[t] /\ (t \in recent' <=> t \in recent)
    BY <1>t, <1>u, <1>1
  <2>2. Pending(t)' = Pending(t) /\ Asking(t)' = Asking(t) /\ Paid(t)' = Paid(t)
    BY <1>u, <2>1 DEF Pending, Asking, Paid, AtDelivery, Known
  <2> QED BY <1>u, <2>1, <2>2, QuietStep
<1>2. CASE u = t
  <2>1. reached'[t] = {} /\ queued'[t] = {} /\ t \notin recent'
    BY <1>t, <1>u, <1>2
  <2>2. Cardinality(reached[t])' = 0
    BY <2>1, FS_EmptySet
  <2>3. Cardinality(Paid(t))' \in Nat
    <3> Paid(t)' \in SUBSET Scanner
      BY DEF Paid
    <3> QED BY CountScanners
  <2>4. Scanners * faults \in Nat /\ faults' = faults
    BY <1>u, Sizes, OneMoreFault
  <2>5. (Scanners * faults)' = Scanners * faults
    BY <2>4 DEF Scanners
  <2>6. Cardinality(reached[t])' <= Cardinality(Paid(t))' + (Scanners * faults)'
    BY <2>2, <2>3, <2>4, <2>5
  <2> QED BY <2>1, <2>6 DEF BoundOf
<1> QED BY <1>1, <1>2

-----------------------------------------------------------------------------
\* The step of a scan between its start and its end, number and all.
Inner(s) ==
    \/ \E u \in User, enabled \in SUBSET Channel : BeginUser(s, u, enabled)
    \/ \E t \in Topic, alert \in BOOLEAN, listed \in SUBSET Channel :
            TakeResult(s, t, alert, listed)
    \/ CountHistory(s)
    \/ \E n \in Serial : NewSerial(session[s].topic, n) /\ CountQueue(s, n)
    \/ \E c \in Channel : Send(s, c) \/ SendFails(s, c) \/ AnswerLost(s, c) \/ Queue(s, c)

LEMMA StepSplit ==
    ASSUME Next
    PROVE  \/ \E s \in Scanner : Outside(s) \/ Inner(s)
           \/ Crash \/ Environment
<1> Job \in Scanner /\ Request \subseteq Scanner
  BY DEF Scanner
<1>1. CASE Start
  BY <1>1 DEF Start, Outside
<1>2. CASE Scan
  BY <1>2 DEF Scan, Outside
<1>3. ASSUME NEW s \in Scanner, Process(s) PROVE Outside(s) \/ Inner(s)
  BY <1>3 DEF Process, Outside, Inner, FirstSerial
<1> QED BY <1>1, <1>2, <1>3 DEF Next

\* Whoever arrives at delivery there bears a number of its own.
LEMMA SerialsKept ==
    ASSUME BoundInv, NEW s \in Scanner, Alone1(s),
           \/ session'[s].pc # "deliver"
           \/ /\ session[s].pc = "deliver" /\ session'[s].topic = session[s].topic
              /\ session'[s].serial = session[s].serial
           \/ /\ session'[s].topic = session[s].topic
              /\ NewSerial(session[s].topic, session'[s].serial)
    PROVE  OwnSerials'
<1>o. \A x \in Scanner \ {s} : session'[x] = session[x]
  BY DEF Alone1
<1>i. OwnSerials
  BY DEF BoundInv
<1>1. ASSUME NEW x \in Scanner \ {s}, session'[s].pc = "deliver", session[x].pc = "deliver",
             session'[s].topic = session[x].topic
      PROVE  session'[s].serial # session[x].serial
  BY <1>1, <1>i DEF OwnSerials, NewSerial
<1> QED BY <1>o, <1>i, <1>1 DEF OwnSerials

LEMMA InnerStep ==
    ASSUME BoundInv, NEW s \in Scanner, Inner(s)
    PROVE  /\ Alone1(s) /\ OnePassOf(s)' /\ OwnSerials'
           /\ \A t \in Topic : BoundOf(t)'
           /\ \A t \in Topic : queued'[t] # {} => Webhook # {}
           /\ \A t \in Topic : IsFiniteSet(Known(t)')
<1>i. TypeInv /\ OnePassOf(s)
  BY DEF BoundInv
<1>q. \A t \in Topic : (queued[t] # {} => Webhook # {}) /\ IsFiniteSet(Known(t))
  BY DEF BoundInv
<1>r. UNCHANGED <<queued, reached>> =>
        /\ \A t \in Topic : queued'[t] # {} => Webhook # {}
        /\ \A t \in Topic : IsFiniteSet(Known(t)')
  BY <1>q DEF Known
<1>1. CASE \E u \in User, enabled \in SUBSET Channel : BeginUser(s, u, enabled)
  <2>1. PICK u \in User, enabled \in SUBSET Channel : BeginUser(s, u, enabled)
    BY <1>1
  <2>2. /\ Alone1(s) /\ session[s].pc = "results" /\ session'[s].pc = "results"
        /\ session'[s].log = session[s].log
        /\ session'[s].todo \subseteq session[s].todo
    BY <1>i, <2>1, BeginUserFields
  <2>3. UNCHANGED <<queued, reached, recent, faults>>
    BY <2>1 DEF BeginUser
  <2>4. OnePassOf(s)'
    BY <1>i, <2>2 DEF OnePassOf
  <2>5. OwnSerials'
    BY <2>2, SerialsKept
  <2> QED BY <1>r, <2>2, <2>3, <2>4, <2>5, ResultsBound
<1>2. CASE \E t \in Topic, alert \in BOOLEAN, listed \in SUBSET Channel :
              TakeResult(s, t, alert, listed)
  <2>1. PICK t \in Topic, alert \in BOOLEAN, listed \in SUBSET Channel :
              TakeResult(s, t, alert, listed)
    BY <1>2
  <2>2. /\ Alone1(s) /\ session[s].pc = "results"
        /\ session'[s].log = session[s].log
        /\ t \in session[s].todo /\ session'[s].todo = session[s].todo \ {t}
        /\ \/ session'[s].pc = "results"
           \/ session'[s].pc = "history" /\ session'[s].topic = t
    BY <1>i, <2>1, TakeResultFields
  <2>3. UNCHANGED <<queued, reached, recent, faults>>
    BY <2>1 DEF TakeResult
  <2>4. OnePassOf(s)'
    BY <1>i, <2>2 DEF OnePassOf
  <2>5. OwnSerials'
    BY <2>2, SerialsKept
  <2> QED BY <1>r, <2>2, <2>3, <2>4, <2>5, ResultsBound
<1>3. CASE CountHistory(s)
  <2>2. /\ Alone1(s) /\ session[s].pc = "history"
        /\ session'[s].pc = IF session[s].topic \in recent THEN "results" ELSE "queue"
        /\ session'[s].log = session[s].log /\ session'[s].todo = session[s].todo
        /\ session'[s].topic = session[s].topic
    BY <1>i, <1>3, CountHistoryFields
  <2>3. UNCHANGED <<queued, reached>>
    BY <1>3 DEF CountHistory
  <2>4. OnePassOf(s)'
    BY <1>i, <2>2 DEF OnePassOf
  <2>5. OwnSerials'
    BY <2>2, SerialsKept
  <2> QED BY <1>3, <1>r, <2>2, <2>3, <2>4, <2>5, CountHistoryBound
<1>4. CASE \E n \in Serial : NewSerial(session[s].topic, n) /\ CountQueue(s, n)
  <2>1. PICK n \in Serial : NewSerial(session[s].topic, n) /\ CountQueue(s, n)
    BY <1>4
  <2>2. /\ Alone1(s) /\ session[s].pc = "queue"
        /\ session'[s].pc \in {"results", "deliver"}
        /\ session'[s].log = session[s].log /\ session'[s].todo = session[s].todo
        /\ session'[s].topic = session[s].topic /\ session'[s].serial = n
    BY <1>i, <2>1, CountQueueFields
  <2>3. UNCHANGED <<queued, reached>>
    BY <2>1 DEF CountQueue
  <2>4. OnePassOf(s)'
    BY <1>i, <2>2 DEF OnePassOf
  <2>5. OwnSerials'
    BY <2>1, <2>2, SerialsKept
  <2> QED BY <2>1, <1>r, <2>2, <2>3, <2>4, <2>5, CountQueueBound
<1>5. ASSUME NEW c \in Channel,
             Send(s, c) \/ SendFails(s, c) \/ AnswerLost(s, c) \/ Queue(s, c)
      PROVE  Alone1(s) /\ OnePassOf(s)' /\ OwnSerials' /\ \A t \in Topic : BoundOf(t)'
  <2>1. session[s].pc = "deliver" /\ \E sent \in BOOLEAN : session' = AfterChannel(s, c, sent)
    BY <1>5 DEF Send, SendFails, AnswerLost, Queue, Delivering
  <2>2. /\ Alone1(s) /\ session'[s].pc \in {"results", "deliver"}
        /\ session'[s].log \subseteq session[s].log \cup {session[s].topic}
        /\ session'[s].todo = session[s].todo
        /\ session'[s].topic = session[s].topic /\ session'[s].serial = session[s].serial
    BY <1>i, <2>1, DeliveryFields
  <2>4. OnePassOf(s)'
    BY <1>i, <2>1, <2>2 DEF OnePassOf
  <2>5. OwnSerials'
    BY <2>1, <2>2, SerialsKept
  <2> QED BY <1>5, <2>2, <2>4, <2>5, SendBound, SendFailsBound, QueueBound
<1>6. ASSUME NEW c \in Channel,
             Send(s, c) \/ SendFails(s, c) \/ AnswerLost(s, c) \/ Queue(s, c),
             NEW t \in Topic
      PROVE  (queued'[t] # {} => Webhook # {}) /\ IsFiniteSet(Known(t)')
  <2>t. /\ session \in [Scanner -> Session] /\ queued \in [Topic -> SUBSET Serial]
        /\ reached \in [Topic -> SUBSET Serial]
    BY <1>i DEF TypeInv, TypeOK
  <2>1. /\ queued' = queued \/ Queue(s, c)
        /\ Queue(s, c) => c \in Webhook
        /\ Known(t)' \in {Known(t), Known(t) \cup {session[s].serial}}
    <3>1. CASE Send(s, c) \/ AnswerLost(s, c)
      BY <3>1, <2>t, ConstantsAssumption DEF Send, AnswerLost, Known, Queue
    <3>2. CASE SendFails(s, c)
      <4>1. queued' = queued /\ reached' = reached
        BY <3>2 DEF SendFails
      <4> QED BY <4>1 DEF Known, Queue
    <3>3. CASE Queue(s, c)
      BY <3>3, <2>t DEF Queue, Known
    <3> QED BY <1>6, <3>1, <3>2, <3>3
  <2>2. queued'[t] # {} => Webhook # {}
    BY <1>q, <2>1
  <2>3. IsFiniteSet(Known(t)')
    BY <1>q, <2>1, FS_AddElement
  <2> QED BY <2>2, <2>3
<1>7. CASE \E c \in Channel :
              Send(s, c) \/ SendFails(s, c) \/ AnswerLost(s, c) \/ Queue(s, c)
  BY <1>5, <1>6, <1>7
<1> QED BY <1>1, <1>2, <1>3, <1>4, <1>7 DEF Inner

LEMMA OutsideStep ==
    ASSUME BoundInv, NEW s \in Scanner, Outside(s)
    PROVE  Alone1(s) /\ OnePassOf(s)' /\ OwnSerials' /\ UNCHANGED <<queued, reached>>
<1>1. /\ Alone1(s) /\ session'[s].pc \in {"idle", "analyse", "results"}
      /\ session'[s].log = {} /\ UNCHANGED <<queued, reached>>
  BY OutsideFields DEF BoundInv
<1>2. OnePassOf(s)'
  BY <1>1 DEF OnePassOf
<1>3. OwnSerials'
  BY <1>1, SerialsKept
<1> QED BY <1>1, <1>2, <1>3

LEMMA EnvironmentStep ==
    ASSUME BoundInv, Environment, NEW t \in Topic
    PROVE  /\ session' = session /\ BoundOf(t)'
           /\ queued'[t] # {} => Webhook # {}
           /\ IsFiniteSet(Known(t)')
<1>t. queued \in [Topic -> SUBSET Serial] /\ reached \in [Topic -> SUBSET Serial]
  BY DEF BoundInv, TypeInv, TypeOK
<1>q. (queued[t] # {} => Webhook # {}) /\ IsFiniteSet(Known(t))
  BY DEF BoundInv
<1>1. ASSUME NEW u \in Topic, NEW n \in Serial, Deliver(u, n)
      PROVE  /\ session' = session /\ BoundOf(t)' /\ queued'[t] \subseteq queued[t]
             /\ Known(t)' \subseteq Known(t)
  BY <1>1, <1>t, DeliverBound DEF Deliver, Known
<1>2. ASSUME NEW u \in Topic, NEW n \in Serial, GiveUp(u, n)
      PROVE  /\ session' = session /\ BoundOf(t)' /\ queued'[t] \subseteq queued[t]
             /\ Known(t)' \subseteq Known(t)
  BY <1>2, <1>t, GiveUpBound DEF GiveUp, Known
<1>3. ASSUME NEW u \in Topic, CoolDown(u)
      PROVE  /\ session' = session /\ BoundOf(t)' /\ queued'[t] \subseteq queued[t]
             /\ Known(t)' \subseteq Known(t)
  BY <1>3, <1>t, CoolDownBound DEF CoolDown, Known
<1>5. ASSUME NEW u \in Topic, NEW n \in Serial, GiveUpUnanswered(u, n)
      PROVE  /\ session' = session /\ BoundOf(t)' /\ queued'[t] \subseteq queued[t]
             /\ Known(t)' \subseteq Known(t)
  BY <1>5, <1>t, UnansweredBound DEF GiveUpUnanswered, Known
<1>4. /\ session' = session /\ BoundOf(t)' /\ queued'[t] \subseteq queued[t]
      /\ Known(t)' \subseteq Known(t)
  BY <1>1, <1>2, <1>3, <1>5 DEF Environment
<1> QED BY <1>4, <1>q, FS_Subset

LEMMA BoundStep == BoundInv /\ [Next]_vars => BoundInv'
<1> SUFFICES ASSUME BoundInv, [Next]_vars PROVE BoundInv'
  OBVIOUS
<1>t. TypeInv' /\ LogOfScan'
  BY TypeStep, LogOfScanStep DEF BoundInv
<1>i. /\ \A x \in Scanner : OnePassOf(x)
      /\ OwnSerials
      /\ \A t \in Topic : (queued[t] # {} => Webhook # {}) /\ IsFiniteSet(Known(t)) /\ BoundOf(t)
  BY DEF BoundInv
<1>o. ASSUME NEW s \in Scanner, Alone1(s), OnePassOf(s)'
      PROVE  \A x \in Scanner : OnePassOf(x)'
  BY <1>o, <1>i DEF Alone1, OnePassOf
<1>1. ASSUME NEW s \in Scanner, Outside(s) PROVE BoundInv'
  <2>1. Alone1(s) /\ OnePassOf(s)' /\ OwnSerials' /\ UNCHANGED <<queued, reached>>
    BY <1>1, OutsideStep
  <2>2. \A t \in Topic : (queued'[t] # {} => Webhook # {}) /\ IsFiniteSet(Known(t)')
    BY <1>i, <2>1 DEF Known
  <2>3. \A t \in Topic : BoundOf(t)'
    BY <1>1, OutsideBound
  <2> QED BY <1>t, <1>o, <2>1, <2>2, <2>3 DEF BoundInv
<1>2. ASSUME NEW s \in Scanner, Inner(s) PROVE BoundInv'
  BY <1>t, <1>o, <1>2, InnerStep DEF BoundInv
<1>3. CASE Crash
  <2>1. session' = [s \in Scanner |-> Idle] /\ UNCHANGED <<queued, reached>>
    BY <1>3 DEF Crash
  <2>2. (\A x \in Scanner : OnePassOf(x)') /\ OwnSerials'
    BY <2>1 DEF OnePassOf, OwnSerials, Idle
  <2>3. \A t \in Topic : (queued'[t] # {} => Webhook # {}) /\ IsFiniteSet(Known(t)')
    BY <1>i, <2>1 DEF Known
  <2>4. \A t \in Topic : BoundOf(t)'
    BY <1>3, CrashBound
  <2> QED BY <1>t, <2>2, <2>3, <2>4 DEF BoundInv
<1>4. CASE Environment
  <2>0. SomeTopic \in Topic
    BY SomeInSets
  <2>1. session' = session
    BY <1>4, <2>0, EnvironmentStep
  <2>2. (\A x \in Scanner : OnePassOf(x)') /\ OwnSerials'
    BY <1>i, <2>1 DEF OnePassOf, OwnSerials
  <2>3. \A t \in Topic : /\ BoundOf(t)' /\ (queued'[t] # {} => Webhook # {})
                         /\ IsFiniteSet(Known(t)')
    BY <1>4, EnvironmentStep
  <2> QED BY <1>t, <2>2, <2>3 DEF BoundInv
<1>5. CASE UNCHANGED vars
  <2>1. UNCHANGED <<session, recent, queued, reached, faults>>
    BY <1>5 DEF vars
  <2> QED BY <1>t, <1>i, <2>1 DEF BoundInv, OnePassOf, OwnSerials, BoundOf, Known, Pending,
                Paid, Asking, AtDelivery, Limit, Scanners
<1> QED BY <1>1, <1>2, <1>3, <1>4, <1>5, StepSplit

\* However many scans overlap, within a cooldown a user is alerted about a pair at
\* most once by each scan, once more by each where a delivery slips between the
\* two queries of _count_recent_alerts, and as often again for every fault.
THEOREM OverlapBounded == Spec => []AlertsBounded
<1>1. Init => BoundInv
  <2> SUFFICES ASSUME Init PROVE BoundInv
    OBVIOUS
  <2>1. TypeInv
    BY TypeInit
  <2>2. LogOfScan /\ (\A s \in Scanner : OnePassOf(s)) /\ OwnSerials
    BY DEF Init, Idle, LogOfScan, OnePassOf, OwnSerials
  <2>3. \A t \in Topic : queued[t] = {} /\ reached[t] = {} /\ t \notin recent
    BY DEF Init
  <2>4. \A t \in Topic : IsFiniteSet(Known(t)) /\ (queued[t] # {} => Webhook # {})
    BY <2>3, FS_EmptySet DEF Known
  <2>5. ASSUME NEW t \in Topic PROVE BoundOf(t)
    <3>1. Cardinality(reached[t]) = 0
      BY <2>3, FS_EmptySet
    <3>2. Cardinality(Paid(t)) \in Nat
      <4> Paid(t) \in SUBSET Scanner
        BY DEF Paid
      <4> QED BY CountScanners
    <3>3. Scanners * faults \in Nat
      BY OneMoreFault DEF Init
    <3>4. Cardinality(reached[t]) <= Cardinality(Paid(t)) + Scanners * faults
      BY <3>1, <3>2, <3>3
    <3> QED BY <2>3, <3>4 DEF BoundOf
  <2> QED BY <2>1, <2>2, <2>4, <2>5 DEF BoundInv
<1>2. BoundInv => AlertsBounded
  BY BoundIsEnough
<1> QED BY <1>1, <1>2, BoundStep, PTL DEF Spec
=============================================================================
