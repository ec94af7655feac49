--------------------------- MODULE SettlesProofs ---------------------------
(***************************************************************************)
(* Theorems about the jobs and calls that come to an end, for every set of *)
(* alerts, jobs and calls and every bound.                                 *)
(***************************************************************************)
EXTENDS PriceAlerts, DnsAdmission, PositionAlerts, HistoryPaging, FiniteSetTheorems, TLAPS

-----------------------------------------------------------------------------
(***************************************************************************)
(* PriceAlerts: the price-alert job and the routes beside it.              *)
(***************************************************************************)
LEMMA IdleJobType == IdleJob \in JobState
BY DEF IdleJob, JobState

LEMMA AfterType ==
    ASSUME PriceTypeOK, NEW j \in Job, NEW a \in Alert
    PROVE  /\ After(j, a) \in JobState
           /\ After(j, a).pc \in {"idle", "check"}
           /\ After(j, a).todo \subseteq job[j].todo \ {a}
           /\ \A b \in After(j, a).todo : After(j, a).seen[b] = job[j].seen[b]
           /\ After(j, a).pc = "idle" => After(j, a).todo = {}
<1> DEFINE left == job[j].todo \ {a}
           seen == [job[j].seen EXCEPT ![a] = NoAlertRow]
           r == [job[j] EXCEPT !.pc = "check", !.todo = left, !.alert = NoAlert, !.seen = seen]
<1>1. job[j] \in JobState
  BY DEF PriceTypeOK
<1>2. seen \in [Alert -> AlertRow \cup {NoAlertRow}] /\ \A b \in left : seen[b] = job[j].seen[b]
  BY <1>1 DEF JobState
<1>3. CASE left = {}
  BY <1>3, IdleJobType DEF After, IdleJob
<1>4. CASE left # {}
  <2>1. After(j, a) = r
    BY <1>4, <1>1 DEF After, JobState
  <2> HIDE DEF seen
  <2>2. r \in JobState /\ r.pc = "check" /\ r.todo = left /\ r.seen = seen
    BY <1>1, <1>2 DEF JobState
  <2> QED BY <2>1, <2>2, <1>2
<1> QED BY <1>3, <1>4

-----------------------------------------------------------------------------
Holding(j) == job[j].pc \in {"send", "commit"}

\* What each session holds: at most one has the write lock, and the row it is
\* about to write exists; an alert still to handle was read, by the job that
\* looks at its type, and a row of the same generation has the same type.
JobInv ==
    /\ \A j \in Job :
        /\ Holding(j) => job[j].alert \in job[j].todo /\ Exists(job[j].alert)
        /\ job[j].pc = "idle" => job[j].todo = {}
        /\ \A k \in Job : Holding(j) /\ Holding(k) => j = k
        /\ \A a \in job[j].todo :
            /\ job[j].seen[a] \in AlertRow /\ job[j].seen[a].gen <= used
            /\ j = "advanced" => job[j].seen[a].type = "rsi"
            /\ alertRow[a].gen = job[j].seen[a].gen => alertRow[a].type = job[j].seen[a].type
    /\ \A a \in Alert : alertRow[a].gen \in Nat /\ alertRow[a].gen <= used

IInv == PriceTypeOK /\ JobInv

LEMMA RowFacts ==
    ASSUME PriceTypeOK, NEW a \in Alert
    PROVE  /\ Exists(a) <=> alertRow[a] \in AlertRow
           /\ Exists(a) <=> alertRow[a].gen # 0
BY PriceAssumption DEF PriceTypeOK, Exists, AlertRow, NoAlertRow

LEMMA InsertPreserves ==
    ASSUME IInv, ~Locked, NEW a \in Alert, NEW type \in Type, InsertAlert(a, type)
    PROVE  IInv'
<1> DEFINE r == [type |-> type, status |-> "active", gen |-> used + 1]
<1>1. used \in 0..MaxRows /\ used + 1 \in 1..MaxRows /\ MaxRows \in Nat
  BY PriceAssumption DEF IInv, PriceTypeOK, InsertAlert
<1>2. r \in AlertRow /\ r.gen = used + 1
  BY <1>1 DEF AlertRow
<1>3. alertRow' = [alertRow EXCEPT ![a] = r] /\ used' = used + 1 /\ job' = job
  BY DEF InsertAlert
<1> HIDE DEF r
<1>4. PriceTypeOK'
  BY <1>1, <1>2, <1>3 DEF IInv, PriceTypeOK, InsertAlert
<1>5. \A b \in Alert : alertRow'[b] = IF b = a THEN r ELSE alertRow[b]
  BY <1>3 DEF IInv, PriceTypeOK
<1>6. \A b \in Alert : alertRow'[b].gen \in Nat /\ alertRow'[b].gen <= used'
  BY <1>1, <1>2, <1>3, <1>5 DEF IInv, JobInv
<1>7. \A j \in Job : ~Holding(j)
  BY DEF Locked, Holding
<1>8. \A j \in Job : \A b \in job[j].todo :
        /\ b \in Alert /\ job[j].seen[b].gen \in Nat
        /\ alertRow'[b].gen = job[j].seen[b].gen => alertRow'[b].type = job[j].seen[b].type
  <2> SUFFICES ASSUME NEW j \in Job, NEW b \in job[j].todo
               PROVE  /\ b \in Alert /\ job[j].seen[b].gen \in Nat
                      /\ alertRow'[b].gen = job[j].seen[b].gen => alertRow'[b].type = job[j].seen[b].type
    OBVIOUS
  <2>1. b \in Alert
    BY DEF IInv, PriceTypeOK, JobState
  <2>2. job[j].seen[b] \in AlertRow /\ job[j].seen[b].gen <= used
    BY DEF IInv, JobInv
  <2>3. job[j].seen[b].gen \in Nat
    BY <2>2, PriceAssumption DEF AlertRow
  <2>4. CASE b = a
    BY <2>1, <2>2, <2>3, <2>4, <1>1, <1>2, <1>5
  <2>5. CASE b # a
    BY <2>1, <2>3, <2>5, <1>5 DEF IInv, JobInv
  <2> QED BY <2>1, <2>3, <2>4, <2>5
<1>9. JobInv'
  BY <1>1, <1>3, <1>6, <1>7, <1>8 DEF IInv, JobInv, Holding
<1> QED BY <1>4, <1>9 DEF IInv

LEMMA RoutesPreserve == IInv /\ Routes => IInv'
<1> SUFFICES ASSUME IInv, Routes PROVE IInv'
  OBVIOUS
<1>1. ASSUME NEW a \in Alert, NEW type \in Type, Create(a, type) PROVE IInv'
  BY <1>1, InsertPreserves DEF Create
<1>2. ASSUME NEW a \in Alert, SyncSetup(a) PROVE IInv'
  <2>1. "price" \in Type
    BY <1>2, RowFacts DEF SyncSetup, AlertRow, IInv
  <2> QED BY <1>2, <2>1, InsertPreserves DEF SyncSetup
<1>3. ASSUME NEW a \in Alert, Cancel(a) \/ Delete(a) PROVE IInv'
  <2>1. Exists(a) /\ alertRow[a] \in AlertRow /\ \A j \in Job : ~Holding(j)
    BY <1>3, RowFacts DEF Cancel, Delete, Locked, Holding, IInv
  <2>2. PICK r : /\ r \in AlertRow \cup {NoAlertRow} /\ alertRow' = [alertRow EXCEPT ![a] = r]
                 /\ r = NoAlertRow \/ (r.gen = alertRow[a].gen /\ r.type = alertRow[a].type)
    <3>1. CASE Cancel(a)
      <4>1. [alertRow[a] EXCEPT !.status = "cancelled"] \in AlertRow
        BY <2>1 DEF AlertRow
      <4> QED BY <3>1, <2>1, <4>1 DEF Cancel, AlertRow
    <3>2. CASE Delete(a)
      BY <3>2 DEF Delete
    <3> QED BY <1>3, <3>1, <3>2
  <2>3. UNCHANGED <<used, hit, job, fired, priceFaults>>
    BY <1>3 DEF Cancel, Delete
  <2>4. PriceTypeOK'
    BY <2>2, <2>3 DEF IInv, PriceTypeOK
  <2>5. \A b \in Alert : \/ alertRow'[b] = NoAlertRow
                         \/ alertRow'[b].gen = alertRow[b].gen /\ alertRow'[b].type = alertRow[b].type
    BY <2>2 DEF IInv, PriceTypeOK
  <2>6. \A b \in Alert : alertRow'[b].gen \in Nat /\ alertRow'[b].gen <= used'
    BY <2>3, <2>5 DEF IInv, JobInv, NoAlertRow, PriceTypeOK
  <2>7. \A j \in Job : \A b \in job[j].todo :
          alertRow'[b].gen = job[j].seen[b].gen => alertRow'[b].type = job[j].seen[b].type
    <3> SUFFICES ASSUME NEW j \in Job, NEW b \in job[j].todo,
                        alertRow'[b].gen = job[j].seen[b].gen
                 PROVE  alertRow'[b].type = job[j].seen[b].type
      OBVIOUS
    <3>1. b \in Alert /\ job[j].seen[b] \in AlertRow
      BY DEF IInv, PriceTypeOK, JobState, JobInv
    <3>2. alertRow'[b] # NoAlertRow
      BY <3>1 DEF AlertRow, NoAlertRow
    <3> QED BY <3>1, <3>2, <2>5 DEF IInv, JobInv
  <2>8. JobInv'
    BY <2>1, <2>3, <2>6, <2>7 DEF IInv, JobInv, Holding
  <2> QED BY <2>4, <2>8 DEF IInv
<1> QED BY <1>1, <1>2, <1>3 DEF Routes

\* A job goes on with a part of what it has read, and no row is replaced.
LEMMA JobGoesOn ==
    ASSUME IInv, NEW j \in Job, NEW r \in JobState, job' = [job EXCEPT ![j] = r],
           used' = used,
           \A b \in Alert : /\ alertRow'[b].gen = alertRow[b].gen
                            /\ Exists(b) => Exists(b)' /\ alertRow'[b].type = alertRow[b].type,
           r.todo \subseteq job[j].todo,
           \A b \in r.todo : r.seen[b] = job[j].seen[b],
           r.pc = "idle" => r.todo = {},
           r.pc \in {"send", "commit"} =>
              /\ r.alert \in r.todo /\ Exists(r.alert)
              /\ \A k \in Job \ {j} : ~Holding(k)
    PROVE  JobInv'
<1>1. job'[j] = r /\ \A k \in Job \ {j} : job'[k] = job[k]
  BY DEF IInv, PriceTypeOK
<1>2. ASSUME NEW k \in Job
      PROVE  /\ Holding(k)' => job'[k].alert \in job'[k].todo /\ Exists(job[k].alert)'
             /\ job'[k].pc = "idle" => job'[k].todo = {}
  <2>2. CASE k = j
    <3>1. r.todo \subseteq Alert /\ job'[k] = r
      BY <1>1, <2>2 DEF JobState
    <3>2. Holding(k)' => r.alert \in Alert /\ alertRow'[r.alert] # NoAlertRow
      BY <3>1 DEF Holding, Exists
    <3> QED BY <3>1, <3>2 DEF Holding, Exists
  <2>3. CASE k # j
    <3>1. job'[k] = job[k] /\ job[k].todo \subseteq Alert
      BY <1>1, <2>3 DEF IInv, PriceTypeOK, JobState
    <3>2. Holding(k)' => Holding(k)
      BY <3>1 DEF Holding
    <3>3. Holding(k) => job[k].alert \in job[k].todo /\ alertRow'[job[k].alert] # NoAlertRow
      BY <3>1 DEF Exists, IInv, JobInv
    <3> QED BY <3>1, <3>2, <3>3 DEF Exists, IInv, JobInv
  <2> QED BY <2>2, <2>3
<1>3. ASSUME NEW k \in Job, NEW l \in Job, Holding(k)', Holding(l)' PROVE k = l
  BY <1>1, <1>3 DEF Holding, IInv, JobInv
<1>4. ASSUME NEW k \in Job, NEW b \in job'[k].todo
      PROVE  /\ job'[k].seen[b] \in AlertRow /\ job'[k].seen[b].gen <= used'
             /\ k = "advanced" => job'[k].seen[b].type = "rsi"
             /\ alertRow'[b].gen = job'[k].seen[b].gen => alertRow'[b].type = job'[k].seen[b].type
  <2>1. b \in job[k].todo /\ job'[k].seen[b] = job[k].seen[b]
    BY <1>1, <1>4
  <2>2. b \in Alert /\ job[k].seen[b] \in AlertRow
    BY <2>1 DEF IInv, PriceTypeOK, JobInv, JobState
  <2>3. job[k].seen[b].gen # 0
    BY <2>2, PriceAssumption DEF AlertRow
  <2>4. alertRow'[b].gen = job[k].seen[b].gen => Exists(b)
    BY <2>2, <2>3, RowFacts DEF IInv
  <2> QED BY <2>1, <2>2, <2>4 DEF IInv, JobInv
<1>5. \A b \in Alert : alertRow'[b].gen \in Nat /\ alertRow'[b].gen <= used'
  BY DEF IInv, JobInv
<1> QED BY <1>2, <1>3, <1>4, <1>5 DEF JobInv

\* Which steps of a job these are.
LEMMA PassesOn ==
    ASSUME IInv, NEW j \in Job, NEW a \in Alert, Pass(j, a) \/ FlushFails(j, a) \/ Commit(j) \/ Fail(j)
    PROVE  \E r \in JobState :
              /\ job' = [job EXCEPT ![j] = r]
              /\ r.pc \in {"idle", "check"} /\ r.todo \subseteq job[j].todo
              /\ job[j].pc = "commit" => job[j].alert \notin r.todo
              /\ \A b \in r.todo : r.seen[b] = job[j].seen[b]
              /\ r.pc = "idle" => r.todo = {}
<1>1. CASE Pass(j, a)
  BY <1>1, AfterType DEF Pass, IInv
<1>2. CASE FlushFails(j, a) \/ Fail(j)
  BY <1>2, IdleJobType DEF FlushFails, Fail, IdleJob
<1>3. CASE Commit(j)
  <2>1. job[j].alert \in Alert
    BY <1>3 DEF Commit, IInv, PriceTypeOK, JobInv, JobState, Holding
  <2> QED BY <1>3, <2>1, AfterType DEF Commit, IInv
<1> QED BY <1>1, <1>2, <1>3

LEMMA CommitRow ==
    ASSUME IInv, NEW j \in Job, Commit(j)
    PROVE  /\ job[j].alert \in Alert /\ Exists(job[j].alert)
           /\ alertRow' \in [Alert -> AlertRow \cup {NoAlertRow}]
           /\ alertRow'[job[j].alert].status = "triggered"
           /\ \A b \in Alert : /\ b # job[j].alert => alertRow'[b] = alertRow[b]
                               /\ alertRow'[b].gen = alertRow[b].gen
                               /\ Exists(b) => Exists(b)' /\ alertRow'[b].type = alertRow[b].type
<1> DEFINE a == job[j].alert
           r == [alertRow[a] EXCEPT !.status = "triggered"]
<1>1. a \in Alert /\ Exists(a)
  BY DEF Commit, IInv, PriceTypeOK, JobInv, JobState, Holding
<1>2. alertRow[a] \in AlertRow
  BY <1>1, RowFacts DEF IInv
<1>3. r \in AlertRow /\ r.gen = alertRow[a].gen /\ r.type = alertRow[a].type /\ r.status = "triggered"
  BY <1>2 DEF AlertRow
<1>4. alertRow' = [alertRow EXCEPT ![a] = r]
  BY <1>2 DEF Commit
<1>5. r # NoAlertRow
  BY <1>3, PriceAssumption DEF AlertRow, NoAlertRow
<1> HIDE DEF r
<1> QED BY <1>1, <1>3, <1>4, <1>5 DEF IInv, PriceTypeOK, Exists

LEMMA StartPreserves ==
    ASSUME IInv, NEW j \in Job, StartJob(j)
    PROVE  IInv'
<1> DEFINE seen == [a \in Alert |-> IF a \in Selected(j) THEN alertRow[a] ELSE NoAlertRow]
           r == [IdleJob EXCEPT !.pc = "check", !.todo = Selected(j), !.seen = seen]
<1>1. Selected(j) \subseteq Alert
      /\ \A a \in Selected(j) : Exists(a) /\ (j = "advanced" => alertRow[a].type = "rsi")
  BY DEF Selected, ActiveAlerts
<1>2. seen \in [Alert -> AlertRow \cup {NoAlertRow}] /\ \A a \in Selected(j) : seen[a] = alertRow[a]
  BY <1>1 DEF IInv, PriceTypeOK
<1>3. job' = [job EXCEPT ![j] = r]
  BY DEF StartJob
<1> HIDE DEF seen
<1>4. r \in JobState /\ r.pc = "check" /\ r.todo = Selected(j) /\ r.seen = seen
  BY <1>1, <1>2 DEF JobState, IdleJob
<1> HIDE DEF r
<1>5. job'[j] = r /\ \A k \in Job \ {j} : job'[k] = job[k]
  BY <1>3 DEF IInv, PriceTypeOK
<1>6. UNCHANGED <<alertRow, used, hit, fired, priceFaults>>
  BY DEF StartJob
<1>7. PriceTypeOK'
  BY <1>3, <1>4, <1>6 DEF IInv, PriceTypeOK
<1>8. \A a \in Selected(j) : alertRow[a] \in AlertRow /\ alertRow[a].gen <= used
  BY <1>1, RowFacts DEF IInv, JobInv
<1>9. JobInv'
  <2>1. ASSUME NEW k \in Job
        PROVE  /\ Holding(k)' => Holding(k) /\ job'[k] = job[k]
               /\ job'[k].pc = "idle" => job'[k].todo = {}
    BY <1>4, <1>5 DEF Holding, IInv, JobInv
  <2>2. ASSUME NEW k \in Job, NEW a \in job'[k].todo
        PROVE  /\ job'[k].seen[a] \in AlertRow /\ job'[k].seen[a].gen <= used
               /\ k = "advanced" => job'[k].seen[a].type = "rsi"
               /\ alertRow[a].gen = job'[k].seen[a].gen => alertRow[a].type = job'[k].seen[a].type
    <3>1. CASE k = j
      BY <1>1, <1>2, <1>4, <1>5, <1>8, <2>2, <3>1
    <3>2. CASE k # j
      BY <1>5, <2>2, <3>2 DEF IInv, JobInv
    <3> QED BY <3>1, <3>2
  <2> QED BY <1>6, <2>1, <2>2 DEF IInv, JobInv, Exists
<1> QED BY <1>7, <1>9 DEF IInv

LEMMA JobPreserves ==
    ASSUME IInv, NEW j \in Job, Check(j) \/ Fail(j)
    PROVE  IInv'
<1>0. \A b \in Alert : alertRow'[b] = alertRow[b] => alertRow'[b].gen = alertRow[b].gen
                          /\ (Exists(b) => Exists(b)' /\ alertRow'[b].type = alertRow[b].type)
  BY DEF Exists
<1>1. CASE StartJob(j)
  BY <1>1, StartPreserves
<1>2. ASSUME NEW a \in Alert, Pass(j, a) \/ FlushFails(j, a) \/ Fail(j) PROVE IInv'
  <2>1. PICK r \in JobState :
              /\ job' = [job EXCEPT ![j] = r]
              /\ r.pc \in {"idle", "check"} /\ r.todo \subseteq job[j].todo
              /\ \A b \in r.todo : r.seen[b] = job[j].seen[b]
              /\ r.pc = "idle" => r.todo = {}
    BY <1>2, PassesOn
  <2>2. UNCHANGED <<alertRow, used, hit, fired>> /\ priceFaults' \in 0..MaxPriceFaults
    BY <1>2, PriceAssumption DEF Pass, FlushFails, Fail, IInv, PriceTypeOK
  <2>3. PriceTypeOK'
    BY <2>1, <2>2 DEF IInv, PriceTypeOK
  <2>4. JobInv'
    BY <1>0, <2>1, <2>2, JobGoesOn
  <2> QED BY <2>3, <2>4 DEF IInv
<1>3. ASSUME NEW a \in Alert, Flush(j, a) PROVE IInv'
  <2> DEFINE r == [job[j] EXCEPT !.pc = "send", !.alert = a]
  <2>1. a \in job[j].todo /\ Exists(a) /\ \A k \in Job : ~Holding(k)
    BY <1>3 DEF Flush, Fires, Locked, Holding
  <2>2. r \in JobState /\ r.pc = "send" /\ r.alert = a /\ r.todo = job[j].todo
        /\ r.seen = job[j].seen
    BY DEF IInv, PriceTypeOK, JobState
  <2>3. job' = [job EXCEPT ![j] = r] /\ UNCHANGED <<alertRow, used, hit, fired, priceFaults>>
    BY <1>3 DEF Flush, IInv, PriceTypeOK
  <2> HIDE DEF r
  <2>4. PriceTypeOK'
    BY <2>2, <2>3 DEF IInv, PriceTypeOK
  <2>5. JobInv'
    BY <1>0, <2>1, <2>2, <2>3, JobGoesOn
  <2> QED BY <2>4, <2>5 DEF IInv
<1>4. ASSUME NEW arrives \in BOOLEAN, Notify(j, arrives) PROVE IInv'
  <2> DEFINE r == [job[j] EXCEPT !.pc = "commit"]
  <2>1. job[j].alert \in job[j].todo /\ Exists(job[j].alert) /\ Holding(j)
        /\ \A k \in Job \ {j} : ~Holding(k)
    BY <1>4 DEF Notify, Holding, IInv, JobInv
  <2>2. r \in JobState /\ r.pc = "commit" /\ r.alert = job[j].alert /\ r.todo = job[j].todo
        /\ r.seen = job[j].seen
    BY DEF IInv, PriceTypeOK, JobState
  <2>3. job' = [job EXCEPT ![j] = r] /\ UNCHANGED <<alertRow, used, hit, priceFaults>>
    BY <1>4 DEF Notify, IInv, PriceTypeOK
  <2>4. fired' \in [Alert -> Nat]
    <3> DEFINE a == job[j].alert
               n == IF arrives /\ alertRow[a].gen = job[j].seen[a].gen THEN fired[a] + 1 ELSE fired[a]
    <3>1. a \in Alert /\ fired[a] \in Nat
      BY <2>1 DEF IInv, PriceTypeOK, JobState
    <3>2. n \in Nat
      BY <3>1
    <3>3. fired' = [fired EXCEPT ![a] = n]
      BY <1>4 DEF Notify
    <3> HIDE DEF n
    <3> QED BY <3>2, <3>3 DEF IInv, PriceTypeOK
  <2> HIDE DEF r
  <2>5. PriceTypeOK'
    BY <2>2, <2>3, <2>4 DEF IInv, PriceTypeOK
  <2>6. JobInv'
    BY <1>0, <2>1, <2>2, <2>3, JobGoesOn
  <2> QED BY <2>5, <2>6 DEF IInv
<1>5. CASE Commit(j)
  <2>1. job[j].alert \in Alert
    BY <1>5, CommitRow
  <2>2. PICK r \in JobState :
              /\ job' = [job EXCEPT ![j] = r]
              /\ r.pc \in {"idle", "check"} /\ r.todo \subseteq job[j].todo
              /\ \A b \in r.todo : r.seen[b] = job[j].seen[b]
              /\ r.pc = "idle" => r.todo = {}
    BY <1>5, <2>1, PassesOn
  <2>3. UNCHANGED <<used, hit, fired, priceFaults>>
    BY <1>5 DEF Commit
  <2>4. PriceTypeOK'
    BY <1>5, <2>2, <2>3, CommitRow DEF IInv, PriceTypeOK
  <2>5. JobInv'
    BY <1>5, <2>2, <2>3, CommitRow, JobGoesOn
  <2> QED BY <2>4, <2>5 DEF IInv
<1>6. CASE Fail(j)
  <2>1. CASE Alert = {}
    BY <1>6, <2>1, IdleJobType, PriceAssumption
    DEF Fail, IInv, PriceTypeOK, JobInv, Holding, JobState, IdleJob
  <2> QED BY <1>6, <1>2, <2>1
<1> QED BY <1>1, <1>2, <1>3, <1>4, <1>5, <1>6 DEF Check

LEMMA IInvStep == IInv /\ [PriceNext]_priceVars => IInv'
<1> SUFFICES ASSUME IInv, [PriceNext]_priceVars PROVE IInv'
  OBVIOUS
<1>1. CASE UNCHANGED priceVars
  BY <1>1 DEF priceVars, IInv, PriceTypeOK, JobInv, Holding, Exists
<1>2. ASSUME NEW a \in Alert, PriceMoves(a) PROVE IInv'
  BY <1>2 DEF PriceMoves, IInv, PriceTypeOK, JobInv, Holding, Exists
<1> QED BY <1>1, <1>2, RoutesPreserve, JobPreserves DEF PriceNext

LEMMA IInvInit == PriceInit => IInv
<1> SUFFICES ASSUME PriceInit PROVE IInv
  OBVIOUS
<1>1. PriceTypeOK
  BY IdleJobType, PriceAssumption DEF PriceInit, PriceTypeOK
<1>2. JobInv
  BY DEF PriceInit, JobInv, IdleJob, Holding, NoAlertRow
<1> QED BY <1>1, <1>2 DEF IInv

\* Every variable stays in its set (the price_alerts table and the sessions of
\* the two jobs, price_alert_service.py and scheduler.py).
THEOREM TypeCorrect == PriceSpec => []PriceTypeOK
<1>1. IInv => PriceTypeOK
  BY DEF IInv
<1> QED BY <1>1, IInvInit, IInvStep, PTL DEF PriceSpec

-----------------------------------------------------------------------------
(***************************************************************************)
(* At most one message per job and fault.  A job that has read the present *)
(* row of an alert may still send (Open) or has sent and not committed     *)
(* (Sent).  While the row is active, whatever was received was sent by     *)
(* such a job or by one that failed; a row that is no longer active cannot *)
(* be selected, and the messages to come are those of open jobs.           *)
(***************************************************************************)
Same(j, a) == a \in job[j].todo /\ job[j].seen[a].gen = alertRow[a].gen
Delivered(j, a) == job[j].pc = "commit" /\ job[j].alert = a

One(condition) == IF condition THEN 1 ELSE 0
Opens(a) == One(Same("price", a) /\ ~Delivered("price", a))
              + One(Same("advanced", a) /\ ~Delivered("advanced", a))
Sents(a) == One(Same("price", a) /\ Delivered("price", a))
              + One(Same("advanced", a) /\ Delivered("advanced", a))

ToCome(a) == fired[a] + Opens(a) <= JobsFor(alertRow[a].type) + priceFaults
Received(a) == alertRow[a].status = "active" => fired[a] <= priceFaults + Sents(a)

FireInv == \A a \in Alert : Exists(a) => ToCome(a) /\ Received(a)

\* After a step, no more jobs can hold a row than select its type: the second
\* part gives the first while the row is active.
LEMMA ReceivedIsEnough ==
    ASSUME IInv', NEW a \in Alert, Exists(a)', Received(a)', alertRow'[a].status = "active"
    PROVE  ToCome(a)'
<1>1. fired'[a] \in Nat /\ priceFaults' \in Nat
  BY PriceAssumption DEF IInv, PriceTypeOK
<1>2. alertRow'[a].type \in {"price", "rsi"}
  BY PriceAssumption DEF IInv, PriceTypeOK, AlertRow, Exists
<1>3. alertRow'[a].type = "price" => ~Same("advanced", a)'
  <2> SUFFICES ASSUME alertRow'[a].type = "price", Same("advanced", a)' PROVE FALSE
    OBVIOUS
  <2>1. a \in job'["advanced"].todo /\ alertRow'[a].gen = job'["advanced"].seen[a].gen
    BY DEF Same
  <2>2. job'["advanced"].seen[a].type = "rsi" /\ alertRow'[a].type = job'["advanced"].seen[a].type
    BY <2>1 DEF IInv, JobInv, Job
  <2> QED BY <2>2
<1>4. Opens(a)' + Sents(a)' <= JobsFor(alertRow'[a].type)
  <2>1. CASE alertRow'[a].type = "price"
    BY <1>3, <2>1 DEF Opens, Sents, One, JobsFor
  <2>2. CASE alertRow'[a].type = "rsi"
    BY <2>2 DEF Opens, Sents, One, JobsFor
  <2> QED BY <1>2, <2>1, <2>2
<1>5. Opens(a)' \in Nat /\ Sents(a)' \in Nat /\ JobsFor(alertRow'[a].type) \in Nat
  BY DEF Opens, Sents, One, JobsFor
<1> QED BY <1>1, <1>4, <1>5 DEF ToCome, Received

\* What a step keeps of the two sums.
LEMMA OpensShrink ==
    ASSUME NEW a \in Alert,
           \A j \in Job : Same(j, a)' /\ ~Delivered(j, a)' => Same(j, a) /\ ~Delivered(j, a)
    PROVE  Opens(a)' <= Opens(a)
BY DEF Opens, One, Job

LEMMA SentsKept ==
    ASSUME NEW a \in Alert,
           \A j \in Job : Same(j, a) /\ Delivered(j, a) => Same(j, a)' /\ Delivered(j, a)'
    PROVE  Sents(a) <= Sents(a)'
BY DEF Sents, One, Job

LEMMA SumsAreNumbers ==
    ASSUME NEW a \in Alert
    PROVE  /\ Opens(a) \in 0..2 /\ Sents(a) \in 0..2
           /\ Opens(a)' \in 0..2 /\ Sents(a)' \in 0..2
BY DEF Opens, Sents, One

LEMMA RoutesFire == IInv /\ FireInv /\ Routes => FireInv'
<1> SUFFICES ASSUME IInv, FireInv, Routes, NEW b \in Alert, Exists(b)'
             PROVE  ToCome(b)' /\ Received(b)'
  BY DEF FireInv
<1>n. fired[b] \in Nat /\ priceFaults \in Nat /\ used \in Nat
  BY PriceAssumption DEF IInv, PriceTypeOK
<1>j. job' = job /\ priceFaults' = priceFaults
  BY DEF Routes, Create, SyncSetup, InsertAlert, Cancel, Delete
<1>1. ASSUME alertRow'[b] = alertRow[b], fired'[b] = fired[b] PROVE ToCome(b)' /\ Received(b)'
  <2>1. Exists(b)
    BY <1>1 DEF Exists
  <2> QED BY <1>1, <1>j, <2>1
          DEF FireInv, ToCome, Received, Opens, Sents, Same, Delivered
<1>2. ASSUME NEW type \in Type, InsertAlert(b, type) PROVE ToCome(b)' /\ Received(b)'
  <2>1. alertRow'[b].gen = used + 1 /\ fired'[b] = 0 /\ alertRow'[b].type = type
    BY <1>2 DEF InsertAlert, IInv, PriceTypeOK
  <2>2. \A j \in Job : ~Same(j, b)'
    <3> SUFFICES ASSUME NEW j \in Job, b \in job[j].todo PROVE job[j].seen[b].gen # used + 1
      BY <1>j, <2>1 DEF Same
    <3>1. job[j].seen[b].gen <= used /\ job[j].seen[b] \in AlertRow
      BY DEF IInv, JobInv
    <3>2. job[j].seen[b].gen \in Nat
      BY <3>1, PriceAssumption DEF AlertRow
    <3> QED BY <1>n, <3>1, <3>2
  <2>3. Opens(b)' = 0 /\ Sents(b)' = 0
    BY <2>2 DEF Opens, Sents, One, Job
  <2>4. JobsFor(type) \in {1, 2}
    BY DEF JobsFor
  <2> QED BY <1>n, <1>j, <2>1, <2>3, <2>4 DEF ToCome, Received
<1>3. ASSUME NEW a \in Alert, NEW type \in Type, InsertAlert(a, type) PROVE ToCome(b)' /\ Received(b)'
  <2>1. CASE a = b
    BY <1>2, <1>3, <2>1
  <2>2. CASE a # b
    <3>1. alertRow'[b] = alertRow[b] /\ fired'[b] = fired[b]
      BY <1>3, <2>2 DEF InsertAlert, IInv, PriceTypeOK
    <3> QED BY <1>1, <3>1
  <2> QED BY <2>1, <2>2
<1>4. ASSUME NEW a \in Alert, Cancel(a) PROVE ToCome(b)' /\ Received(b)'
  <2>1. CASE a # b
    <3>1. alertRow'[b] = alertRow[b] /\ fired'[b] = fired[b]
      BY <1>4, <2>1 DEF Cancel, IInv, PriceTypeOK
    <3> QED BY <1>1, <3>1
  <2>2. CASE a = b
    <3>1. Exists(b) /\ alertRow[b] \in AlertRow
      BY <1>4, <2>2, RowFacts DEF Cancel, IInv
    <3>2. alertRow'[b].gen = alertRow[b].gen /\ alertRow'[b].type = alertRow[b].type /\ alertRow'[b].status = "cancelled"
          /\ fired' = fired
      BY <1>4, <2>2, <3>1 DEF Cancel, IInv, PriceTypeOK, AlertRow
    <3> QED BY <1>j, <3>1, <3>2
            DEF FireInv, ToCome, Received, Opens, Sents, Same, Delivered
  <2> QED BY <2>1, <2>2
<1>5. ASSUME NEW a \in Alert, Delete(a) PROVE ToCome(b)' /\ Received(b)'
  <2>1. a # b
    BY <1>5 DEF Delete, IInv, PriceTypeOK, Exists
  <2>2. alertRow'[b] = alertRow[b] /\ fired'[b] = fired[b]
    BY <1>5, <2>1 DEF Delete, IInv, PriceTypeOK
  <2> QED BY <1>1, <2>2
<1>6. ASSUME NEW a \in Alert, SyncSetup(a) PROVE ToCome(b)' /\ Received(b)'
  <2>1. alertRow[a] \in AlertRow /\ alertRow[a].type = "price" /\ InsertAlert(a, "price")
    BY <1>6, RowFacts DEF SyncSetup, IInv
  <2>2. "price" \in Type
    BY <2>1 DEF AlertRow
  <2> QED BY <1>3, <2>1, <2>2
<1> QED BY <1>3, <1>4, <1>5, <1>6 DEF Routes, Create

LEMMA JobFires ==
    ASSUME IInv, FireInv, NEW j \in Job, Check(j) \/ Fail(j)
    PROVE  FireInv'
<1> SUFFICES ASSUME NEW b \in Alert, Exists(b)' PROVE ToCome(b)' /\ Received(b)'
  BY DEF FireInv
<1>n. /\ fired[b] \in Nat /\ priceFaults \in Nat /\ JobsFor(alertRow[b].type) \in Nat
      /\ Opens(b) \in 0..2 /\ Sents(b) \in 0..2 /\ Opens(b)' \in 0..2 /\ Sents(b)' \in 0..2
  BY PriceAssumption, SumsAreNumbers DEF IInv, PriceTypeOK, JobsFor
<1>p. IInv'
  BY JobPreserves
<1>k. \A r : job' = [job EXCEPT ![j] = r] =>
          job'[j] = r /\ \A k \in Job \ {j} : job'[k] = job[k]
  BY DEF IInv, PriceTypeOK
<1>1. CASE StartJob(j)
  <2>1. UNCHANGED <<alertRow, used, hit, fired, priceFaults>> /\ Exists(b) /\ job[j].pc = "idle"
        /\ \A k \in Job \ {j} : job'[k] = job[k]
    BY <1>1, <1>k DEF StartJob, Exists
  <2>2. \A k \in Job : Same(k, b) /\ Delivered(k, b) => Same(k, b)' /\ Delivered(k, b)'
    BY <2>1 DEF Same, Delivered
  <2>3. Received(b)'
    BY <1>n, <2>1, <2>2, SentsKept DEF FireInv, Received
  <2>4. CASE alertRow[b].status = "active"
    <3>1. alertRow'[b].status = "active"
      BY <2>1, <2>4
    <3> QED BY <1>p, <2>3, <3>1, ReceivedIsEnough
  <2>5. CASE alertRow[b].status # "active"
    <3>1. ~Same(j, b)'
      BY <1>1, <2>5 DEF StartJob, Same, Selected, ActiveAlerts, IInv, PriceTypeOK, JobState, IdleJob
    <3>2. \A k \in Job : Same(k, b)' /\ ~Delivered(k, b)' => Same(k, b) /\ ~Delivered(k, b)
      BY <2>1, <3>1 DEF Same, Delivered
    <3> QED BY <1>n, <2>1, <2>3, <3>2, OpensShrink DEF FireInv, ToCome
  <2> QED BY <2>4, <2>5
<1>2. ASSUME NEW a \in Alert, Pass(j, a) \/ FlushFails(j, a) \/ Fail(j)
      PROVE  ToCome(b)' /\ Received(b)'
  <2>1. PICK r \in JobState :
              /\ job' = [job EXCEPT ![j] = r]
              /\ r.pc \in {"idle", "check"} /\ r.todo \subseteq job[j].todo
              /\ job[j].pc = "commit" => job[j].alert \notin r.todo
              /\ \A c \in r.todo : r.seen[c] = job[j].seen[c]
    BY <1>2, PassesOn
  <2>2. job'[j] = r /\ \A k \in Job \ {j} : job'[k] = job[k]
    BY <1>k, <2>1
  <2>3. alertRow' = alertRow /\ fired' = fired /\ Exists(b)
    BY <1>2 DEF Pass, FlushFails, Fail, Exists
  <2>4. \A k \in Job : Same(k, b)' /\ ~Delivered(k, b)' => Same(k, b) /\ ~Delivered(k, b)
    BY <2>1, <2>2, <2>3 DEF Same, Delivered
  <2>5. priceFaults' \in {priceFaults, priceFaults + 1}
    BY <1>2 DEF Pass, FlushFails, Fail
  <2>6. ToCome(b)'
    BY <1>n, <2>3, <2>4, <2>5, OpensShrink DEF FireInv, ToCome
  <2>7. Received(b)'
    <3>1. CASE priceFaults' = priceFaults
      <4>1. \A k \in Job : Same(k, b) /\ Delivered(k, b) => Same(k, b)' /\ Delivered(k, b)'
        BY <1>2, <1>n, <2>2, <2>3, <3>1 DEF Pass, FlushFails, Fires, Fail, Same, Delivered
      <4> QED BY <1>n, <2>3, <3>1, <4>1, SentsKept DEF FireInv, Received
    <3>2. CASE priceFaults' = priceFaults + 1
      <4>1. \A k \in Job \ {j} : Same(k, b) /\ Delivered(k, b) => Same(k, b)' /\ Delivered(k, b)'
        BY <2>2, <2>3 DEF Same, Delivered
      <4>2. Sents(b) <= Sents(b)' + 1
        BY <4>1 DEF Sents, One, Job
      <4> QED BY <1>n, <2>3, <3>2, <4>2 DEF FireInv, Received
    <3> QED BY <2>5, <3>1, <3>2
  <2> QED BY <2>6, <2>7
<1>3. ASSUME NEW a \in Alert, Flush(j, a) PROVE ToCome(b)' /\ Received(b)'
  <2>1. UNCHANGED <<alertRow, used, hit, fired, priceFaults>> /\ Exists(b) /\ job[j].pc = "check"
    BY <1>3 DEF Flush, Fires, Exists
  <2>2. job'[j].pc = "send" /\ job'[j].todo = job[j].todo /\ job'[j].seen = job[j].seen
        /\ \A k \in Job \ {j} : job'[k] = job[k]
    BY <1>3 DEF Flush, IInv, PriceTypeOK, JobState
  <2>3. \A k \in Job : Same(k, b)' = Same(k, b) /\ Delivered(k, b)' = Delivered(k, b)
    BY <2>1, <2>2 DEF Same, Delivered
  <2> QED BY <2>1, <2>3 DEF FireInv, ToCome, Received, Opens, Sents, Job
<1>4. ASSUME NEW arrives \in BOOLEAN, Notify(j, arrives) PROVE ToCome(b)' /\ Received(b)'
  <2>1. UNCHANGED <<alertRow, used, hit, priceFaults>> /\ Exists(b) /\ job[j].pc = "send"
    BY <1>4 DEF Notify, Exists
  <2>2. /\ job'[j].pc = "commit" /\ job'[j].alert = job[j].alert
        /\ job'[j].todo = job[j].todo /\ job'[j].seen = job[j].seen
        /\ \A k \in Job \ {j} : job'[k] = job[k]
    BY <1>4 DEF Notify, IInv, PriceTypeOK, JobState
  <2>3. job[j].alert \in job[j].todo /\ job[j].alert \in Alert
    BY <2>1 DEF IInv, JobInv, Holding, PriceTypeOK, JobState
  <2>4. \A k \in Job : Same(k, b)' = Same(k, b)
    BY <2>1, <2>2 DEF Same
  <2>5. \A k \in Job \ {j} : Delivered(k, b)' = Delivered(k, b)
    BY <2>2 DEF Delivered
  <2>6. CASE b = job[j].alert /\ Same(j, b)
    <3>1. fired'[b] \in {fired[b], fired[b] + 1}
      BY <1>4, <2>3, <2>6 DEF Notify, IInv, PriceTypeOK
    <3>2. ~Delivered(j, b) /\ Delivered(j, b)'
      BY <2>1, <2>2, <2>6 DEF Delivered
    <3>3. Opens(b)' = Opens(b) - 1 /\ Sents(b)' = Sents(b) + 1
      BY <2>4, <2>5, <2>6, <3>2 DEF Opens, Sents, One, Job
    <3> QED BY <1>n, <2>1, <3>1, <3>3 DEF FireInv, ToCome, Received
  <2>7. CASE ~(b = job[j].alert /\ Same(j, b))
    <3>1. fired'[b] = fired[b]
      BY <1>4, <2>3, <2>7 DEF Notify, IInv, PriceTypeOK, Same
    <3>2. Same(j, b) => Delivered(j, b)' = Delivered(j, b)
      BY <2>1, <2>2, <2>7 DEF Delivered
    <3>3. Opens(b)' = Opens(b) /\ Sents(b)' = Sents(b)
      BY <2>4, <2>5, <3>2 DEF Opens, Sents, One, Job
    <3> QED BY <2>1, <3>1, <3>3 DEF FireInv, ToCome, Received
  <2> QED BY <2>6, <2>7
<1>5. CASE Commit(j)
  <2>0. job[j].alert \in Alert /\ job[j].pc = "commit"
    BY <1>5, CommitRow DEF Commit
  <2>1. PICK r \in JobState :
              /\ job' = [job EXCEPT ![j] = r]
              /\ r.pc \in {"idle", "check"} /\ r.todo \subseteq job[j].todo
              /\ job[j].pc = "commit" => job[j].alert \notin r.todo
              /\ \A c \in r.todo : r.seen[c] = job[j].seen[c]
    BY <1>5, <2>0, PassesOn
  <2>2. job'[j] = r /\ \A k \in Job \ {j} : job'[k] = job[k]
    BY <1>k, <2>1
  <2>3. fired' = fired /\ priceFaults' = priceFaults
    BY <1>5 DEF Commit
  <2>4. alertRow'[b].gen = alertRow[b].gen /\ Exists(b) /\ alertRow'[b].type = alertRow[b].type
        /\ (b # job[j].alert => alertRow'[b] = alertRow[b])
        /\ (b = job[j].alert => alertRow'[b].status = "triggered")
    BY <1>5, CommitRow DEF Exists
  <2>5. \A k \in Job : Same(k, b)' /\ ~Delivered(k, b)' => Same(k, b) /\ ~Delivered(k, b)
    BY <2>0, <2>1, <2>2, <2>4 DEF Same, Delivered
  <2>6. ToCome(b)'
    BY <1>n, <2>3, <2>4, <2>5, OpensShrink DEF FireInv, ToCome
  <2>7. Received(b)'
    <3>1. CASE b = job[j].alert
      BY <2>4, <3>1 DEF Received
    <3>2. CASE b # job[j].alert
      <4>1. \A k \in Job : Same(k, b) /\ Delivered(k, b) => Same(k, b)' /\ Delivered(k, b)'
        BY <2>2, <2>4, <3>2 DEF Same, Delivered
      <4> QED BY <1>n, <2>3, <2>4, <3>2, <4>1, SentsKept DEF FireInv, Received
    <3> QED BY <3>1, <3>2
  <2> QED BY <2>6, <2>7
<1> QED BY <1>1, <1>2, <1>3, <1>4, <1>5 DEF Check

\* Whatever the routes, the market, crashes and ids that are used again do, an
\* alert is received at most once per job that selects its type and once more
\* per fault (_trigger_alert of price_alert_service.py).
THEOREM FiresOnce == PriceSpec => []FiredOncePerJob
<1>1. PriceInit => FireInv
  BY DEF PriceInit, FireInv, Exists
<1>2. IInv /\ FireInv /\ [PriceNext]_priceVars => FireInv'
  <2> SUFFICES ASSUME IInv, FireInv, [PriceNext]_priceVars PROVE FireInv'
    OBVIOUS
  <2>1. ASSUME UNCHANGED priceVars \/ \E a \in Alert : PriceMoves(a) PROVE FireInv'
    <3>1. UNCHANGED <<alertRow, job, fired, priceFaults>>
      BY <2>1 DEF priceVars, PriceMoves
    <3> QED BY <3>1
            DEF FireInv, ToCome, Received, Opens, Sents, Same, Delivered, Exists
  <2> QED BY <2>1, RoutesFire, JobFires DEF PriceNext
<1>3. IInv /\ FireInv => FiredOncePerJob
  <2> SUFFICES ASSUME IInv, FireInv, NEW a \in Alert, Exists(a)
               PROVE  fired[a] <= JobsFor(alertRow[a].type) + priceFaults
    BY DEF FiredOncePerJob
  <2>1. fired[a] \in Nat /\ Opens(a) \in Nat /\ priceFaults \in Nat /\ JobsFor(alertRow[a].type) \in Nat
    BY SumsAreNumbers, PriceAssumption DEF IInv, PriceTypeOK, JobsFor
  <2> QED BY <2>1 DEF FireInv, ToCome
<1> QED BY <1>1, <1>2, <1>3, IInvInit, IInvStep, PTL DEF PriceSpec

-----------------------------------------------------------------------------
(***************************************************************************)
(* DnsAdmission: the slots of the resolver.                                *)
(***************************************************************************)
\* The calls that have a slot.
Held == {c \in Call : call[c] \in {"granted", "lookup"}}

\* DnsInv, with the slots that are held counted once.
SlotInv ==
    /\ free \in Nat /\ orphans \in Nat
    /\ call \in [Call -> DnsPlace]
    /\ free + orphans + Cardinality(Held) = MAX_IN_FLIGHT

LEMMA HeldIsFinite == IsFiniteSet(Held) /\ Cardinality(Held) \in Nat
<1>1. Held \subseteq Call
  BY DEF Held
<1> QED BY <1>1, DnsAssumption, FS_Subset, FS_CardinalityType

LEMMA HeldIsGrantedOrLookup ==
    Cardinality(Held) = Cardinality(At("granted")) + Cardinality(At("lookup"))
<1>1. At("granted") \subseteq Call /\ At("lookup") \subseteq Call
  BY DEF At
<1>2. IsFiniteSet(At("granted")) /\ IsFiniteSet(At("lookup"))
  BY <1>1, DnsAssumption, FS_Subset
<1>3. Held = At("granted") \cup At("lookup") /\ At("granted") \cap At("lookup") = {}
  BY DEF Held, At
<1>4. Cardinality(At("granted")) \in Nat /\ Cardinality(At("lookup")) \in Nat
  BY <1>2, FS_CardinalityType
<1>5. Cardinality(At("granted") \cup At("lookup"))
        = Cardinality(At("granted")) + Cardinality(At("lookup"))
              - Cardinality(At("granted") \cap At("lookup"))
  BY <1>2, FS_Union
<1>6. Cardinality(At("granted") \cap At("lookup")) = 0
  BY <1>3, FS_EmptySet
<1> QED BY <1>3, <1>4, <1>5, <1>6

LEMMA SlotInvIsDnsInv == SlotInv => DnsInv
<1> SUFFICES ASSUME SlotInv PROVE DnsInv
  OBVIOUS
<1>1. Cardinality(Held) \in Nat /\ MAX_IN_FLIGHT \in Nat
  BY HeldIsFinite, DnsAssumption
<1>2. free \in 0..MAX_IN_FLIGHT /\ orphans \in 0..MAX_IN_FLIGHT
  BY <1>1 DEF SlotInv
<1>3. IsFiniteSet(At("granted")) /\ IsFiniteSet(At("lookup"))
  <2>1. At("granted") \subseteq Call /\ At("lookup") \subseteq Call
    BY DEF At
  <2> QED BY <2>1, DnsAssumption, FS_Subset
<1>4. Cardinality(At("granted")) \in Nat /\ Cardinality(At("lookup")) \in Nat
  BY <1>3, FS_CardinalityType
<1>5. SlotsBalance
  BY <1>4, HeldIsGrantedOrLookup DEF SlotInv, SlotsBalance
<1> QED BY <1>2, <1>5 DEF SlotInv, DnsInv, DnsTypeOK

LEMMA DnsInitOK == DnsInit => SlotInv
<1> SUFFICES ASSUME DnsInit PROVE SlotInv
  OBVIOUS
<1>1. Held = {}
  BY DEF DnsInit, Held
<1> QED BY <1>1, FS_EmptySet, DnsAssumption DEF DnsInit, SlotInv, DnsPlace

\* How the number of held slots changes with the calls that get or lose one.
LEMMA HeldChanges ==
    ASSUME SlotInv,
           call' \in [Call -> DnsPlace]
    PROVE  /\ \A c \in Call : c \notin Held /\ Held' = Held \cup {c}
                => Cardinality(Held)' = Cardinality(Held) + 1
           /\ \A c \in Call : c \in Held /\ Held' = Held \ {c}
                => Cardinality(Held)' = Cardinality(Held) - 1
           /\ \A c, d \in Call : c \in Held /\ d \notin Held /\ Held' = (Held \ {c}) \cup {d}
                => Cardinality(Held)' = Cardinality(Held)
<1>1. ASSUME NEW c \in Call, c \notin Held PROVE Cardinality(Held \cup {c}) = Cardinality(Held) + 1
  BY <1>1, HeldIsFinite, FS_AddElement
<1>2. ASSUME NEW c \in Call, c \in Held PROVE Cardinality(Held \ {c}) = Cardinality(Held) - 1
  BY <1>2, HeldIsFinite, FS_RemoveElement
<1>3. ASSUME NEW c \in Call, NEW d \in Call, c \in Held, d \notin Held
      PROVE  Cardinality((Held \ {c}) \cup {d}) = Cardinality(Held)
  <2>1. IsFiniteSet(Held \ {c}) /\ d \notin Held \ {c}
    BY <1>3, HeldIsFinite, FS_RemoveElement
  <2>2. Cardinality((Held \ {c}) \cup {d}) = Cardinality(Held \ {c}) + 1
    BY <2>1, FS_AddElement
  <2> QED BY <2>2, <1>3, <1>2, HeldIsFinite
<1> QED BY <1>1, <1>2, <1>3

\* A slot that is given back is free, or goes to one call that waits for it.
LEMMA ReleasedPreserves ==
    ASSUME SlotInv, NEW c \in Call, c \in Held, Released("idle", c), UNCHANGED orphans
    PROVE  SlotInv'
<1> USE DEF SlotInv
<1>1. CASE At("waiting") \ {c} = {} /\ free' = free + 1 /\ Goes(c, "idle")
  <2>1. call' \in [Call -> DnsPlace] /\ Held' = Held \ {c}
    BY <1>1 DEF Goes, DnsPlace, Held
  <2>2. Cardinality(Held)' = Cardinality(Held) - 1
    BY <2>1, HeldChanges
  <2> QED BY <1>1, <2>1, <2>2, HeldIsFinite, DnsAssumption
<1>2. ASSUME NEW d \in At("waiting") \ {c},
             call' = [call EXCEPT ![c] = "idle", ![d] = "granted"], free' = free
      PROVE  SlotInv'
  <2>1. d \in Call /\ d \notin Held /\ d # c
    BY <1>2 DEF At, Held
  <2>2. call' \in [Call -> DnsPlace] /\ Held' = (Held \ {c}) \cup {d}
    BY <1>2, <2>1 DEF DnsPlace, Held
  <2>3. Cardinality(Held)' = Cardinality(Held)
    BY <2>1, <2>2, HeldChanges
  <2> QED BY <1>2, <2>2, <2>3
<1> QED BY <1>1, <1>2 DEF Released

LEMMA CallPreserves ==
    ASSUME SlotInv, NEW c \in Call,
           Acquire(c) \/ Submit(c) \/ SubmitFails(c) \/ LookupEnds(c) \/ TimesOut(c)
    PROVE  SlotInv'
<1> USE DEF SlotInv
<1>1. CASE Acquire(c)
  <2>1. CASE free > 0
    <3>1. free' = free - 1 /\ Goes(c, "granted") /\ UNCHANGED orphans
      BY <1>1, <2>1 DEF Acquire
    <3>2. call' \in [Call -> DnsPlace] /\ c \notin Held /\ Held' = Held \cup {c}
      BY <1>1, <3>1 DEF Acquire, Goes, DnsPlace, Held
    <3>3. Cardinality(Held)' = Cardinality(Held) + 1
      BY <3>2, HeldChanges
    <3> QED BY <2>1, <3>1, <3>2, <3>3, HeldIsFinite, DnsAssumption
  <2>2. CASE ~(free > 0)
    <3>1. free' = free /\ Goes(c, "waiting") /\ UNCHANGED orphans
      BY <1>1, <2>2 DEF Acquire
    <3>2. call' \in [Call -> DnsPlace] /\ Held' = Held
      BY <1>1, <3>1 DEF Acquire, Goes, DnsPlace, Held
    <3> QED BY <3>1, <3>2
  <2> QED BY <2>1, <2>2
<1>2. CASE Submit(c)
  <2>1. call' \in [Call -> DnsPlace] /\ Held' = Held
    BY <1>2 DEF Submit, Goes, DnsPlace, Held
  <2> QED BY <1>2, <2>1 DEF Submit
<1>3. CASE SubmitFails(c) \/ LookupEnds(c)
  BY <1>3, ReleasedPreserves DEF SubmitFails, LookupEnds, Held
<1>4. CASE TimesOut(c)
  <2>1. CASE call[c] = "waiting" /\ Goes(c, "idle") /\ UNCHANGED <<free, orphans>>
    <3>1. call' \in [Call -> DnsPlace] /\ Held' = Held
      BY <2>1 DEF Goes, DnsPlace, Held
    <3> QED BY <2>1, <3>1
  <2>2. CASE call[c] = "granted" /\ Released("idle", c) /\ UNCHANGED orphans
    BY <2>2, ReleasedPreserves DEF Held
  <2>3. CASE call[c] = "lookup" /\ Goes(c, "idle") /\ orphans' = orphans + 1 /\ UNCHANGED free
    <3>1. call' \in [Call -> DnsPlace] /\ c \in Held /\ Held' = Held \ {c}
      BY <2>3 DEF Goes, DnsPlace, Held
    <3>2. Cardinality(Held)' = Cardinality(Held) - 1
      BY <3>1, HeldChanges
    <3> QED BY <2>3, <3>1, <3>2, HeldIsFinite, DnsAssumption
  <2> QED BY <1>4, <2>1, <2>2, <2>3 DEF TimesOut
<1> QED BY <1>1, <1>2, <1>3, <1>4

LEMMA OrphanPreserves == ASSUME SlotInv, OrphanEnds PROVE SlotInv'
<1> USE DEF SlotInv
<1>1. CASE At("waiting") = {} /\ free' = free + 1 /\ call' = call
  <2>1. Held' = Held
    BY <1>1 DEF Held
  <2> QED BY <1>1, <2>1, HeldIsFinite, DnsAssumption DEF OrphanEnds
<1>2. ASSUME NEW d \in At("waiting"), Goes(d, "granted"), free' = free PROVE SlotInv'
  <2>1. d \in Call /\ d \notin Held
    BY DEF At, Held
  <2>2. call' \in [Call -> DnsPlace] /\ Held' = Held \cup {d}
    BY <1>2, <2>1 DEF Goes, DnsPlace, Held
  <2>3. Cardinality(Held)' = Cardinality(Held) + 1
    BY <2>1, <2>2, HeldChanges
  <2> QED BY <1>2, <2>2, <2>3, HeldIsFinite, DnsAssumption DEF OrphanEnds
<1> QED BY <1>1, <1>2 DEF OrphanEnds

LEMMA DnsStep == SlotInv /\ [DnsNext]_dnsVars => SlotInv'
<1> SUFFICES ASSUME SlotInv, [DnsNext]_dnsVars PROVE SlotInv'
  OBVIOUS
<1>1. CASE UNCHANGED dnsVars
  BY <1>1 DEF dnsVars, SlotInv, Held
<1> QED BY <1>1, CallPreserves, OrphanPreserves DEF DnsNext

\* Whatever times out, fails to be submitted or hangs, every slot of the pool is
\* free, held by a call, or owed by a thread that still runs: none is lost or
\* given back twice (_resolve_hostname_with).
THEOREM DnsSlotsBalance == DnsSpec => []DnsInv
BY DnsInitOK, DnsStep, SlotInvIsDnsInv, PTL DEF DnsSpec

\* The executor never has more lookups than the pool has slots, whether their
\* callers still wait or have given up.
THEOREM LookupsBounded == DnsSpec => [](orphans + Cardinality(At("lookup")) <= MAX_IN_FLIGHT)
<1>1. SlotInv => orphans + Cardinality(At("lookup")) <= MAX_IN_FLIGHT
  <2> SUFFICES ASSUME SlotInv PROVE orphans + Cardinality(At("lookup")) <= MAX_IN_FLIGHT
    OBVIOUS
  <2>1. At("granted") \subseteq Call /\ At("lookup") \subseteq Call
    BY DEF At
  <2>2. IsFiniteSet(At("granted")) /\ IsFiniteSet(At("lookup"))
    BY <2>1, DnsAssumption, FS_Subset
  <2>3. Cardinality(At("granted")) \in Nat /\ Cardinality(At("lookup")) \in Nat
    BY <2>2, FS_CardinalityType
  <2> QED BY <2>3, HeldIsGrantedOrLookup, DnsAssumption DEF SlotInv
<1> QED BY DnsInitOK, DnsStep, <1>1, PTL DEF DnsSpec

-----------------------------------------------------------------------------
(***************************************************************************)
(* PositionAlerts: one message per key and hour.                           *)
(*                                                                         *)
(* What a key was sent within its hour is its entry in the store, or was   *)
(* forgotten by a restart; and the keys with a recent entry are among      *)
(* those the running job skips, which it learns at its start and extends   *)
(* with what it sends itself.                                              *)
(***************************************************************************)
SentIsRemembered ==
    \A k \in AlertKey : sent[k] <= restarts + (IF dedup[k] = "recent" THEN 1 ELSE 0)

RecentIsSkipped ==
    pass.pc # "idle" => \A k \in AlertKey : dedup[k] = "recent" => k \in pass.skip

PositionIInv == PositionTypeOK /\ SentIsRemembered /\ RecentIsSkipped

LEMMA KeyIsAlertKey == \A d \in Danger : KeyOf[d] \in AlertKey
BY DEF AlertKey

LEMMA PositionInitOK == PositionInit => PositionIInv
<1> SUFFICES ASSUME PositionInit PROVE PositionIInv
  OBVIOUS
<1>1. NoPass \in PassState /\ NoPass.pc = "idle"
  BY DEF NoPass, PassState
<1>2. PositionTypeOK
  BY <1>1, PositionAssumption DEF PositionInit, PositionTypeOK, DedupAge
<1> QED BY <1>1, <1>2 DEF PositionInit, PositionIInv, SentIsRemembered, RecentIsSkipped

LEMMA WithoutType ==
    ASSUME pass \in PassState, NEW d \in Danger
    PROVE  /\ Without(d) \in PassState
           /\ Without(d).pc = (IF pass.items = {d} THEN "rows" ELSE "send")
           /\ Without(d).items = pass.items \ {d} /\ Without(d).skip = pass.skip
           /\ Without(d).rows = pass.rows
BY DEF Without, PassState

LEMMA PassPreserves ==
    ASSUME PositionIInv,
           \/ StartPass
           \/ \E a \in ConnectedExchange : EvaluateRow(a) \/ EvaluateRowFails(a)
           \/ \E d \in Danger : SkipDanger(d) \/ SendDangerRefused(d)
    PROVE  PositionIInv'
<1>t. pass \in PassState /\ danger \in [ConnectedExchange -> SUBSET Danger]
  BY DEF PositionIInv, PositionTypeOK
<1>1. /\ UNCHANGED <<danger, telegram, dedup, sent, restarts>>
      /\ pass' \in PassState /\ (pass'.pc = "send" => pass'.items # {})
      /\ \/ pass'.skip = pass.skip /\ pass.pc # "idle"
         \/ pass'.skip = {k \in AlertKey : dedup[k] = "recent"}
  <2>1. CASE StartPass
    BY <2>1, <1>t DEF StartPass, NoPass, PassState
  <2>2. ASSUME NEW a \in ConnectedExchange, EvaluateRow(a)
        PROVE  /\ UNCHANGED <<danger, telegram, dedup, sent, restarts>>
               /\ pass' \in PassState /\ (pass'.pc = "send" => pass'.items # {})
               /\ pass'.skip = pass.skip /\ pass.pc # "idle"
    BY <2>2, <1>t DEF EvaluateRow, PassState
  <2>3. ASSUME NEW a \in ConnectedExchange, EvaluateRowFails(a)
        PROVE  /\ UNCHANGED <<danger, telegram, dedup, sent, restarts>>
               /\ pass' \in PassState /\ (pass'.pc = "send" => pass'.items # {})
               /\ pass'.skip = pass.skip /\ pass.pc # "idle"
    BY <2>3, <1>t DEF EvaluateRowFails, PassState
  <2>4. ASSUME NEW d \in Danger, SkipDanger(d) \/ SendDangerRefused(d)
        PROVE  /\ UNCHANGED <<danger, telegram, dedup, sent, restarts>>
               /\ pass' \in PassState /\ (pass'.pc = "send" => pass'.items # {})
               /\ pass'.skip = pass.skip /\ pass.pc # "idle"
    <3>1. /\ pass.pc = "send" /\ d \in pass.items /\ pass' = Without(d)
          /\ UNCHANGED <<danger, telegram, dedup, sent, restarts>>
      BY <2>4 DEF SkipDanger, SendDangerRefused
    <3> QED BY <3>1, <1>t, WithoutType
  <2> QED BY <2>1, <2>2, <2>3, <2>4
<1> QED BY <1>1 DEF PositionIInv, PositionTypeOK, SentIsRemembered, RecentIsSkipped

LEMMA SendPreserves ==
    ASSUME PositionIInv, NEW d \in Danger, SendDanger(d)
    PROVE  PositionIInv'
<1> DEFINE k == KeyOf[d]
<1>t. /\ pass \in PassState /\ sent \in [AlertKey -> Nat] /\ dedup \in [AlertKey -> DedupAge]
      /\ restarts \in 0..MaxRestarts /\ MaxRestarts \in Nat /\ k \in AlertKey
      /\ restarts \in Nat
  BY PositionAssumption, KeyIsAlertKey DEF PositionIInv, PositionTypeOK
<1>1. /\ pass.pc = "send" /\ d \in pass.items /\ k \notin pass.skip
      /\ sent' = [sent EXCEPT ![k] = @ + 1] /\ dedup' = [dedup EXCEPT ![k] = "recent"]
      /\ pass' = [Without(d) EXCEPT !.skip = @ \cup {k}]
      /\ UNCHANGED <<danger, telegram, restarts>>
  BY DEF SendDanger
<1>2. /\ pass' \in PassState /\ (pass'.pc = "send" => pass'.items # {})
      /\ pass'.skip = pass.skip \cup {k}
  <2>1. Without(d) \in PassState /\ Without(d).skip = pass.skip
        /\ (Without(d).pc = "send" => Without(d).items # {})
    BY <1>t, <1>1, WithoutType
  <2> QED BY <1>1, <1>t, <2>1 DEF PassState
\* The key had no recent entry, so what it was sent before is due to restarts.
<1>3. dedup[k] # "recent" /\ sent[k] <= restarts
  BY <1>1, <1>t DEF PositionIInv, SentIsRemembered, RecentIsSkipped
<1>4. SentIsRemembered'
  <2> SUFFICES ASSUME NEW x \in AlertKey
               PROVE  sent'[x] <= restarts' + (IF dedup'[x] = "recent" THEN 1 ELSE 0)
    BY DEF SentIsRemembered
  <2>1. CASE x = k
    BY <2>1, <1>t, <1>1, <1>3
  <2>2. CASE x # k
    BY <2>2, <1>t, <1>1 DEF PositionIInv, SentIsRemembered
  <2> QED BY <2>1, <2>2
<1>5. RecentIsSkipped'
  BY <1>t, <1>1, <1>2 DEF PositionIInv, RecentIsSkipped
<1>6. PositionTypeOK'
  BY <1>t, <1>1, <1>2 DEF PositionIInv, PositionTypeOK, DedupAge
<1> QED BY <1>4, <1>5, <1>6 DEF PositionIInv

LEMMA AgesPreserves ==
    ASSUME PositionIInv, NEW k \in AlertKey, Ages(k)
    PROVE  PositionIInv'
<1>t. /\ sent \in [AlertKey -> Nat] /\ dedup \in [AlertKey -> DedupAge] /\ restarts \in Nat
  BY PositionAssumption DEF PositionIInv, PositionTypeOK
<1>1. /\ UNCHANGED <<danger, telegram, pass, restarts>>
      /\ dedup' \in [AlertKey -> DedupAge] /\ sent' \in [AlertKey -> Nat]
      /\ dedup'[k] # "recent" /\ (sent'[k] = 0 \/ (sent'[k] = sent[k] /\ dedup[k] # "recent"))
      /\ \A x \in AlertKey \ {k} : dedup'[x] = dedup[x] /\ sent'[x] = sent[x]
  BY <1>t DEF Ages, DedupAge
<1>2. SentIsRemembered'
  <2> SUFFICES ASSUME NEW x \in AlertKey
               PROVE  sent'[x] <= restarts' + (IF dedup'[x] = "recent" THEN 1 ELSE 0)
    BY DEF SentIsRemembered
  <2>1. CASE x = k
    BY <2>1, <1>t, <1>1 DEF PositionIInv, SentIsRemembered
  <2>2. CASE x # k
    BY <2>2, <1>t, <1>1 DEF PositionIInv, SentIsRemembered
  <2> QED BY <2>1, <2>2
<1>3. RecentIsSkipped'
  BY <1>1 DEF PositionIInv, RecentIsSkipped
<1> QED BY <1>1, <1>2, <1>3 DEF PositionIInv, PositionTypeOK

LEMMA AroundPositionsPreserve ==
    ASSUME PositionIInv,
           \/ EndPass
           \/ \E a \in ConnectedExchange : DangerChanges(a)
           \/ ChannelsChange
           \/ SchedulerRestarts
           \/ UNCHANGED positionVars
    PROVE  PositionIInv'
<1>t. /\ danger \in [ConnectedExchange -> SUBSET Danger]
      /\ sent \in [AlertKey -> Nat] /\ dedup \in [AlertKey -> DedupAge]
      /\ restarts \in Nat /\ restarts \in 0..MaxRestarts /\ MaxRestarts \in Nat
  BY PositionAssumption DEF PositionIInv, PositionTypeOK
<1>n. NoPass \in PassState /\ NoPass.pc = "idle"
  BY DEF NoPass, PassState
<1>1. CASE EndPass
  <2>1. /\ pass' = NoPass /\ UNCHANGED <<danger, telegram, sent, restarts>>
        /\ dedup' \in [AlertKey -> DedupAge]
        /\ \A k \in AlertKey : dedup'[k] = "recent" <=> dedup[k] = "recent"
    BY <1>1, <1>t DEF EndPass, DedupAge
  <2> QED BY <2>1, <1>n DEF PositionIInv, PositionTypeOK, SentIsRemembered, RecentIsSkipped
<1>2. ASSUME NEW a \in ConnectedExchange, DangerChanges(a) PROVE PositionIInv'
  BY <1>2, <1>t DEF DangerChanges, PositionIInv, PositionTypeOK, SentIsRemembered, RecentIsSkipped
<1>3. CASE ChannelsChange
  BY <1>3 DEF ChannelsChange, PositionIInv, PositionTypeOK, SentIsRemembered, RecentIsSkipped
<1>4. CASE SchedulerRestarts
  <2>1. /\ pass' = NoPass /\ UNCHANGED <<danger, telegram, sent>>
        /\ dedup' = [k \in AlertKey |-> "none"] /\ restarts' = restarts + 1
        /\ restarts' \in 0..MaxRestarts
    BY <1>4, <1>t DEF SchedulerRestarts
  <2>2. SentIsRemembered'
    BY <2>1, <1>t DEF PositionIInv, SentIsRemembered
  <2>3. dedup' \in [AlertKey -> DedupAge]
    BY <2>1 DEF DedupAge
  <2> QED BY <2>1, <2>2, <2>3, <1>n DEF PositionIInv, PositionTypeOK, RecentIsSkipped
<1>5. CASE UNCHANGED positionVars
  BY <1>5 DEF positionVars, PositionIInv, PositionTypeOK, SentIsRemembered, RecentIsSkipped
<1> QED BY <1>1, <1>2, <1>3, <1>4, <1>5

\* For any exchanges, dangers, keys they share and restarts: a key is sent once
\* an hour, and once more for each restart, which empties _position_alert_dedup.
THEOREM OneMessageAnHour == PositionSpec => []PositionInv
<1>1. PositionIInv /\ [PositionNext]_positionVars => PositionIInv'
  BY PassPreserves, SendPreserves, AgesPreserves, AroundPositionsPreserve DEF PositionNext, Works
<1>2. PositionIInv => PositionInv
  <2> SUFFICES ASSUME PositionIInv, NEW k \in AlertKey PROVE sent[k] <= 1 + restarts
    BY DEF PositionIInv, PositionInv, OncePerHour
  <2> sent[k] \in Nat /\ restarts \in Nat
    BY PositionAssumption DEF PositionIInv, PositionTypeOK
  <2> QED BY DEF PositionIInv, SentIsRemembered
<1> QED BY PositionInitOK, <1>1, <1>2, PTL DEF PositionSpec

-----------------------------------------------------------------------------
(***************************************************************************)
(* HistoryPaging: what a history that is called complete has.              *)
(*                                                                         *)
(* While new rows push the old ones back, the pages read so far reach from *)
(* the front to the end of the last page as it lies now; so they have      *)
(* every row of the beginning that is not still behind it.                 *)
(***************************************************************************)
ReadSoFar ==
    reading.pc = "ask" =>
        /\ ~ reading.complete /\ reading.page >= 1
        /\ ~ answers.paged => reading.page = 1 /\ reading.count = 0
        /\ answers.ids => reading.count = Cardinality(reading.rows)
        /\ reading.rows \subseteq 1..atExchange
        /\ answers.advances =>
            \A r \in 1..reading.began :
                r > atExchange - (reading.page - 1) * PageSize => r \in reading.rows

PagingIInv == PagingInv /\ reading.began <= atExchange /\ ReadSoFar

LEMMA PagingInitOK == PagingInit => PagingIInv
<1> SUFFICES ASSUME PagingInit PROVE PagingIInv
  OBVIOUS
<1>1. atExchange \in 0..MaxHistory /\ reading = FreshReading(atExchange)
  BY DEF PagingInit
<1>2. FreshReading(atExchange) \in Reading
  BY <1>1, PagingAssumption DEF FreshReading, Reading
<1>3. reading.rows = {} /\ reading.count = 0 /\ reading.page = 1 /\ reading.pc = "ask"
      /\ reading.began = atExchange /\ ~ reading.complete
  BY <1>1 DEF FreshReading
<1>4. ReadSoFar
  BY <1>1, <1>3, FS_EmptySet, PagingAssumption DEF ReadSoFar
<1>5. PagingTypeOK /\ CompleteHasAll
  BY <1>1, <1>2, <1>3 DEF PagingInit, PagingTypeOK, CompleteHasAll
<1> QED BY <1>1, <1>3, <1>4, <1>5 DEF PagingIInv, PagingInv

\* What a page shows are rows of the exchange, as many as are new count.
LEMMA ShownRows ==
    ASSUME PagingTypeOK, NEW page \in Nat \ {0}
    PROVE  /\ Shown(page) \subseteq 1..atExchange /\ 1..atExchange \subseteq HistoryRow
           /\ IsFiniteSet(Shown(page)) /\ Cardinality(Shown(page)) \in 0..atExchange
           /\ NewRows(page) \subseteq Shown(page)
           /\ IsFiniteSet(NewRows(page)) /\ Cardinality(NewRows(page)) \in Nat
<1>1. atExchange \in 0..MaxHistory /\ atExchange \in Nat
  BY PagingAssumption DEF PagingTypeOK
<1>2. Shown(page) \subseteq 1..atExchange /\ 1..atExchange \subseteq HistoryRow
  BY <1>1, PagingAssumption DEF Shown, HistoryRow
<1>3. IsFiniteSet(1..atExchange) /\ Cardinality(1..atExchange) = atExchange
  BY <1>1, FS_Interval
<1>4. IsFiniteSet(Shown(page)) /\ Cardinality(Shown(page)) <= atExchange
  BY <1>2, <1>3, FS_Subset
<1>5. Cardinality(Shown(page)) \in Nat
  BY <1>4, FS_CardinalityType
<1>6. NewRows(page) \subseteq Shown(page)
  BY DEF NewRows
<1>7. IsFiniteSet(NewRows(page)) /\ Cardinality(NewRows(page)) \in Nat
  BY <1>4, <1>6, FS_Subset, FS_CardinalityType
<1> QED BY <1>1, <1>2, <1>4, <1>5, <1>6, <1>7

\* The page size divides the history into the pages the exchange declares.
LEMMA LastPage ==
    ASSUME NEW n \in Nat, NEW page \in Nat, page >= (n + PageSize - 1) \div PageSize
    PROVE  n <= page * PageSize
<1> DEFINE m == n + PageSize - 1
           q == m \div PageSize
<1>1. PageSize \in Nat \ {0} /\ m \in Nat
  BY PagingAssumption
<1>2. q \in Nat /\ m < (q + 1) * PageSize
  <2> HIDE DEF m
  <2> QED BY <1>1
<1>3. (q + 1) * PageSize = q * PageSize + PageSize /\ q * PageSize \in Nat
  <2> HIDE DEF q
  <2> QED BY <1>1, <1>2
<1>4. q * PageSize <= page * PageSize /\ page * PageSize \in Nat
  <2>1. PICK k \in Nat : page = q + k
    <3>1. page - q \in Nat /\ page = q + (page - q)
      <4>1. page >= q
        OBVIOUS
      <4> HIDE DEF q
      <4> QED BY <4>1, <1>2
    <3> QED BY <3>1
  <2> HIDE DEF q
  <2>2. page * PageSize = q * PageSize + k * PageSize /\ k * PageSize \in Nat
    BY <2>1, <1>1, <1>2
  <2> QED BY <2>2, <1>3
<1>5. n <= q * PageSize
  <2> HIDE DEF q
  <2> QED BY <1>1, <1>2, <1>3
<1> HIDE DEF q
<1> QED BY <1>1, <1>2, <1>3, <1>4, <1>5

LEMMA DoneFields ==
    ASSUME NEW r \in Reading, NEW exhausted \in BOOLEAN, NEW stuck \in BOOLEAN
    PROVE  /\ Done(r, exhausted, stuck) \in Reading
           /\ Done(r, exhausted, stuck).pc = "done"
           /\ Done(r, exhausted, stuck).rows = r.rows
           /\ Done(r, exhausted, stuck).began = r.began
           /\ Done(r, exhausted, stuck).complete
                => exhausted /\ ~ stuck /\ Covers(r.count, r.total)
<1> DEFINE complete == exhausted /\ ~ stuck /\ Covers(r.count, r.total)
           reason == CASE stuck -> "pagination_not_advancing"
                       [] ~ stuck /\ complete -> "none"
                       [] OTHER -> "exchange_boundary_before_source_total"
<1>1. complete \in BOOLEAN
  BY DEF Covers
<1>2. reason \in {"none", "pagination_not_advancing", "exchange_boundary_before_source_total"}
  OBVIOUS
<1>3. Done(r, exhausted, stuck)
        = [r EXCEPT !.pc = "done", !.complete = complete, !.reason = reason]
  BY DEF Done
<1>4. complete => exhausted /\ ~ stuck /\ Covers(r.count, r.total)
  OBVIOUS
<1> HIDE DEF complete, reason
<1> QED BY <1>1, <1>2, <1>3, <1>4 DEF Reading

LEMMA ReadPagePreserves ==
    ASSUME PagingIInv, ReadPage
    PROVE  PagingIInv'
<1> DEFINE page == reading.page
           new == NewRows(page)
           rows == reading.rows \cup new
           total == TotalAfter(page)
           count == reading.count + Cardinality(new)
           read == [reading EXCEPT !.total = total]
           more == [read EXCEPT !.rows = rows, !.count = count]
           next == [more EXCEPT !.page = page + 1, !.attempt = 1]
           N == atExchange
<1>t. /\ PagingTypeOK /\ CompleteHasAll /\ reading \in Reading /\ reading.began \in 0..N
      /\ N \in Nat /\ N <= MaxHistory /\ MaxHistory \in Nat /\ PageSize \in Nat \ {0}
      /\ answers \in Answering
  BY PagingAssumption DEF PagingIInv, PagingInv, PagingTypeOK, Reading
<1>v. answers.paged \in BOOLEAN /\ answers.pages \in BOOLEAN /\ answers.totals \in BOOLEAN
  BY <1>t DEF Answering
<1>u. reading.pc = "ask" /\ UNCHANGED <<answers, atExchange>>
  BY DEF ReadPage
<1>i. /\ ~ reading.complete /\ page \in Nat \ {0}
      /\ ~ answers.paged => page = 1 /\ reading.count = 0
      /\ answers.ids => reading.count = Cardinality(reading.rows)
      /\ reading.rows \subseteq 1..N
      /\ answers.advances =>
            \A r \in 1..reading.began : r > N - (page - 1) * PageSize => r \in reading.rows
      /\ reading.count \in Nat
  BY <1>t, <1>u DEF PagingIInv, ReadSoFar, Reading
<1>s. /\ Shown(page) \subseteq 1..N /\ 1..N \subseteq HistoryRow
      /\ Cardinality(Shown(page)) \in 0..N
      /\ new \subseteq Shown(page) /\ IsFiniteSet(new) /\ Cardinality(new) \in Nat
  BY <1>t, <1>i, ShownRows
<1>m. reading' = IF Stuck(page) THEN Done(read, FALSE, TRUE)
                 ELSE IF page >= PagesOf(page) THEN Done(more, TRUE, FALSE)
                 ELSE IF Shown(page) = {} THEN Done(more, FALSE, FALSE)
                 ELSE next
  BY <1>u DEF ReadPage
<1>1. total \in -1..MaxHistory /\ (answers.paged /\ answers.totals /\ N > 0 => total = N)
  <2>1. CASE ~ answers.paged
    BY <2>1, <1>t, <1>i, <1>s DEF TotalAfter
  <2>2. CASE answers.paged /\ answers.totals /\ N > 0
    BY <2>2, <1>t DEF TotalAfter
  <2>3. CASE answers.paged /\ ~ (answers.totals /\ N > 0)
    BY <2>3, <1>t DEF TotalAfter, Reading
  <2> QED BY <2>1, <2>2, <2>3
<1>2. rows \subseteq 1..N /\ IsFiniteSet(rows) /\ (answers.ids => count = Cardinality(rows))
  <2>1. rows \subseteq 1..N
    BY <1>i, <1>s
  <2>2. IsFiniteSet(1..N)
    BY <1>t, FS_Interval
  <2>3. IsFiniteSet(rows) /\ IsFiniteSet(reading.rows)
    BY <2>1, <2>2, FS_Subset
  <2>4. ASSUME answers.ids PROVE count = Cardinality(rows)
    <3>1. reading.rows \cap new = {}
      BY <2>4 DEF NewRows
    <3>2. Cardinality(rows) = Cardinality(reading.rows) + Cardinality(new) - Cardinality({})
      BY <3>1, <2>3, <1>s, FS_Union
    <3> QED BY <3>2, <2>4, <1>i, <1>s, FS_EmptySet
  <2> QED BY <2>1, <2>3, <2>4
\* With this page, what is read reaches one page further back.
<1>3. ASSUME answers.advances, NEW r \in 1..reading.began, r > N - page * PageSize
      PROVE  r \in rows
  <2>1. CASE r > N - (page - 1) * PageSize
    BY <2>1, <1>3, <1>i
  <2>2. CASE r <= N - (page - 1) * PageSize
    <3>1. r \in 1..N
      BY <1>t
    <3>2. r \in Shown(page)
      BY <3>1, <2>2, <1>3 DEF Shown
    <3> QED BY <3>2, <1>3 DEF NewRows
  <2>3. (page - 1) * PageSize \in Int
    BY <1>t, <1>i
  <2> QED BY <2>1, <2>2, <2>3, <1>t
<1>4. count \in Nat
  BY <1>i, <1>s
<1>5. /\ read \in Reading /\ read.began = reading.began
      /\ more \in Reading /\ more.began = reading.began
      /\ more.rows = rows /\ more.count = count /\ more.total = total
      /\ next \in Reading /\ next.began = reading.began /\ next.rows = rows
      /\ next.count = count /\ next.page = page + 1 /\ next.complete = reading.complete
  <2>1. rows \subseteq HistoryRow /\ 1 \in 1..MaxAttempts /\ page + 1 \in Nat
    BY <1>2, <1>s, <1>i, PagingAssumption
  <2> HIDE DEF rows, total, count, page, new
  <2> QED BY <2>1, <1>1, <1>4, <1>t DEF Reading, page
<1>6. CASE Stuck(page)
  <2>1. /\ reading' \in Reading /\ reading'.pc = "done" /\ reading'.began = reading.began
        /\ ~ reading'.complete
    BY <1>5, <1>6, <1>m, DoneFields
  <2> QED BY <2>1, <1>t, <1>u
          DEF PagingIInv, PagingInv, PagingTypeOK, CompleteHasAll, ReadSoFar
<1>7. CASE ~ Stuck(page) /\ page >= PagesOf(page)
  <2>1. /\ reading' \in Reading /\ reading'.pc = "done" /\ reading'.began = reading.began
        /\ reading'.rows = rows
        /\ reading'.complete => Covers(count, total)
    <3>1. reading' = Done(more, TRUE, FALSE)
      BY <1>7, <1>m
    <3> HIDE DEF more, rows, count, total
    <3> QED BY <3>1, <1>5, DoneFields
  <2>2. ASSUME Covers(count, total), answers.ids, answers.paged, N > 0,
               answers.totals \/ (answers.pages /\ answers.advances)
        PROVE  1..reading.began \subseteq rows
    <3>1. CASE answers.pages /\ answers.advances
      <4>1. N <= page * PageSize
        BY <3>1, <1>7, <2>2, <1>t, <1>i, LastPage DEF PagesOf
      <4>2. page * PageSize \in Int
        BY <1>t, <1>i
      <4>3. \A r \in 1..reading.began : r > N - page * PageSize
        BY <4>1, <4>2, <1>t
      <4> QED BY <3>1, <4>3, <2>2, <1>3
    <3>2. CASE answers.totals
      <4>1. total = N /\ count >= N
        BY <3>2, <2>2, <1>1, <1>t, <1>4 DEF Covers
      <4>2. IsFiniteSet(1..N) /\ Cardinality(1..N) = N
        BY <1>t, FS_Interval
      <4>3. Cardinality(rows) <= N
        BY <4>2, <1>2, FS_Subset
      <4>4. Cardinality(rows) = Cardinality(1..N)
        BY <4>1, <4>2, <4>3, <1>2, <2>2, <1>4, <1>t
      <4>5. rows = 1..N
        BY <4>2, <4>4, <1>2, FS_Subset
      <4> QED BY <4>5, <1>t
    <3> QED BY <3>1, <3>2, <2>2
  <2>3. N = 0 => 1..reading.began = {}
    BY <1>t
  <2>4. CompleteHasAll'
    BY <2>1, <2>2, <2>3, <1>t, <1>u DEF CompleteHasAll
  <2> QED BY <2>1, <2>4, <1>t, <1>u DEF PagingIInv, PagingInv, PagingTypeOK, ReadSoFar
<1>8. CASE ~ Stuck(page) /\ ~ (page >= PagesOf(page)) /\ Shown(page) = {}
  <2>1. /\ reading' \in Reading /\ reading'.pc = "done" /\ reading'.began = reading.began
        /\ ~ reading'.complete
    BY <1>5, <1>8, <1>m, DoneFields
  <2> QED BY <2>1, <1>t, <1>u
          DEF PagingIInv, PagingInv, PagingTypeOK, CompleteHasAll, ReadSoFar
<1>9. CASE ~ Stuck(page) /\ ~ (page >= PagesOf(page)) /\ Shown(page) # {}
  <2>1. reading' = next
    BY <1>9, <1>m
  <2>2. answers.paged
    BY <1>9, <1>i DEF PagesOf
  <2>3. next.pc = "ask"
    BY <1>u, <1>t DEF Reading
  <2>4. next.page - 1 = page /\ next.page >= 1
    BY <1>5, <1>i
  <2>5. ReadSoFar'
    <3>1. ~ next.complete /\ next.rows \subseteq 1..N
          /\ (answers.ids => next.count = Cardinality(next.rows))
      BY <1>2, <1>5, <1>i
    <3>2. answers.advances => \A r \in 1..next.began :
                r > N - (next.page - 1) * PageSize => r \in next.rows
      BY <1>3, <1>5, <2>4
    <3> HIDE DEF next
    <3> QED BY <1>u, <2>1, <2>2, <2>4, <3>1, <3>2 DEF ReadSoFar
  <2>6. PagingTypeOK' /\ CompleteHasAll' /\ reading'.began <= atExchange'
    <3> HIDE DEF next
    <3> QED BY <1>t, <1>u, <1>5, <2>1, <2>3 DEF PagingTypeOK, CompleteHasAll
  <2> QED BY <2>5, <2>6 DEF PagingIInv, PagingInv
<1> QED BY <1>6, <1>7, <1>8, <1>9

LEMMA AroundPagesPreserve ==
    ASSUME PagingIInv, Backoff \/ GiveUp \/ RowComes \/ NextSync \/ UNCHANGED pagingVars
    PROVE  PagingIInv'
<1>t. /\ PagingTypeOK /\ CompleteHasAll /\ reading \in Reading /\ ReadSoFar
      /\ reading.began <= atExchange /\ reading.began \in 0..MaxHistory
      /\ atExchange \in 0..MaxHistory /\ MaxHistory \in Nat /\ PageSize \in Nat \ {0}
      /\ MaxAttempts \in Nat \ {0}
  BY PagingAssumption DEF PagingIInv, PagingInv, PagingTypeOK, Reading
<1>1. CASE Backoff
  <2>1. reading' = [reading EXCEPT !.attempt = @ + 1] /\ UNCHANGED <<answers, atExchange>>
        /\ reading.attempt < MaxAttempts /\ reading.pc = "ask"
    BY <1>1 DEF Backoff
  <2>2. reading' \in Reading
    BY <2>1, <1>t DEF Reading
  <2>3. /\ reading'.pc = reading.pc /\ reading'.page = reading.page /\ reading'.rows = reading.rows
        /\ reading'.count = reading.count /\ reading'.began = reading.began
        /\ reading'.complete = reading.complete
    BY <2>1, <1>t DEF Reading
  <2> QED BY <2>1, <2>2, <2>3, <1>t
          DEF PagingIInv, PagingInv, PagingTypeOK, CompleteHasAll, ReadSoFar
<1>2. CASE GiveUp
  <2>1. /\ reading' \in Reading /\ reading'.pc = "done" /\ reading'.began = reading.began
        /\ ~ reading'.complete /\ UNCHANGED <<answers, atExchange>>
    BY <1>2, <1>t DEF GiveUp, Reading, ReadSoFar
  <2> QED BY <2>1, <1>t DEF PagingIInv, PagingInv, PagingTypeOK, CompleteHasAll, ReadSoFar
\* A new row pushes the last page back: less has to be read already.
<1>3. CASE RowComes
  <2>1. atExchange' = atExchange + 1 /\ atExchange < MaxHistory /\ UNCHANGED <<answers, reading>>
    BY <1>3 DEF RowComes
  <2>2. ReadSoFar'
    <3> SUFFICES ASSUME reading.pc = "ask" PROVE ReadSoFar'
      BY <2>1 DEF ReadSoFar
    <3>1. (reading.page - 1) * PageSize \in Int
      BY <1>t DEF Reading
    <3> DEFINE k == (reading.page - 1) * PageSize
    <3>2. k' = k
      BY <2>1
    <3>3. \A r \in 1..reading.began : r > atExchange + 1 - k => r > atExchange - k
      <4> HIDE DEF k
      <4> QED BY <3>1, <1>t DEF k
    <3>4. 1..atExchange \subseteq 1..(atExchange + 1)
      BY <1>t
    <3>k. k \in Int
      BY <3>1
    <3> HIDE DEF k
    <3>5. \A r \in 1..reading'.began : r > atExchange' - k' => r > atExchange - k
      BY <1>t, <2>1, <3>2, <3>3, <3>k
    <3>6. answers.advances =>
            \A r \in 1..reading.began :
                r > atExchange - k => r \in reading.rows
      BY <1>t DEF ReadSoFar, k
    <3>7. answers'.advances =>
            \A r \in 1..reading'.began : r > atExchange' - k' => r \in reading'.rows
      BY <2>1, <3>5, <3>6
    <3>8. reading'.rows \subseteq 1..atExchange'
      BY <2>1, <3>4, <1>t DEF ReadSoFar
    <3> QED BY <2>1, <3>7, <3>8, <1>t DEF ReadSoFar, k
  <2> QED BY <2>1, <2>2, <1>t DEF PagingIInv, PagingInv, PagingTypeOK, CompleteHasAll
<1>4. CASE NextSync
  <2>1. reading' = FreshReading(atExchange) /\ UNCHANGED <<answers, atExchange>>
    BY <1>4 DEF NextSync
  <2>2. reading' \in Reading
    BY <2>1, <1>t DEF FreshReading, Reading
  <2>3. reading'.rows = {} /\ reading'.count = 0 /\ reading'.page = 1 /\ reading'.pc = "ask"
        /\ reading'.began = atExchange /\ ~ reading'.complete
    BY <2>1 DEF FreshReading
  <2>4. ReadSoFar'
    BY <2>1, <2>3, <1>t, FS_EmptySet DEF ReadSoFar
  <2> QED BY <2>1, <2>2, <2>3, <2>4, <1>t DEF PagingIInv, PagingInv, PagingTypeOK, CompleteHasAll
<1>5. CASE UNCHANGED pagingVars
  BY <1>5, <1>t DEF pagingVars, PagingIInv, PagingInv, PagingTypeOK, CompleteHasAll, ReadSoFar
<1> QED BY <1>1, <1>2, <1>3, <1>4, <1>5

\* For any page size and history, and however many rows come in meanwhile: what
\* _paginate_mexc_history calls complete has every row there was when it began,
\* if rows can be told apart and the exchange declares its total, or its number of
\* pages while it moves with the page number.
THEOREM CompleteIsComplete == PagingSpec => []PagingInv
<1>1. PagingIInv /\ [PagingNext]_pagingVars => PagingIInv'
  BY ReadPagePreserves, AroundPagesPreserve DEF PagingNext
<1>2. PagingIInv => PagingInv
  BY DEF PagingIInv
<1> QED BY PagingInitOK, <1>1, <1>2, PTL DEF PagingSpec
=============================================================================
