-------------------------- MODULE EvaluationProofs --------------------------
(***************************************************************************)
(* Theorems about Evaluation for any number of runs of the script, workers *)
(* and faults.                                                             *)
(***************************************************************************)
EXTENDS Evaluation, TLAPS

Working(w) == pc[w] # "polling"

ShapeInv ==
    /\ TypeOK
    /\ queue \in [Requests -> {"unsent", "visible", "hidden", "deleted"}]
    /\ receipt \in [Requests -> Workers \union {NoWorker}]
    /\ pc \in [Workers -> W!Pc]
    /\ job \in [Workers -> Requests \union {NoRequest}]

(* A worker has a request that was sent, and has it alone with its message *)
(* hidden unless the message came back meanwhile.                          *)
WorkInv ==
    \A w \in Workers :
        /\ ~Working(w) => job[w] = NoRequest
        /\ Working(w) =>
            /\ job[w] \in Requests /\ queue[job[w]] # "unsent"
            /\ job[w] \notin overrun => receipt[job[w]] = w /\ queue[job[w]] = "hidden"

(* A run has sent nothing before the end of its work.                      *)
SentInv ==
    \A m \in Requests : script[m] = "idle" \/ AtWork(m) => queue[m] = "unsent"

Busy(m) == AtWork(m) \/ Pending(m)

(* The runs that got past each other's check are the intruded ones.        *)
ApartInv ==
    \A m, k \in Requests : m # k /\ Busy(m) /\ Busy(k) => {m, k} \subseteq intruded

(* What a run that nobody got in the way of has done to the database.      *)
DataInv ==
    overrun = {} => \A m \in Requests \ (tested \union intruded) :
        /\ script[m] = "migrate" /\ again[m] => database = "load"
        /\ script[m] = "request" \/ Pending(m) =>
               again[m] /\ database = "load" /\ (migrated \/ m \in unmigrated)

EvalInv == ShapeInv /\ WorkInv /\ SentInv /\ ApartInv /\ DataInv

-----------------------------------------------------------------------------
LEMMA InitEval == Init => EvalInv
BY NamesAssumption
   DEF Init, W!Init, EvalInv, ShapeInv, TypeOK, Script, Data, WorkInv, SentInv, ApartInv,
       DataInv, Working, Busy, AtWork, Pending, W!Pc

(* What no step of the workers and the queue does: send a request, or      *)
(* bring one back that was settled.                                        *)
QueueKeeps ==
    /\ \A m \in Requests : /\ queue'[m] = "unsent" <=> queue[m] = "unsent"
                           /\ Pending(m)' => Pending(m)
    /\ overrun \subseteq overrun'

WorkShape ==
    /\ queue' \in [Requests -> {"unsent", "visible", "hidden", "deleted"}]
    /\ receipt' \in [Requests -> Workers \union {NoWorker}]
    /\ pc' \in [Workers -> W!Pc]
    /\ job' \in [Workers -> Requests \union {NoRequest}]

LEMMA QueueStep ==
    ASSUME EvalInv, NEW m \in Requests, W!Reappear(m) \/ W!Overrun(m) \/ W!Age(m)
    PROVE  WorkShape /\ QueueKeeps /\ WorkInv'
<1> USE NamesAssumption
    DEF EvalInv, ShapeInv, WorkShape, QueueKeeps, WorkInv, Working, Pending, W!workerVars,
        W!queueVars
<1>1. CASE W!Reappear(m)
  BY <1>1 DEF W!Reappear, W!InHands, W!history
<1>2. CASE W!Overrun(m)
  BY <1>2 DEF W!Overrun
<1>3. CASE W!Age(m)
  BY <1>3 DEF W!Age, W!history
<1> QED
  BY <1>1, <1>2, <1>3

LEMMA WorkStep ==
    ASSUME EvalInv, NEW w \in Workers,
           W!WorkerStep(w) \/ W!GiveUp(w) \/ W!Crash(w)
    PROVE  WorkShape /\ QueueKeeps /\ WorkInv'
<1> DEFINE Goal == WorkShape /\ QueueKeeps /\ WorkInv'
<1> USE NamesAssumption
    DEF EvalInv, ShapeInv, WorkShape, QueueKeeps, WorkInv, Working, Pending, W!Pc, W!workerVars,
        W!queueVars, W!history, W!Goto, W!Poll
<1>1. ASSUME W!Dequeue(w) PROVE Goal
  BY <1>1 DEF W!Dequeue
<1>2. ASSUME W!DropMalformed(w) \/ W!Delete(w) PROVE Goal
  BY <1>2 DEF W!DropMalformed, W!Delete, W!TryDelete
<1>3. ASSUME W!MarkRunning(w) PROVE Goal
  BY <1>3 DEF W!MarkRunning
<1>4. ASSUME W!Check(w) PROVE Goal
  BY <1>4 DEF W!Check
<1>5. ASSUME W!AcquireLock(w) PROVE Goal
  BY <1>5 DEF W!AcquireLock
<1>6. ASSUME W!RunLoadTest(w) PROVE Goal
  BY <1>6 DEF W!RunLoadTest
<1>7. ASSUME W!PostScore(w) PROVE Goal
  BY <1>7 DEF W!PostScore
<1>8. ASSUME W!ReleaseLock(w) \/ W!MarkFailed(w) PROVE Goal
  BY <1>8 DEF W!ReleaseLock, W!MarkFailed
<1>9. ASSUME W!Report(w) PROVE Goal
  BY <1>9 DEF W!Report
<1>10. ASSUME W!GiveUp(w) \/ W!Crash(w) PROVE Goal
  BY <1>10 DEF W!GiveUp, W!Crash
<1> QED
  BY <1>1, <1>2, <1>3, <1>4, <1>5, <1>6, <1>7, <1>8, <1>9, <1>10 DEF W!WorkerStep

(* Such a step leaves the runs apart and the database alone.               *)
LEMMA WorkKeeps ==
    ASSUME EvalInv, WorkShape, QueueKeeps, WorkInv',
           UNCHANGED <<scriptVars, intruded, unmigrated>>,
           UNCHANGED <<machineVars, tested>>
    PROVE  EvalInv'
<1> USE DEF EvalInv, WorkShape, QueueKeeps, scriptVars, machineVars
<1>1. ShapeInv'
  BY DEF ShapeInv, TypeOK
<1>2. SentInv'
  BY DEF SentInv, AtWork
<1>3. ApartInv'
  BY DEF ApartInv, Busy, AtWork
<1>4. DataInv'
  <2>1. overrun' = {} => overrun = {}
    OBVIOUS
  <2> QED
    BY <2>1 DEF DataInv
<1> QED
  BY <1>1, <1>2, <1>3, <1>4

(* A test starts: whatever run it could disturb has been intruded.         *)
LEMMA StartKeeps ==
    ASSUME EvalInv, NEW w \in Workers, StartTest(w)
    PROVE  EvalInv'
<1> USE DEF EvalInv
<1>1. WorkShape /\ QueueKeeps /\ WorkInv'
  BY WorkStep DEF StartTest, W!WorkerStep
<1>2. Working(w) /\ job[w] \in Requests /\ overrun' = overrun
  BY DEF StartTest, W!AcquireLock, WorkInv, Working, W!history
<1>3. ShapeInv'
  BY <1>1, <1>2 DEF StartTest, ShapeInv, WorkShape, QueueKeeps, TypeOK, Data, scriptVars
<1>4. SentInv' /\ ApartInv'
  BY <1>1 DEF StartTest, QueueKeeps, SentInv, ApartInv, Busy, AtWork, scriptVars
<1>5. DataInv'
  <2> SUFFICES ASSUME overrun = {}, NEW m \in Requests, m \notin tested', m \notin intruded
               PROVE  ~(script[m] \in {"migrate", "request"}) /\ ~Pending(m)'
    BY <1>2 DEF DataInv, StartTest, scriptVars
  <2>1. m # job[w] /\ Pending(job[w])
    BY <1>2 DEF StartTest, WorkInv, Pending
  <2>2. ~Busy(m)
    BY <1>2, <2>1 DEF ApartInv, Busy
  <2> QED
    BY <1>1, <2>2 DEF Busy, AtWork, QueueKeeps
<1> QED
  BY <1>1, <1>3, <1>4, <1>5

-----------------------------------------------------------------------------
(* The steps of a run.  The workers do not move.                           *)
LEMMA ScriptKeeps ==
    ASSUME EvalInv, NEW m \in Requests, ScriptStep(m) \/ GetStatus(m)
    PROVE  EvalInv'
<1> USE DEF EvalInv
<1>1. ASSUME UNCHANGED testVars PROVE WorkShape /\ QueueKeeps /\ WorkInv'
  BY <1>1 DEF testVars, ShapeInv, WorkShape, QueueKeeps, WorkInv, Working, Pending
(* Another run that is busy means that this one was intruded.              *)
<1>2. ASSUME NEW k \in Requests, k # m, k \notin intruded, AtWork(m) PROVE ~Busy(k)
  BY <1>2 DEF ApartInv, Busy
<1>3. AtWork(m) => queue[m] = "unsent"
  BY DEF SentInv
(* At work the run goes on or ends, and only its own data is touched.      *)
<1>4. ASSUME UNCHANGED <<testVars, intruded, tested>>, AtWork(m),
             script' \in [Requests -> Script], again' \in [Requests -> BOOLEAN],
             \A k \in Requests \ {m} : script'[k] = script[k] /\ again'[k] = again[k],
             script'[m] # "idle", script'[m] # "polling",
             database' \in Data, migrated' \in BOOLEAN,
             unmigrated \subseteq unmigrated', unmigrated' \subseteq Requests,
             overrun = {} /\ m \notin tested \union intruded =>
                 /\ script'[m] = "migrate" /\ again'[m] => database' = "load"
                 /\ script'[m] = "request" =>
                        again'[m] /\ database' = "load" /\ (migrated' \/ m \in unmigrated')
      PROVE  EvalInv'
  <2>1. WorkShape /\ QueueKeeps /\ WorkInv' /\ queue' = queue
    BY <1>1, <1>4 DEF testVars
  <2>2. ShapeInv'
    BY <1>4, <2>1 DEF ShapeInv, WorkShape, TypeOK
  <2>3. SentInv'
    BY <1>3, <1>4, <2>1 DEF SentInv, AtWork
  <2>4. ApartInv'
    BY <1>4, <2>1 DEF ApartInv, Busy, AtWork, Pending
  <2>5. DataInv'
    <3> SUFFICES ASSUME overrun = {}, NEW k \in Requests \ (tested \union intruded)
                 PROVE  /\ script'[k] = "migrate" /\ again'[k] => database' = "load"
                        /\ script'[k] = "request" \/ Pending(k)' =>
                               /\ again'[k] /\ database' = "load"
                               /\ migrated' \/ k \in unmigrated'
      BY <1>4 DEF DataInv, testVars
    <3>1. CASE k = m
      BY <1>3, <1>4, <2>1, <3>1 DEF Pending
    <3>2. CASE k # m
      BY <1>2, <1>4, <2>1, <3>2 DEF Busy, AtWork, QueueKeeps
    <3> QED
      BY <3>1, <3>2
  <2> QED
    BY <2>1, <2>2, <2>3, <2>4, <2>5
<1>5. script \in [Requests -> Script] /\ again \in [Requests -> BOOLEAN]
          /\ database \in Data /\ migrated \in BOOLEAN /\ unmigrated \subseteq Requests
          /\ intruded \subseteq Requests
  BY DEF ShapeInv, TypeOK
<1>6. overrun = {} /\ m \notin tested \union intruded =>
          (script[m] = "migrate" /\ again[m] => database = "load")
  BY DEF DataInv
<1> USE <1>5 DEF Step, Goto, Script, Data, AtWork, machineVars, historyVars, workerVars
<1>7. CASE CheckExistence(m)
  <2>1. WorkShape /\ QueueKeeps /\ WorkInv' /\ queue' = queue /\ overrun' = overrun
    BY <1>1, <1>7 DEF CheckExistence, testVars
  <2>2. PICK label \in {"recreate", "ended"} :
            script' = [script EXCEPT ![m] = label] /\ again' = again
    BY <1>7 DEF CheckExistence, LetPass
  <2>3. /\ intruded \subseteq intruded' /\ intruded' \subseteq Requests
        /\ label = "recreate" =>
               \A k \in Requests \ {m} : Busy(k) => k \in intruded' /\ m \in intruded'
    <3>1. CASE IsExists /\ Goto(m, "ended") /\ UNCHANGED intruded
      BY <1>5, <1>7, <2>2, <3>1 DEF CheckExistence, ShapeInv, TypeOK
    (* Nobody is active: what is busy is not seen.                         *)
    <3>2. CASE ~IsExists /\ LetPass(m, Unseen(m))
      <4>1. \A k \in Requests \ {m} : Busy(k) => k \in Unseen(m)
        BY <3>2 DEF IsExists, Unseen, Busy
      <4> QED
        BY <1>5, <3>2, <4>1 DEF LetPass, Unseen
    <3>3. CASE LetPass(m, {k \in Requests \ {m} : AtWork(k) \/ Pending(k)})
      BY <1>5, <3>3 DEF LetPass, Busy
    <3> QED
      BY <1>7, <3>1, <3>2, <3>3 DEF CheckExistence
  <2>4. UNCHANGED <<machineVars, unmigrated, tested>>
    BY <1>7 DEF CheckExistence
  <2>5. script[m] = "idle" /\ queue[m] = "unsent"
    BY <1>7 DEF CheckExistence, SentInv
  <2>6. ShapeInv'
    BY <2>1, <2>2, <2>3, <2>4 DEF ShapeInv, WorkShape, TypeOK
  <2>7. SentInv'
    BY <2>1, <2>2, <2>5 DEF SentInv
  <2>8. ApartInv'
    BY <2>1, <2>2, <2>3, <2>5 DEF ApartInv, Busy, Pending
  <2>9. DataInv'
    BY <2>1, <2>2, <2>3, <2>4, <2>5 DEF DataInv, Pending
  <2> QED
    BY <2>1, <2>6, <2>7, <2>8, <2>9
<1>8. CASE StartE2E(m)
  BY <1>4, <1>8 DEF StartE2E
<1>9. CASE EndE2E(m)
  BY <1>4, <1>9 DEF EndE2E
<1>10. CASE Recreate(m)
  BY <1>4, <1>10 DEF Recreate, Fails
<1>11. CASE CreateTables(m)
  BY <1>4, <1>11 DEF CreateTables, Fails
<1>12. CASE Load(m)
  BY <1>4, <1>12 DEF Load, Fails
<1>13. CASE Migrate(m)
  BY <1>4, <1>6, <1>13 DEF Migrate
<1>14. CASE RequestLoadTest(m)
  <2>1. CASE Goto(m, "ended") /\ UNCHANGED workerVars
    BY <1>4, <1>14, <2>1 DEF RequestLoadTest
  <2>2. CASE W!Submit(m) /\ (Goto(m, "polling") \/ Goto(m, "ended"))
    <3>1. PICK label \in {"polling", "ended"} :
              script' = [script EXCEPT ![m] = label] /\ again' = again
      BY <2>2
    <3>2. /\ queue' = [queue EXCEPT ![m] = "visible"] /\ queue[m] = "unsent"
          /\ UNCHANGED <<receipt, pc, job, overrun>>
      BY <2>2 DEF W!Submit, W!workerVars, W!history
    <3>3. UNCHANGED <<machineVars, historyVars>> /\ script[m] = "request"
      BY <1>14 DEF RequestLoadTest
    <3>4. ShapeInv'
      BY <3>1, <3>2, <3>3 DEF ShapeInv, TypeOK
    <3>5. WorkInv'
      BY <3>2 DEF ShapeInv, WorkInv, Working
    <3>6. SentInv'
      BY <3>1, <3>2 DEF ShapeInv, SentInv
    <3>7. ApartInv'
      BY <3>1, <3>2, <3>3 DEF ShapeInv, ApartInv, Busy, Pending
    <3>8. DataInv'
      BY <3>1, <3>2, <3>3 DEF ShapeInv, DataInv, Pending
    <3> QED
      BY <3>4, <3>5, <3>6, <3>7, <3>8
  <2> QED
    BY <1>14, <2>1, <2>2 DEF RequestLoadTest
<1>15. CASE GetStatus(m)
  <2>1. WorkShape /\ QueueKeeps /\ WorkInv' /\ queue' = queue /\ overrun' = overrun
    BY <1>1, <1>15 DEF GetStatus, testVars
  <2>2. script' = [script EXCEPT ![m] = "ended"] /\ again' = again
            /\ UNCHANGED <<machineVars, historyVars>>
    BY <1>15 DEF GetStatus
  <2>3. ShapeInv'
    BY <2>1, <2>2 DEF ShapeInv, WorkShape, TypeOK
  <2>4. SentInv' /\ ApartInv' /\ DataInv'
    BY <2>1, <2>2 DEF SentInv, ApartInv, DataInv, Busy, Pending
  <2> QED
    BY <2>1, <2>3, <2>4
<1> QED
  BY <1>7, <1>8, <1>9, <1>10, <1>11, <1>12, <1>13, <1>14, <1>15 DEF ScriptStep

LEMMA NextEval == EvalInv /\ [Next]_vars => EvalInv'
<1> SUFFICES ASSUME EvalInv, [Next]_vars PROVE EvalInv'
  OBVIOUS
<1>1. ASSUME NEW m \in Requests, ScriptStep(m) \/ GetStatus(m) PROVE EvalInv'
  BY <1>1, ScriptKeeps
<1>2. ASSUME NEW w \in Workers, StartTest(w) PROVE EvalInv'
  BY <1>2, StartKeeps
<1>3. ASSUME NEW w \in Workers, W!WorkerStep(w) \/ W!GiveUp(w) \/ W!Crash(w),
             UNCHANGED <<scriptVars, machineVars, historyVars>>
      PROVE  EvalInv'
  BY <1>3, WorkStep, WorkKeeps DEF historyVars
<1>4. ASSUME NEW m \in Requests, W!Reappear(m) \/ W!Overrun(m) \/ W!Age(m),
             UNCHANGED <<scriptVars, machineVars, historyVars>>
      PROVE  EvalInv'
  BY <1>4, QueueStep, WorkKeeps DEF historyVars
<1>5. CASE UNCHANGED vars
  <2>1. WorkShape /\ QueueKeeps /\ WorkInv'
    BY <1>5 DEF vars, workerVars, testVars, EvalInv, ShapeInv, WorkShape, QueueKeeps,
                WorkInv, Working, Pending
  <2> QED
    BY <1>5, <2>1, WorkKeeps DEF vars, historyVars
<1> QED
  BY <1>1, <1>2, <1>3, <1>4, <1>5 DEF Next, WorkerStep, Surroundings

LEMMA EvalAlways == Spec => []EvalInv
BY InitEval, NextEval, PTL DEF Spec

-----------------------------------------------------------------------------
(* The scripts' variables keep their shape, and only requests that were    *)
(* sent are polled for.                                                    *)
THEOREM TypeCorrect == Spec => []TypeOK
<1>1. EvalInv => TypeOK
  BY DEF EvalInv, ShapeInv
<1> QED
  BY <1>1, EvalAlways, PTL

(* A request that is shown as waiting or running keeps later runs off the  *)
(* machine, by the answer of check-existence: a restore or an end-to-end   *)
(* test under a load test needs a run that the check could not see, an     *)
(* answer that was lost, or a message that came back too early; for any    *)
(* number of runs and workers.                                             *)
THEOREM UndisturbedTestAlways == Spec => []UndisturbedTest
<1>1. EvalInv => UndisturbedTest
  <2> SUFFICES ASSUME EvalInv, NEW w \in Workers, NEW m \in Requests, pc[w] = "testing",
                      AtWork(m), job[w] \notin overrun
               PROVE  m \in intruded
    BY DEF UndisturbedTest
  <2>1. job[w] \in Requests /\ queue[job[w]] = "hidden"
    BY DEF EvalInv, WorkInv, Working
  <2>2. queue[m] = "unsent"
    BY DEF EvalInv, SentInv
  <2> QED
    BY <2>1, <2>2 DEF EvalInv, ApartInv, Busy, Pending
<1> QED
  BY <1>1, EvalAlways, PTL

(* Without such a run or message the first test of a request finds what    *)
(* its own run restored for it.                                            *)
THEOREM TestedAsRestoredAlways == Spec => TestedAsRestored
<1>1. EvalInv /\ [Next]_vars =>
        [\A m \in Requests \ (tested \union intruded) : Starts(m) /\ overrun = {} =>
            again[m] /\ database = "load" /\ (migrated \/ m \in unmigrated)]_vars
  <2> SUFFICES ASSUME EvalInv, NEW m \in Requests \ (tested \union intruded),
                      Starts(m), overrun = {}
               PROVE  again[m] /\ database = "load" /\ (migrated \/ m \in unmigrated)
    OBVIOUS
  <2>1. PICK w \in Workers : job[w] = m
    BY DEF Starts
  <2>2. Pending(m)
    BY <2>1, NamesAssumption DEF EvalInv, WorkInv, Pending
  <2> QED
    BY <2>2 DEF EvalInv, DataInv
<1> QED
  BY <1>1, EvalAlways, PTL DEF Spec, TestedAsRestored

-----------------------------------------------------------------------------
(* The theorems about the workers carry over to the composition: their     *)
(* module, with the variables of this one.                                 *)
WP == INSTANCE LoadTestWorkerProofs

LEMMA SameQueue ==
    ASSUME NEW m \in Requests
    PROVE  /\ W!Submit(m) <=> WP!Submit(m)
           /\ W!Reappear(m) \/ W!Overrun(m) \/ W!Age(m) => WP!Reappear(m) \/ WP!Overrun(m) \/ WP!Age(m)
<1> USE DEF W!Fault, WP!Fault, W!Upsert, WP!Upsert, W!Active, WP!Active, W!InHands, WP!InHands,
        W!workerVars, WP!workerVars, W!outcome, WP!outcome, W!history, WP!history,
        W!tableVars, WP!tableVars, W!queueVars, WP!queueVars
<1>1. W!Submit(m) <=> WP!Submit(m)
  BY DEF W!Submit, WP!Submit
<1>2. W!Reappear(m) <=> WP!Reappear(m)
  BY DEF W!Reappear, WP!Reappear
<1>3. W!Overrun(m) <=> WP!Overrun(m)
  BY DEF W!Overrun, WP!Overrun
<1>4. W!Age(m) <=> WP!Age(m)
  BY DEF W!Age, WP!Age
<1> QED
  BY <1>1, <1>2, <1>3, <1>4

LEMMA SameWorker ==
    ASSUME NEW w \in Workers
    PROVE  W!WorkerStep(w) \/ W!GiveUp(w) \/ W!Crash(w) =>
               WP!WorkerStep(w) \/ WP!GiveUp(w) \/ WP!Crash(w)
<1> USE DEF W!Fault, WP!Fault, W!Upsert, WP!Upsert, W!TryUpsert, WP!TryUpsert, W!Active, WP!Active,
        W!Goto, WP!Goto, W!Poll, WP!Poll, W!TryDelete, WP!TryDelete,
        W!outcome, WP!outcome, W!history, WP!history,
        W!tableVars, WP!tableVars, W!queueVars, WP!queueVars
<1>1. W!Dequeue(w) <=> WP!Dequeue(w)
  BY DEF W!Dequeue, WP!Dequeue
<1>2. W!DropMalformed(w) <=> WP!DropMalformed(w)
  BY DEF W!DropMalformed, WP!DropMalformed
<1>3. W!MarkRunning(w) <=> WP!MarkRunning(w)
  BY DEF W!MarkRunning, WP!MarkRunning
<1>4. W!Check(w) <=> WP!Check(w)
  BY DEF W!Check, WP!Check
<1>5. W!AcquireLock(w) <=> WP!AcquireLock(w)
  BY DEF W!AcquireLock, WP!AcquireLock
<1>6. W!RunLoadTest(w) <=> WP!RunLoadTest(w)
  BY DEF W!RunLoadTest, WP!RunLoadTest
<1>7. W!PostScore(w) <=> WP!PostScore(w)
  BY DEF W!PostScore, WP!PostScore
<1>8. W!ReleaseLock(w) <=> WP!ReleaseLock(w)
  BY DEF W!ReleaseLock, WP!ReleaseLock
<1>9. W!Report(w) <=> WP!Report(w)
  BY DEF W!Report, WP!Report
<1>10. W!MarkFailed(w) <=> WP!MarkFailed(w)
  BY DEF W!MarkFailed, WP!MarkFailed
<1>11. W!Delete(w) <=> WP!Delete(w)
  BY DEF W!Delete, WP!Delete
<1>12. W!GiveUp(w) <=> WP!GiveUp(w)
  BY DEF W!GiveUp, WP!GiveUp
<1>13. W!Crash(w) <=> WP!Crash(w)
  BY DEF W!Crash, WP!Crash
<1> QED
  BY <1>1, <1>2, <1>3, <1>4, <1>5, <1>6, <1>7, <1>8, <1>9, <1>10, <1>11, <1>12, <1>13
     DEF W!WorkerStep, WP!WorkerStep

(* A step of the composition is one of the workers and the queue, or       *)
(* touches nothing of theirs but the count of the faults.                  *)
Beside == UNCHANGED testVars /\ (UNCHANGED faults \/ W!Fault)

LEMMA StepOrBeside == [Next]_vars => WP!Next \/ Beside
<1> SUFFICES ASSUME [Next]_vars PROVE WP!Next \/ Beside
  OBVIOUS
<1>1. ASSUME NEW m \in Requests, ScriptStep(m) \/ GetStatus(m) PROVE WP!Next \/ Beside
  <2>1. CASE RequestLoadTest(m)
    BY <2>1, SameQueue DEF RequestLoadTest, WP!Next, Beside, workerVars
  <2>2. CASE CheckExistence(m)
    BY <2>2 DEF CheckExistence, Beside
  <2>3. CASE Recreate(m) \/ CreateTables(m) \/ Load(m)
    BY <2>3 DEF Recreate, CreateTables, Load, Fails, Beside
  <2>4. CASE Migrate(m)
    BY <2>4 DEF Migrate, Beside
  <2>5. CASE StartE2E(m) \/ EndE2E(m) \/ GetStatus(m)
    BY <2>5 DEF StartE2E, EndE2E, GetStatus, Beside, workerVars
  <2> QED
    BY <1>1, <2>1, <2>2, <2>3, <2>4, <2>5 DEF ScriptStep
<1>2. ASSUME NEW w \in Workers, WorkerStep(w) PROVE WP!Next
  <2>1. W!WorkerStep(w)
    BY <1>2 DEF WorkerStep, StartTest, W!WorkerStep
  <2> QED
    BY <2>1, SameWorker DEF WP!Next
<1>3. CASE Surroundings
  BY <1>3, SameQueue, SameWorker DEF Surroundings, WP!Next
<1>4. CASE UNCHANGED vars
  BY <1>4 DEF vars, workerVars, Beside
<1> QED
  BY <1>1, <1>2, <1>3, <1>4 DEF Next

LEMMA WorkersInit == Init => WP!WInv
<1>1. Init => WP!Init
  BY DEF Init, W!Init, WP!Init
<1> QED
  BY <1>1, NamesAssumption, WP!InitW DEF WP!RequestsAssumption

LEMMA WorkersNext == WP!WInv /\ [Next]_vars => WP!WInv'
<1> SUFFICES ASSUME WP!WInv, [Next]_vars PROVE WP!WInv'
  OBVIOUS
<1>1. CASE WP!Next
  BY <1>1, NamesAssumption, WP!NextW DEF WP!RequestsAssumption
<1>2. CASE Beside
  <2>1. UNCHANGED testVars /\ faults' \in 0 .. MaxFaults
    BY <1>2, NamesAssumption DEF Beside, W!Fault, WP!WInv, WP!TypeOK
  <2> QED
    BY <2>1
       DEF testVars, WP!WInv, WP!TypeOK, WP!JobInv, WP!HolderInv, WP!SentInv, WP!MarkInv,
           WP!PassedInv, WP!OutcomeInv, WP!FinishedIsScored, WP!DeletedHasOutcome,
           WP!Working, WP!Marked, WP!Active, WP!Excused
<1> QED
  BY <1>1, <1>2, StepOrBeside

LEMMA WorkersInvariant == Spec => []WP!WInv
BY WorkersInit, WorkersNext, PTL DEF Spec

(* The guarantees of the workers hold on a machine that run.sh restores,   *)
(* tests and polls for at the same time, whatever runs the team starts: a  *)
(* second test at once is excused, what is shown as finished is scored,    *)
(* and no message is deleted without an outcome.                           *)
THEOREM WorkersKeepTheirPromises ==
    Spec => [](W!TypeOK /\ W!OneTestPerTeam /\ W!FinishedIsScored /\ W!DeletedHasOutcome)
<1>1. WP!WInv => W!TypeOK
  BY DEF WP!WInv, WP!TypeOK, W!TypeOK, WP!Pc, W!Pc
<1>2. WP!WInv => W!OneTestPerTeam
  BY DEF WP!WInv, WP!TypeOK, WP!PassedInv, WP!Excused, W!OneTestPerTeam, W!Testing
<1>3. WP!WInv => W!FinishedIsScored /\ W!DeletedHasOutcome
  BY DEF WP!WInv, WP!FinishedIsScored, W!FinishedIsScored, WP!DeletedHasOutcome,
         W!DeletedHasOutcome
<1> QED
  BY <1>1, <1>2, <1>3, WorkersInvariant, PTL

(* Neither the scripts nor their restores delete a message: it goes only   *)
(* from the hands of the worker that took it last and is done with it.     *)
THEOREM WorkersDeleteTheirOwn == Spec => W!DeletedByHolder
<1>1. WP!WInv /\ [Next]_vars =>
        [\A m \in Requests : queue[m] # "deleted" /\ queue'[m] = "deleted" =>
            W!InHands(m) /\ pc[receipt[m]] \in {"received", "deleting"}]_W!vars
  <2> SUFFICES ASSUME WP!WInv, [Next]_vars, NEW m \in Requests,
                      queue[m] # "deleted", queue'[m] = "deleted"
               PROVE  W!InHands(m) /\ pc[receipt[m]] \in {"received", "deleting"}
    OBVIOUS
  <2>1. WP!Next
    BY StepOrBeside DEF Beside, testVars
  <2>2. WP!RightlyDeleted
    BY <2>1, NamesAssumption, WP!DeletesRightly DEF WP!RequestsAssumption
  <2> QED
    BY <2>2 DEF WP!RightlyDeleted, WP!InHands, W!InHands
<1> QED
  BY <1>1, WorkersInvariant, PTL DEF Spec, W!DeletedByHolder

(* On one machine all requests are of one team: two tests of it at once    *)
(* need a message that came back while it was worked on, or a mark that    *)
(* failed.  Otherwise nothing but the one test uses the database.          *)
THEOREM OneTestOnTheMachine ==
    Spec => [](overrun = {} /\ unmarked = {} =>
                   \A v, w \in Workers :
                       pc[v] = "testing" /\ pc[w] = "testing" => v = w)
<1>1. WP!WInv => (overrun = {} /\ unmarked = {} =>
                   \A v, w \in Workers :
                       pc[v] = "testing" /\ pc[w] = "testing" => v = w)
  <2> SUFFICES ASSUME WP!WInv, overrun = {}, unmarked = {}, NEW v \in Workers, NEW w \in Workers,
                      pc[v] = "testing", pc[w] = "testing", v # w
               PROVE  FALSE
    OBVIOUS
  <2>1. job[v] \in Requests /\ job[w] \in Requests
    BY DEF WP!WInv, WP!TypeOK, WP!JobInv, WP!Working
  <2>2. Team[job[v]] = Team[job[w]]
    BY <2>1, OneMachine
  <2> QED
    BY <2>2 DEF WP!WInv, WP!PassedInv, WP!Excused
<1> QED
  BY <1>1, WorkersInvariant, PTL
=============================================================================
