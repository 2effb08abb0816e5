------------------------ MODULE LoadTestWorkerProofs ------------------------
(***************************************************************************)
(* Theorems about LoadTestWorker, for any number of workers, requests,     *)
(* teams and faults.                                                       *)
(***************************************************************************)
EXTENDS LoadTestWorker, TLAPS

Working(w) == pc[w] # "polling"

(* Where the row of a worker's request has been marked.                    *)
Marked(w) == pc[w] \in {"marked", "passed", "testing"}

(* A worker has a request exactly while it is not polling, and past the    *)
(* parsing that request is not malformed.                                  *)
JobInv ==
    \A w \in Workers :
        /\ Working(w) <=> job[w] # NoRequest
        /\ Working(w) /\ pc[w] # "received" => job[w] \notin Malformed

(* A request that never overran is worked on by the worker that took it    *)
(* last and by no other, and its message is hidden meanwhile.              *)
HolderInv ==
    \A w \in Workers :
        Working(w) /\ job[w] \notin overrun =>
            receipt[job[w]] = w /\ queue[job[w]] = "hidden"

(* No worker has a request that was not sent.                              *)
SentInv == \A w \in Workers : Working(w) => queue[job[w]] # "unsent"

Excused == overrun \union unmarked

(* The row of a marked request counts as running for everybody else.       *)
MarkInv ==
    \A w \in Workers :
        Marked(w) /\ job[w] \notin Excused => Active(job[w])

(* Two workers past the check, at one team: one of the two is excused.     *)
PassedInv ==
    \A v, w \in Workers :
        /\ v # w
        /\ pc[v] \in {"passed", "testing"} /\ pc[w] \in {"passed", "testing"}
        /\ Team[job[v]] = Team[job[w]]
        => job[v] \in Excused \/ job[w] \in Excused

(* What a worker has done for its request when it is at a given point.     *)
OutcomeInv ==
    \A w \in Workers :
        /\ pc[w] = "posted" => job[w] \in registered
        /\ pc[w] = "reported" => job[w] \in deadLetters \union unreported
        /\ pc[w] = "deleting" => job[w] \in registered \union deadLetters \union unreported

WInv ==
    /\ TypeOK /\ JobInv /\ HolderInv /\ SentInv /\ MarkInv /\ PassedInv
    /\ OutcomeInv /\ FinishedIsScored /\ DeletedHasOutcome

-----------------------------------------------------------------------------
LEMMA InitW == Init => WInv
BY RequestsAssumption
   DEF Init, WInv, TypeOK, JobInv, HolderInv, SentInv, MarkInv, PassedInv, OutcomeInv,
       FinishedIsScored, DeletedHasOutcome, Working, Marked, Pc

(* The parts of the handlers keep the types of what they write.            *)
LEMMA FaultType == TypeOK /\ Fault => faults' \in 0 .. MaxFaults
BY RequestsAssumption DEF TypeOK, Fault

LEMMA UpsertType ==
    ASSUME TypeOK, NEW m \in Requests,
           NEW s \in {"none", "waiting", "running", "finished", "failed"}, TryUpsert(m, s)
    PROVE  /\ rowStatus' \in [Requests -> {"none", "waiting", "running", "finished", "failed"}]
           /\ recent' \in [Requests -> BOOLEAN]
           /\ faults' \in 0 .. MaxFaults
<1>1. CASE Upsert(m, s) /\ UNCHANGED faults
  BY <1>1 DEF TypeOK, Upsert
<1>2. CASE Fault /\ UNCHANGED tableVars
  BY <1>2, FaultType DEF TypeOK, tableVars
<1> QED
  BY <1>1, <1>2 DEF TryUpsert

LEMMA NextType ==
    ASSUME TypeOK, JobInv, [Next]_vars
    PROVE  TypeOK'
<1> USE RequestsAssumption, FaultType
    DEF TypeOK, JobInv, Working, Pc, Upsert, TryDelete, Goto, Poll, queueVars, tableVars,
        workerVars, outcome, history
<1>1. ASSUME NEW m \in Requests, Submit(m) PROVE TypeOK'
  BY <1>1 DEF Submit
<1>2. ASSUME NEW m \in Requests, Reappear(m) PROVE TypeOK'
  BY <1>2 DEF Reappear
<1>3. ASSUME NEW m \in Requests, Overrun(m) PROVE TypeOK'
  BY <1>3 DEF Overrun
<1>4. ASSUME NEW m \in Requests, Age(m) PROVE TypeOK'
  BY <1>4 DEF Age
<1>5. ASSUME NEW w \in Workers, Dequeue(w) PROVE TypeOK'
  BY <1>5 DEF Dequeue
<1>6. ASSUME NEW w \in Workers, DropMalformed(w) PROVE TypeOK'
  BY <1>6 DEF DropMalformed
<1>7. ASSUME NEW w \in Workers, MarkRunning(w) PROVE TypeOK'
  <2>1. job[w] \in Requests
    BY <1>7 DEF MarkRunning
  <2>2. CASE Upsert(job[w], "running") /\ UNCHANGED <<faults, unmarked>>
    BY <1>7, <2>1, <2>2 DEF MarkRunning
  <2>3. CASE Fault /\ unmarked' = unmarked \union {job[w]} /\ UNCHANGED tableVars
    BY <1>7, <2>1, <2>3 DEF MarkRunning
  <2> QED
    BY <1>7, <2>2, <2>3 DEF MarkRunning
<1>8. ASSUME NEW w \in Workers, Check(w) PROVE TypeOK'
  BY <1>8 DEF Check
<1>9. ASSUME NEW w \in Workers, GiveUp(w) PROVE TypeOK'
  BY <1>9 DEF GiveUp
<1>10. ASSUME NEW w \in Workers, AcquireLock(w) PROVE TypeOK'
  BY <1>10 DEF AcquireLock
<1>11. ASSUME NEW w \in Workers, RunLoadTest(w) PROVE TypeOK'
  BY <1>11 DEF RunLoadTest
<1>12. ASSUME NEW w \in Workers, PostScore(w) PROVE TypeOK'
  <2>1. job[w] \in Requests
    BY <1>12 DEF PostScore
  <2>2. registered' \subseteq Requests
    BY <1>12, <2>1 DEF PostScore
  <2>3. faults' \in 0 .. MaxFaults
    BY <1>12 DEF PostScore
  <2>4. Goto(w, "posted") \/ Goto(w, "failing")
    BY <1>12 DEF PostScore
  <2>5. pc' \in [Workers -> Pc] /\ job' \in [Workers -> Requests \union {NoRequest}]
    BY <2>4
  <2> QED
    BY <1>12, <2>2, <2>3, <2>5 DEF PostScore
<1>13. ASSUME NEW w \in Workers, ReleaseLock(w) PROVE TypeOK'
  <2>1. job[w] \in Requests /\ TryUpsert(job[w], "finished") /\ Goto(w, "deleting")
    BY <1>13 DEF ReleaseLock
  <2> QED
    BY <1>13, <2>1, UpsertType DEF ReleaseLock
<1>14. ASSUME NEW w \in Workers, Report(w) PROVE TypeOK'
  <2>1. job[w] \in Requests
    BY <1>14 DEF Report
  <2>2. deadLetters' \subseteq Requests /\ unreported' \subseteq Requests
    BY <1>14, <2>1 DEF Report
  <2>3. faults' \in 0 .. MaxFaults
    BY <1>14 DEF Report
  <2> QED
    BY <1>14, <2>2, <2>3 DEF Report
<1>15. ASSUME NEW w \in Workers, MarkFailed(w) PROVE TypeOK'
  <2>1. job[w] \in Requests /\ TryUpsert(job[w], "failed") /\ Goto(w, "deleting")
    BY <1>15 DEF MarkFailed
  <2> QED
    BY <1>15, <2>1, UpsertType DEF MarkFailed
<1>16. ASSUME NEW w \in Workers, Delete(w) PROVE TypeOK'
  BY <1>16 DEF Delete
<1>17. ASSUME NEW w \in Workers, Crash(w) PROVE TypeOK'
  BY <1>17 DEF Crash
<1>18. CASE UNCHANGED vars
  BY <1>18 DEF vars
<1> QED
  BY <1>1, <1>2, <1>3, <1>4, <1>5, <1>6, <1>7, <1>8, <1>9, <1>10, <1>11, <1>12, <1>13,
     <1>14, <1>15, <1>16, <1>17, <1>18 DEF Next, WorkerStep

LEMMA NextW == WInv /\ [Next]_vars => WInv'
<1> SUFFICES ASSUME WInv, [Next]_vars PROVE WInv'
  OBVIOUS
<1>0. TypeOK /\ TypeOK'
  BY NextType DEF WInv
<1> USE RequestsAssumption, <1>0
    DEF WInv, JobInv, HolderInv, SentInv, MarkInv, PassedInv, OutcomeInv, FinishedIsScored,
        DeletedHasOutcome, Working, Marked, Active, Excused, InHands, TypeOK, Fault, Upsert,
        Goto, Poll, queueVars, tableVars, workerVars, outcome, history
<1>1. ASSUME NEW m \in Requests, Submit(m) PROVE WInv'
  BY <1>1 DEF Submit
<1>2. ASSUME NEW m \in Requests, Reappear(m) PROVE WInv'
  BY <1>2 DEF Reappear
<1>3. ASSUME NEW m \in Requests, Overrun(m) PROVE WInv'
  BY <1>3 DEF Overrun
<1>4. ASSUME NEW m \in Requests, Age(m) PROVE WInv'
  BY <1>4 DEF Age
<1>5. ASSUME NEW w \in Workers, Dequeue(w) PROVE WInv'
  BY <1>5 DEF Dequeue
<1>6. ASSUME NEW w \in Workers, DropMalformed(w) PROVE WInv'
  BY <1>6 DEF DropMalformed, TryDelete
<1>7. ASSUME NEW w \in Workers, MarkRunning(w) PROVE WInv'
  BY <1>7 DEF MarkRunning
<1>8. ASSUME NEW w \in Workers, Check(w) PROVE WInv'
  BY <1>8 DEF Check
<1>9. ASSUME NEW w \in Workers, GiveUp(w) \/ Crash(w) PROVE WInv'
  BY <1>9 DEF GiveUp, Crash
<1>10. ASSUME NEW w \in Workers, AcquireLock(w) PROVE WInv'
  BY <1>10 DEF AcquireLock
<1>11. ASSUME NEW w \in Workers, RunLoadTest(w) PROVE WInv'
  BY <1>11 DEF RunLoadTest
<1>12. ASSUME NEW w \in Workers, PostScore(w) PROVE WInv'
  BY <1>12 DEF PostScore
<1>13. ASSUME NEW w \in Workers, ReleaseLock(w) PROVE WInv'
  BY <1>13 DEF ReleaseLock, TryUpsert
<1>14. ASSUME NEW w \in Workers, Report(w) PROVE WInv'
  BY <1>14 DEF Report
<1>15. ASSUME NEW w \in Workers, MarkFailed(w) PROVE WInv'
  BY <1>15 DEF MarkFailed, TryUpsert
<1>16. ASSUME NEW w \in Workers, Delete(w) PROVE WInv'
  BY <1>16 DEF Delete, TryDelete
<1>17. CASE UNCHANGED vars
  BY <1>17 DEF vars
<1> QED
  BY <1>1, <1>2, <1>3, <1>4, <1>5, <1>6, <1>7, <1>8, <1>9, <1>10, <1>11, <1>12, <1>13,
     <1>14, <1>15, <1>16, <1>17 DEF Next, WorkerStep

LEMMA WInvariant == Spec => []WInv
BY InitW, NextW, PTL DEF Spec

-----------------------------------------------------------------------------
(* Every variable keeps its shape.                                         *)
THEOREM TypeCorrect == Spec => []TypeOK
BY WInvariant, PTL DEF WInv

(* Two tests of one team at once need a message that came back while it    *)
(* was worked on, or a mark that failed: marking first and looking after   *)
(* keeps them apart otherwise, for any number of workers.                  *)
THEOREM OneTestPerTeamAlways == Spec => []OneTestPerTeam
<1>1. WInv => OneTestPerTeam
  BY DEF WInv, TypeOK, PassedInv, OneTestPerTeam, Testing, Excused
<1> QED
  BY <1>1, WInvariant, PTL

(* What get_test_status.sh shows as finished has a score to show.          *)
THEOREM FinishedIsScoredAlways == Spec => []FinishedIsScored
BY WInvariant, PTL DEF WInv

(* No message is deleted without an outcome of its request.                *)
THEOREM DeletedHasOutcomeAlways == Spec => []DeletedHasOutcome
BY WInvariant, PTL DEF WInv

(* What a step may delete: what is in the hands of a worker done with it.  *)
RightlyDeleted ==
    \A m \in Requests : queue[m] # "deleted" /\ queue'[m] = "deleted" =>
        InHands(m) /\ pc[receipt[m]] \in {"received", "deleting"}

LEMMA DeletesRightly == WInv /\ Next => RightlyDeleted
<1> SUFFICES ASSUME WInv, Next, NEW m \in Requests,
                    queue[m] # "deleted", queue'[m] = "deleted"
             PROVE  InHands(m) /\ pc[receipt[m]] \in {"received", "deleting"}
  BY DEF RightlyDeleted
<1> USE RequestsAssumption DEF WInv, TypeOK, queueVars
<1>1. ASSUME NEW k \in Requests, Submit(k) \/ Reappear(k) \/ Overrun(k) \/ Age(k)
      PROVE  FALSE
  BY <1>1 DEF Submit, Reappear, Overrun, Age
<1>2. ASSUME NEW w \in Workers, DropMalformed(w) \/ Delete(w)
      PROVE  InHands(m) /\ pc[receipt[m]] \in {"received", "deleting"}
  <2>1. job[w] = m /\ receipt[m] = w
    BY <1>2 DEF DropMalformed, Delete, TryDelete
  <2> QED
    BY <1>2, <2>1 DEF DropMalformed, Delete, InHands
<1>3. ASSUME NEW w \in Workers,
             ~(DropMalformed(w) \/ Delete(w)), WorkerStep(w) \/ GiveUp(w) \/ Crash(w)
      PROVE  FALSE
  <2>1. ~Dequeue(w)
    BY DEF Dequeue
  <2> QED
    BY <1>3, <2>1
       DEF WorkerStep, GiveUp, Crash, MarkRunning, Check, AcquireLock, RunLoadTest,
           PostScore, ReleaseLock, Report, MarkFailed
<1> QED
  BY <1>1, <1>2, <1>3 DEF Next

(* Only the worker that took a message last deletes it, and only when it   *)
(* is done with it.                                                        *)
THEOREM DeletedByHolderAlways == Spec => DeletedByHolder
<1>1. WInv /\ [Next]_vars =>
        [\A m \in Requests : queue[m] # "deleted" /\ queue'[m] = "deleted" =>
            InHands(m) /\ pc[receipt[m]] \in {"received", "deleting"}]_vars
  BY DeletesRightly DEF RightlyDeleted
<1> QED
  BY <1>1, WInvariant, PTL DEF Spec, DeletedByHolder
=============================================================================
