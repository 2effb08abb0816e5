--------------------------- MODULE LoadTestWorker ---------------------------
(***************************************************************************)
(* The load test workers of benchmarker/worker.  Each takes a request off  *)
(* an Azure storage queue, runs the load test of that team and registers   *)
(* its score; a table of request rows, shared by all workers and by the    *)
(* server that accepts requests, keeps two tests of one team apart.        *)
(*                                                                         *)
(* The queue delivers at least once: a message taken off is hidden for the *)
(* visibility timeout and comes back unless it was deleted by whoever took *)
(* it last.  Every call of the worker to the queue, the table, the dead    *)
(* letter queue and the score server may fail.                             *)
(***************************************************************************)
EXTENDS Integers, FiniteSets

CONSTANTS
    Workers,      \* worker processes
    NoWorker,     \* nobody has taken the message yet
    Requests,     \* load_test_id of each message
    NoRequest,    \* an idle worker has none
    Team,         \* request -> team_id
    Malformed,    \* messages that are not JSON
    MaxFaults     \* bound: failed calls, crashes and overrun timeouts

ASSUME RequestsAssumption ==
    /\ NoRequest \notin Requests
    /\ Malformed \subseteq Requests
    /\ NoWorker \notin Workers
    /\ MaxFaults \in Nat

VARIABLES
    queue,      \* request -> where its message is
    receipt,    \* request -> worker whose pop receipt is the last one
    rowStatus,  \* request -> Status of its row; "none": no row
    recent,     \* request -> its row was updated within the hour
    pc,         \* worker -> how far processMessage is
    job,        \* worker -> the request it works on
    registered, \* requests whose score reached the server
    deadLetters,\* requests in the dead letter queue
    faults,     \* faults so far
    overrun,    \* history: requests that came back while being worked on
    unmarked,   \* history: requests whose row a worker failed to mark
    unreported  \* history: requests the dead letter queue did not take

queueVars == <<queue, receipt>>
tableVars == <<rowStatus, recent>>
workerVars == <<pc, job>>
outcome == <<registered, deadLetters>>
history == <<overrun, unmarked, unreported>>
vars == <<queueVars, tableVars, workerVars, outcome, faults, history>>

Pc == {"polling", "received", "marked", "passed", "testing", "tested", "posted",
       "failing", "reported", "deleting"}

Init ==
    /\ queue = [m \in Requests |-> "unsent"]
    /\ receipt = [m \in Requests |-> NoWorker]
    /\ rowStatus = [m \in Requests |-> "none"]
    /\ recent = [m \in Requests |-> FALSE]
    /\ pc = [w \in Workers |-> "polling"]
    /\ job = [w \in Workers |-> NoRequest]
    /\ registered = {} /\ deadLetters = {}
    /\ faults = 0
    /\ overrun = {} /\ unmarked = {} /\ unreported = {}

Fault == faults < MaxFaults /\ faults' = faults + 1

(* updateRequestStatus and acquireLock: upsert the row, UpdatedAt now.     *)
Upsert(m, s) ==
    /\ rowStatus' = [rowStatus EXCEPT ![m] = s]
    /\ recent' = [recent EXCEPT ![m] = TRUE]

(* An upsert whose error the worker only logs.                             *)
TryUpsert(m, s) ==
    \/ Upsert(m, s) /\ UNCHANGED faults
    \/ Fault /\ UNCHANGED tableVars

Active(m) == rowStatus[m] \in {"waiting", "running"} /\ recent[m]

Goto(w, label) == pc' = [pc EXCEPT ![w] = label] /\ UNCHANGED job

Poll(w) ==
    /\ pc' = [pc EXCEPT ![w] = "polling"]
    /\ job' = [job EXCEPT ![w] = NoRequest]

(* The worker that last took m still works on it.                          *)
InHands(m) == receipt[m] # NoWorker /\ job[receipt[m]] = m

-----------------------------------------------------------------------------
(* The server and the queue.                                               *)

(* run.sh is refused while the team has a request waiting or running.      *)
Submit(m) ==
    /\ queue[m] = "unsent"
    /\ \A k \in Requests : Team[k] = Team[m] => ~Active(k)
    /\ queue' = [queue EXCEPT ![m] = "visible"]
    /\ IF m \in Malformed THEN UNCHANGED tableVars ELSE Upsert(m, "waiting")
    /\ UNCHANGED <<receipt, workerVars, outcome, faults, history>>

(* The visibility timeout of a message nobody works on any more.           *)
Reappear(m) ==
    /\ queue[m] = "hidden" /\ ~InHands(m)
    /\ queue' = [queue EXCEPT ![m] = "visible"]
    /\ UNCHANGED <<receipt, tableVars, workerVars, outcome, faults, history>>

(* The test takes longer than the visibility timeout, which nobody renews. *)
Overrun(m) ==
    /\ queue[m] = "hidden" /\ InHands(m)
    /\ Fault
    /\ queue' = [queue EXCEPT ![m] = "visible"]
    /\ overrun' = overrun \union {m}
    /\ UNCHANGED <<receipt, tableVars, workerVars, outcome, unmarked, unreported>>

(* An hour passes over a row; a request being worked on is never that old. *)
Age(m) ==
    /\ recent[m]
    /\ \A w \in Workers : job[w] # m
    /\ recent' = [recent EXCEPT ![m] = FALSE]
    /\ UNCHANGED <<queueVars, rowStatus, workerVars, outcome, faults, history>>

-----------------------------------------------------------------------------
(* pollQueue and processMessage.                                           *)

Dequeue(w) ==
    /\ pc[w] = "polling"
    /\ \E m \in Requests :
        /\ queue[m] = "visible"
        /\ queue' = [queue EXCEPT ![m] = "hidden"]
        /\ receipt' = [receipt EXCEPT ![m] = w]
        /\ job' = [job EXCEPT ![w] = m]
    /\ pc' = [pc EXCEPT ![w] = "received"]
    /\ UNCHANGED <<tableVars, outcome, faults, history>>

(* Variant: whoever worked on the message deletes it.                      *)
TryDelete_AnyReceipt(w) ==
    \/ /\ queue' = [queue EXCEPT ![job[w]] = "deleted"]
       /\ UNCHANGED faults
    \/ Fault /\ UNCHANGED queue

(* DeleteMessage with the receipt of this worker; an error is only logged. *)
TryDelete(w) ==
    \/ /\ IF receipt[job[w]] = w
          THEN queue' = [queue EXCEPT ![job[w]] = "deleted"]
          ELSE UNCHANGED queue
       /\ UNCHANGED faults
    \/ Fault /\ UNCHANGED queue

DropMalformed(w) ==
    /\ pc[w] = "received" /\ job[w] \in Malformed
    /\ TryDelete(w)
    /\ Poll(w)
    /\ UNCHANGED <<receipt, tableVars, outcome, history>>

(* parseQueueMessage sets the row to running before any other is looked at.*)
MarkRunning(w) ==
    /\ pc[w] = "received" /\ job[w] \notin Malformed
    /\ \/ Upsert(job[w], "running") /\ UNCHANGED <<faults, unmarked>>
       \/ Fault /\ unmarked' = unmarked \union {job[w]} /\ UNCHANGED tableVars
    /\ Goto(w, "marked")
    /\ UNCHANGED <<queueVars, outcome, overrun, unreported>>

(* Variants: only the rows still waiting count; so does the own row.       *)
Check_WaitingOnly(w) ==
    /\ pc[w] = "marked"
    /\ IF \E k \in Requests \ {job[w]} :
            Team[k] = Team[job[w]] /\ Active(k) /\ rowStatus[k] = "waiting"
       THEN Poll(w)
       ELSE Goto(w, "passed")
    /\ UNCHANGED <<queueVars, tableVars, outcome, faults, history>>

Check_OwnRow(w) ==
    /\ pc[w] = "marked"
    /\ IF \E k \in Requests : Team[k] = Team[job[w]] /\ Active(k)
       THEN Poll(w)
       ELSE Goto(w, "passed")
    /\ UNCHANGED <<queueVars, tableVars, outcome, faults, history>>

(* isDuplicateOrSkip: another request of the team is waiting or running.   *)
(* The skipped message stays hidden and its own row stays running.         *)
Check(w) ==
    /\ pc[w] = "marked"
    /\ IF \E k \in Requests \ {job[w]} : Team[k] = Team[job[w]] /\ Active(k)
       THEN Poll(w)
       ELSE Goto(w, "passed")
    /\ UNCHANGED <<queueVars, tableVars, outcome, faults, history>>

(* isDuplicateOrSkip or acquireLock returns an error.                      *)
GiveUp(w) ==
    /\ pc[w] \in {"marked", "passed"}
    /\ Fault
    /\ Poll(w)
    /\ UNCHANGED <<queueVars, tableVars, outcome, history>>

AcquireLock(w) ==
    /\ pc[w] = "passed"
    /\ Upsert(job[w], "running")
    /\ Goto(w, "testing")
    /\ UNCHANGED <<queueVars, outcome, faults, history>>

(* run_k6.sh exits, with an error or not; an unreadable result counts 0.   *)
RunLoadTest(w) ==
    /\ pc[w] = "testing"
    /\ Goto(w, "tested") \/ Goto(w, "failing")
    /\ UNCHANGED <<queueVars, tableVars, outcome, faults, history>>

(* postScore: an error may come after the server has registered the score. *)
PostScore(w) ==
    /\ pc[w] = "tested"
    /\ \/ /\ registered' = registered \union {job[w]}
          /\ Goto(w, "posted")
          /\ UNCHANGED faults
       \/ /\ Fault
          /\ registered' \in {registered, registered \union {job[w]}}
          /\ Goto(w, "failing")
    /\ UNCHANGED <<queueVars, tableVars, deadLetters, history>>

ReleaseLock(w) ==
    /\ pc[w] = "posted"
    /\ TryUpsert(job[w], "finished")
    /\ Goto(w, "deleting")
    /\ UNCHANGED <<queueVars, outcome, history>>

(* Variant: the dead letter is left out.                                   *)
Report_Skipped(w) ==
    /\ pc[w] = "failing"
    /\ Goto(w, "reported")
    /\ UNCHANGED <<queueVars, tableVars, outcome, faults, history>>

(* markFailedAndDrop: dead letter, row, message.                           *)
Report(w) ==
    /\ pc[w] = "failing"
    /\ \/ deadLetters' = deadLetters \union {job[w]} /\ UNCHANGED <<faults, unreported>>
       \/ Fault /\ unreported' = unreported \union {job[w]} /\ UNCHANGED deadLetters
    /\ Goto(w, "reported")
    /\ UNCHANGED <<queueVars, tableVars, registered, overrun, unmarked>>

(* Variant: a failed request is shown as finished.                         *)
MarkFailed_Finished(w) ==
    /\ pc[w] = "reported"
    /\ TryUpsert(job[w], "finished")
    /\ Goto(w, "deleting")
    /\ UNCHANGED <<queueVars, outcome, history>>

MarkFailed(w) ==
    /\ pc[w] = "reported"
    /\ TryUpsert(job[w], "failed")
    /\ Goto(w, "deleting")
    /\ UNCHANGED <<queueVars, outcome, history>>

Delete(w) ==
    /\ pc[w] = "deleting"
    /\ TryDelete(w)
    /\ Poll(w)
    /\ UNCHANGED <<receipt, tableVars, outcome, history>>

(* The process dies, its test with it, and starts polling again.           *)
Crash(w) ==
    /\ pc[w] # "polling"
    /\ Fault
    /\ Poll(w)
    /\ UNCHANGED <<queueVars, tableVars, outcome, history>>

-----------------------------------------------------------------------------
WorkerStep(w) ==
    \/ Dequeue(w) \/ DropMalformed(w) \/ MarkRunning(w) \/ Check(w) \/ AcquireLock(w)
    \/ RunLoadTest(w) \/ PostScore(w) \/ ReleaseLock(w)
    \/ Report(w) \/ MarkFailed(w) \/ Delete(w)

Next ==
    \/ \E m \in Requests : Submit(m) \/ Reappear(m) \/ Overrun(m) \/ Age(m)
    \/ \E w \in Workers : WorkerStep(w) \/ GiveUp(w) \/ Crash(w)

Spec == Init /\ [][Next]_vars

(* Workers run on, and every hidden message comes back some day.           *)
Fairness ==
    /\ \A w \in Workers : WF_vars(WorkerStep(w))
    /\ \A m \in Requests : WF_vars(Reappear(m))

FairSpec == Spec /\ Fairness

-----------------------------------------------------------------------------
(* Every variable keeps its shape.                                         *)
TypeOK ==
    /\ queue \in [Requests -> {"unsent", "visible", "hidden", "deleted"}]
    /\ receipt \in [Requests -> Workers \union {NoWorker}]
    /\ rowStatus \in [Requests -> {"none", "waiting", "running", "finished", "failed"}]
    /\ recent \in [Requests -> BOOLEAN]
    /\ pc \in [Workers -> Pc]
    /\ job \in [Workers -> Requests \union {NoRequest}]
    /\ registered \subseteq Requests /\ deadLetters \subseteq Requests
    /\ faults \in 0 .. MaxFaults
    /\ overrun \subseteq Requests /\ unmarked \subseteq Requests
    /\ unreported \subseteq Requests

Testing(w) == pc[w] = "testing"

(* Two workers never test the servers of one team at once: each marks its  *)
(* own row before it looks at the others'.  A message that came back while *)
(* it was worked on, and a mark that failed, are excused.                  *)
OneTestPerTeam ==
    \A v, w \in Workers :
        v # w /\ Testing(v) /\ Testing(w) /\ Team[job[v]] = Team[job[w]] =>
            {job[v], job[w]} \intersect (overrun \union unmarked) # {}

(* Only one load test of a team runs at a time, as the manual of run.sh    *)
(* says.                                                                   *)
OneTestAtATime ==
    \A v, w \in Workers :
        Testing(v) /\ Testing(w) /\ Team[job[v]] = Team[job[w]] => v = w

(* A request is shown as finished only once its score is registered, also  *)
(* when a stale worker and a new one work on the same request.             *)
FinishedIsScored ==
    \A m \in Requests : rowStatus[m] = "finished" => m \in registered

(* A message is deleted only when its request has an outcome: a score, or  *)
(* a dead letter that was at least attempted.  No crash loses a request.   *)
DeletedHasOutcome ==
    \A m \in Requests \ Malformed :
        queue[m] = "deleted" => m \in registered \union deadLetters \union unreported

(* A message is deleted by the worker that took it last, when it is done   *)
(* with it: one who overran cannot delete it from under another.           *)
DeletedByHolder ==
    [][\A m \in Requests : queue[m] # "deleted" /\ queue'[m] = "deleted" =>
            InHands(m) /\ pc[receipt[m]] \in {"received", "deleting"}]_vars

(* Every request that can be taken leaves the queue in the end, or the     *)
(* worker that had it met another active request of its team: the check    *)
(* for running requests and the delay of a message never starve a request  *)
(* that has no competitor.                                                 *)
RequestIsSettled ==
    \A m \in Requests :
        queue[m] = "visible" ~>
            (queue[m] = "deleted" \/ \E k \in Requests \ {m} : Team[k] = Team[m] /\ Active(k))
=============================================================================
