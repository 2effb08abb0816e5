----------------------------- MODULE Evaluation -----------------------------
(***************************************************************************)
(* run.sh on the virtual machine of one team, composed with the load test  *)
(* workers.  A run of the script asks whether a load test is under way,    *)
(* restores the database for the end-to-end tests, runs them, restores the *)
(* data of the load test, and requests it; get_test_status.sh then polls.  *)
(* A worker tests the machine with the database as it finds it.            *)
(*                                                                         *)
(* Members of the team may run the script at once, a restore may fail      *)
(* half-way, and a test may be started again by redelivery.                *)
(***************************************************************************)
EXTENDS Integers, FiniteSets

CONSTANTS Workers, NoWorker, Requests, NoRequest, Team, Malformed, MaxFaults

VARIABLES
    queue, receipt, rowStatus, recent, pc, job, registered, deadLetters, faults,
    overrun, unmarked, unreported,  \* as in LoadTestWorker
    script,     \* request -> how far the run of run.sh is that sends it
    again,      \* request -> its run has passed the end-to-end tests
    database,   \* what the tables hold; "part": a load that broke off
    migrated,   \* the migration files are applied
    intruded,   \* history: runs let pass beside one the check does not see
    unmigrated, \* history: runs whose last migration failed unnoticed
    tested      \* history: requests whose test has been started

W == INSTANCE LoadTestWorker

ASSUME OneMachine == \A m, k \in Requests : Team[m] = Team[k]

ASSUME NamesAssumption ==
    /\ NoRequest \notin Requests /\ NoWorker \notin Workers
    /\ Malformed \subseteq Requests /\ MaxFaults \in Nat

scriptVars == <<script, again>>
machineVars == <<database, migrated>>
historyVars == <<intruded, unmigrated, tested>>
testVars == <<queue, receipt, rowStatus, recent, pc, job, registered, deadLetters,
              overrun, unmarked, unreported>>
workerVars == <<testVars, faults>>
vars == <<workerVars, scriptVars, machineVars, historyVars>>

Script == {"idle", "recreate", "create", "load", "migrate", "e2e", "checking",
           "request", "polling", "ended"}
Data == {"none", "tables", "part", "e2e", "load", "used"}

Init ==
    /\ W!Init
    /\ script = [m \in Requests |-> "idle"] /\ again = [m \in Requests |-> FALSE]
    /\ database = "used" /\ migrated = TRUE
    /\ intruded = {} /\ unmigrated = {} /\ tested = {}

Step(m, label) == script' = [script EXCEPT ![m] = label]

Goto(m, label) == Step(m, label) /\ UNCHANGED again

(* The run is at work on the machine.                                      *)
AtWork(m) == script[m] \notin {"idle", "polling", "ended"}

Pending(m) == queue[m] \in {"visible", "hidden"}

-----------------------------------------------------------------------------
(* The check and the end-to-end tests of run.sh.                           *)

(* isExist: a request of the team is waiting or running.                   *)
IsExists == \E k \in Requests : W!Active(k)

(* The run of m goes on; those it is let pass beside are on record.        *)
LetPass(m, beside) ==
    /\ Goto(m, "recreate")
    /\ intruded' = intruded \union beside \union (IF beside = {} THEN {} ELSE {m})

(* What the check cannot see: a run that has not yet sent its request, and *)
(* a message that is left over from a test that is shown as ended.         *)
Unseen(m) == {k \in Requests \ {m} : AtWork(k) \/ (Pending(k) /\ ~W!Active(k))}

(* Variant: the answer is not looked at.                                   *)
CheckExistence_Unasked(m) ==
    /\ script[m] = "idle"
    /\ LetPass(m, Unseen(m))
    /\ UNCHANGED <<workerVars, machineVars, unmigrated, tested>>

(* An answer that does not come counts as a no, whatever it would have     *)
(* been.                                                                   *)
CheckExistence(m) ==
    /\ script[m] = "idle"
    /\ \/ IsExists /\ Goto(m, "ended") /\ UNCHANGED <<intruded, faults>>
       \/ ~IsExists /\ LetPass(m, Unseen(m)) /\ UNCHANGED faults
       \/ W!Fault /\ LetPass(m, {k \in Requests \ {m} : AtWork(k) \/ Pending(k)})
    /\ UNCHANGED <<testVars, machineVars, unmigrated, tested>>

(* The name of the container is taken as long as another run tests.        *)
StartE2E(m) ==
    /\ script[m] = "e2e"
    /\ IF \E k \in Requests : script[k] = "checking"
       THEN Goto(m, "ended")
       ELSE Goto(m, "checking")
    /\ UNCHANGED <<workerVars, machineVars, historyVars>>

(* Variant: the load test is requested on the data the tests have left.    *)
EndE2E_NoReset(m) ==
    /\ script[m] = "checking"
    /\ database' = "used"
    /\ Goto(m, "request") \/ Goto(m, "ended")
    /\ UNCHANGED <<workerVars, migrated, historyVars>>

(* The tests order and deliver.  Unless they pass set -e ends the run.     *)
EndE2E(m) ==
    /\ script[m] = "checking"
    /\ database' = "used"
    /\ \/ Step(m, "recreate") /\ again' = [again EXCEPT ![m] = TRUE]
       \/ Goto(m, "ended")
    /\ UNCHANGED <<workerVars, migrated, historyVars>>

-----------------------------------------------------------------------------
(* restore_and_migration.sh.                                               *)

Fails(m) == W!Fault /\ Goto(m, "ended")

(* restart_container.sh, whose failure is not looked at, and the DROP and  *)
(* CREATE of the database.                                                 *)
Recreate(m) ==
    /\ script[m] = "recreate"
    /\ \/ /\ database' = "none" /\ migrated' = FALSE
          /\ Goto(m, "create") /\ UNCHANGED faults
       \/ Fails(m) /\ UNCHANGED machineVars
    /\ UNCHANGED <<testVars, historyVars>>

(* init.sql drops what tables there are.                                   *)
CreateTables(m) ==
    /\ script[m] = "create"
    /\ \/ /\ database' = "tables" /\ migrated' = FALSE
          /\ Goto(m, "load") /\ UNCHANGED faults
       \/ Fails(m) /\ UNCHANGED machineVars
    /\ UNCHANGED <<testVars, historyVars>>

(* Of three files for the end-to-end tests only the last one's exit status *)
(* is looked at; the load test's is one file.                              *)
Load(m) ==
    /\ script[m] = "load"
    /\ \/ /\ database' = IF again[m] THEN "load" ELSE "e2e"
          /\ Goto(m, "migrate") /\ UNCHANGED faults
       \/ Fails(m) /\ database' = "part"
       \/ ~again[m] /\ W!Fault /\ database' = "part" /\ Goto(m, "migrate")
    /\ UNCHANGED <<testVars, migrated, historyVars>>

(* The status after the loop is that of its break: it never fails.         *)
Migrate(m) ==
    /\ script[m] = "migrate"
    /\ Goto(m, IF again[m] THEN "request" ELSE "e2e")
    /\ \/ migrated' = TRUE /\ UNCHANGED <<faults, unmigrated>>
       \/ W!Fault /\ UNCHANGED migrated /\ unmigrated' = unmigrated \union {m}
    /\ UNCHANGED <<testVars, database, intruded, tested>>

-----------------------------------------------------------------------------
(* The request and its status.                                             *)

(* Refused with isExists; without an answer the run ends, the request may  *)
(* have been taken.                                                        *)
RequestLoadTest(m) ==
    /\ script[m] = "request"
    /\ \/ W!Submit(m) /\ (Goto(m, "polling") \/ Goto(m, "ended"))
       \/ Goto(m, "ended") /\ UNCHANGED workerVars
    /\ UNCHANGED <<machineVars, historyVars>>

(* Variant: only a finished test ends the loop.                            *)
GetStatus_Finished(m) ==
    /\ script[m] = "polling" /\ rowStatus[m] = "finished"
    /\ Goto(m, "ended")
    /\ UNCHANGED <<workerVars, machineVars, historyVars>>

(* get_test_status.sh goes on while the status is waiting or running.      *)
GetStatus(m) ==
    /\ script[m] = "polling" /\ rowStatus[m] \notin {"waiting", "running"}
    /\ Goto(m, "ended")
    /\ UNCHANGED <<workerVars, machineVars, historyVars>>

-----------------------------------------------------------------------------
(* The workers.  A test starts with the lock and orders and delivers.      *)

StartTest(w) ==
    /\ W!AcquireLock(w)
    /\ database' = "used"
    /\ tested' = tested \union {job[w]}
    /\ UNCHANGED <<scriptVars, migrated, intruded, unmigrated>>

WorkerStep(w) ==
    \/ StartTest(w)
    \/ W!WorkerStep(w) /\ pc[w] # "passed" /\ UNCHANGED <<scriptVars, machineVars, historyVars>>

Surroundings ==
    /\ \/ \E m \in Requests : W!Reappear(m) \/ W!Overrun(m) \/ W!Age(m)
       \/ \E w \in Workers : W!GiveUp(w) \/ W!Crash(w)
    /\ UNCHANGED <<scriptVars, machineVars, historyVars>>

ScriptStep(m) ==
    \/ CheckExistence(m) \/ Recreate(m) \/ CreateTables(m) \/ Load(m) \/ Migrate(m)
    \/ StartE2E(m) \/ EndE2E(m) \/ RequestLoadTest(m)

Next ==
    \/ \E m \in Requests : ScriptStep(m) \/ GetStatus(m)
    \/ \E w \in Workers : WorkerStep(w)
    \/ Surroundings

Spec == Init /\ [][Next]_vars

(* That of the workers; and the status is asked for again and again.       *)
Fairness ==
    /\ \A w \in Workers : WF_vars(WorkerStep(w))
    /\ \A m \in Requests :
        /\ WF_vars(W!Reappear(m) /\ UNCHANGED <<scriptVars, machineVars, historyVars>>)
        /\ WF_vars(GetStatus(m))

FairSpec == Spec /\ Fairness

-----------------------------------------------------------------------------
(* The variables of the scripts keep their shape; a run is polled for only *)
(* when its request was sent.                                              *)
TypeOK ==
    /\ script \in [Requests -> Script] /\ again \in [Requests -> BOOLEAN]
    /\ database \in Data /\ migrated \in BOOLEAN
    /\ intruded \subseteq Requests /\ unmigrated \subseteq Requests /\ tested \subseteq Requests
    /\ \A m \in Requests : script[m] = "polling" => queue[m] # "unsent"

Starts(m) == \E w \in Workers : job[w] = m /\ pc[w] # "testing" /\ pc'[w] = "testing"

(* The first test of a request finds the data its own run has restored for *)
(* it, untouched by end-to-end tests, other tests and half loads; and      *)
(* migrated, unless the migration failed, which nobody notices.  A second  *)
(* test, after redelivery, finds what the first has left.                  *)
TestedAsRestored ==
    [][\A m \in Requests \ (tested \union intruded) : Starts(m) /\ overrun = {} =>
            again[m] /\ database = "load" /\ (migrated \/ m \in unmigrated)]_vars

(* Nobody restores or tests end to end under a running load test, except   *)
(* where check-existence could not see it coming: both runs were past the  *)
(* check before either had sent its request, the answer got lost, or the   *)
(* message was left over or came back early.  A request that is shown as   *)
(* waiting or running keeps every later run off the machine.               *)
UndisturbedTest ==
    \A w \in Workers, m \in Requests :
        pc[w] = "testing" /\ AtWork(m) =>
            {job[w], m} \intersect (intruded \union overrun) # {}

(* Whoever polls for a request gets to see its end, unless its message is  *)
(* gone and the row was never updated, or another request of the team is   *)
(* shown as running.                                                       *)
PollEnds ==
    \A m \in Requests :
        script[m] = "polling" ~>
            \/ script[m] = "ended"
            \/ queue[m] = "deleted" /\ rowStatus[m] = "running"
            \/ \E k \in Requests \ {m} : W!Active(k)
=============================================================================
