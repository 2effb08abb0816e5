----------------------------- MODULE RequestPool -----------------------------
(***************************************************************************)
(* How the backend's requests share the connection pool and the rows of    *)
(* the orders table.  A request is a sequence of database calls; each call *)
(* outside a transaction takes a connection and gives it back, a           *)
(* transaction keeps one from BEGIN to COMMIT or ROLLBACK, and an UPDATE   *)
(* of orders waits for the rows, which a transaction keeps to its end.     *)
(*                                                                         *)
(* What the calls read and write is in OrderDelivery and Listing.          *)
(***************************************************************************)
EXTENDS Integers, Sequences, FiniteSets

CONSTANTS
    Requests,   \* requests, each sent once
    Kind,       \* request -> what it asks for
    NoRequest,  \* nobody has the rows
    MaxConns,   \* SetMaxOpenConns (50)
    MaxFaults   \* bound: timeouts, disconnects and database errors

Kinds == {"login", "products", "history", "image", "order", "plan", "status"}

ASSUME PoolAssumption ==
    /\ Kind \in [Requests -> Kinds]
    /\ NoRequest \notin Requests
    /\ MaxConns \in Nat \ {0}
    /\ MaxFaults \in Nat

VARIABLES
    at,      \* request -> its next call; 0: not sent, Last + 1: all done
    open,    \* requests whose transaction is open, with its connection
    busy,    \* requests whose call has a connection of its own
    rows,    \* the transaction that has updated the rows, or NoRequest
    answer,  \* request -> "none", "ok", "refused" or "error"
    faults   \* faults so far

vars == <<at, open, busy, rows, answer, faults>>

Init ==
    /\ at = [r \in Requests |-> 0]
    /\ open = {} /\ busy = {}
    /\ rows = NoRequest
    /\ answer = [r \in Requests |-> "none"]
    /\ faults = 0

-----------------------------------------------------------------------------
(* The calls of each request: "check" looks up the session or the user and *)
(* may end the request; "check", "query" and "update" go to the pool,      *)
(* "update" writes orders; "tx..." run in the transaction.                 *)

LoginCalls == <<"check", "query">>
ListCalls == <<"check", "query", "query">>
HistoryCalls == <<"check", "query", "query">>
ImageCalls == <<"check">>

(* One "txquery" stands for all the INSERTs.                               *)
OrderCalls == <<"check", "begin", "txquery", "commit">>

(* Variant: the statuses are written by a repository of the pool.          *)
PlanCalls_PoolInTx == <<"begin", "txquery", "update", "commit">>

PlanCalls == <<"begin", "txquery", "txupdate", "commit">>
StatusCalls == <<"update">>

Calls ==
    [login |-> LoginCalls, products |-> ListCalls, history |-> HistoryCalls,
     image |-> ImageCalls, order |-> OrderCalls, plan |-> PlanCalls,
     status |-> StatusCalls]

(* The number of r's calls.                                                *)
Last(r) == Len(Calls[Kind[r]])

Sent(r) == at[r] > 0
Finished(r) == at[r] > Last(r)
Active(r) == Sent(r) /\ ~Finished(r)

(* r's next call is of one of the kinds in S.                              *)
Calling(r, S) == Active(r) /\ Calls[Kind[r]][at[r]] \in S

OnPool == {"check", "query", "update", "begin"}
InTx == {"txquery", "txupdate", "commit"}
Writing == {"update", "txupdate"}

Waiting(r) == Calling(r, OnPool) /\ r \notin busy

Answered(r) == answer[r] # "none"

Fault == faults < MaxFaults /\ faults' = faults + 1

(* The rows, once r no longer has them.                                    *)
RowsWithout(r) == IF rows = r THEN NoRequest ELSE rows

Return(r, a) ==
    /\ at' = [at EXCEPT ![r] = Last(r) + 1]
    /\ answer' = [answer EXCEPT ![r] = a]

(* Variant: an error leaves the transaction as it is.                      *)
LetGo_NoRollback(r) ==
    /\ busy' = busy \ {r}
    /\ UNCHANGED <<open, rows>>

(* The deferred Rollback, and the connection of a call that failed.        *)
LetGo(r) ==
    /\ open' = open \ {r}
    /\ busy' = busy \ {r}
    /\ rows' = RowsWithout(r)

-----------------------------------------------------------------------------
Send(r) ==
    /\ ~Sent(r)
    /\ at' = [at EXCEPT ![r] = 1]
    /\ UNCHANGED <<open, busy, rows, answer, faults>>

(* The pool has a connection for the call.                                 *)
TakeConnection(r) ==
    /\ Waiting(r) /\ ~Answered(r)
    /\ Cardinality(open) + Cardinality(busy) < MaxConns
    /\ busy' = busy \union {r}
    /\ UNCHANGED <<at, open, rows, answer, faults>>

(* BeginTxx: the connection stays with the transaction.                    *)
Begin(r) ==
    /\ Calling(r, {"begin"}) /\ r \in busy /\ ~Answered(r)
    /\ busy' = busy \ {r}
    /\ open' = open \union {r}
    /\ at' = [at EXCEPT ![r] = @ + 1]
    /\ UNCHANGED <<rows, answer, faults>>

(* A statement on a connection of its own.                                 *)
RunOnPool(r) ==
    /\ Calling(r, OnPool \ {"begin"}) /\ r \in busy /\ ~Answered(r)
    /\ Calling(r, Writing) => rows = NoRequest
    /\ busy' = busy \ {r}
    /\ at' = [at EXCEPT ![r] = @ + 1]
    /\ UNCHANGED <<open, rows, answer, faults>>

(* No session that is still valid, no such user or another password: 401.  *)
Refuse(r) ==
    /\ Calling(r, {"check"}) /\ r \in busy /\ ~Answered(r)
    /\ busy' = busy \ {r}
    /\ Return(r, "refused")
    /\ UNCHANGED <<open, rows, faults>>

(* A statement of the transaction.                                         *)
RunInTx(r) ==
    /\ Calling(r, {"txquery", "txupdate"}) /\ ~Answered(r)
    /\ IF Calling(r, Writing)
       THEN rows \in {NoRequest, r} /\ rows' = r
       ELSE UNCHANGED rows
    /\ at' = [at EXCEPT ![r] = @ + 1]
    /\ UNCHANGED <<open, busy, answer, faults>>

(* No order is selected for the plan: no UPDATE.                           *)
EmptyPlan(r) ==
    /\ Calling(r, {"txquery"}) /\ Kind[r] = "plan" /\ ~Answered(r)
    /\ at' = [at EXCEPT ![r] = @ + 2]
    /\ UNCHANGED <<open, busy, rows, answer, faults>>

(* COMMIT; once sent it does not look at the context any more.             *)
Commit(r) ==
    /\ Calling(r, {"commit"})
    /\ LetGo(r)
    /\ at' = [at EXCEPT ![r] = @ + 1]
    /\ UNCHANGED <<answer, faults>>

AnswerOk(r) ==
    /\ Sent(r) /\ Finished(r) /\ ~Answered(r)
    /\ answer' = [answer EXCEPT ![r] = "ok"]
    /\ UNCHANGED <<at, open, busy, rows, faults>>

(* A call returns an error: connection, lock wait, statement.              *)
Fail(r) ==
    /\ Active(r) /\ ~Answered(r)
    /\ Fault
    /\ LetGo(r)
    /\ Return(r, "error")

(* The context ends: by WithTimeout, or because the client went away.      *)
Expire(r) ==
    /\ Sent(r) /\ ~Answered(r)
    /\ Fault
    /\ answer' = [answer EXCEPT ![r] = "error"]
    /\ UNCHANGED <<at, open, busy, rows>>

(* The goroutine left behind: its call returns the context's error.        *)
Abandon(r) ==
    /\ Active(r) /\ Answered(r)
    /\ LetGo(r)
    /\ at' = [at EXCEPT ![r] = Last(r) + 1]
    /\ UNCHANGED <<answer, faults>>

-----------------------------------------------------------------------------
Serve(r) ==
    \/ TakeConnection(r) \/ Begin(r) \/ RunOnPool(r) \/ Refuse(r)
    \/ RunInTx(r) \/ EmptyPlan(r) \/ Commit(r) \/ AnswerOk(r) \/ Abandon(r)

Next == \E r \in Requests : Send(r) \/ Serve(r) \/ Fail(r) \/ Expire(r)

Spec == Init /\ [][Next]_vars

(* Goroutines run on and the database answers; nobody has to time out.     *)
FairSpec == Spec /\ \A r \in Requests : WF_vars(Serve(r))

-----------------------------------------------------------------------------
(* Every variable keeps its shape.                                         *)
TypeOK ==
    /\ at \in [Requests -> Nat]
    /\ \A r \in Requests : at[r] <= Last(r) + 1
    /\ open \subseteq Requests /\ busy \subseteq Requests
    /\ rows \in Requests \union {NoRequest}
    /\ answer \in [Requests -> {"none", "ok", "refused", "error"}]
    /\ faults \in 0 .. MaxFaults

(* Nobody waits for a connection of the pool while it keeps one, or while  *)
(* others wait for its rows: so no set of transactions can use the pool up *)
(* and wait for each other.  All calls inside ExecTx go through txStore.   *)
NoHoldAndWait ==
    \A r \in Requests : Waiting(r) => r \notin open /\ rows # r

(* A request that has come to its end, well, refused, failed or abandoned, *)
(* has given back its connection and its rows.                             *)
ConnectionsReturn ==
    \A r \in Requests : ~Active(r) => r \notin open \union busy /\ rows # r

(* r's goroutine can go on without a fault: with a connection, with its    *)
(* transaction, or because it has nothing left to wait for.                *)
CanServe(r) ==
    \/ Waiting(r) /\ ~Answered(r) /\ Cardinality(open) + Cardinality(busy) < MaxConns
    \/ Calling(r, OnPool) /\ r \in busy /\ ~Answered(r) /\ (Calling(r, Writing) => rows = NoRequest)
    \/ Calling(r, InTx) /\ ~Answered(r) /\ (Calling(r, Writing) => rows \in {NoRequest, r})
    \/ Sent(r) /\ Finished(r) /\ ~Answered(r)
    \/ Active(r) /\ Answered(r)

Ended(r) == Answered(r) /\ Finished(r)

(* Never does everyone wait for everyone: while a request has not ended,   *)
(* one of the requests can go on, without a timeout or another fault to    *)
(* free a connection or the rows.                                          *)
NobodyStuck ==
    (\E r \in Requests : Sent(r) /\ ~Ended(r)) => \E r \in Requests : CanServe(r)

(* Every request is answered and its goroutine ends, however small the     *)
(* pool is and however many requests want it and the same rows.            *)
RequestEnds ==
    \A r \in Requests : Sent(r) ~> Ended(r)
=============================================================================
