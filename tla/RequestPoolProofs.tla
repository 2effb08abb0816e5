-------------------------- MODULE RequestPoolProofs --------------------------
(***************************************************************************)
(* Theorems about RequestPool, for any requests, any pool and any faults.  *)
(***************************************************************************)
EXTENDS RequestPool, FiniteSetTheorems, TLAPS

(* A transaction is open exactly where its calls are, a call has a         *)
(* connection only while it needs one, and the rows belong to an open      *)
(* transaction.                                                            *)
HoldInv ==
    /\ \A r \in Requests : r \in open <=> Calling(r, InTx)
    /\ \A r \in busy : Calling(r, OnPool)
    /\ rows # NoRequest => rows \in open

PoolInv == TypeOK /\ HoldInv

-----------------------------------------------------------------------------
(* The calls of every kind: the first one is not in a transaction, BEGIN   *)
(* and every statement of one are followed by a call of it, COMMIT is the  *)
(* last call, and no other call leads into a transaction.                  *)
LEMMA CallShape ==
    ASSUME NEW k \in Kinds
    PROVE  /\ Len(Calls[k]) \in Nat /\ Len(Calls[k]) >= 1
           /\ Calls[k][1] \notin InTx
           /\ \A i \in 1 .. Len(Calls[k]) :
                /\ Calls[k][i] \in OnPool \union InTx
                /\ Calls[k][i] \in {"begin", "txquery", "txupdate"} =>
                        i < Len(Calls[k]) /\ Calls[k][i + 1] \in InTx
                /\ Calls[k][i] = "commit" => i = Len(Calls[k])
                /\ Calls[k][i] \in OnPool \ {"begin"} /\ i < Len(Calls[k]) =>
                        Calls[k][i + 1] \notin InTx
                /\ k = "plan" /\ Calls[k][i] = "txquery" =>
                        i + 2 <= Len(Calls[k]) /\ Calls[k][i + 2] \in InTx
<1>1. CASE k = "login"
  BY <1>1 DEF Calls, LoginCalls, InTx, OnPool
<1>2. CASE k = "products"
  BY <1>2 DEF Calls, ListCalls, InTx, OnPool
<1>3. CASE k = "history"
  BY <1>3 DEF Calls, HistoryCalls, InTx, OnPool
<1>4. CASE k = "order"
  BY <1>4 DEF Calls, OrderCalls, InTx, OnPool
<1>5. CASE k = "plan"
  BY <1>5 DEF Calls, PlanCalls, InTx, OnPool
<1>6. CASE k = "status"
  BY <1>6 DEF Calls, StatusCalls, InTx, OnPool
<1>7. CASE k = "image"
  BY <1>7 DEF Calls, ImageCalls, InTx, OnPool
<1> QED
  BY <1>1, <1>2, <1>3, <1>4, <1>5, <1>6, <1>7 DEF Kinds

(* The number of calls is positive.                                        *)
LEMMA LastNat == \A r \in Requests : Last(r) \in Nat /\ Last(r) >= 1
BY CallShape, PoolAssumption DEF Last

(* A request at a call is at one of the pool or at one of a transaction.   *)
LEMMA CallKinds ==
    ASSUME TypeOK, NEW r \in Requests, Active(r), ~Calling(r, InTx)
    PROVE  Calling(r, OnPool)
<1>1. Kind[r] \in Kinds
  BY PoolAssumption
<1>2. at[r] \in 1 .. Len(Calls[Kind[r]])
  BY LastNat DEF TypeOK, Active, Sent, Finished, Last
<1>3. Calls[Kind[r]][at[r]] \in OnPool \union InTx
  BY <1>1, <1>2, CallShape
<1> QED
  BY <1>3 DEF Calling

(* What it means, of the type-correct states, to be at a call.             *)
LEMMA CallingAt ==
    ASSUME TypeOK, NEW r \in Requests, NEW S
    PROVE  Calling(r, S) <=>
               at[r] \in 1 .. Len(Calls[Kind[r]]) /\ Calls[Kind[r]][at[r]] \in S
BY LastNat DEF TypeOK, Calling, Active, Sent, Finished, Last

(* The same of the next state.                                             *)
LEMMA CallingAtNext ==
    ASSUME TypeOK', NEW r \in Requests, NEW S
    PROVE  Calling(r, S)' <=>
               at'[r] \in 1 .. Len(Calls[Kind[r]]) /\ Calls[Kind[r]][at'[r]] \in S
BY LastNat DEF TypeOK, Calling, Active, Sent, Finished, Last

(* BEGIN and the statements of a transaction lead to a call of it, the     *)
(* others out of it.                                                       *)
LEMMA NextCall ==
    ASSUME TypeOK, TypeOK', NEW r \in Requests, at' = [at EXCEPT ![r] = @ + 1]
    PROVE  /\ Calling(r, {"begin", "txquery", "txupdate"}) => Calling(r, InTx)'
           /\ Calling(r, {"commit"}) => ~Calling(r, InTx)'
           /\ Calling(r, OnPool \ {"begin"}) => ~Calling(r, InTx)'
<1>1. Kind[r] \in Kinds
  BY PoolAssumption
<1>2. at'[r] = at[r] + 1 /\ at[r] \in Nat
  BY DEF TypeOK
<1>3. Len(Calls[Kind[r]]) \in Nat
  BY <1>1, CallShape
<1>4. Calling(r, {"begin", "txquery", "txupdate"}) => Calling(r, InTx)'
  <2> SUFFICES ASSUME Calling(r, {"begin", "txquery", "txupdate"})
               PROVE  Calling(r, InTx)'
    OBVIOUS
  <2>1. at[r] \in 1 .. Len(Calls[Kind[r]])
        /\ Calls[Kind[r]][at[r]] \in {"begin", "txquery", "txupdate"}
    BY CallingAt
  <2>2. at[r] < Len(Calls[Kind[r]]) /\ Calls[Kind[r]][at[r] + 1] \in InTx
    BY <1>1, <2>1, CallShape
  <2>3. at'[r] \in 1 .. Len(Calls[Kind[r]]) /\ Calls[Kind[r]][at'[r]] \in InTx
    BY <1>2, <1>3, <2>2
  <2> QED
    BY <2>3, CallingAtNext
<1>5. Calling(r, {"commit"}) => ~Calling(r, InTx)'
  <2> SUFFICES ASSUME Calling(r, {"commit"}) PROVE ~Calling(r, InTx)'
    OBVIOUS
  <2>1. at[r] \in 1 .. Len(Calls[Kind[r]]) /\ Calls[Kind[r]][at[r]] = "commit"
    BY CallingAt
  <2>2. at[r] = Len(Calls[Kind[r]])
    BY <1>1, <2>1, CallShape
  <2>3. at'[r] \notin 1 .. Len(Calls[Kind[r]])
    BY <1>2, <1>3, <2>2
  <2> QED
    BY <2>3, CallingAtNext
<1>6. Calling(r, OnPool \ {"begin"}) => ~Calling(r, InTx)'
  <2> SUFFICES ASSUME Calling(r, OnPool \ {"begin"}), Calling(r, InTx)' PROVE FALSE
    OBVIOUS
  <2>1. at[r] \in 1 .. Len(Calls[Kind[r]])
        /\ Calls[Kind[r]][at[r]] \in OnPool \ {"begin"}
    BY CallingAt
  <2>2. at'[r] \in 1 .. Len(Calls[Kind[r]]) /\ Calls[Kind[r]][at'[r]] \in InTx
    BY CallingAtNext
  <2>3. at[r] < Len(Calls[Kind[r]]) /\ Calls[Kind[r]][at[r] + 1] \in InTx
    BY <1>2, <1>3, <2>1, <2>2
  <2> QED
    BY <1>1, <2>1, <2>3, CallShape
<1> QED
  BY <1>4, <1>5, <1>6

(* After the SELECT of an empty plan comes COMMIT.                          *)
LEMMA EmptyPlanCall ==
    ASSUME TypeOK, TypeOK', NEW r \in Requests, EmptyPlan(r)
    PROVE  Calling(r, InTx)'
<1>1. Kind[r] = "plan" /\ "plan" \in Kinds
  BY DEF EmptyPlan, Kinds
<1>2. at[r] \in 1 .. Len(Calls["plan"]) /\ Calls["plan"][at[r]] = "txquery"
  BY <1>1, CallingAt DEF EmptyPlan
<1>3. at[r] + 2 <= Len(Calls["plan"]) /\ Calls["plan"][at[r] + 2] \in InTx
  BY <1>1, <1>2, CallShape
<1>4. at'[r] = at[r] + 2
  BY DEF EmptyPlan, TypeOK
<1>5. at'[r] \in 1 .. Len(Calls["plan"]) /\ Calls["plan"][at'[r]] \in InTx
  BY <1>2, <1>3, <1>4, CallShape, <1>1
<1> QED
  BY <1>1, <1>5, CallingAtNext

(* Nothing is open and nobody is at a call.                                *)
LEMMA InitPool == Init => PoolInv
<1> SUFFICES ASSUME Init PROVE PoolInv
  OBVIOUS
<1>1. TypeOK
  BY LastNat, PoolAssumption DEF Init, TypeOK
<1>2. \A r \in Requests : ~Calling(r, InTx)
  BY DEF Init, Calling, Active, Sent
<1>3. HoldInv
  BY <1>2 DEF Init, HoldInv
<1> QED
  BY <1>1, <1>3 DEF PoolInv

(* Every step keeps the shape of the variables.                            *)
LEMMA NextType == TypeOK /\ [Next]_vars => TypeOK'
<1> SUFFICES ASSUME TypeOK, [Next]_vars PROVE TypeOK'
  OBVIOUS
<1> USE LastNat DEF TypeOK
<1>1. ASSUME NEW r \in Requests, Send(r) PROVE TypeOK'
  BY <1>1 DEF Send, Sent, Last
<1>2. ASSUME NEW r \in Requests, TakeConnection(r) PROVE TypeOK'
  BY <1>2 DEF TakeConnection, Last
<1>3. ASSUME NEW r \in Requests, Begin(r) PROVE TypeOK'
  BY <1>3 DEF Begin, Calling, Active, Finished, Last
<1>4. ASSUME NEW r \in Requests, RunOnPool(r) PROVE TypeOK'
  BY <1>4 DEF RunOnPool, Calling, Active, Finished, Last
<1>5. ASSUME NEW r \in Requests, Refuse(r) PROVE TypeOK'
  BY <1>5 DEF Refuse, Return, Last
<1>6. ASSUME NEW r \in Requests, RunInTx(r) PROVE TypeOK'
  BY <1>6 DEF RunInTx, Calling, Active, Finished, Last
<1>7. ASSUME NEW r \in Requests, Commit(r) PROVE TypeOK'
  BY <1>7 DEF Commit, LetGo, RowsWithout, Calling, Active, Finished, Last
<1>8. ASSUME NEW r \in Requests, AnswerOk(r) PROVE TypeOK'
  BY <1>8 DEF AnswerOk, Last
<1>9. ASSUME NEW r \in Requests, Fail(r) PROVE TypeOK'
  BY <1>9, PoolAssumption DEF Fail, Fault, LetGo, RowsWithout, Return, Last
<1>10. ASSUME NEW r \in Requests, Expire(r) PROVE TypeOK'
  BY <1>10, PoolAssumption DEF Expire, Fault, Last
<1>11. ASSUME NEW r \in Requests, Abandon(r) PROVE TypeOK'
  BY <1>11 DEF Abandon, LetGo, RowsWithout, Last
<1>12. CASE UNCHANGED vars
  BY <1>12 DEF vars, Last
<1>13. ASSUME NEW r \in Requests, EmptyPlan(r) PROVE TypeOK'
  <2>1. Kind[r] = "plan" /\ "plan" \in Kinds /\ Calling(r, {"txquery"})
    BY <1>13 DEF EmptyPlan, Kinds
  <2>2. at[r] \in 1 .. Len(Calls["plan"]) /\ Calls["plan"][at[r]] = "txquery"
    BY <2>1, CallingAt
  <2>3. at[r] + 2 <= Last(r)
    BY <2>1, <2>2, CallShape DEF Last
  <2> QED
    BY <1>13, <2>3 DEF EmptyPlan, Last
<1> QED
  BY <1>1, <1>2, <1>3, <1>4, <1>5, <1>6, <1>7, <1>8, <1>9, <1>10, <1>11, <1>12,
     <1>13
     DEF Next, Serve

(* What a request holds changes only by its own steps.                     *)
LEMMA OthersCall ==
    ASSUME TypeOK, NEW r \in Requests, NEW q \in Requests, q # r, NEW S,
           NEW e, at' = [at EXCEPT ![r] = e]
    PROVE  Calling(q, S)' <=> Calling(q, S)
<1>1. at'[q] = at[q]
  BY DEF TypeOK
<1> QED
  BY <1>1 DEF Calling, Active, Sent, Finished, Last

(* A step in which r lets go of what it has and is out of transactions.    *)
LEMMA LetGoHold ==
    ASSUME PoolInv, NEW r \in Requests, LetGo(r),
           NEW e, at' = [at EXCEPT ![r] = e], ~Calling(r, InTx)'
    PROVE  HoldInv'
<1>1. \A q \in Requests \ {r} : (q \in open' <=> q \in open) /\ (q \in busy' <=> q \in busy)
  BY DEF LetGo
<1>2. \A q \in Requests : q \in open' <=> Calling(q, InTx)'
  <2>1. r \notin open'
    BY DEF LetGo
  <2>2. ASSUME NEW q \in Requests, q # r PROVE q \in open' <=> Calling(q, InTx)'
    BY <1>1, <2>2, OthersCall DEF PoolInv, HoldInv
  <2> QED
    BY <2>1, <2>2
<1>3. \A q \in busy' : Calling(q, OnPool)'
  <2> TAKE q \in busy'
  <2>1. q \in busy /\ q # r /\ q \in Requests
    BY DEF LetGo, PoolInv, TypeOK
  <2> QED
    BY <2>1, OthersCall DEF PoolInv, HoldInv
<1>4. rows' # NoRequest => rows' \in open'
  BY DEF LetGo, RowsWithout, PoolInv, HoldInv
<1> QED
  BY <1>2, <1>3, <1>4 DEF HoldInv

(* A call on a connection of its own, which it gives back.                 *)
LEMMA PoolCallHold ==
    ASSUME PoolInv, NEW r \in Requests, r \in busy, Calling(r, OnPool),
           busy' = busy \ {r}, UNCHANGED <<open, rows>>,
           NEW e, at' = [at EXCEPT ![r] = e], ~Calling(r, InTx)'
    PROVE  HoldInv'
<1>1. r \notin open
  BY DEF PoolInv, HoldInv, Calling, OnPool, InTx
<1>2. ASSUME NEW q \in Requests PROVE q \in open' <=> Calling(q, InTx)'
  <2>1. CASE q = r
    BY <1>1, <2>1
  <2>2. CASE q # r
    BY <2>2, OthersCall DEF PoolInv, HoldInv
  <2> QED
    BY <2>1, <2>2
<1>3. \A q \in busy' : Calling(q, OnPool)'
  <2> TAKE q \in busy'
  <2>1. q \in busy /\ q # r /\ q \in Requests
    BY DEF PoolInv, TypeOK
  <2> QED
    BY <2>1, OthersCall DEF PoolInv, HoldInv
<1> QED
  BY <1>2, <1>3 DEF HoldInv, PoolInv

(* A step that moves r from a call to the next one of its transaction.     *)
LEMMA TxCallHold ==
    ASSUME PoolInv, TypeOK', NEW r \in Requests,
           NEW e, at' = [at EXCEPT ![r] = e], Calling(r, InTx)',
           busy' \subseteq busy \ {r}, open' = open \union {r},
           rows' = rows \/ rows' = r
    PROVE  HoldInv'
<1>2. ASSUME NEW q \in Requests PROVE q \in open' <=> Calling(q, InTx)'
  <2>1. CASE q = r
    BY <2>1
  <2>2. CASE q # r
    BY <2>2, OthersCall DEF PoolInv, HoldInv
  <2> QED
    BY <2>1, <2>2
<1>3. \A q \in busy' : Calling(q, OnPool)'
  <2> TAKE q \in busy'
  <2>1. q \in busy /\ q # r /\ q \in Requests
    BY DEF PoolInv, TypeOK
  <2> QED
    BY <2>1, OthersCall DEF PoolInv, HoldInv
<1>4. rows' # NoRequest => rows' \in open'
  BY DEF PoolInv, HoldInv
<1> QED
  BY <1>2, <1>3, <1>4 DEF HoldInv

(* Every step keeps who has which connection and which rows.               *)
LEMMA NextHold == PoolInv /\ [Next]_vars => HoldInv'
<1> SUFFICES ASSUME PoolInv, [Next]_vars PROVE HoldInv'
  OBVIOUS
<1>0. TypeOK /\ TypeOK'
  BY NextType DEF PoolInv
<1>1. ASSUME NEW r \in Requests, Send(r) PROVE HoldInv'
  <2>1. ~Calling(r, InTx) /\ ~Calling(r, OnPool)
    BY <1>1 DEF Send, Calling, Active
  <2>2. at'[r] = 1
    BY <1>0, <1>1 DEF Send, TypeOK
  <2>3. ~Calling(r, InTx)'
    BY <1>0, <2>2, CallingAtNext, CallShape, PoolAssumption
  <2>4. ASSUME NEW q \in Requests, q # r, NEW S PROVE Calling(q, S)' <=> Calling(q, S)
    BY <1>0, <1>1, <2>4, OthersCall DEF Send
  <2>5. UNCHANGED <<open, busy, rows>> /\ busy \subseteq Requests
    BY <1>0, <1>1 DEF Send, TypeOK
  <2>6. \A q \in Requests : q \in open' <=> Calling(q, InTx)'
    BY <2>1, <2>3, <2>4, <2>5 DEF PoolInv, HoldInv
  <2>7. \A q \in busy' : Calling(q, OnPool)'
    BY <2>1, <2>4, <2>5 DEF PoolInv, HoldInv
  <2> QED
    BY <2>5, <2>6, <2>7 DEF PoolInv, HoldInv
<1>2. ASSUME NEW r \in Requests, TakeConnection(r) PROVE HoldInv'
  BY <1>2 DEF TakeConnection, Waiting, PoolInv, HoldInv, Calling, Active, Sent, Finished, Last
<1>3. ASSUME NEW r \in Requests, Begin(r) PROVE HoldInv'
  <2>1. Calling(r, InTx)'
    BY <1>0, <1>3, NextCall DEF Begin, Calling
  <2> QED
    BY <1>0, <1>3, <2>1, TxCallHold DEF Begin
<1>4. ASSUME NEW r \in Requests, RunOnPool(r) PROVE HoldInv'
  <2>1. Calling(r, OnPool)
    BY <1>4 DEF RunOnPool, Calling
  <2>2. ~Calling(r, InTx)'
    BY <1>0, <1>4, NextCall DEF RunOnPool
  <2> QED
    BY <1>4, <2>1, <2>2, PoolCallHold DEF RunOnPool
<1>5. ASSUME NEW r \in Requests, Refuse(r) PROVE HoldInv'
  <2>1. Calling(r, OnPool)
    BY <1>5 DEF Refuse, Calling, OnPool
  <2>2. ~Calling(r, InTx)'
    BY <1>0, <1>5 DEF Refuse, Return, Calling, Active, Finished, Last, TypeOK
  <2> QED
    BY <1>5, <2>1, <2>2, PoolCallHold DEF Refuse, Return
<1>6. ASSUME NEW r \in Requests, RunInTx(r) PROVE HoldInv'
  <2>1. Calling(r, InTx) /\ Calling(r, {"begin", "txquery", "txupdate"})
    BY <1>6 DEF RunInTx, Calling, InTx
  <2>2. r \in open /\ r \notin busy
    BY <2>1 DEF PoolInv, HoldInv, Calling, InTx, OnPool
  <2>3. rows' = rows \/ rows' = r
    BY <1>6 DEF RunInTx
  <2>4. busy' \subseteq busy \ {r} /\ open' = open \union {r}
    BY <1>6, <2>2 DEF RunInTx
  <2>5. at' = [at EXCEPT ![r] = @ + 1]
    BY <1>6 DEF RunInTx
  <2>6. Calling(r, InTx)'
    BY <1>0, <2>1, <2>5, NextCall
  <2> QED
    BY <1>0, <2>3, <2>4, <2>5, <2>6, TxCallHold
<1>7. ASSUME NEW r \in Requests, Commit(r) PROVE HoldInv'
  <2>1. ~Calling(r, InTx)'
    BY <1>0, <1>7, NextCall DEF Commit
  <2> QED
    BY <1>7, <2>1, LetGoHold DEF Commit
<1>8. ASSUME NEW r \in Requests, AnswerOk(r) PROVE HoldInv'
  BY <1>8 DEF AnswerOk, PoolInv, HoldInv, Calling, Active, Sent, Finished, Last
<1>9. ASSUME NEW r \in Requests, Fail(r) PROVE HoldInv'
  <2>1. ~Calling(r, InTx)'
    BY <1>0, <1>9 DEF Fail, Return, Calling, Active, Finished, Last, TypeOK
  <2> QED
    BY <1>9, <2>1, LetGoHold DEF Fail, Return
<1>10. ASSUME NEW r \in Requests, Expire(r) PROVE HoldInv'
  BY <1>10 DEF Expire, PoolInv, HoldInv, Calling, Active, Sent, Finished, Last
<1>11. ASSUME NEW r \in Requests, Abandon(r) PROVE HoldInv'
  <2>1. ~Calling(r, InTx)'
    BY <1>0, <1>11 DEF Abandon, Calling, Active, Finished, Last, TypeOK
  <2> QED
    BY <1>11, <2>1, LetGoHold DEF Abandon
<1>12. CASE UNCHANGED vars
  BY <1>12 DEF vars, PoolInv, HoldInv, Calling, Active, Sent, Finished, Last
<1>13. ASSUME NEW r \in Requests, EmptyPlan(r) PROVE HoldInv'
  <2>1. Calling(r, InTx)
    BY <1>13 DEF EmptyPlan, Calling, InTx
  <2>2. r \in open /\ r \notin busy
    BY <2>1 DEF PoolInv, HoldInv, Calling, InTx, OnPool
  <2>3. at' = [at EXCEPT ![r] = at[r] + 2] /\ busy' \subseteq busy \ {r}
        /\ open' = open \union {r} /\ rows' = rows
    BY <1>13, <2>2 DEF EmptyPlan
  <2>4. Calling(r, InTx)'
    BY <1>0, <1>13, EmptyPlanCall
  <2> QED
    BY <1>0, <2>3, <2>4, TxCallHold
<1> QED
  BY <1>1, <1>2, <1>3, <1>4, <1>5, <1>6, <1>7, <1>8, <1>9, <1>10, <1>11, <1>12,
     <1>13
     DEF Next, Serve

(* The inductive invariant.                                                *)
LEMMA PoolInvariant == Spec => []PoolInv
<1>1. PoolInv /\ [Next]_vars => PoolInv'
  BY NextType, NextHold DEF PoolInv
<1> QED
  BY InitPool, <1>1, PTL DEF Spec

-----------------------------------------------------------------------------
(* Every variable of the pool keeps its shape.                             *)
THEOREM TypeCorrect == Spec => []TypeOK
<1>1. PoolInv => TypeOK
  BY DEF PoolInv
<1> QED
  BY <1>1, PoolInvariant, PTL

(* No request of CreateOrders or GenerateDeliveryPlan waits for the pool   *)
(* while its transaction has a connection or the rows.                     *)
THEOREM NoHoldAndWaitAlways == Spec => []NoHoldAndWait
<1>1. PoolInv => NoHoldAndWait
  <2> SUFFICES ASSUME PoolInv, NEW r \in Requests, Waiting(r)
               PROVE  r \notin open /\ rows # r
    BY DEF NoHoldAndWait
  <2>1. ~Calling(r, InTx)
    BY DEF Waiting, Calling, OnPool, InTx
  <2>2. r \notin open
    BY <2>1 DEF PoolInv, HoldInv
  <2>3. r # NoRequest
    BY PoolAssumption
  <2> QED
    BY <2>2, <2>3 DEF PoolInv, HoldInv
<1> QED
  BY <1>1, PoolInvariant, PTL

(* Whatever way a request ends, its transaction is no longer open and its  *)
(* connection is back in the pool.                                         *)
THEOREM ConnectionsReturnAlways == Spec => []ConnectionsReturn
<1>1. PoolInv => ConnectionsReturn
  <2> SUFFICES ASSUME PoolInv, NEW r \in Requests, ~Active(r)
               PROVE  r \notin open \union busy /\ rows # r
    BY DEF ConnectionsReturn
  <2>1. r \notin open /\ r \notin busy
    BY DEF PoolInv, HoldInv, Calling
  <2>2. r # NoRequest
    BY PoolAssumption
  <2> QED
    BY <2>1, <2>2 DEF PoolInv, HoldInv
<1> QED
  BY <1>1, PoolInvariant, PTL

-----------------------------------------------------------------------------
(* The request that has the rows can go on; if nobody has them, so can any *)
(* open transaction; if none is open, any call with a connection; if there *)
(* is none either, the pool has one for whoever waits.                     *)
LEMMA SomebodyCanServe ==
    ASSUME PoolInv, NEW q \in Requests, Sent(q), ~Ended(q)
    PROVE  \E r \in Requests : CanServe(r)
<1>1. CASE rows # NoRequest
  <2>1. rows \in open /\ rows \in Requests /\ Calling(rows, InTx)
    BY <1>1 DEF PoolInv, TypeOK, HoldInv
  <2>2. CanServe(rows)
    BY <2>1 DEF CanServe, Calling
  <2> QED
    BY <2>1, <2>2
<1>2. CASE rows = NoRequest /\ open # {}
  <2>1. PICK r \in open : r \in Requests /\ Calling(r, InTx)
    BY <1>2 DEF PoolInv, TypeOK, HoldInv
  <2>2. CanServe(r)
    BY <1>2, <2>1 DEF CanServe, Calling
  <2> QED
    BY <2>1, <2>2
<1>3. CASE rows = NoRequest /\ busy # {}
  <2>1. PICK r \in busy : r \in Requests /\ Calling(r, OnPool)
    BY <1>3 DEF PoolInv, TypeOK, HoldInv
  <2>2. CanServe(r)
    BY <1>3, <2>1 DEF CanServe, Calling
  <2> QED
    BY <2>1, <2>2
<1>4. CASE rows = NoRequest /\ open = {} /\ busy = {}
  <2>1. Cardinality(open) + Cardinality(busy) < MaxConns
    <3>1. Cardinality(open) = 0 /\ Cardinality(busy) = 0
      BY <1>4, FS_EmptySet
    <3> QED
      BY <3>1, PoolAssumption
  <2>2. CASE Finished(q) \/ Answered(q)
    BY <2>2 DEF Ended, CanServe, Active
  <2>3. CASE ~Finished(q) /\ ~Answered(q)
    <3>1. Active(q) /\ ~Calling(q, InTx)
      BY <1>4, <2>3 DEF Active, PoolInv, HoldInv
    <3>2. Calling(q, OnPool)
      BY <3>1, CallKinds DEF PoolInv
    <3>3. Waiting(q)
      BY <1>4, <3>2 DEF Waiting
    <3> QED
      BY <2>1, <2>3, <3>3 DEF CanServe
  <2> QED
    BY <2>2, <2>3
<1> QED
  BY <1>1, <1>2, <1>3, <1>4

(* Whatever the requests and the size of the pool, they never all wait for *)
(* each other: no deadlock over connections and rows together.             *)
THEOREM NobodyStuckAlways == Spec => []NobodyStuck
<1>1. PoolInv => NobodyStuck
  BY SomebodyCanServe DEF NobodyStuck
<1> QED
  BY <1>1, PoolInvariant, PTL

-----------------------------------------------------------------------------
(* What r has still to do: two steps for a call, one for its answer.       *)
Left(r) ==
    2 * (Last(r) + 1 - at[r]) + (IF Answered(r) THEN 0 ELSE 1) - (IF r \in busy THEN 1 ELSE 0)

LeftIsNat == \A r \in Requests : Left(r) \in Nat

LEMMA LeftNat == PoolInv => LeftIsNat
<1> SUFFICES ASSUME PoolInv, NEW r \in Requests PROVE Left(r) \in Nat
  BY DEF LeftIsNat
<1>1. Last(r) \in Nat /\ at[r] \in Nat /\ at[r] <= Last(r) + 1
  BY LastNat DEF PoolInv, TypeOK
<1>2. r \in busy => at[r] <= Last(r)
  BY <1>1 DEF PoolInv, HoldInv, Calling, Active, Finished
<1> QED
  BY <1>1, <1>2 DEF Left

(* A step changes nothing of the other requests.                           *)
OnlyOf(r) ==
    \A q \in Requests \ {r} :
        at'[q] = at[q] /\ answer'[q] = answer[q] /\ (q \in busy' <=> q \in busy)

(* Every step is one of some request, and takes it nearer to its end: the  *)
(* requests cannot keep each other busy for ever.                          *)
LEMMA StepsRunOut ==
    ASSUME PoolInv, Next
    PROVE  \E r \in Requests : Left(r)' < Left(r) /\ \A q \in Requests \ {r} : Left(q)' = Left(q)
<1>1. PICK r \in Requests : Send(r) \/ Serve(r) \/ Fail(r) \/ Expire(r)
  BY DEF Next
<1>2. /\ at \in [Requests -> Nat] /\ Last(r) \in Nat /\ at[r] <= Last(r) + 1
      /\ answer \in [Requests -> {"none", "ok", "refused", "error"}]
  BY LastNat DEF PoolInv, TypeOK
<1>3. OnlyOf(r)
  BY <1>1, <1>2
     DEF OnlyOf, Send, Serve, Fail, Expire, TakeConnection, Begin, RunOnPool, Refuse, RunInTx,
         EmptyPlan, Commit, AnswerOk, Abandon, Return, LetGo
<1>4. \A q \in Requests \ {r} : Left(q)' = Left(q)
  BY <1>3 DEF OnlyOf, Left, Last, Answered
<1>5. \/ at'[r] > at[r] /\ answer'[r] = answer[r]
      \/ at'[r] > at[r] /\ ~Answered(r)
      \/ at'[r] = at[r] /\ answer'[r] = answer[r] /\ r \in busy' /\ r \notin busy
      \/ at'[r] = at[r] /\ ~Answered(r) /\ answer'[r] # "none" /\ busy' = busy
  <2>1. CASE Send(r)
    BY <1>2, <2>1 DEF Send, Sent
  <2>2. CASE TakeConnection(r)
    BY <1>2, <2>2 DEF TakeConnection, Waiting
  <2>3. CASE Begin(r) \/ RunOnPool(r) \/ RunInTx(r) \/ EmptyPlan(r) \/ Commit(r)
    BY <1>2, <2>3 DEF Begin, RunOnPool, RunInTx, EmptyPlan, Commit
  <2>4. CASE Refuse(r) \/ Fail(r)
    BY <1>2, <2>4 DEF Refuse, Fail, Return, Calling, Active, Finished
  <2>5. CASE AnswerOk(r)
    BY <1>2, <2>5 DEF AnswerOk, Answered
  <2>6. CASE Abandon(r)
    BY <1>2, <2>6 DEF Abandon, Active, Finished
  <2>7. CASE Expire(r)
    BY <1>2, <2>7 DEF Expire, Answered
  <2> QED
    BY <1>1, <2>1, <2>2, <2>3, <2>4, <2>5, <2>6, <2>7 DEF Serve
<1>6. at'[r] \in Nat /\ Last(r)' = Last(r)
  <2>1. TypeOK'
    BY NextType DEF PoolInv
  <2> QED
    BY <2>1 DEF TypeOK, Last
<1>7. Left(r)' < Left(r)
  BY <1>2, <1>5, <1>6 DEF Left, Answered
<1> QED
  BY <1>4, <1>7

(* Finitely many requests take finitely many steps: what is left of each   *)
(* is a number that no step raises, and each step lowers one of them.      *)
(* With NobodyStuckAlways, they stop only when every one sent has ended.   *)
THEOREM RequestsRunOut ==
    Spec => [][\E r \in Requests :
                /\ Left(r) \in Nat /\ Left(r)' \in Nat /\ Left(r)' < Left(r)
                /\ \A q \in Requests \ {r} : Left(q)' = Left(q)]_vars
<1>1. PoolInv /\ LeftIsNat /\ LeftIsNat' /\ [Next]_vars =>
        [\E r \in Requests :
                /\ Left(r) \in Nat /\ Left(r)' \in Nat /\ Left(r)' < Left(r)
                /\ \A q \in Requests \ {r} : Left(q)' = Left(q)]_vars
  BY StepsRunOut DEF LeftIsNat
<1> QED
  BY <1>1, LeftNat, PoolInvariant, PTL DEF Spec
=============================================================================
