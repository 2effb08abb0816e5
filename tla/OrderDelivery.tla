--------------------------- MODULE OrderDelivery ---------------------------
(***************************************************************************)
(* The orders table of StoreLink and the three requests that write it:     *)
(*                                                                         *)
(*  - POST product/post    ProductService.CreateOrders: one INSERT per     *)
(*                         unit, all in one transaction;                   *)
(*  - GET  delivery-plan   RobotService.GenerateDeliveryPlan: read the     *)
(*                         shipping orders, select a load, mark it         *)
(*                         delivering, all in one transaction run by a     *)
(*                         goroutine that utils.WithTimeout waits for;     *)
(*  - PATCH orders/status  RobotService.UpdateOrderStatus: one UPDATE      *)
(*                         outside any transaction, under WithTimeout.     *)
(*                                                                         *)
(* The database is InnoDB at its default level: a plain SELECT reads the   *)
(* committed rows without locking them, an UPDATE locks the rows it        *)
(* touches until its transaction ends.                                     *)
(*                                                                         *)
(* A robot is a client that runs the robot scenario in a loop: ask for a   *)
(* plan, then report each order of it completed; an error ends the round.  *)
(***************************************************************************)
EXTENDS Integers, FiniteSets, FiniteSetsExt

CONSTANTS
    MaxOrders,    \* bound: order ids the table ever allocates
    MaxUnits,     \* bound: units a user orders in one request
    MaxFaults,    \* bound: timeouts, disconnects and database errors
    Users,        \* clients that order
    Robots,       \* clients that deliver
    Plans,        \* goroutines a plan request can run in, at one time
    NoRobot,      \* waiter of a plan request nobody waits for any more
    Weight,       \* products.weight of each order
    Value,        \* products.value of each order
    Capacity      \* the capacity every robot asks a plan for

OrderId == 1 .. MaxOrders

ASSUME BoundsAssumption ==
    MaxOrders \in Nat /\ MaxUnits \in Nat /\ MaxFaults \in Nat

ASSUME RobotsAssumption == NoRobot \notin Robots

ASSUME ProductsAssumption ==
    /\ Weight \in [OrderId -> Nat]
    /\ Value \in [OrderId -> Nat]
    /\ Capacity \in Nat

VARIABLES
    shippedStatus, \* orders.shipped_status as committed; "none": no such row
    nextId,        \* AUTO_INCREMENT of orders
    unitsLeft,     \* user -> INSERTs its transaction still has to run
    inserted,      \* user -> ids inserted by its open transaction
    planPc,        \* goroutine -> how far GenerateDeliveryPlan is
    chosen,        \* goroutine -> orders its plan selected
    waiter,        \* goroutine -> robot whose request still waits for it
    robot,         \* robot -> "idle", "waiting" or "delivering"
    carrying,      \* robot -> orders of its plan not yet reported
    patching,      \* robot -> the order being reported (a set of at most one)
    statements,    \* <<robot, order>>: status UPDATEs sent and not yet run
    faults,        \* faults so far
    lost,          \* history: orders marked delivering that no robot was told
                   \* of, or whose robot gave its round up
    handed         \* history: orders some robot was handed in a plan

userVars == <<nextId, unitsLeft, inserted>>
planVars == <<planPc, chosen, waiter>>
robotVars == <<robot, carrying, patching, statements>>
history == <<lost, handed>>
vars == <<shippedStatus, userVars, planVars, robotVars, faults, history>>

Status == {"none", "shipping", "delivering", "completed"}
PlanPc == {"free", "begun", "planned", "updated", "committing", "committed", "failed"}

InStatus(s) == {o \in OrderId : shippedStatus[o] = s}

Init ==
    /\ shippedStatus = [o \in OrderId |-> "none"]
    /\ nextId = 1
    /\ unitsLeft = [u \in Users |-> 0]
    /\ inserted = [u \in Users |-> {}]
    /\ planPc = [p \in Plans |-> "free"]
    /\ chosen = [p \in Plans |-> {}]
    /\ waiter = [p \in Plans |-> NoRobot]
    /\ robot = [r \in Robots |-> "idle"]
    /\ carrying = [r \in Robots |-> {}]
    /\ patching = [r \in Robots |-> {}]
    /\ statements = {}
    /\ faults = 0
    /\ lost = {}
    /\ handed = {}

Fault == faults < MaxFaults /\ faults' = faults + 1

-----------------------------------------------------------------------------
(* ProductService.CreateOrders.                                            *)

InTransaction(u) == unitsLeft[u] > 0 \/ inserted[u] # {}

BeginOrder(u) ==
    /\ ~InTransaction(u)
    /\ \E n \in 1 .. MaxUnits : unitsLeft' = [unitsLeft EXCEPT ![u] = n]
    /\ UNCHANGED <<shippedStatus, nextId, inserted, planVars, robotVars, faults, history>>

(* Variant: the INSERT runs on the pool instead of the transaction.        *)
InsertUnit_Autocommit(u) ==
    /\ unitsLeft[u] > 0
    /\ nextId <= MaxOrders
    /\ nextId' = nextId + 1
    /\ unitsLeft' = [unitsLeft EXCEPT ![u] = @ - 1]
    /\ inserted' = [inserted EXCEPT ![u] = @ \union {nextId}]
    /\ shippedStatus' = [shippedStatus EXCEPT ![nextId] = "shipping"]
    /\ UNCHANGED <<planVars, robotVars, faults, history>>

(* OrderRepository.Create: the row is the transaction's own until commit.  *)
InsertUnit(u) ==
    /\ unitsLeft[u] > 0
    /\ nextId <= MaxOrders
    /\ nextId' = nextId + 1
    /\ unitsLeft' = [unitsLeft EXCEPT ![u] = @ - 1]
    /\ inserted' = [inserted EXCEPT ![u] = @ \union {nextId}]
    /\ UNCHANGED <<shippedStatus, planVars, robotVars, faults, history>>

CommitOrder(u) ==
    /\ InTransaction(u) /\ unitsLeft[u] = 0
    /\ shippedStatus' = [o \in OrderId |->
                            IF o \in inserted[u] THEN "shipping" ELSE shippedStatus[o]]
    /\ inserted' = [inserted EXCEPT ![u] = {}]
    /\ UNCHANGED <<nextId, unitsLeft, planVars, robotVars, faults, history>>

(* An INSERT fails or the client goes away: ExecTx's deferred Rollback.    *)
(* The ids stay allocated.  Not counted as a fault: ids bound it.          *)
RollbackOrder(u) ==
    /\ InTransaction(u)
    /\ unitsLeft' = [unitsLeft EXCEPT ![u] = 0]
    /\ inserted' = [inserted EXCEPT ![u] = {}]
    /\ UNCHANGED <<shippedStatus, nextId, planVars, robotVars, faults, history>>

-----------------------------------------------------------------------------
(* RobotService.GenerateDeliveryPlan in ExecTx in WithTimeout.  The handler *)
(* waits while waiter[p] is the robot; once it has answered, its context   *)
(* is cancelled and the goroutine can only finish what is already sent.    *)

LoadOf(S) == MapThenSumSet(LAMBDA o : Weight[o], S)
WorthOf(S) == MapThenSumSet(LAMBDA o : Value[o], S)

(* selectOrdersForDeliveryOptimized, as far as this module tells plans     *)
(* apart: some load of greatest value, without orders that are worth       *)
(* nothing.  The trace back ends where no weight is left, so that orders   *)
(* of weight 0 may then be missing.  Module Knapsack has the algorithm.    *)
Selections(S) ==
    LET worthy == {o \in S : Value[o] > 0}
        fits == {T \in SUBSET worthy : LoadOf(T) <= Capacity}
        best == {T \in fits : \A U \in fits : WorthOf(U) <= WorthOf(T)}
    IN  {T \in fits : \E U \in best : T = U \/ (T \subseteq U /\ LoadOf(T) = Capacity)}

Waiting(p) == waiter[p] # NoRobot

(* The transaction of p has locked the rows it updated.                    *)
Locking(p) == planPc[p] \in {"updated", "committing"}

(* No transaction has locked a row of S.                                   *)
RowsFree(S) == \A p \in Plans : Locking(p) => chosen[p] \intersect S = {}

(* The goroutine of p ends and its request has been answered.              *)
FreePlan(p) ==
    /\ planPc' = [planPc EXCEPT ![p] = "free"]
    /\ chosen' = [chosen EXCEPT ![p] = {}]
    /\ waiter' = [waiter EXCEPT ![p] = NoRobot]

AskPlan(r, p) ==
    /\ robot[r] = "idle"
    /\ planPc[p] = "free"
    /\ robot' = [robot EXCEPT ![r] = "waiting"]
    /\ planPc' = [planPc EXCEPT ![p] = "begun"]
    /\ waiter' = [waiter EXCEPT ![p] = r]
    /\ UNCHANGED <<shippedStatus, userVars, chosen, carrying, patching, statements, faults, history>>

(* Variants: every unfinished order is read; uncommitted rows are read.    *)
ReadShipping_Unfinished(p) ==
    /\ planPc[p] = "begun" /\ Waiting(p)
    /\ planPc' = [planPc EXCEPT ![p] = "planned"]
    /\ \E S \in Selections(InStatus("shipping") \union InStatus("delivering")) :
        chosen' = [chosen EXCEPT ![p] = S]
    /\ UNCHANGED <<shippedStatus, userVars, waiter, robotVars, faults, history>>

ReadShipping_Dirty(p) ==
    /\ planPc[p] = "begun" /\ Waiting(p)
    /\ planPc' = [planPc EXCEPT ![p] = "planned"]
    /\ \E S \in Selections(InStatus("shipping") \union UNION {inserted[u] : u \in Users}) :
        chosen' = [chosen EXCEPT ![p] = S]
    /\ UNCHANGED <<shippedStatus, userVars, waiter, robotVars, faults, history>>

(* GetShippingOrders reads without FOR UPDATE; the selection is local.     *)
ReadShipping(p) ==
    /\ planPc[p] = "begun" /\ Waiting(p)
    /\ planPc' = [planPc EXCEPT ![p] = "planned"]
    /\ \E S \in Selections(InStatus("shipping")) : chosen' = [chosen EXCEPT ![p] = S]
    /\ UNCHANGED <<shippedStatus, userVars, waiter, robotVars, faults, history>>

(* Variant: the UPDATE runs on the pool instead of the transaction.        *)
MarkDelivering_Autocommit(p) ==
    /\ planPc[p] = "planned" /\ Waiting(p)
    /\ chosen[p] # {}
    /\ RowsFree(chosen[p])
    /\ planPc' = [planPc EXCEPT ![p] = "updated"]
    /\ shippedStatus' = [o \in OrderId |->
                            IF o \in chosen[p] THEN "delivering" ELSE shippedStatus[o]]
    /\ UNCHANGED <<userVars, chosen, waiter, robotVars, faults, history>>

(* UpdateStatuses(orderIDs, "delivering"): waits for the rows, then holds  *)
(* them.  Its effect is seen at commit.                                    *)
MarkDelivering(p) ==
    /\ planPc[p] = "planned" /\ Waiting(p)
    /\ chosen[p] # {}
    /\ RowsFree(chosen[p])
    /\ planPc' = [planPc EXCEPT ![p] = "updated"]
    /\ UNCHANGED <<shippedStatus, userVars, chosen, waiter, robotVars, faults, history>>

(* tx.Commit looks at the context once, then sends COMMIT and waits for it *)
(* whatever the context does.                                              *)
SendCommit(p) ==
    /\ Waiting(p)
    /\ planPc[p] = "updated" \/ (planPc[p] = "planned" /\ chosen[p] = {})
    /\ planPc' = [planPc EXCEPT ![p] = "committing"]
    /\ UNCHANGED <<shippedStatus, userVars, chosen, waiter, robotVars, faults, history>>

Delivering(S) ==
    [o \in OrderId |-> IF o \in S THEN "delivering" ELSE shippedStatus[o]]

CommitLands(p) ==
    /\ planPc[p] = "committing"
    /\ shippedStatus' = Delivering(chosen[p])
    /\ IF Waiting(p)
       THEN /\ planPc' = [planPc EXCEPT ![p] = "committed"]
            /\ UNCHANGED <<chosen, waiter, lost>>
       ELSE /\ FreePlan(p)
            /\ lost' = lost \union chosen[p]
    /\ UNCHANGED <<userVars, robotVars, faults, handed>>

(* The connection breaks under COMMIT: the rows may have been written.     *)
CommitBreaks(p) ==
    /\ planPc[p] = "committing"
    /\ Fault
    /\ \/ UNCHANGED <<shippedStatus, lost>>
       \/ /\ shippedStatus' = Delivering(chosen[p])
          /\ lost' = lost \union chosen[p]
    /\ IF Waiting(p)
       THEN /\ planPc' = [planPc EXCEPT ![p] = "failed"]
            /\ UNCHANGED <<chosen, waiter>>
       ELSE FreePlan(p)
    /\ UNCHANGED <<userVars, robotVars, handed>>

(* A database call before COMMIT fails (lock wait, connection): Rollback.  *)
PlanFails(p) ==
    /\ planPc[p] \in {"begun", "planned", "updated"} /\ Waiting(p)
    /\ Fault
    /\ planPc' = [planPc EXCEPT ![p] = "failed"]
    /\ UNCHANGED <<shippedStatus, userVars, chosen, waiter, robotVars, history>>

(* Variant: no deferred Rollback, so the updated rows stay locked.         *)
RollbackPlan_Leak(p) ==
    /\ planPc[p] \in {"begun", "planned"} /\ ~Waiting(p)
    /\ FreePlan(p)
    /\ UNCHANGED <<shippedStatus, userVars, robotVars, faults, history>>

(* The context is cancelled before COMMIT was sent: database/sql rolls the *)
(* transaction back.                                                       *)
RollbackPlan(p) ==
    /\ planPc[p] \in {"begun", "planned", "updated"} /\ ~Waiting(p)
    /\ FreePlan(p)
    /\ UNCHANGED <<shippedStatus, userVars, robotVars, faults, history>>

(* Variant: the plan is answered before its transaction committed.         *)
AnswerPlan_Early(p) ==
    /\ planPc[p] \in {"updated", "committed"} /\ Waiting(p)
    /\ robot' = [robot EXCEPT ![waiter[p]] =
                    IF chosen[p] = {} THEN "idle" ELSE "delivering"]
    /\ carrying' = [carrying EXCEPT ![waiter[p]] = chosen[p]]
    /\ handed' = handed \union chosen[p]
    /\ FreePlan(p)
    /\ UNCHANGED <<shippedStatus, userVars, patching, statements, faults, lost>>

(* WithTimeout takes the result: 200 with the plan.  An empty plan ends    *)
(* the robot's round.                                                      *)
AnswerPlan(p) ==
    /\ planPc[p] = "committed"
    /\ robot' = [robot EXCEPT ![waiter[p]] =
                    IF chosen[p] = {} THEN "idle" ELSE "delivering"]
    /\ carrying' = [carrying EXCEPT ![waiter[p]] = chosen[p]]
    /\ handed' = handed \union chosen[p]
    /\ FreePlan(p)
    /\ UNCHANGED <<shippedStatus, userVars, patching, statements, faults, lost>>

(* WithTimeout takes the error: 500.                                       *)
AnswerPlanError(p) ==
    /\ planPc[p] = "failed"
    /\ robot' = [robot EXCEPT ![waiter[p]] = "idle"]
    /\ FreePlan(p)
    /\ UNCHANGED <<shippedStatus, userVars, carrying, patching, statements, faults, history>>

(* WithTimeout takes ctx.Done: the deadline passes or the proxy gives up.  *)
(* When the result is ready too, select may take either.  A goroutine that *)
(* is still running is left behind.                                        *)
ExpirePlan(p) ==
    /\ Waiting(p)
    /\ Fault
    /\ robot' = [robot EXCEPT ![waiter[p]] = "idle"]
    /\ IF planPc[p] \in {"committed", "failed"}
       THEN FreePlan(p)
       ELSE /\ waiter' = [waiter EXCEPT ![p] = NoRobot]
            /\ UNCHANGED <<planPc, chosen>>
    /\ lost' = IF planPc[p] = "committed" THEN lost \union chosen[p] ELSE lost
    /\ UNCHANGED <<shippedStatus, userVars, carrying, patching, statements, handed>>

-----------------------------------------------------------------------------
(* RobotService.UpdateOrderStatus, called by the robot that holds a plan.  *)

SendStatus(r) ==
    /\ robot[r] = "delivering" /\ patching[r] = {}
    /\ \E o \in carrying[r] :
        /\ patching' = [patching EXCEPT ![r] = {o}]
        /\ statements' = statements \union {<<r, o>>}
    /\ UNCHANGED <<shippedStatus, userVars, planVars, robot, carrying, faults, history>>

(* Variant: the status the API description lists, "complete".              *)
RunStatus_Complete(r, o) ==
    /\ <<r, o>> \in statements
    /\ RowsFree({o})
    /\ shippedStatus' = [shippedStatus EXCEPT ![o] = "complete"]
    /\ statements' = statements \ {<<r, o>>}
    /\ UNCHANGED <<userVars, planVars, robot, carrying, patching, faults, history>>

(* UpdateStatuses([]int64{orderID}, "completed"), its own transaction: it  *)
(* waits for the row, then writes it whatever its status is.               *)
RunStatus(r, o) ==
    /\ <<r, o>> \in statements
    /\ RowsFree({o})
    /\ shippedStatus' = [shippedStatus EXCEPT ![o] = "completed"]
    /\ statements' = statements \ {<<r, o>>}
    /\ UNCHANGED <<userVars, planVars, robot, carrying, patching, faults, history>>

AnswerStatus(r) ==
    /\ \E o \in patching[r] :
        /\ <<r, o>> \notin statements
        /\ carrying' = [carrying EXCEPT ![r] = @ \ {o}]
        /\ robot' = [robot EXCEPT ![r] = IF carrying[r] = {o} THEN "idle" ELSE "delivering"]
    /\ patching' = [patching EXCEPT ![r] = {}]
    /\ UNCHANGED <<shippedStatus, userVars, planVars, statements, faults, history>>

(* The status request fails: by timeout, the statement still on its way or *)
(* already run, or by a database error, the statement gone.  The robot     *)
(* scenario ends its round there, with the rest of the plan unreported.    *)
StatusFails(r) ==
    /\ patching[r] # {}
    /\ Fault
    /\ \/ UNCHANGED statements
       \/ statements' = statements \ ({r} \X patching[r])
    /\ lost' = lost \union carrying[r]
    /\ robot' = [robot EXCEPT ![r] = "idle"]
    /\ carrying' = [carrying EXCEPT ![r] = {}]
    /\ patching' = [patching EXCEPT ![r] = {}]
    /\ UNCHANGED <<shippedStatus, userVars, planVars, handed>>

-----------------------------------------------------------------------------
UserStep(u) == BeginOrder(u) \/ InsertUnit(u) \/ CommitOrder(u) \/ RollbackOrder(u)

PlanStep(p) ==
    \/ ReadShipping(p) \/ MarkDelivering(p) \/ SendCommit(p) \/ CommitLands(p)
    \/ RollbackPlan(p) \/ AnswerPlan(p) \/ AnswerPlanError(p)

RobotStep(r) ==
    \/ \E p \in Plans : AskPlan(r, p)
    \/ SendStatus(r)
    \/ AnswerStatus(r)

FaultStep ==
    \/ \E p \in Plans : CommitBreaks(p) \/ PlanFails(p) \/ ExpirePlan(p)
    \/ \E r \in Robots : StatusFails(r)

Next ==
    \/ \E u \in Users : UserStep(u)
    \/ \E p \in Plans : PlanStep(p)
    \/ \E r \in Robots : RobotStep(r)
    \/ \E r \in Robots, o \in OrderId : RunStatus(r, o)
    \/ FaultStep

Spec == Init /\ [][Next]_vars

(* The goroutines and the database run on; the robot scenario is a loop.   *)
Fairness ==
    /\ \A p \in Plans : WF_vars(PlanStep(p))
    /\ \A r \in Robots : WF_vars(RobotStep(r))
    /\ \A r \in Robots, o \in OrderId : WF_vars(RunStatus(r, o))

FairSpec == Spec /\ Fairness

-----------------------------------------------------------------------------
(* Every variable keeps its shape.                                         *)
TypeOK ==
    /\ shippedStatus \in [OrderId -> Status]
    /\ nextId \in 1 .. MaxOrders + 1
    /\ unitsLeft \in [Users -> Nat]
    /\ inserted \in [Users -> SUBSET OrderId]
    /\ planPc \in [Plans -> PlanPc]
    /\ chosen \in [Plans -> SUBSET OrderId]
    /\ waiter \in [Plans -> Robots \union {NoRobot}]
    /\ robot \in [Robots -> {"idle", "waiting", "delivering"}]
    /\ carrying \in [Robots -> SUBSET OrderId]
    /\ patching \in [Robots -> SUBSET OrderId]
    /\ statements \in SUBSET (Robots \X OrderId)
    /\ faults \in 0 .. MaxFaults
    /\ lost \in SUBSET OrderId
    /\ handed \in SUBSET OrderId

(* Units of an order request that is not committed are in nobody's plan    *)
(* and have no status yet, whatever the plans running beside it do         *)
(* (CreateOrders and GetShippingOrders in their two transactions).         *)
UncommittedUnseen ==
    \A u \in Users : \A o \in inserted[u] :
        /\ shippedStatus[o] = "none"
        /\ \A p \in Plans : o \notin chosen[p]

(* The units of one order request appear in one step, all of them: a       *)
(* failure between two INSERTs leaves none (ExecTx around the loop).       *)
UnitsAppearTogether ==
    [][LET appeared == {o \in OrderId : shippedStatus[o] = "none" /\ shippedStatus'[o] # "none"}
       IN  appeared # {} =>
             \E u \in Users : unitsLeft[u] = 0 /\ appeared = inserted[u]]_vars

(* What a robot was handed has left shipping for good: the answer is sent  *)
(* after the commit, so no later plan reads those orders as shipping.      *)
HandedLeftShipping ==
    \A o \in handed : shippedStatus[o] \in {"delivering", "completed"}

(* An order in delivering is in some robot's hands or on its way there,    *)
(* unless a fault lost it: without faults no order is ever stranded.       *)
DeliveringIsAccounted ==
    /\ \A o \in InStatus("delivering") :
         \/ \E r \in Robots : o \in carrying[r]
         \/ \E p \in Plans : planPc[p] = "committed" /\ o \in chosen[p]
         \/ o \in lost
    /\ lost # {} => faults > 0

(* No order is handed to a robot twice, not even when a request timed out  *)
(* while its COMMIT was under way and the robot asked again.               *)
HandedOnce ==
    [][\A r \in Robots : (carrying'[r] \ carrying[r]) \intersect handed = {}]_vars

(* A completed order stays completed: UpdateStatuses writes whatever the   *)
(* status is, so only the order of the statements keeps it so.             *)
CompletedIsFinal ==
    [][\A o \in OrderId : shippedStatus[o] = "completed" => shippedStatus'[o] = "completed"]_vars

(* Of finitely many orders each that fits the robot and is worth something *)
(* is delivered in the end or lost by a fault: leaving weightless orders   *)
(* out of a full load, locks, and goroutines left behind only delay it.    *)
(* What is worth nothing is never planned; and whether new orders that are *)
(* worth more can keep one back for ever is not asked: plans take the most *)
(* value whatever waits.                                                   *)
ShippingIsResolved ==
    \A o \in OrderId :
        (shippedStatus[o] = "shipping" /\ Value[o] > 0 /\ Weight[o] <= Capacity /\ Capacity > 0)
            ~> (shippedStatus[o] = "completed" \/ o \in lost)

(* What the service promises about orders, module OrderLifecycle.          *)
Lifecycle == INSTANCE OrderLifecycle WITH status <- shippedStatus

LifecycleSpec == Lifecycle!Spec
=============================================================================
