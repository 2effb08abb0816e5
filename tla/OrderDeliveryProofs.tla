------------------------ MODULE OrderDeliveryProofs ------------------------
(***************************************************************************)
(* Theorems about OrderDelivery for every number of orders, users, robots  *)
(* and goroutines; and that it implements OrderLifecycle when plans are    *)
(* asked for one after the other, as one robot does.                       *)
(***************************************************************************)
EXTENDS OrderDelivery, TLAPS

(* A plan only selects among the orders it read.                           *)
LEMMA SelectionsSubset ==
    ASSUME NEW S, NEW T \in Selections(S)
    PROVE  T \subseteq S
BY DEF Selections

-----------------------------------------------------------------------------
USE BoundsAssumption, RobotsAssumption DEF OrderId

LEMMA InitTypeOK == Init => TypeOK
BY DEF Init, TypeOK, Status, PlanPc

LEMMA NextTypeOK == TypeOK /\ [Next]_vars => TypeOK'
<1> SUFFICES ASSUME TypeOK, [Next]_vars PROVE TypeOK'
  OBVIOUS
<1> USE DEF TypeOK, Status, PlanPc
<1>1. ASSUME NEW u \in Users, BeginOrder(u) PROVE TypeOK'
  BY <1>1 DEF BeginOrder, userVars, planVars, robotVars, history
<1>2. ASSUME NEW u \in Users, InsertUnit(u) PROVE TypeOK'
  BY <1>2 DEF InsertUnit, userVars, planVars, robotVars, history
<1>3. ASSUME NEW u \in Users, CommitOrder(u) PROVE TypeOK'
  BY <1>3 DEF CommitOrder, userVars, planVars, robotVars, history
<1>4. ASSUME NEW u \in Users, RollbackOrder(u) PROVE TypeOK'
  BY <1>4 DEF RollbackOrder, userVars, planVars, robotVars, history
<1>5. ASSUME NEW r \in Robots, NEW p \in Plans, AskPlan(r, p) PROVE TypeOK'
  BY <1>5 DEF AskPlan, userVars, planVars, robotVars, history
<1>6. ASSUME NEW p \in Plans, ReadShipping(p) PROVE TypeOK'
  BY <1>6, SelectionsSubset DEF ReadShipping, InStatus, userVars, planVars, robotVars, history
<1>7. ASSUME NEW p \in Plans, MarkDelivering(p) PROVE TypeOK'
  BY <1>7 DEF MarkDelivering, userVars, planVars, robotVars, history
<1>8. ASSUME NEW p \in Plans, SendCommit(p) PROVE TypeOK'
  BY <1>8 DEF SendCommit, userVars, planVars, robotVars, history
<1>9. ASSUME NEW p \in Plans, CommitLands(p) PROVE TypeOK'
  BY <1>9 DEF CommitLands, FreePlan, Delivering, userVars, planVars, robotVars, history
<1>10. ASSUME NEW p \in Plans, CommitBreaks(p) PROVE TypeOK'
  <2>1. /\ shippedStatus' \in [OrderId -> Status]
        /\ lost' \in SUBSET OrderId
        /\ faults' \in 0 .. MaxFaults
    BY <1>10 DEF CommitBreaks, Fault, Delivering
  <2>2. /\ planPc' \in [Plans -> PlanPc]
        /\ chosen' \in [Plans -> SUBSET OrderId]
        /\ waiter' \in [Plans -> Robots \union {NoRobot}]
    BY <1>10 DEF CommitBreaks, FreePlan
  <2> QED
    BY <1>10, <2>1, <2>2 DEF CommitBreaks, userVars, robotVars
<1>11. ASSUME NEW p \in Plans, PlanFails(p) PROVE TypeOK'
  BY <1>11 DEF PlanFails, Fault, userVars, planVars, robotVars, history
<1>12. ASSUME NEW p \in Plans, RollbackPlan(p) PROVE TypeOK'
  BY <1>12 DEF RollbackPlan, FreePlan, userVars, planVars, robotVars, history
<1>13. ASSUME NEW p \in Plans, AnswerPlan(p) PROVE TypeOK'
  BY <1>13 DEF AnswerPlan, FreePlan, Waiting, userVars, planVars, robotVars, history
<1>14. ASSUME NEW p \in Plans, AnswerPlanError(p) PROVE TypeOK'
  BY <1>14 DEF AnswerPlanError, FreePlan, Waiting, userVars, planVars, robotVars, history
<1>15. ASSUME NEW p \in Plans, ExpirePlan(p) PROVE TypeOK'
  <2>1. /\ planPc' \in [Plans -> PlanPc]
        /\ chosen' \in [Plans -> SUBSET OrderId]
        /\ waiter' \in [Plans -> Robots \union {NoRobot}]
    BY <1>15 DEF ExpirePlan, FreePlan
  <2>2. /\ faults' \in 0 .. MaxFaults
        /\ robot' \in [Robots -> {"idle", "waiting", "delivering"}]
    BY <1>15 DEF ExpirePlan, Fault, Waiting
  <2>3. lost' \in SUBSET OrderId
    <3>1. lost \union chosen[p] \in SUBSET OrderId
      OBVIOUS
    <3> QED
      BY <1>15, <3>1 DEF ExpirePlan
  <2> QED
    BY <1>15, <2>1, <2>2, <2>3 DEF ExpirePlan, userVars
<1>16. ASSUME NEW r \in Robots, SendStatus(r) PROVE TypeOK'
  BY <1>16 DEF SendStatus, userVars, planVars, robotVars, history
<1>17. ASSUME NEW r \in Robots, NEW o \in OrderId, RunStatus(r, o) PROVE TypeOK'
  BY <1>17 DEF RunStatus, userVars, planVars, robotVars, history
<1>18. ASSUME NEW r \in Robots, AnswerStatus(r) PROVE TypeOK'
  BY <1>18 DEF AnswerStatus, userVars, planVars, robotVars, history
<1>19. ASSUME NEW r \in Robots, StatusFails(r) PROVE TypeOK'
  <2>1. lost' = lost \union carrying[r] /\ faults < MaxFaults /\ faults' = faults + 1
    BY <1>19 DEF StatusFails, Fault
  <2>2. lost' \in SUBSET OrderId
    BY <2>1, Zenon
  <2>5. faults' \in 0 .. MaxFaults
    BY <2>1
  <2>3. statements' \subseteq statements
    BY <1>19 DEF StatusFails
  <2>4. /\ robot' \in [Robots -> {"idle", "waiting", "delivering"}]
        /\ carrying' \in [Robots -> SUBSET OrderId]
        /\ patching' \in [Robots -> SUBSET OrderId]
    BY <1>19 DEF StatusFails
  <2> QED
    BY <1>19, <2>2, <2>3, <2>4, <2>5 DEF StatusFails, userVars, planVars
<1>20. CASE UNCHANGED vars
  BY <1>20 DEF vars, userVars, planVars, robotVars, history
<1> QED
  BY <1>1, <1>2, <1>3, <1>4, <1>5, <1>6, <1>7, <1>8, <1>9, <1>10, <1>11, <1>12, <1>13, <1>14, <1>15, <1>16, <1>17, <1>18, <1>19, <1>20
     DEF Next, UserStep, PlanStep, RobotStep, FaultStep

(* Every variable keeps its shape, for every value of the constants.       *)
THEOREM TypeCorrect == Spec => []TypeOK
BY InitTypeOK, NextTypeOK, PTL DEF Spec

-----------------------------------------------------------------------------
(* The inductive invariant of the table, for any number of robots.         *)

IdsInv ==
    /\ \A o \in OrderId : o >= nextId => shippedStatus[o] = "none"
    /\ \A u \in Users : \A o \in inserted[u] : o < nextId /\ shippedStatus[o] = "none"
    /\ \A u, v \in Users : u # v => inserted[u] \intersect inserted[v] = {}

(* A plan holds rows that exist; once committed they have left shipping.   *)
ChosenInv ==
    \A p \in Plans : \A o \in chosen[p] :
        /\ shippedStatus[o] # "none"
        /\ planPc[p] = "committed" => shippedStatus[o] \in {"delivering", "completed"}

(* Only orders handed to a robot are reported.                             *)
ReportedInv ==
    /\ \A r \in Robots : carrying[r] \subseteq handed
    /\ \A r \in Robots, o \in OrderId : <<r, o>> \in statements => o \in handed

TableInv == TypeOK /\ IdsInv /\ ChosenInv /\ ReportedInv /\ HandedLeftShipping

-----------------------------------------------------------------------------
(* The inductive invariant behind HandedOnce and CompletedIsFinal, which   *)
(* hold when plans are asked for one after the other.                      *)

WaiterInv ==
    /\ \A p \in Plans : Waiting(p) => robot[waiter[p]] = "waiting"
    /\ \A p, q \in Plans : Waiting(p) /\ Waiting(q) /\ waiter[p] = waiter[q] => p = q
    /\ \A p \in Plans : planPc[p] \in {"committed", "failed"} => Waiting(p)
    /\ \A p \in Plans : planPc[p] = "free" => ~Waiting(p)

(* Only a robot that delivers has orders in its hands.                     *)
RobotInv ==
    /\ \A r \in Robots : robot[r] # "delivering" => carrying[r] = {}
    /\ \A r \in Robots : patching[r] \subseteq carrying[r]

LockInv ==
    \A p, q \in Plans : p # q /\ Locking(p) /\ (Locking(q) \/ planPc[q] = "committed")
        => chosen[p] \intersect chosen[q] = {}

(* The plans whose selection can still reach the table or the robot.       *)
CanLand(p) ==
    \/ planPc[p] \in {"committing", "committed"}
    \/ planPc[p] \in {"planned", "updated"} /\ Waiting(p)

LandInv ==
    /\ \A p \in Plans : CanLand(p) => chosen[p] \intersect handed = {}
    /\ \A o \in OrderId : shippedStatus[o] = "completed" => o \in handed

DeliveryInv == TableInv /\ WaiterInv /\ RobotInv /\ LockInv /\ LandInv

-----------------------------------------------------------------------------
(* TableInv is inductive.                                                  *)

LEMMA InitTable == Init => TableInv
BY DEF Init, TableInv, TypeOK, Status, PlanPc, IdsInv, ChosenInv, ReportedInv,
       HandedLeftShipping

(* Ids: a step that allocates, commits or rolls back rows keeps them apart.*)
LEMMA NextIds == TableInv /\ [Next]_vars => IdsInv'
<1> SUFFICES ASSUME TableInv, [Next]_vars PROVE IdsInv'
  OBVIOUS
<1> USE DEF TableInv, TypeOK, IdsInv
<1>1. ASSUME NEW u \in Users, InsertUnit(u) PROVE IdsInv'
  BY <1>1 DEF InsertUnit
<1>2. ASSUME NEW u \in Users, CommitOrder(u) PROVE IdsInv'
  BY <1>2 DEF CommitOrder
<1>3. ASSUME NEW u \in Users, RollbackOrder(u) PROVE IdsInv'
  BY <1>3 DEF RollbackOrder
<1>4. ASSUME NEW p \in Plans, shippedStatus' = Delivering(chosen[p]),
             UNCHANGED userVars
      PROVE  IdsInv'
  BY <1>4 DEF Delivering, ChosenInv, userVars
<1>5. ASSUME NEW r \in Robots, NEW o \in OrderId, RunStatus(r, o) PROVE IdsInv'
  BY <1>5 DEF RunStatus, ReportedInv, HandedLeftShipping, userVars
<1>6. CASE UNCHANGED <<shippedStatus, nextId, inserted>>
  BY <1>6
<1> QED
  BY <1>1, <1>2, <1>3, <1>4, <1>5, <1>6
     DEF Next, UserStep, PlanStep, RobotStep, FaultStep, BeginOrder, AskPlan, ReadShipping,
         MarkDelivering, SendCommit, CommitLands, CommitBreaks, PlanFails, RollbackPlan,
         AnswerPlan, AnswerPlanError, ExpirePlan, SendStatus, AnswerStatus, StatusFails,
         vars, userVars

(* Plans: what is selected exists, and has left shipping once committed.   *)
LEMMA NextChosen == TableInv /\ [Next]_vars => ChosenInv'
<1> SUFFICES ASSUME TableInv, [Next]_vars PROVE ChosenInv'
  OBVIOUS
<1> USE DEF TableInv, TypeOK, ChosenInv, Status
<1>1. ASSUME NEW u \in Users, CommitOrder(u) PROVE ChosenInv'
  BY <1>1 DEF CommitOrder, IdsInv, planVars
<1>2. ASSUME NEW p \in Plans, ReadShipping(p) PROVE ChosenInv'
  BY <1>2, SelectionsSubset DEF ReadShipping, InStatus
<1>3. ASSUME NEW p \in Plans, CommitLands(p) PROVE ChosenInv'
  <2>1. CASE Waiting(p)
    BY <1>3, <2>1 DEF CommitLands, Delivering
  <2>2. CASE ~Waiting(p)
    <3>1. /\ shippedStatus' = Delivering(chosen[p])
          /\ planPc' = [planPc EXCEPT ![p] = "free"]
          /\ chosen' = [chosen EXCEPT ![p] = {}]
      BY <1>3, <2>2 DEF CommitLands, FreePlan
    <3> QED
      BY <3>1 DEF Delivering
  <2> QED
    BY <2>1, <2>2
<1>4. ASSUME NEW p \in Plans, CommitBreaks(p) PROVE ChosenInv'
  BY <1>4 DEF CommitBreaks, Delivering, FreePlan
<1>5. ASSUME NEW r \in Robots, NEW o \in OrderId, RunStatus(r, o) PROVE ChosenInv'
  BY <1>5 DEF RunStatus, planVars
<1>6. ASSUME NEW p \in Plans, UNCHANGED shippedStatus,
             AskPlan(waiter'[p], p) \/ MarkDelivering(p) \/ SendCommit(p) \/ PlanFails(p)
      PROVE  ChosenInv'
  BY <1>6 DEF AskPlan, MarkDelivering, SendCommit, PlanFails
<1>7. ASSUME NEW p \in Plans, UNCHANGED shippedStatus, FreePlan(p) PROVE ChosenInv'
  BY <1>7 DEF FreePlan
<1>8. CASE UNCHANGED <<shippedStatus, planPc, chosen>>
  BY <1>8
<1> QED
  BY <1>1, <1>2, <1>3, <1>4, <1>5, <1>6, <1>7, <1>8
     DEF Next, UserStep, PlanStep, RobotStep, FaultStep, BeginOrder, InsertUnit, RollbackOrder,
         AskPlan, MarkDelivering, SendCommit, PlanFails, RollbackPlan, AnswerPlan,
         AnswerPlanError, ExpirePlan, SendStatus, AnswerStatus, StatusFails, vars, planVars

(* What a robot reports was handed to it.                                  *)
LEMMA NextReported == TableInv /\ [Next]_vars => ReportedInv'
<1> SUFFICES ASSUME TableInv, [Next]_vars PROVE ReportedInv'
  OBVIOUS
<1> USE DEF TableInv, TypeOK, ReportedInv, history
<1>1. ASSUME NEW p \in Plans, AnswerPlan(p) PROVE ReportedInv'
  BY <1>1 DEF AnswerPlan
<1>2. ASSUME NEW r \in Robots, SendStatus(r) PROVE ReportedInv'
  BY <1>2 DEF SendStatus
<1>3. ASSUME NEW r \in Robots, AnswerStatus(r) PROVE ReportedInv'
  BY <1>3 DEF AnswerStatus
<1>4. ASSUME NEW r \in Robots, StatusFails(r) PROVE ReportedInv'
  <2>1. statements' \subseteq statements /\ handed' = handed
    BY <1>4 DEF StatusFails
  <2>2. carrying' = [carrying EXCEPT ![r] = {}]
    BY <1>4 DEF StatusFails
  <2> QED
    BY <2>1, <2>2
<1>5. ASSUME NEW r \in Robots, NEW o \in OrderId, RunStatus(r, o) PROVE ReportedInv'
  BY <1>5 DEF RunStatus
<1>6. CASE UNCHANGED <<carrying, statements, handed>>
  BY <1>6
<1> QED
  BY <1>1, <1>2, <1>3, <1>4, <1>5, <1>6
     DEF Next, UserStep, PlanStep, RobotStep, FaultStep, BeginOrder, InsertUnit, CommitOrder,
         RollbackOrder, AskPlan, ReadShipping, MarkDelivering, SendCommit, CommitLands,
         CommitBreaks, PlanFails, RollbackPlan, AnswerPlanError, ExpirePlan, vars, robotVars,
         history

LEMMA NextHanded == TableInv /\ [Next]_vars => HandedLeftShipping'
<1> SUFFICES ASSUME TableInv, [Next]_vars PROVE HandedLeftShipping'
  OBVIOUS
<1> USE DEF TableInv, TypeOK, HandedLeftShipping
<1>1. ASSUME NEW u \in Users, CommitOrder(u) PROVE HandedLeftShipping'
  BY <1>1 DEF CommitOrder, IdsInv, history
<1>2. ASSUME NEW S \in SUBSET OrderId, shippedStatus' = Delivering(S), UNCHANGED handed
      PROVE  HandedLeftShipping'
  BY <1>2 DEF Delivering
<1>3. ASSUME NEW p \in Plans, AnswerPlan(p) PROVE HandedLeftShipping'
  BY <1>3 DEF AnswerPlan, ChosenInv
<1>4. ASSUME NEW r \in Robots, NEW o \in OrderId, RunStatus(r, o) PROVE HandedLeftShipping'
  BY <1>4 DEF RunStatus, history
<1>5. CASE UNCHANGED <<shippedStatus, handed>>
  BY <1>5
<1> QED
  BY <1>1, <1>2, <1>3, <1>4, <1>5
     DEF Next, UserStep, PlanStep, RobotStep, FaultStep, BeginOrder, InsertUnit,
         RollbackOrder, AskPlan, ReadShipping, MarkDelivering, SendCommit, CommitLands,
         CommitBreaks, PlanFails, RollbackPlan, AnswerPlanError, ExpirePlan, SendStatus,
         AnswerStatus, StatusFails, vars, history

LEMMA NextTable == TableInv /\ [Next]_vars => TableInv'
BY NextTypeOK, NextIds, NextChosen, NextReported, NextHanded DEF TableInv

LEMMA TableInvariant == Spec => []TableInv
BY InitTable, NextTable, PTL DEF Spec

(* What a robot was handed never reads as shipping again, whatever the     *)
(* number of robots, timeouts and late commits.                            *)
THEOREM HandedLeftShippingAlways == Spec => []HandedLeftShipping
<1>1. TableInv => HandedLeftShipping
  BY DEF TableInv
<1> QED
  BY <1>1, TableInvariant, PTL

(* Orders of an open transaction are invisible and in nobody's plan.       *)
THEOREM UncommittedUnseenAlways == Spec => []UncommittedUnseen
<1>1. TableInv => UncommittedUnseen
  BY DEF TableInv, IdsInv, ChosenInv, UncommittedUnseen
<1> QED
  BY <1>1, TableInvariant, PTL

-----------------------------------------------------------------------------
(* DeliveryInv is inductive as long as at most one plan request is waited  *)
(* for at a time; by how many robots, and beside how many goroutines left  *)
(* behind by a timeout, makes no difference.                               *)

OneAsking == \A p, q \in Plans : Waiting(p) /\ Waiting(q) => p = q

LEMMA InitDelivery == Init => DeliveryInv
BY InitTable
   DEF Init, DeliveryInv, WaiterInv, RobotInv, LockInv, LandInv, Waiting, Locking, CanLand

(* A robot that waits, waits for one request: this needs no OneAsking.     *)
LEMMA NextWaiter == TableInv /\ WaiterInv /\ RobotInv /\ [Next]_vars => WaiterInv'
<1> SUFFICES ASSUME TableInv, WaiterInv, RobotInv, [Next]_vars PROVE WaiterInv'
  OBVIOUS
<1> USE DEF TableInv, TypeOK, WaiterInv, Waiting
<1>1. ASSUME NEW r \in Robots, NEW p \in Plans, AskPlan(r, p) PROVE WaiterInv'
  BY <1>1 DEF AskPlan
<1>2. ASSUME NEW p \in Plans, Waiting(p), UNCHANGED <<waiter, robot>>,
             planPc[p] # "free", NEW s \in PlanPc \ {"free"},
             planPc' = [planPc EXCEPT ![p] = s]
      PROVE  WaiterInv'
  BY <1>2
<1>3. ASSUME NEW p \in Plans, ~Waiting(p), FreePlan(p), UNCHANGED robot PROVE WaiterInv'
  BY <1>3 DEF FreePlan
<1>4. ASSUME NEW p \in Plans, Waiting(p), NEW s, robot' = [robot EXCEPT ![waiter[p]] = s],
             waiter' = [waiter EXCEPT ![p] = NoRobot],
             \/ planPc' = [planPc EXCEPT ![p] = "free"]
             \/ planPc[p] \notin {"committed", "failed"} /\ UNCHANGED planPc
      PROVE  WaiterInv'
  <2>1. \A q \in Plans : q # p /\ waiter[q] # NoRobot => waiter[q] # waiter[p]
    BY <1>4
  <2>2. \A q \in Plans : waiter'[q] # NoRobot =>
            q # p /\ waiter'[q] = waiter[q] /\ robot'[waiter[q]] = "waiting"
    BY <1>4, <2>1
  <2>3. \A q \in Plans : q # p => planPc'[q] = planPc[q]
    BY <1>4
  <2> QED
    BY <1>4, <2>2, <2>3
<1>5. ASSUME NEW r \in Robots, robot[r] # "waiting", NEW s, robot' = [robot EXCEPT ![r] = s],
             UNCHANGED <<planPc, waiter>>
      PROVE  WaiterInv'
  BY <1>5
<1>6. CASE UNCHANGED <<planPc, waiter, robot>>
  BY <1>6
<1>7. ASSUME NEW p \in Plans, PlanStep(p) PROVE WaiterInv'
  BY <1>2, <1>3, <1>4, <1>7
     DEF PlanStep, ReadShipping, MarkDelivering, SendCommit, CommitLands, RollbackPlan,
         AnswerPlan, AnswerPlanError, FreePlan, PlanPc, robotVars
<1>8. ASSUME NEW p \in Plans, CommitBreaks(p) \/ PlanFails(p) PROVE WaiterInv'
  BY <1>2, <1>3, <1>8 DEF CommitBreaks, PlanFails, PlanPc, robotVars
<1>9. ASSUME NEW p \in Plans, ExpirePlan(p) PROVE WaiterInv'
  BY <1>4, <1>9 DEF ExpirePlan, FreePlan
<1>10. ASSUME NEW r \in Robots, AnswerStatus(r) \/ StatusFails(r) PROVE WaiterInv'
  <2>1. robot[r] # "waiting"
    BY <1>10 DEF AnswerStatus, StatusFails, RobotInv
  <2>2. UNCHANGED <<planPc, waiter>>
    BY <1>10 DEF AnswerStatus, StatusFails, planVars
  <2>3. \E s : robot' = [robot EXCEPT ![r] = s]
    BY <1>10 DEF AnswerStatus, StatusFails
  <2> QED
    BY <1>5, <2>1, <2>2, <2>3
<1> QED
  BY <1>1, <1>6, <1>7, <1>8, <1>9, <1>10
     DEF Next, UserStep, RobotStep, FaultStep, BeginOrder, InsertUnit, CommitOrder,
         RollbackOrder, SendStatus, RunStatus, vars, planVars, robotVars

LEMMA NextRobot == TableInv /\ WaiterInv /\ RobotInv /\ [Next]_vars => RobotInv'
<1> SUFFICES ASSUME TableInv, WaiterInv, RobotInv, [Next]_vars PROVE RobotInv'
  OBVIOUS
<1> USE DEF TableInv, TypeOK, RobotInv
<1>1. ASSUME NEW r \in Robots, NEW p \in Plans, AskPlan(r, p) PROVE RobotInv'
  BY <1>1 DEF AskPlan
<1>2. ASSUME NEW p \in Plans, AnswerPlan(p) PROVE RobotInv'
  BY <1>2 DEF AnswerPlan, WaiterInv, Waiting
<1>3. ASSUME NEW p \in Plans, AnswerPlanError(p) PROVE RobotInv'
  BY <1>3 DEF AnswerPlanError, WaiterInv, Waiting
<1>4. ASSUME NEW p \in Plans, ExpirePlan(p) PROVE RobotInv'
  BY <1>4 DEF ExpirePlan, WaiterInv, Waiting
<1>5. ASSUME NEW r \in Robots, SendStatus(r) PROVE RobotInv'
  BY <1>5 DEF SendStatus
<1>6. ASSUME NEW r \in Robots, AnswerStatus(r) PROVE RobotInv'
  BY <1>6 DEF AnswerStatus
<1>7. ASSUME NEW r \in Robots, StatusFails(r) PROVE RobotInv'
  BY <1>7 DEF StatusFails
<1>8. CASE UNCHANGED <<robot, carrying, patching>>
  BY <1>8
<1> QED
  BY <1>1, <1>2, <1>3, <1>4, <1>5, <1>6, <1>7, <1>8
     DEF Next, UserStep, PlanStep, RobotStep, FaultStep, BeginOrder, InsertUnit, CommitOrder,
         RollbackOrder, ReadShipping, MarkDelivering, SendCommit, CommitLands, CommitBreaks,
         PlanFails, RollbackPlan, RunStatus, vars, robotVars

(* Two transactions never write one row at a time; and while a committed   *)
(* plan is being answered, no other transaction has locked its rows: the   *)
(* one request that is waited for is the one being answered.               *)
LEMMA NextLock == TableInv /\ WaiterInv /\ LockInv /\ OneAsking /\ [Next]_vars => LockInv'
<1> SUFFICES ASSUME TableInv, WaiterInv, LockInv, OneAsking, [Next]_vars PROVE LockInv'
  OBVIOUS
<1> USE DEF TableInv, TypeOK, LockInv, Locking
<1>1. ASSUME NEW p \in Plans, MarkDelivering(p) PROVE LockInv'
  <2>1. \A q \in Plans : planPc[q] = "committed" => q = p
    BY <1>1 DEF OneAsking, MarkDelivering, WaiterInv
  <2> QED
    BY <1>1, <2>1 DEF MarkDelivering, RowsFree
<1>2. ASSUME NEW p \in Plans, NEW s \in {"begun", "failed"},
             planPc' = [planPc EXCEPT ![p] = s], UNCHANGED chosen
      PROVE  LockInv'
  BY <1>2
<1>3. ASSUME NEW p \in Plans, ReadShipping(p) PROVE LockInv'
  BY <1>3 DEF ReadShipping
<1>4. ASSUME NEW p \in Plans, SendCommit(p) PROVE LockInv'
  BY <1>4 DEF SendCommit
<1>5. ASSUME NEW p \in Plans, CommitLands(p), Waiting(p) PROVE LockInv'
  BY <1>5 DEF CommitLands
<1>6. ASSUME NEW p \in Plans, FreePlan(p) PROVE LockInv'
  BY <1>6 DEF FreePlan
<1>7. CASE UNCHANGED <<planPc, chosen>>
  BY <1>7
<1>8. ASSUME NEW p \in Plans, CommitLands(p) \/ CommitBreaks(p) PROVE LockInv'
  BY <1>2, <1>5, <1>6, <1>8 DEF CommitLands, CommitBreaks
<1> QED
  BY <1>1, <1>2, <1>3, <1>4, <1>6, <1>7, <1>8
     DEF Next, UserStep, PlanStep, RobotStep, FaultStep, BeginOrder, InsertUnit, CommitOrder,
         RollbackOrder, AskPlan, PlanFails, RollbackPlan, AnswerPlan, AnswerPlanError,
         ExpirePlan, SendStatus, RunStatus, AnswerStatus, StatusFails, vars, planVars

(* What can still land was never handed out, and only what was handed out  *)
(* is completed: a goroutine left behind by a timeout either rolls back or *)
(* lands before the next plan gets at the same rows.                       *)
LEMMA NextLand == DeliveryInv /\ OneAsking /\ [Next]_vars => LandInv'
<1> SUFFICES ASSUME DeliveryInv, OneAsking, [Next]_vars PROVE LandInv'
  OBVIOUS
<1> USE DEF DeliveryInv, TableInv, TypeOK, LandInv, CanLand
<1>1. ASSUME NEW u \in Users, CommitOrder(u) PROVE LandInv'
  BY <1>1 DEF CommitOrder, planVars, history, Waiting
<1>2. ASSUME NEW p \in Plans, ReadShipping(p) PROVE LandInv'
  <2>1. \A S : \A T \in Selections(S) : T \subseteq S
    BY SelectionsSubset
  <2>2. chosen'[p] \intersect handed = {}
    BY <1>2, <2>1 DEF ReadShipping, InStatus, HandedLeftShipping
  <2> QED
    BY <1>2, <2>2 DEF ReadShipping, history, Waiting
<1>3. ASSUME NEW p \in Plans, MarkDelivering(p) \/ SendCommit(p) PROVE LandInv'
  BY <1>3 DEF MarkDelivering, SendCommit, Waiting, history
<1>4. ASSUME NEW p \in Plans, CommitLands(p) PROVE LandInv'
  <2>1. \A o \in OrderId : shippedStatus'[o] = "completed" => shippedStatus[o] = "completed"
    BY <1>4 DEF CommitLands, Delivering
  <2>2. \A q \in Plans : CanLand(q)' => CanLand(q) /\ chosen'[q] = chosen[q]
    BY <1>4 DEF CommitLands, FreePlan, Waiting
  <2> QED
    BY <1>4, <2>1, <2>2 DEF CommitLands
<1>5. ASSUME NEW p \in Plans, CommitBreaks(p) PROVE LandInv'
  <2>1. \A o \in OrderId : shippedStatus'[o] = "completed" => shippedStatus[o] = "completed"
    BY <1>5 DEF CommitBreaks, Delivering
  <2>2. \A q \in Plans : CanLand(q)' => CanLand(q) /\ chosen'[q] = chosen[q]
    BY <1>5 DEF CommitBreaks, FreePlan, Waiting
  <2> QED
    BY <1>5, <2>1, <2>2 DEF CommitBreaks
<1>6. ASSUME NEW p \in Plans, AnswerPlan(p) PROVE LandInv'
  <2>1. ASSUME NEW q \in Plans, q # p, CanLand(q) PROVE chosen[p] \intersect chosen[q] = {}
    <3>1. ~Waiting(q)
      BY <1>6, <2>1 DEF AnswerPlan, OneAsking, WaiterInv
    <3>2. planPc[q] = "committing"
      BY <2>1, <3>1 DEF WaiterInv
    <3> QED
      BY <1>6, <2>1, <3>2 DEF AnswerPlan, LockInv, Locking
  <2>2. \A q \in Plans : CanLand(q)' => q # p /\ CanLand(q) /\ chosen'[q] = chosen[q]
    BY <1>6 DEF AnswerPlan, FreePlan, Waiting
  <2>3. handed' = handed \union chosen[p] /\ shippedStatus' = shippedStatus
    BY <1>6 DEF AnswerPlan
  <2>4. \A o \in OrderId : shippedStatus'[o] = "completed" => o \in handed'
    BY <2>3
  <2>5. \A q \in Plans : CanLand(q)' => chosen'[q] \intersect handed' = {}
    BY <2>1, <2>2, <2>3
  <2> QED
    BY <2>4, <2>5
<1>7. ASSUME NEW r \in Robots, NEW o \in OrderId, RunStatus(r, o) PROVE LandInv'
  BY <1>7 DEF RunStatus, ReportedInv, planVars, history, Waiting
<1>8. ASSUME UNCHANGED <<shippedStatus, handed>>,
             \A q \in Plans : CanLand(q)' => CanLand(q) /\ chosen'[q] = chosen[q]
      PROVE  LandInv'
  BY <1>8
<1>9. ASSUME NEW r \in Robots, NEW p \in Plans, AskPlan(r, p) PROVE LandInv'
  BY <1>8, <1>9 DEF AskPlan, Waiting, history
<1>10. ASSUME NEW p \in Plans, PlanFails(p) PROVE LandInv'
  BY <1>8, <1>10 DEF PlanFails, Waiting, history
<1>11. ASSUME NEW p \in Plans,
              RollbackPlan(p) \/ AnswerPlanError(p) \/ ExpirePlan(p)
       PROVE  LandInv'
  <2>1. UNCHANGED <<shippedStatus, handed>>
    BY <1>11 DEF RollbackPlan, AnswerPlanError, ExpirePlan, history
  <2>2. \A q \in Plans : CanLand(q)' => CanLand(q) /\ chosen'[q] = chosen[q]
    BY <1>11 DEF RollbackPlan, AnswerPlanError, ExpirePlan, FreePlan, Waiting
  <2> QED
    BY <1>8, <2>1, <2>2
<1>12. CASE UNCHANGED <<shippedStatus, handed, planPc, chosen, waiter>>
  BY <1>12 DEF Waiting
<1> QED
  BY <1>1, <1>2, <1>3, <1>4, <1>5, <1>6, <1>7, <1>9, <1>10, <1>11, <1>12
     DEF Next, UserStep, PlanStep, RobotStep, FaultStep, BeginOrder, InsertUnit,
         RollbackOrder, SendStatus, AnswerStatus, StatusFails, vars, planVars, history

LEMMA SerialInvariant == Spec /\ []OneAsking => []DeliveryInv
<1>1. DeliveryInv /\ OneAsking /\ [Next]_vars => DeliveryInv'
  BY NextTable, NextWaiter, NextRobot, NextLock, NextLand DEF DeliveryInv
<1> QED
  BY InitDelivery, <1>1, PTL DEF Spec

(* One robot asks for one plan after the other: this is the scenario.      *)
OneRobot == \A r, s \in Robots : r = s

LEMMA OneRobotAsks ==
    ASSUME OneRobot
    PROVE  Spec => []OneAsking
<1> DEFINE I == TableInv /\ WaiterInv /\ RobotInv
<1>1. Init => I
  BY InitDelivery DEF DeliveryInv
<1>2. I /\ [Next]_vars => I'
  BY NextTable, NextWaiter, NextRobot
<1>3. I => OneAsking
  BY DEF TableInv, TypeOK, WaiterInv, OneAsking, OneRobot, Waiting
<1> QED
  BY <1>1, <1>2, <1>3, PTL DEF Spec

(* No order is ever handed out twice, to any of the robots, as long as     *)
(* their plan requests do not overlap: goroutines that outlive a timeout   *)
(* may overlap with each other and with the next request.                  *)
THEOREM HandedOnceOneByOne == Spec /\ []OneAsking => HandedOnce
<1> DEFINE A == \A r \in Robots : (carrying'[r] \ carrying[r]) \intersect handed = {}
<1>1. DeliveryInv /\ [Next]_vars => [A]_vars
  <2> SUFFICES ASSUME DeliveryInv, Next PROVE A
    BY DEF vars
  <2> USE DEF DeliveryInv, TableInv, TypeOK
  <2>1. ASSUME NEW p \in Plans, AnswerPlan(p) PROVE A
    BY <2>1 DEF AnswerPlan, LandInv, CanLand
  <2>2. CASE \A r \in Robots : carrying'[r] \subseteq carrying[r]
    BY <2>2
  <2>3. ASSUME NEW r \in Robots, AnswerStatus(r) \/ StatusFails(r) PROVE A
    <3>1. \E S : carrying' = [carrying EXCEPT ![r] = @ \ S]
      <4>1. CASE AnswerStatus(r)
        BY <4>1 DEF AnswerStatus
      <4>2. CASE StatusFails(r)
        <5>1. carrying' = [carrying EXCEPT ![r] = {}]
          BY <4>2 DEF StatusFails
        <5>2. carrying[r] \ carrying[r] = {}
          OBVIOUS
        <5> QED
          BY <5>1, <5>2
      <4> QED
        BY <2>3, <4>1, <4>2
    <3> QED
      BY <2>2, <3>1
  <2> QED
    BY <2>1, <2>2, <2>3
       DEF Next, UserStep, PlanStep, RobotStep, FaultStep, BeginOrder, InsertUnit,
           CommitOrder, RollbackOrder, AskPlan, ReadShipping, MarkDelivering, SendCommit,
           CommitLands, CommitBreaks, PlanFails, RollbackPlan, AnswerPlanError, ExpirePlan,
           SendStatus, RunStatus, robotVars
<1> QED
  BY <1>1, SerialInvariant, PTL DEF Spec, HandedOnce

(* With one robot no order is ever handed out twice, however its requests  *)
(* time out and its goroutines linger.                                     *)
THEOREM HandedOnceAlways ==
    ASSUME OneRobot
    PROVE  Spec => HandedOnce
BY HandedOnceOneByOne, OneRobotAsks, PTL

(* A completed order stays completed, although UpdateStatuses never looks  *)
(* at the status it overwrites, as long as plan requests do not overlap.   *)
THEOREM CompletedIsFinalOneByOne == Spec /\ []OneAsking => CompletedIsFinal
<1> DEFINE A == \A o \in OrderId :
                    shippedStatus[o] = "completed" => shippedStatus'[o] = "completed"
<1>1. DeliveryInv /\ [Next]_vars => [A]_vars
  <2> SUFFICES ASSUME DeliveryInv, Next PROVE A
    BY DEF vars
  <2> USE DEF DeliveryInv, TableInv, TypeOK
  <2>1. ASSUME NEW u \in Users, CommitOrder(u) PROVE A
    BY <2>1 DEF CommitOrder, IdsInv
  <2>2. ASSUME NEW p \in Plans, CanLand(p), shippedStatus' = Delivering(chosen[p]) PROVE A
    BY <2>2 DEF Delivering, LandInv
  <2>3. ASSUME NEW r \in Robots, NEW o \in OrderId, RunStatus(r, o) PROVE A
    BY <2>3 DEF RunStatus
  <2>4. CASE UNCHANGED shippedStatus
    BY <2>4
  <2> QED
    BY <2>1, <2>2, <2>3, <2>4
       DEF Next, UserStep, PlanStep, RobotStep, FaultStep, BeginOrder, InsertUnit,
           RollbackOrder, AskPlan, ReadShipping, MarkDelivering, SendCommit, CanLand,
           CommitLands, CommitBreaks, PlanFails, RollbackPlan, AnswerPlan, AnswerPlanError,
           ExpirePlan, SendStatus, AnswerStatus, StatusFails
<1> QED
  BY <1>1, SerialInvariant, PTL DEF Spec, CompletedIsFinal

(* With one robot a completed order stays completed.                       *)
THEOREM CompletedIsFinalAlways ==
    ASSUME OneRobot
    PROVE  Spec => CompletedIsFinal
BY CompletedIsFinalOneByOne, OneRobotAsks, PTL

-----------------------------------------------------------------------------
HIDE DEF OrderId

(* The units of an order request appear in one step, all of them, beside   *)
(* any number of other orders, plans and status reports.                   *)
THEOREM UnitsAppearTogetherAlways == Spec => UnitsAppearTogether
<1> DEFINE appeared == {o \in OrderId : shippedStatus[o] = "none" /\ shippedStatus'[o] # "none"}
           A == appeared # {} => \E u \in Users : unitsLeft[u] = 0 /\ appeared = inserted[u]
<1>1. TableInv /\ [Next]_vars => [A]_vars
  <2> SUFFICES ASSUME TableInv, Next PROVE A
    BY DEF vars
  <2> USE DEF TableInv, TypeOK
  <2>1. ASSUME NEW u \in Users, CommitOrder(u) PROVE A
    <3>1. appeared = inserted[u]
      BY <2>1 DEF CommitOrder, IdsInv
    <3> QED
      BY <2>1, <3>1 DEF CommitOrder
  <2>2. ASSUME NEW p \in Plans, shippedStatus' = Delivering(chosen[p]) PROVE A
    BY <2>2 DEF Delivering, ChosenInv
  <2>3. ASSUME NEW r \in Robots, NEW o \in OrderId, RunStatus(r, o) PROVE A
    BY <2>3 DEF RunStatus, ReportedInv, HandedLeftShipping
  <2>4. CASE UNCHANGED shippedStatus
    BY <2>4
  <2> QED
    BY <2>1, <2>2, <2>3, <2>4
       DEF Next, UserStep, PlanStep, RobotStep, FaultStep, BeginOrder, InsertUnit,
           RollbackOrder, AskPlan, ReadShipping, MarkDelivering, SendCommit,
           CommitLands, CommitBreaks, PlanFails, RollbackPlan, AnswerPlan, AnswerPlanError,
           ExpirePlan, SendStatus, AnswerStatus, StatusFails
<1> QED
  BY <1>1, TableInvariant, PTL DEF Spec, UnitsAppearTogether

-----------------------------------------------------------------------------
(* Who answers for an order under delivery, for any number of robots.      *)

(* r will still report o, or its report is on its way to the table.        *)
Holds(r, o) == o \in carrying[r] /\ (o \in patching[r] => <<r, o>> \in statements)

HeldInv ==
    \A o \in InStatus("delivering") :
        \/ \E r \in Robots : Holds(r, o)
        \/ \E p \in Plans : planPc[p] = "committed" /\ o \in chosen[p]
        \/ o \in lost

(* Nothing is lost and no goroutine is left behind without a fault.        *)
BlameInv ==
    /\ lost # {} => faults > 0
    /\ \A p \in Plans : planPc[p] # "free" /\ ~Waiting(p) => faults > 0

AccountInv == TableInv /\ WaiterInv /\ RobotInv /\ HeldInv /\ BlameInv

LEMMA InitAccount == Init => AccountInv
BY InitTable
   DEF Init, AccountInv, WaiterInv, RobotInv, HeldInv, BlameInv, InStatus, Waiting

LEMMA NextBlame == AccountInv /\ [Next]_vars => BlameInv'
<1> SUFFICES ASSUME AccountInv, [Next]_vars PROVE BlameInv'
  OBVIOUS
<1> USE DEF AccountInv, TableInv, TypeOK, BlameInv, Waiting
<1>1. ASSUME Fault PROVE BlameInv'
  BY <1>1 DEF Fault
<1>2. ASSUME NEW r \in Robots, NEW p \in Plans, AskPlan(r, p) PROVE BlameInv'
  BY <1>2, RobotsAssumption DEF AskPlan, history
<1>3. ASSUME NEW p \in Plans, planPc[p] # "free", UNCHANGED <<waiter, faults, lost>>,
             NEW s, planPc' = [planPc EXCEPT ![p] = s]
      PROVE  BlameInv'
  BY <1>3
<1>4. ASSUME NEW p \in Plans, FreePlan(p), UNCHANGED <<faults, lost>> PROVE BlameInv'
  BY <1>4 DEF FreePlan
<1>5. ASSUME NEW p \in Plans, CommitLands(p) PROVE BlameInv'
  <2>1. CASE Waiting(p)
    BY <1>3, <1>5, <2>1 DEF CommitLands
  <2>2. CASE ~Waiting(p)
    BY <1>5, <2>2 DEF CommitLands, FreePlan
  <2> QED
    BY <2>1, <2>2
<1>6. CASE UNCHANGED <<planPc, waiter, faults, lost>>
  BY <1>6
<1> QED
  BY <1>1, <1>2, <1>3, <1>4, <1>5, <1>6
     DEF Next, UserStep, PlanStep, RobotStep, FaultStep, BeginOrder, InsertUnit, CommitOrder,
         RollbackOrder, ReadShipping, MarkDelivering, SendCommit, CommitBreaks, PlanFails,
         RollbackPlan, AnswerPlan, AnswerPlanError, ExpirePlan, SendStatus, RunStatus,
         AnswerStatus, StatusFails, vars, planVars, history

(* A robot that finishes its report leaves the order completed, or to the  *)
(* plan that has taken it once more.                                       *)
LEMMA NextHeld == AccountInv /\ [Next]_vars => HeldInv'
<1> SUFFICES ASSUME AccountInv, [Next]_vars PROVE HeldInv'
  OBVIOUS
<1> USE DEF AccountInv, TableInv, TypeOK, HeldInv, InStatus, Holds
<1>1. ASSUME NEW u \in Users, CommitOrder(u) PROVE HeldInv'
  BY <1>1 DEF CommitOrder, planVars, robotVars, history
<1>2. ASSUME NEW p \in Plans, planPc[p] # "committed", UNCHANGED <<shippedStatus, robotVars, lost>>,
             \A q \in Plans \ {p} : planPc'[q] = planPc[q] /\ chosen'[q] = chosen[q]
      PROVE  HeldInv'
  BY <1>2 DEF robotVars
<1>3. ASSUME NEW p \in Plans, planPc[p] # "committed", shippedStatus' = Delivering(chosen[p]),
             UNCHANGED robotVars, lost \subseteq lost',
             \A q \in Plans \ {p} : planPc'[q] = planPc[q] /\ chosen'[q] = chosen[q],
             \/ planPc'[p] = "committed" /\ chosen'[p] = chosen[p]
             \/ chosen[p] \subseteq lost'
      PROVE  HeldInv'
  BY <1>3 DEF Delivering, robotVars
<1>4. ASSUME NEW p \in Plans, CommitLands(p) PROVE HeldInv'
  BY <1>3, <1>4 DEF CommitLands, FreePlan
<1>5. ASSUME NEW p \in Plans, CommitBreaks(p) PROVE HeldInv'
  <2>1. planPc[p] = "committing" /\ UNCHANGED robotVars
    BY <1>5 DEF CommitBreaks
  <2>2. \A q \in Plans \ {p} : planPc'[q] = planPc[q] /\ chosen'[q] = chosen[q]
    BY <1>5 DEF CommitBreaks, FreePlan
  <2>3. \/ UNCHANGED <<shippedStatus, lost>>
        \/ shippedStatus' = Delivering(chosen[p]) /\ lost' = lost \union chosen[p]
    BY <1>5 DEF CommitBreaks
  <2> QED
    BY <1>2, <1>3, <2>1, <2>2, <2>3
<1>6. ASSUME NEW p \in Plans, AnswerPlan(p) PROVE HeldInv'
  <2> DEFINE w == waiter[p]
  <2>1. w \in Robots /\ carrying[w] = {} /\ patching[w] = {}
    BY <1>6 DEF AnswerPlan, WaiterInv, RobotInv, Waiting
  <2>2. /\ UNCHANGED <<shippedStatus, patching, statements, lost>>
        /\ carrying' = [carrying EXCEPT ![w] = chosen[p]]
        /\ \A q \in Plans \ {p} : planPc'[q] = planPc[q] /\ chosen'[q] = chosen[q]
    BY <1>6 DEF AnswerPlan, FreePlan
  <2>3. \A o \in chosen[p] : \E r \in Robots : Holds(r, o)'
    BY <2>1, <2>2
  <2>4. \A r \in Robots, o \in OrderId : Holds(r, o) => Holds(r, o)'
    BY <2>1, <2>2
  <2> QED
    BY <2>1, <2>2, <2>3, <2>4
<1>7. ASSUME NEW p \in Plans, ExpirePlan(p) PROVE HeldInv'
  <2>1. /\ UNCHANGED <<shippedStatus, carrying, patching, statements>>
        /\ \A q \in Plans \ {p} : planPc'[q] = planPc[q] /\ chosen'[q] = chosen[q]
        /\ lost \subseteq lost'
        /\ planPc[p] = "committed" => chosen[p] \subseteq lost'
    BY <1>7 DEF ExpirePlan, FreePlan
  <2> QED
    BY <2>1
<1>8. ASSUME NEW r \in Robots, SendStatus(r) PROVE HeldInv'
  <2>1. \A s \in Robots, o \in OrderId : Holds(s, o) => Holds(s, o)'
    BY <1>8 DEF SendStatus
  <2> QED
    BY <1>8, <2>1 DEF SendStatus, planVars, history
<1>9. ASSUME NEW r \in Robots, NEW o \in OrderId, RunStatus(r, o) PROVE HeldInv'
  <2>1. \A s \in Robots, i \in OrderId \ {o} : Holds(s, i) => Holds(s, i)'
    BY <1>9 DEF RunStatus
  <2>2. InStatus("delivering")' \subseteq InStatus("delivering") \ {o}
    BY <1>9 DEF RunStatus
  <2> QED
    BY <1>9, <2>1, <2>2 DEF RunStatus, planVars, history
<1>10. ASSUME NEW r \in Robots, AnswerStatus(r) PROVE HeldInv'
  <2>1. \A s \in Robots, o \in OrderId : Holds(s, o) => Holds(s, o)'
    BY <1>10 DEF AnswerStatus
  <2> QED
    BY <1>10, <2>1 DEF AnswerStatus, planVars, history
<1>11. ASSUME NEW r \in Robots, StatusFails(r) PROVE HeldInv'
  <2>1. lost' = lost \union carrying[r] /\ UNCHANGED <<shippedStatus, planPc, chosen>>
    BY <1>11 DEF StatusFails, planVars
  <2>2. \A s \in Robots \ {r} : carrying'[s] = carrying[s] /\ patching'[s] = patching[s]
    BY <1>11 DEF StatusFails
  <2>3. \A s \in Robots \ {r}, o \in OrderId : <<s, o>> \in statements => <<s, o>> \in statements'
    BY <1>11 DEF StatusFails
  <2>4. \A s \in Robots \ {r}, o \in OrderId : Holds(s, o) => Holds(s, o)'
    BY <2>2, <2>3
  <2>5. \A o \in OrderId : Holds(r, o) => o \in lost'
    BY <2>1
  <2> QED
    BY <2>1, <2>4, <2>5
<1>12. CASE UNCHANGED <<shippedStatus, planPc, chosen, carrying, patching, statements, lost>>
  BY <1>12
<1>13. ASSUME NEW p \in Plans,
              ReadShipping(p) \/ MarkDelivering(p) \/ SendCommit(p) \/ PlanFails(p)
                \/ RollbackPlan(p) \/ AnswerPlanError(p) \/ AskPlan(waiter'[p], p)
       PROVE  HeldInv'
  <2>1. planPc[p] # "committed"
    BY <1>13 DEF ReadShipping, MarkDelivering, SendCommit, PlanFails, RollbackPlan,
                 AnswerPlanError, AskPlan
  <2>2. UNCHANGED <<shippedStatus, carrying, patching, statements, lost>>
    BY <1>13 DEF ReadShipping, MarkDelivering, SendCommit, PlanFails, RollbackPlan,
                 AnswerPlanError, AskPlan, robotVars, history
  <2>3. \A q \in Plans \ {p} : planPc'[q] = planPc[q] /\ chosen'[q] = chosen[q]
    BY <1>13 DEF ReadShipping, MarkDelivering, SendCommit, PlanFails, RollbackPlan,
                 AnswerPlanError, AskPlan, FreePlan
  <2> QED
    BY <2>1, <2>2, <2>3
<1> QED
  <2>1. ASSUME NEW r \in Robots, NEW p \in Plans, AskPlan(r, p) PROVE AskPlan(waiter'[p], p)
    BY <2>1 DEF AskPlan
  <2> QED
    BY <1>1, <1>4, <1>5, <1>6, <1>7, <1>8, <1>9, <1>10, <1>11, <1>12, <1>13, <2>1
       DEF Next, UserStep, PlanStep, RobotStep, FaultStep, BeginOrder, InsertUnit,
           RollbackOrder, vars, planVars, robotVars, history

(* An order under delivery is in a robot's hands, or on its way there, or  *)
(* a fault has lost it: also when two plans have taken the same order.     *)
THEOREM DeliveringIsAccountedAlways == Spec => []DeliveringIsAccounted
<1>1. AccountInv /\ [Next]_vars => AccountInv'
  BY NextTable, NextWaiter, NextRobot, NextHeld, NextBlame DEF AccountInv
<1>2. AccountInv => DeliveringIsAccounted
  BY DEF AccountInv, HeldInv, Holds, BlameInv, DeliveringIsAccounted
<1> QED
  BY InitAccount, <1>1, <1>2, PTL DEF Spec

-----------------------------------------------------------------------------
(* With one robot the requests implement OrderLifecycle.                   *)

LEMMA InitLifecycle == Init => Lifecycle!Init
BY DEF Init, Lifecycle!Init

(* A commit assigns those of its orders that are still shipping; a         *)
(* goroutine left behind may have assigned the others before it.           *)
LEMMA CommitRefines ==
    ASSUME DeliveryInv, NEW p \in Plans, planPc[p] = "committing",
           shippedStatus' = Delivering(chosen[p]), UNCHANGED handed
    PROVE  [Lifecycle!Next]_(Lifecycle!vars)
<1> DEFINE S == {o \in chosen[p] : shippedStatus[o] = "shipping"}
<1> USE DEF DeliveryInv, TableInv, TypeOK, Status
<1>1. \A o \in chosen[p] \ S : shippedStatus[o] = "delivering"
  BY DEF ChosenInv, LandInv, CanLand
<1>2. shippedStatus' = [o \in OrderId |-> IF o \in S THEN "delivering" ELSE shippedStatus[o]]
  BY <1>1 DEF Delivering
<1>3. CASE S = {}
  <2>1. shippedStatus' = shippedStatus
    BY <1>2, <1>3
  <2> QED
    BY <2>1 DEF Lifecycle!vars
<1>4. CASE S # {}
  <2>1. S \in SUBSET OrderId
    OBVIOUS
  <2>2. Lifecycle!Assign(S)
    BY <1>2, <1>4 DEF Lifecycle!Assign, Lifecycle!Move
  <2> QED
    BY <2>1, <2>2 DEF Lifecycle!Next
<1> QED
  BY <1>3, <1>4

LEMMA NextLifecycle == DeliveryInv /\ [Next]_vars => [Lifecycle!Next]_(Lifecycle!vars)
<1> SUFFICES ASSUME DeliveryInv, [Next]_vars PROVE [Lifecycle!Next]_(Lifecycle!vars)
  OBVIOUS
<1> USE DEF DeliveryInv, TableInv, TypeOK
<1>1. ASSUME NEW u \in Users, CommitOrder(u) PROVE [Lifecycle!Next]_(Lifecycle!vars)
  <2>1. inserted[u] \in SUBSET OrderId /\ inserted[u] # {}
    BY <1>1 DEF CommitOrder, InTransaction
  <2>2. Lifecycle!Place(inserted[u])
    BY <1>1, <2>1 DEF CommitOrder, IdsInv, history, Lifecycle!Place, Lifecycle!Move
  <2> QED
    BY <2>1, <2>2 DEF Lifecycle!Next
<1>2. ASSUME NEW p \in Plans, CommitLands(p) \/ CommitBreaks(p)
      PROVE  [Lifecycle!Next]_(Lifecycle!vars)
  <2>1. CASE UNCHANGED <<shippedStatus, handed>>
    BY <2>1 DEF Lifecycle!vars
  <2>2. planPc[p] = "committing" /\ UNCHANGED handed
    BY <1>2 DEF CommitLands, CommitBreaks
  <2>3. UNCHANGED shippedStatus \/ shippedStatus' = Delivering(chosen[p])
    BY <1>2 DEF CommitLands, CommitBreaks
  <2> QED
    BY <2>1, <2>2, <2>3, CommitRefines
<1>3. ASSUME NEW p \in Plans, AnswerPlan(p) PROVE [Lifecycle!Next]_(Lifecycle!vars)
  <2>1. UNCHANGED shippedStatus /\ handed' = handed \union chosen[p]
    BY <1>3 DEF AnswerPlan
  <2>2. CASE chosen[p] = {}
    BY <2>1, <2>2 DEF Lifecycle!vars
  <2>3. CASE chosen[p] # {}
    <3>1. chosen[p] \intersect handed = {}
      BY <1>3 DEF AnswerPlan, LandInv, CanLand
    <3>2. \A o \in chosen[p] : shippedStatus[o] = "delivering"
      BY <1>3, <3>1 DEF AnswerPlan, ChosenInv, LandInv
    <3>3. chosen[p] \in SUBSET OrderId /\ Lifecycle!HandOut(chosen[p])
      BY <2>1, <2>3, <3>1, <3>2 DEF Lifecycle!HandOut
    <3> QED
      BY <3>3 DEF Lifecycle!Next
  <2> QED
    BY <2>2, <2>3
<1>4. ASSUME NEW r \in Robots, NEW o \in OrderId, RunStatus(r, o)
      PROVE  [Lifecycle!Next]_(Lifecycle!vars)
  <2>1. o \in handed /\ shippedStatus[o] \in {"delivering", "completed"} /\ UNCHANGED handed
    BY <1>4 DEF RunStatus, ReportedInv, HandedLeftShipping, history
  <2>2. shippedStatus' = [i \in OrderId |-> IF i \in {o} THEN "completed" ELSE shippedStatus[i]]
    BY <1>4 DEF RunStatus
  <2>3. CASE shippedStatus[o] = "delivering"
    <3>1. Lifecycle!Complete(o)
      BY <2>1, <2>2, <2>3 DEF Lifecycle!Complete, Lifecycle!Move
    <3> QED
      BY <3>1 DEF Lifecycle!Next
  <2>4. CASE shippedStatus[o] = "completed"
    <3>1. shippedStatus' = shippedStatus
      BY <2>2, <2>4
    <3> QED
      BY <2>1, <3>1 DEF Lifecycle!vars
  <2> QED
    BY <2>1, <2>3, <2>4
<1>5. CASE UNCHANGED <<shippedStatus, handed>>
  BY <1>5 DEF Lifecycle!vars
<1> QED
  BY <1>1, <1>2, <1>3, <1>4, <1>5
     DEF Next, UserStep, PlanStep, RobotStep, FaultStep, BeginOrder, InsertUnit,
         RollbackOrder, AskPlan, ReadShipping, MarkDelivering, SendCommit, PlanFails,
         RollbackPlan, AnswerPlanError, ExpirePlan, SendStatus, AnswerStatus, StatusFails,
         vars, history

(* Orders behave as OrderLifecycle says, whatever times out and whichever  *)
(* goroutines linger, as long as plan requests do not overlap: the         *)
(* requests implement it, for any number of robots.                        *)
THEOREM LifecycleOneByOne == Spec /\ []OneAsking => LifecycleSpec
BY InitLifecycle, NextLifecycle, SerialInvariant, PTL DEF Spec, LifecycleSpec, Lifecycle!Spec

(* With one robot they do not overlap.                                     *)
THEOREM LifecycleImplemented ==
    ASSUME OneRobot
    PROVE  Spec => LifecycleSpec
BY LifecycleOneByOne, OneRobotAsks, PTL
=============================================================================
