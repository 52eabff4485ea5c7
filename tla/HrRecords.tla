----------------------------- MODULE HrRecords -----------------------------
(***************************************************************************)
(* Organisation structure, reporting lines, overtime requests and the      *)
(* attendance clock (apps/api/src/hr: employee.service.ts, ot.service.ts,  *)
(* attendance.service.ts).                                                 *)
(*                                                                         *)
(* Departments and positions are soft-deleted.  Updates and deletes check  *)
(* and then write in one READ COMMITTED transaction that locks nothing     *)
(* before it writes: two requests may both pass their checks.  Inserts,    *)
(* and the position of an employee, are only checked by foreign keys,      *)
(* which a soft-deleted row satisfies.                                     *)
(***************************************************************************)
EXTENDS PayrollMath, FiniteSets

CONSTANTS
  Departments, Positions, Staff, OtRequests,
  Requested,          \* hours between start and end of an overtime request
  WorkedBy,           \* the employee of an overtime request
  Clock,              \* attended hours that occur; bound
  CYCLE_HOP_LIMIT,
  HrReqs,             \* requests that may overlap
  MaxOps,             \* bound: requests and imports
  NoRow

ASSUME HrAssumptions ==
  /\ CYCLE_HOP_LIMIT \in Nat /\ MaxOps \in Nat /\ Clock \subseteq Nat
  /\ Requested \in [OtRequests -> Nat] /\ WorkedBy \in [OtRequests -> Staff]
  /\ NoRow \notin Departments \cup Positions \cup Staff
  /\ Departments \cap Positions = {}   \* ids are UUIDs, no two tables share one
  /\ Departments \cap Staff = {}
  /\ Positions \cap Staff = {}

VARIABLES
  dept,        \* department rows: state and parent_id
  pos,         \* position rows: state and department_id
  position,    \* employee.position_id
  manager,     \* reporting_line.manager_employee_id
  ot,          \* overtime requests: status and approved_hours
  attended,    \* hours on the clock for the day of an employee
  hrReq,       \* open requests: what was loaded and will be written
  ops,         \* operations so far
  racedMoves,  \* history: departments and employees moved while another move
               \* was under way
  loose,       \* history: rows placed unchecked, or while their target went
  stale        \* history: overtime with an override or a later import

hrVars == <<dept, pos, position, manager, ot, attended, hrReq, ops, racedMoves,
            loose, stale>>

-----------------------------------------------------------------------------
RowState == {"none", "live", "deleted"}
Refs == Departments \cup Positions \cup Staff \cup OtRequests \cup {NoRow}
OtStatus == {"none", "DRAFT", "SUBMITTED", "APPROVED", "RECONCILED"}

HrOps == {"idle", "updateDepartment", "deleteDepartment", "updatePosition", "deletePosition",
          "setReportingLine", "submit", "approve", "reconcile"}

HrRequest == [op : HrOps, id : Refs, arg : Refs, raced : BOOLEAN, hours : Nat]

NoRequest == [op |-> "idle", id |-> NoRow, arg |-> NoRow, raced |-> FALSE, hours |-> 0]

HrTypeOK ==
  /\ dept \in [Departments -> [state : RowState, parent : Departments \cup {NoRow}]]
  /\ pos \in [Positions -> [state : RowState, dept : Departments \cup {NoRow}]]
  /\ position \in [Staff -> Positions \cup {NoRow}]
  /\ manager \in [Staff -> Staff \cup {NoRow}]
  /\ ot \in [OtRequests -> [status : OtStatus, hours : Nat]]
  /\ attended \in [Staff -> Clock]
  /\ hrReq \in [HrReqs -> HrRequest]
  /\ ops \in 0 .. MaxOps
  /\ racedMoves \subseteq Departments \cup Staff
  /\ loose \subseteq Departments \cup Positions \cup Staff
  /\ stale \subseteq OtRequests

HrInit ==
  /\ dept = [d \in Departments |-> [state |-> "none", parent |-> NoRow]]
  /\ pos = [p \in Positions |-> [state |-> "none", dept |-> NoRow]]
  /\ position = [e \in Staff |-> NoRow]
  /\ manager = [e \in Staff |-> NoRow]
  /\ ot = [o \in OtRequests |-> [status |-> "none", hours |-> 0]]
  /\ attended \in [Staff -> Clock]
  /\ hrReq = [p \in HrReqs |-> NoRequest]
  /\ ops = 0
  /\ racedMoves = {} /\ loose = {} /\ stale = {}

Op == ops < MaxOps /\ ops' = ops + 1

liveDept(d) == d \in Departments /\ dept[d].state = "live"
livePos(p) == p \in Positions /\ pos[p].state = "live"

(* A request q is open that does op to row id.                             *)
Open(op, id) == \E q \in HrReqs : hrReq[q].op = op /\ hrReq[q].id = id

(* The rows that overlapping moves, one of them of x, are moving.          *)
Overlapping(op, x) ==
  LET others == {hrReq[q].id : q \in {r \in HrReqs : hrReq[r].op = op}}
  IN IF others = {} THEN {} ELSE others \cup {x}

Begin(p, r) == hrReq[p] = NoRequest /\ hrReq' = [hrReq EXCEPT ![p] = r]

(* x was placed in target y; deleting says that a delete of y is open.     *)
Placed(x, y, unchecked, deleting) ==
  loose' = IF y # NoRow /\ (unchecked \/ deleting) THEN loose \cup {x} ELSE loose \ {x}

-----------------------------------------------------------------------------
(* The upward walk of assertNoDepartmentCycle and assertNoManagerCycle:    *)
(* the row reached after each hop, NoRow above the root.                   *)
Walk(up, start) ==
  LET at[n \in 0 .. CYCLE_HOP_LIMIT] ==
        IF n = 0 THEN start ELSE IF at[n - 1] = NoRow THEN NoRow ELSE up[at[n - 1]]
  IN at

(* Mutant: only the proposed parent itself is compared.                    *)
assertNoDirectCycle(up, id, start) == start # id

assertNoCycle(up, id, start) ==
  LET at == Walk(up, start)
  IN at[CYCLE_HOP_LIMIT] = NoRow /\ \A n \in DOMAIN at : at[n] # id

ParentOf == [d \in Departments |-> dept[d].parent]

-----------------------------------------------------------------------------
(* Departments.                                                            *)

createDepartment(d, parent) ==
  /\ dept[d].state = "none"
  /\ parent # NoRow => dept[parent].state # "none"
  /\ dept' = [dept EXCEPT ![d] = [state |-> "live", parent |-> parent]]
  /\ Placed(d, parent, ~ liveDept(parent), Open("deleteDepartment", parent))
  /\ Op
  /\ UNCHANGED <<pos, position, manager, ot, attended, hrReq, racedMoves, stale>>

UpdateDepartmentRead(p, d, parent) ==
  /\ liveDept(d)
  /\ dept[d].parent # parent
  /\ parent # NoRow => liveDept(parent) /\ assertNoCycle(ParentOf, d, parent)
  /\ Begin(p, [NoRequest EXCEPT !.op = "updateDepartment", !.id = d, !.arg = parent])
  /\ racedMoves' = racedMoves \cup Overlapping("updateDepartment", d)
  /\ Op
  /\ UNCHANGED <<dept, pos, position, manager, ot, attended, loose, stale>>

UpdateDepartmentCommit(p) ==
  LET d == hrReq[p].id
      parent == hrReq[p].arg
  IN /\ hrReq[p].op = "updateDepartment"
     /\ liveDept(d)              \* else the re-read is a 404 and rolls back
     /\ dept' = [dept EXCEPT ![d].parent = parent]
     /\ Placed(d, parent, hrReq[p].raced, Open("deleteDepartment", parent))
     /\ hrReq' = [hrReq EXCEPT ![p] = NoRequest]
     /\ UNCHANGED <<pos, position, manager, ot, attended, ops, racedMoves, stale>>

(* countLive of the children and of the positions of a department.         *)
childrenOf(d) == {c \in Departments : liveDept(c) /\ dept[c].parent = d}
positionsOf(d) == {p \in Positions : livePos(p) /\ pos[p].dept = d}

DeleteDepartmentRead(p, d) ==
  /\ liveDept(d)
  /\ childrenOf(d) = {}
  /\ positionsOf(d) = {}
  /\ Begin(p, [NoRequest EXCEPT !.op = "deleteDepartment", !.id = d])
  /\ Op
  /\ UNCHANGED <<dept, pos, position, manager, ot, attended, racedMoves, loose, stale>>

(* Requests that still mean to place something in row y are now stale.     *)
EndDelete(p, y) ==
  hrReq' = [q \in HrReqs |-> IF q = p THEN NoRequest
                             ELSE IF hrReq[q].arg = y THEN [hrReq[q] EXCEPT !.raced = TRUE]
                             ELSE hrReq[q]]

DeleteDepartmentCommit(p) ==
  /\ hrReq[p].op = "deleteDepartment"
  /\ dept' = [dept EXCEPT ![hrReq[p].id].state = "deleted"]
  /\ EndDelete(p, hrReq[p].id)
  /\ UNCHANGED <<pos, position, manager, ot, attended, ops, racedMoves, loose, stale>>

-----------------------------------------------------------------------------
(* Positions.                                                              *)

createPosition(x, d) ==
  /\ pos[x].state = "none"
  /\ dept[d].state # "none"
  /\ pos' = [pos EXCEPT ![x] = [state |-> "live", dept |-> d]]
  /\ Placed(x, d, ~ liveDept(d), Open("deleteDepartment", d))
  /\ Op
  /\ UNCHANGED <<dept, position, manager, ot, attended, hrReq, racedMoves, stale>>

UpdatePositionRead(p, x, d) ==
  /\ livePos(x)
  /\ pos[x].dept # d
  /\ liveDept(d)
  /\ Begin(p, [NoRequest EXCEPT !.op = "updatePosition", !.id = x, !.arg = d])
  /\ Op
  /\ UNCHANGED <<dept, pos, position, manager, ot, attended, racedMoves, loose, stale>>

UpdatePositionCommit(p) ==
  LET x == hrReq[p].id
      d == hrReq[p].arg
  IN /\ hrReq[p].op = "updatePosition"
     /\ livePos(x)
     /\ pos' = [pos EXCEPT ![x].dept = d]
     /\ Placed(x, d, hrReq[p].raced, Open("deleteDepartment", d))
     /\ hrReq' = [hrReq EXCEPT ![p] = NoRequest]
     /\ UNCHANGED <<dept, position, manager, ot, attended, ops, racedMoves, stale>>

(* A resigned holder counts as well.                                       *)
DeletePositionRead(p, x) ==
  /\ livePos(x)
  /\ \A e \in Staff : position[e] # x
  /\ Begin(p, [NoRequest EXCEPT !.op = "deletePosition", !.id = x])
  /\ Op
  /\ UNCHANGED <<dept, pos, position, manager, ot, attended, racedMoves, loose, stale>>

DeletePositionCommit(p) ==
  /\ hrReq[p].op = "deletePosition"
  /\ pos' = [pos EXCEPT ![hrReq[p].id].state = "deleted"]
  /\ EndDelete(p, hrReq[p].id)
  /\ UNCHANGED <<dept, position, manager, ot, attended, ops, racedMoves, loose, stale>>

(* create and update of an employee: position_id is not looked up.         *)
setPosition(e, x) ==
  /\ position[e] # x
  /\ x # NoRow => pos[x].state # "none"
  /\ position' = [position EXCEPT ![e] = x]
  /\ Placed(e, x, ~ livePos(x), Open("deletePosition", x))
  /\ Op
  /\ UNCHANGED <<dept, pos, manager, ot, attended, hrReq, racedMoves, stale>>

-----------------------------------------------------------------------------
(* Reporting lines.                                                        *)

SetReportingLineRead(p, e, m) ==
  /\ m # NoRow => assertNoCycle(manager, e, m)
  /\ Begin(p, [NoRequest EXCEPT !.op = "setReportingLine", !.id = e, !.arg = m])
  /\ racedMoves' = racedMoves \cup Overlapping("setReportingLine", e)
  /\ Op
  /\ UNCHANGED <<dept, pos, position, manager, ot, attended, loose, stale>>

SetReportingLineCommit(p) ==
  /\ hrReq[p].op = "setReportingLine"
  /\ manager' = [manager EXCEPT ![hrReq[p].id] = hrReq[p].arg]
  /\ hrReq' = [hrReq EXCEPT ![p] = NoRequest]
  /\ UNCHANGED <<dept, pos, position, ot, attended, ops, racedMoves, loose, stale>>

-----------------------------------------------------------------------------
(* Overtime.                                                               *)

createOt(o) ==
  /\ ot[o].status = "none"
  /\ ot' = [ot EXCEPT ![o].status = "DRAFT"]
  /\ Op
  /\ UNCHANGED <<dept, pos, position, manager, attended, hrReq, racedMoves, loose, stale>>

OtFrom == [submit |-> "DRAFT", approve |-> "SUBMITTED", reconcile |-> "APPROVED"]
OtTo == [submit |-> "SUBMITTED", approve |-> "APPROVED", reconcile |-> "RECONCILED"]

(* Mutant: the clock is not looked at.                                     *)
OtReadNoClock(p, op, o, override) ==
  /\ ot[o].status = OtFrom[op]
  /\ override # {} => op = "reconcile"
  /\ Begin(p, [NoRequest EXCEPT !.op = op, !.id = o,
       !.hours = IF op = "reconcile"
                   THEN approvedHours(Requested[o], Requested[o], override) ELSE 0])
  /\ stale' = IF override # {} THEN stale \cup {o} ELSE stale
  /\ Op
  /\ UNCHANGED <<dept, pos, position, manager, ot, attended, racedMoves, loose>>

(* submit, approve, reconcile: load and check; reconcile also computes the *)
(* hours from the clock, or takes the override of the body.                *)
OtRead(p, op, o, override) ==
  /\ ot[o].status = OtFrom[op]
  /\ override # {} => op = "reconcile"
  /\ Begin(p, [NoRequest EXCEPT !.op = op, !.id = o,
       !.hours = IF op = "reconcile"
                   THEN approvedHours(Requested[o], attended[WorkedBy[o]], override) ELSE 0])
  /\ stale' = IF override # {} THEN stale \cup {o} ELSE stale
  /\ Op
  /\ UNCHANGED <<dept, pos, position, manager, ot, attended, racedMoves, loose>>

OtCommit(p) ==
  LET o == hrReq[p].id
      op == hrReq[p].op
  IN /\ op \in DOMAIN OtFrom
     /\ ot' = [ot EXCEPT ![o] = [status |-> OtTo[op],
                 hours |-> IF op = "reconcile" THEN hrReq[p].hours ELSE @.hours]]
     /\ hrReq' = [hrReq EXCEPT ![p] = NoRequest]
     /\ UNCHANGED <<dept, pos, position, manager, attended, ops, racedMoves, loose, stale>>

(* AttendanceService.import: an upsert per employee and day.               *)
import(e, hours) ==
  /\ attended[e] # hours
  /\ attended' = [attended EXCEPT ![e] = hours]
  /\ stale' = stale \cup {o \in OtRequests : /\ WorkedBy[o] = e
       /\ (ot[o].status = "RECONCILED" \/ Open("reconcile", o))}
  /\ Op
  /\ UNCHANGED <<dept, pos, position, manager, ot, hrReq, racedMoves, loose>>

(* A request fails after its checks; nothing is written.                   *)
HrRollback(p) ==
  /\ hrReq[p] # NoRequest
  /\ hrReq' = [hrReq EXCEPT ![p] = NoRequest]
  /\ UNCHANGED <<dept, pos, position, manager, ot, attended, ops, racedMoves, loose, stale>>

-----------------------------------------------------------------------------
HrNext ==
  \/ \E d \in Departments : \E u \in Departments \cup {NoRow} : createDepartment(d, u)
  \/ \E p \in HrReqs : \E d \in Departments : \E u \in (Departments \cup {NoRow}) :
       UpdateDepartmentRead(p, d, u)
  \/ \E p \in HrReqs : UpdateDepartmentCommit(p)
  \/ \E p \in HrReqs : \E d \in Departments : DeleteDepartmentRead(p, d)
  \/ \E p \in HrReqs : DeleteDepartmentCommit(p)
  \/ \E x \in Positions : \E d \in Departments : createPosition(x, d)
  \/ \E p \in HrReqs : \E x \in Positions : \E d \in Departments : UpdatePositionRead(p, x, d)
  \/ \E p \in HrReqs : UpdatePositionCommit(p)
  \/ \E p \in HrReqs : \E x \in Positions : DeletePositionRead(p, x)
  \/ \E p \in HrReqs : DeletePositionCommit(p)
  \/ \E e \in Staff : \E x \in Positions \cup {NoRow} : setPosition(e, x)
  \/ \E p \in HrReqs : \E e \in Staff : \E m \in Staff \cup {NoRow} :
       SetReportingLineRead(p, e, m)
  \/ \E p \in HrReqs : SetReportingLineCommit(p)
  \/ \E o \in OtRequests : createOt(o)
  \/ \E p \in HrReqs : \E op \in DOMAIN OtFrom : \E o \in OtRequests :
       \E override \in {{}} \cup {{h} : h \in Clock} : OtRead(p, op, o, override)
  \/ \E p \in HrReqs : OtCommit(p)
  \/ \E e \in Staff : \E hours \in Clock : import(e, hours)
  \/ \E p \in HrReqs : HrRollback(p)

HrSpec == HrInit /\ [][HrNext]_hrVars

-----------------------------------------------------------------------------
(* The rows of C are each below another row of C: a cycle, and possibly    *)
(* rows that hang below it.                                                *)
Loops(up, C) == C # {} /\ \A x \in C : up[x] \in C

(* No department is its own ancestor and nobody reports to himself,        *)
(* directly or not, over any sequence of moves, creations and deletions -  *)
(* except through rows that were moved while another move was under way,   *)
(* which nothing prevents (assertNoDepartmentCycle, assertNoManagerCycle). *)
AcyclicUnlessRaced ==
  /\ \A C \in SUBSET Departments : Loops(ParentOf, C) => C \cap racedMoves # {}
  /\ \A C \in SUBSET Staff : Loops(manager, C) => C \cap racedMoves # {}

(* A soft-deleted department has no live child and no live position, and a *)
(* soft-deleted position no holder, unless the row was placed there by an  *)
(* insert that is not checked or while the target was being deleted        *)
(* (deleteDepartment, deletePosition: "refused while ...").                *)
DeletedIsEmpty ==
  /\ \A d \in Departments \ loose :
       dept[d].state = "live" /\ dept[d].parent # NoRow => liveDept(dept[d].parent)
  /\ \A x \in Positions \ loose : pos[x].state = "live" => liveDept(pos[x].dept)
  /\ \A e \in Staff \ loose : position[e] # NoRow => livePos(position[e])

(* The organisation stays a forest of live rows however moves, creations   *)
(* and deletions follow each other (updateDepartment ... setReportingLine).*)
OrganisationUnlessRaced == AcyclicUnlessRaced /\ DeletedIsEmpty

(* The overtime that payroll will pay never exceeds the hours asked for    *)
(* nor the hours on the clock, unless HR overrode them or the clock was    *)
(* imported again afterwards - however the requests on it overlap          *)
(* (reconcile).                                                            *)
OtWasWorked ==
  \A o \in OtRequests \ stale : ot[o].status = "RECONCILED" =>
    ot[o].hours <= Requested[o] /\ ot[o].hours <= attended[WorkedBy[o]]
=============================================================================
