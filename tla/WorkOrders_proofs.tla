--------------------------- MODULE WorkOrders_proofs ---------------------------
(***************************************************************************)
(* A work order completes only on evidence, for any number of steps,       *)
(* subcontracts and concurrent requests, and whichever hooks are lost.     *)
(*                                                                         *)
(* CompletionIsEarned is not inductive: a request that has decided to      *)
(* complete the work order holds that decision in memory while others move *)
(* the steps.  IndInv (in WorkOrders) adds what the decision rests on: the *)
(* production_scan rows, which nothing removes.                            *)
(***************************************************************************)
EXTENDS WorkOrders, TLAPS

(* What a request remembers is always one of the snapshots in Tx.          *)
LEMMA InitIndInv == Init => IndInv
<1> SUFFICES ASSUME Init PROVE IndInv
  OBVIOUS
<1>1. TypeOK
  BY WorkOrderAssumptions DEF Init, TypeOK, StepStatus, SubStatus, Tx, Idle
<1>2. SubcontractsWereSent /\ DecisionHasScans /\ HooksFollowCompletion
  BY DEF Init, Idle, SubcontractsWereSent, DecisionHasScans, HooksFollowCompletion
<1>3. CompletedHasScan /\ CompletionIsEarned /\ FlushIsOwed
  BY DEF Init, CompletedHasScan, CompletionIsEarned, FlushIsOwed
<1> QED
  BY <1>1, <1>2, <1>3 DEF IndInv

(* COMMIT and ROLLBACK leave a well-formed memory, and the ghosts keep     *)
(* their types.                                                            *)
LEMMA MarkTypeOK ==
  ASSUME TypeOK, NEW r \in Requests, MarkRaced(r)
  PROVE  raced' \subseteq {WorkOrder} \cup Steps \cup Subcontracts /\ lost' \in BOOLEAN
  BY DEF TypeOK, MarkRaced

LEMMA DoneTypeOK ==
  ASSUME TypeOK, NEW r \in Requests, Done(r)
  PROVE  /\ tx' \in [Requests -> Tx]
         /\ raced' \subseteq {WorkOrder} \cup Steps \cup Subcontracts
         /\ lost' \in BOOLEAN
  BY MarkTypeOK DEF TypeOK, Done, Tx

LEMMA NextTypeOK == TypeOK /\ SubcontractsWereSent /\ [Next]_vars => TypeOK'
<1> SUFFICES ASSUME TypeOK, SubcontractsWereSent, [Next]_vars PROVE TypeOK'
  OBVIOUS
<1> USE DEF TypeOK, StepStatus, SubStatus
<1>1. CASE UNCHANGED vars
  BY <1>1 DEF vars
<1>2. ASSUME NEW x \in Steps \cup Subcontracts, TimePasses(x) PROVE TypeOK'
  BY <1>2 DEF TimePasses, events, ghosts
<1>3. ASSUME NEW r \in Requests, NEW t \in Tx, Read(r, t) PROVE TypeOK'
  BY <1>3 DEF Read, alerts, events, ghosts
<1>4. ASSUME NEW r \in Requests, NEW s \in Steps,
             StartRead(r, s) \/ FinishRead(r, s) \/ HoldRead(r, s) \/ SendRead(r, s)
      PROVE TypeOK'
  <2>1. /\ [op |-> "start", step |-> s] \in Tx
        /\ [op |-> "finish", step |-> s] \in Tx
        /\ [op |-> "hold", step |-> s] \in Tx
        /\ [op |-> "send", step |-> s] \in Tx
    BY DEF Tx
  <2> QED
    BY <1>3, <1>4, <2>1 DEF StartRead, FinishRead, HoldRead, SendRead
<1>5. ASSUME NEW r \in Requests, NEW c \in Subcontracts, ReceiveRead(r, c) PROVE TypeOK'
  <2>1. [op |-> "receive", sub |-> c] \in Tx
    BY DEF Tx
  <2> QED
    BY <1>3, <1>5, <2>1 DEF ReceiveRead
<1>6. ASSUME NEW r \in Requests, SweepRead(r) PROVE TypeOK'
  <2>1. [op |-> "sweep", steps |-> delayCandidates, subs |-> overdueCandidates] \in Tx
    BY DEF Tx, delayCandidates, overdueCandidates
  <2> QED
    BY <1>3, <1>6, <2>1 DEF SweepRead
<1>7. ASSUME NEW r \in Requests, StartUpdate(r) PROVE TypeOK'
  BY <1>7 DEF StartUpdate, Tx, Idle, alerts, events, ghosts
<1>8. ASSUME NEW r \in Requests, FinishUpdate(r) PROVE TypeOK'
  BY <1>8 DEF FinishUpdate, maybeComplete, Tx, Idle, alerts, events, ghosts
<1>9. ASSUME NEW r \in Requests, StartCommit(r) PROVE TypeOK'
  BY <1>9, DoneTypeOK DEF StartCommit, Tx, Idle, alerts, events
<1>10. ASSUME NEW r \in Requests, FinishCommit(r) PROVE TypeOK'
  <2>1. CASE tx[r].wo
    BY <1>10, <2>1, MarkTypeOK DEF FinishCommit, Tx, Idle, alerts, events
  <2>2. CASE ~ tx[r].wo
    BY <1>10, <2>2, DoneTypeOK DEF FinishCommit, Tx, Idle, alerts, events
  <2> QED
    BY <2>1, <2>2
<1>11. ASSUME NEW r \in Requests, HoldCommit(r) PROVE TypeOK'
  BY <1>11, DoneTypeOK DEF HoldCommit, Tx, Idle, alerts, events
<1>12. ASSUME NEW r \in Requests, SendCommit(r) PROVE TypeOK'
  BY <1>12, DoneTypeOK, WorkOrderAssumptions DEF SendCommit, Tx, Idle, alerts, events
<1>13. ASSUME NEW r \in Requests, ReceiveCommit(r) PROVE TypeOK'
  BY <1>13, DoneTypeOK, WorkOrderAssumptions DEF SubcontractsWereSent, ReceiveCommit, Tx, Idle, alerts, events
<1>14. ASSUME NEW r \in Requests, SweepCommit(r) PROVE TypeOK'
  BY <1>14, DoneTypeOK DEF SubcontractsWereSent, SweepCommit, Tx, Idle, alerts, events
<1>15. ASSUME NEW r \in Requests, BackflushRead(r) \/ BackflushCommit(r) PROVE TypeOK'
  <2>1. CASE BackflushRead(r)
    BY <2>1 DEF BackflushRead, Tx, alerts, events, ghosts
  <2>2. CASE BackflushCommit(r)
    BY <2>2, DoneTypeOK DEF BackflushCommit, alerts
  <2> QED
    BY <1>15, <2>1, <2>2
<1>16. ASSUME NEW r \in Requests, Rollback(r) \/ HookLost(r) PROVE TypeOK'
  BY <1>16 DEF Rollback, HookLost, Tx, Idle, alerts, events, ghosts
<1> QED
  BY <1>1, <1>2, <1>4, <1>5, <1>6, <1>7, <1>8, <1>9, <1>10, <1>11, <1>12, <1>13,
     <1>14, <1>15, <1>16 DEF Next, Hooks

(* Scans, sent subcontracts and completion events only accumulate.         *)
LEMMA Accumulates ==
  ASSUME TypeOK, [Next]_vars
  PROVE  /\ finished \subseteq finished'
         /\ completed > 0 => completed' > 0
         /\ \A c \in Subcontracts : sub[c].status # "NONE" => sub'[c].status # "NONE"
<1> USE DEF TypeOK, SubStatus
<1>1. CASE UNCHANGED vars
  BY <1>1 DEF vars
<1>2. ASSUME NEW x \in Steps \cup Subcontracts, TimePasses(x)
      PROVE UNCHANGED <<finished, completed, sub>>
  BY <1>2 DEF TimePasses, events
<1>3. ASSUME NEW r \in Requests, NEW s \in Steps,
             StartRead(r, s) \/ FinishRead(r, s) \/ HoldRead(r, s) \/ SendRead(r, s)
      PROVE UNCHANGED <<finished, completed, sub>>
  BY <1>3 DEF StartRead, FinishRead, HoldRead, SendRead, Read, events
<1>4. ASSUME NEW r \in Requests,
             \/ \E c \in Subcontracts : ReceiveRead(r, c)
             \/ SweepRead(r) \/ StartUpdate(r) \/ FinishUpdate(r)
             \/ StartCommit(r) \/ HoldCommit(r)
             \/ Hooks(r) \/ Rollback(r) \/ HookLost(r)
      PROVE UNCHANGED <<finished, completed, sub>>
  BY <1>4 DEF ReceiveRead, SweepRead, Read, StartUpdate, FinishUpdate, StartCommit,
              HoldCommit, Hooks, BackflushRead, BackflushCommit, Rollback, HookLost, events
<1>5. ASSUME NEW r \in Requests, FinishCommit(r)
      PROVE /\ finished \subseteq finished'
            /\ completed > 0 => completed' > 0
            /\ sub' = sub
  BY <1>5 DEF FinishCommit
<1>6. ASSUME NEW r \in Requests, SendCommit(r) \/ ReceiveCommit(r) \/ SweepCommit(r)
      PROVE /\ UNCHANGED <<finished, completed>>
            /\ \A c \in Subcontracts : sub[c].status # "NONE" => sub'[c].status # "NONE"
  <2>1. CASE SendCommit(r)
    BY <2>1 DEF SendCommit, events
  <2>2. CASE ReceiveCommit(r)
    BY <2>2 DEF ReceiveCommit, events
  <2>3. CASE SweepCommit(r)
    BY <2>3 DEF SweepCommit, events
  <2> QED
    BY <1>6, <2>1, <2>2, <2>3
<1> QED
  BY <1>1, <1>2, <1>3, <1>4, <1>5, <1>6 DEF Next

(* Only a FINISH scan completes a step, and it leaves its row behind.      *)
LEMMA NextCompletedHasScan == IndInv /\ [Next]_vars => CompletedHasScan'
<1> SUFFICES ASSUME IndInv, [Next]_vars,
                    NEW t \in Steps, step'[t] = "COMPLETED", t \notin finished
             PROVE  t \in finished'
  BY Accumulates DEF IndInv, CompletedHasScan
<1>1. step[t] # "COMPLETED"
  BY DEF IndInv, CompletedHasScan
<1>2. PICK r \in Requests : FinishCommit(r)
  <2>1. ASSUME UNCHANGED step PROVE FALSE
    BY <1>1, <2>1
  <2>2. ~ UNCHANGED vars
    BY <2>1 DEF vars
  <2>3. ASSUME NEW x \in Steps \cup Subcontracts, TimePasses(x) PROVE FALSE
    BY <2>1, <2>3 DEF TimePasses
  <2>4. ASSUME NEW r \in Requests, NEW s \in Steps,
               StartRead(r, s) \/ FinishRead(r, s) \/ HoldRead(r, s) \/ SendRead(r, s)
        PROVE FALSE
    BY <2>1, <2>4 DEF StartRead, FinishRead, HoldRead, SendRead, Read
  <2>5. ASSUME NEW r \in Requests,
               \/ \E c \in Subcontracts : ReceiveRead(r, c)
               \/ SweepRead(r) \/ StartUpdate(r) \/ FinishUpdate(r) \/ SweepCommit(r)
               \/ Hooks(r) \/ Rollback(r) \/ HookLost(r)
        PROVE FALSE
    BY <2>1, <2>5 DEF ReceiveRead, SweepRead, Read, StartUpdate, FinishUpdate, SweepCommit,
                      Hooks, BackflushRead, BackflushCommit, Rollback, HookLost
  <2>6. ASSUME NEW r \in Requests,
               StartCommit(r) \/ HoldCommit(r) \/ SendCommit(r) \/ ReceiveCommit(r)
        PROVE FALSE
    BY <1>1, <2>6 DEF StartCommit, HoldCommit, SendCommit, ReceiveCommit, IndInv, TypeOK
  <2> QED
    BY <2>2, <2>3, <2>4, <2>5, <2>6 DEF Next
<1> QED
  BY <1>1, <1>2 DEF FinishCommit, IndInv, TypeOK

(* A request's memory changes only in its own steps, and a step of its own *)
(* enters "finishing", "completed", "backflush", "receive" or "sweep" only *)
(* with the evidence IndInv asks for.                                      *)
LEMMA NextMemory ==
  IndInv /\ [Next]_vars =>
    DecisionHasScans' /\ HooksFollowCompletion' /\ SubcontractsWereSent'
<1> SUFFICES ASSUME IndInv, [Next]_vars, NEW q \in Requests
             PROVE /\ tx'[q].op = "finishing" /\ tx'[q].wo
                        => Steps \ {tx'[q].step} \subseteq finished'
                   /\ tx'[q].op \in {"completed", "backflush"} => completed' > 0
                   /\ tx'[q].op = "receive" => sub'[tx'[q].sub].status # "NONE"
                   /\ tx'[q].op = "sweep" => \A c \in tx'[q].subs : sub'[c].status # "NONE"
  BY DEF DecisionHasScans, HooksFollowCompletion, SubcontractsWereSent
<1>a. tx \in [Requests -> Tx] /\ tx' \in [Requests -> Tx]
  BY NextTypeOK DEF IndInv, TypeOK
<1>b. TypeOK /\ CompletedHasScan
  BY DEF IndInv
<1>0. CASE tx'[q] = tx[q]
  <2>1. tx[q].op = "receive" => tx[q].sub \in Subcontracts
    BY <1>a DEF Tx, Idle
  <2>2. tx[q].op = "sweep" => tx[q].subs \subseteq Subcontracts
    BY <1>a DEF Tx, Idle
  <2> QED
    BY <1>0, <1>b, <2>1, <2>2, Accumulates
    DEF IndInv, DecisionHasScans, HooksFollowCompletion, SubcontractsWereSent
<1>1. CASE tx'[q] = Idle
  BY <1>1 DEF Idle
<1>2. CASE UNCHANGED vars
  BY <1>0, <1>2 DEF vars
<1>3. ASSUME NEW x \in Steps \cup Subcontracts, TimePasses(x) PROVE tx' = tx
  BY <1>3 DEF TimePasses
<1>4. ASSUME NEW r \in Requests, NEW s \in Steps,
             StartRead(r, s) \/ FinishRead(r, s) \/ HoldRead(r, s) \/ SendRead(r, s)
      PROVE tx'[q] = tx[q] \/ tx'[q].op \in {"start", "finish", "hold", "send"}
  BY <1>4, <1>a DEF StartRead, FinishRead, HoldRead, SendRead, Read
<1>5. ASSUME NEW r \in Requests, NEW c \in Subcontracts, ReceiveRead(r, c)
      PROVE \/ tx'[q] = tx[q]
            \/ tx'[q].op = "receive" /\ sub'[tx'[q].sub].status # "NONE"
  BY <1>5, <1>a DEF ReceiveRead, Read
<1>6. ASSUME NEW r \in Requests, SweepRead(r)
      PROVE \/ tx'[q] = tx[q]
            \/ tx'[q].op = "sweep" /\ \A c \in tx'[q].subs : sub'[c].status # "NONE"
  BY <1>6, <1>a DEF SweepRead, Read, overdueCandidates
<1>7. ASSUME NEW r \in Requests, StartUpdate(r)
      PROVE tx'[q] = tx[q] \/ tx'[q].op = "starting"
  BY <1>7, <1>a DEF StartUpdate
<1>8. ASSUME NEW r \in Requests, FinishUpdate(r)
      PROVE \/ tx'[q] = tx[q]
            \/ /\ tx'[q].op = "finishing"
               /\ tx'[q].wo => Steps \ {tx'[q].step} \subseteq finished'
  BY <1>8, <1>a, <1>b DEF FinishUpdate, maybeComplete, CompletedHasScan
<1>9. ASSUME NEW r \in Requests, FinishCommit(r)
      PROVE \/ tx'[q] = tx[q] \/ tx'[q] = Idle
            \/ tx'[q].op = "completed" /\ completed' > 0
  BY <1>9, <1>a, <1>b DEF FinishCommit, Done, TypeOK
<1>10. ASSUME NEW r \in Requests,
              \/ StartCommit(r) \/ HoldCommit(r) \/ SendCommit(r) \/ ReceiveCommit(r)
              \/ SweepCommit(r) \/ BackflushCommit(r) \/ Rollback(r) \/ HookLost(r)
       PROVE tx'[q] = tx[q] \/ tx'[q] = Idle
  BY <1>10, <1>a DEF StartCommit, HoldCommit, SendCommit, ReceiveCommit, SweepCommit,
                     BackflushCommit, Rollback, HookLost, Done
<1>11. ASSUME NEW r \in Requests, BackflushRead(r)
       PROVE \/ tx'[q] = tx[q] \/ tx'[q] = Idle
             \/ tx'[q].op = "backflush" /\ completed' > 0
  BY <1>11, <1>a DEF BackflushRead, IndInv, HooksFollowCompletion, events
<1> QED
  BY <1>0, <1>1, <1>2, <1>3, <1>4, <1>5, <1>6, <1>7, <1>8, <1>9, <1>10, <1>11
  DEF Next, Hooks

(* The completing COMMIT adds the last scan; nothing else completes the    *)
(* work order, announces it or starts a backflush.                         *)
LEMMA NextEarned == IndInv /\ [Next]_vars => CompletionIsEarned'
<1> SUFFICES ASSUME IndInv, [Next]_vars PROVE CompletionIsEarned'
  OBVIOUS
<1>0. TypeOK /\ CompletionIsEarned /\ finished \subseteq finished'
  BY Accumulates DEF IndInv
<1>a. finished' \subseteq Steps
  BY NextTypeOK DEF IndInv, TypeOK
<1>1. ASSUME NEW r \in Requests, FinishCommit(r), tx[r].wo PROVE CompletionIsEarned'
  <2>1. Steps \subseteq finished'
    BY <1>1 DEF FinishCommit, IndInv, DecisionHasScans
  <2>2. completed' > 0
    BY <1>0, <1>1 DEF FinishCommit, TypeOK
  <2> QED
    BY <1>a, <2>1, <2>2 DEF CompletionIsEarned
<1>2. ASSUME NEW r \in Requests, BackflushCommit(r) PROVE CompletionIsEarned'
  BY <1>0, <1>2 DEF BackflushCommit, CompletionIsEarned, IndInv, HooksFollowCompletion
<1>3. ASSUME NEW r \in Requests, StartCommit(r) PROVE CompletionIsEarned'
  BY <1>0, <1>3 DEF StartCommit, CompletionIsEarned, events
<1>4. CASE UNCHANGED <<wo, completed, flushed>>
  BY <1>0, <1>4, <1>a DEF CompletionIsEarned
<1>5. CASE UNCHANGED vars
  BY <1>4, <1>5 DEF vars
<1>6. ASSUME NEW x \in Steps \cup Subcontracts, TimePasses(x) PROVE CompletionIsEarned'
  BY <1>4, <1>6 DEF TimePasses, events
<1>7. ASSUME NEW r \in Requests, NEW s \in Steps,
             StartRead(r, s) \/ FinishRead(r, s) \/ HoldRead(r, s) \/ SendRead(r, s)
      PROVE CompletionIsEarned'
  BY <1>4, <1>7 DEF StartRead, FinishRead, HoldRead, SendRead, Read, events
<1>8. ASSUME NEW r \in Requests,
             \/ \E c \in Subcontracts : ReceiveRead(r, c)
             \/ SweepRead(r) \/ StartUpdate(r) \/ FinishUpdate(r)
      PROVE CompletionIsEarned'
  BY <1>4, <1>8 DEF ReceiveRead, SweepRead, Read, StartUpdate, FinishUpdate, events
<1>9. ASSUME NEW r \in Requests,
             \/ HoldCommit(r) \/ SendCommit(r) \/ ReceiveCommit(r) \/ SweepCommit(r)
             \/ BackflushRead(r) \/ Rollback(r) \/ HookLost(r)
             \/ FinishCommit(r) /\ ~ tx[r].wo
      PROVE CompletionIsEarned'
  BY <1>4, <1>9 DEF HoldCommit, SendCommit, ReceiveCommit, SweepCommit, BackflushRead,
                    Rollback, HookLost, FinishCommit, events
<1> QED
  BY <1>1, <1>2, <1>3, <1>5, <1>6, <1>7, <1>8, <1>9 DEF Next, Hooks

(* A completion not backflushed yet stays owed by the request that         *)
(* completed the order until its hook has run or was lost.                 *)
LEMMA NextOwed == IndInv /\ [Next]_vars => FlushIsOwed'
<1> SUFFICES ASSUME IndInv, [Next]_vars, completed' > 0, flushed' = 0, ~ lost'
             PROVE  \E r \in Requests : tx'[r].op \in {"completed", "backflush"}
  BY DEF FlushIsOwed
<1>0. TypeOK /\ FlushIsOwed
  BY DEF IndInv
<1>1. ASSUME UNCHANGED <<completed, flushed, lost>>,
             \A q \in Requests : \/ tx'[q] = tx[q]
                                 \/ tx[q].op \notin {"completed", "backflush"}
      PROVE  \E r \in Requests : tx'[r].op \in {"completed", "backflush"}
  BY <1>0, <1>1 DEF FlushIsOwed
<1>2. CASE UNCHANGED vars
  BY <1>1, <1>2 DEF vars
<1>3. ASSUME NEW x \in Steps \cup Subcontracts, TimePasses(x)
      PROVE  \E r \in Requests : tx'[r].op \in {"completed", "backflush"}
  BY <1>1, <1>3 DEF TimePasses, events, ghosts
<1>4. ASSUME NEW r \in Requests, NEW s \in Steps,
             StartRead(r, s) \/ FinishRead(r, s) \/ HoldRead(r, s) \/ SendRead(r, s)
      PROVE  \E q \in Requests : tx'[q].op \in {"completed", "backflush"}
  BY <1>0, <1>1, <1>4
  DEF StartRead, FinishRead, HoldRead, SendRead, Read, Idle, events, ghosts, TypeOK
<1>5. ASSUME NEW r \in Requests,
             \/ \E c \in Subcontracts : ReceiveRead(r, c)
             \/ SweepRead(r) \/ StartUpdate(r) \/ FinishUpdate(r) \/ Rollback(r)
      PROVE  \E q \in Requests : tx'[q].op \in {"completed", "backflush"}
  BY <1>0, <1>1, <1>5
  DEF ReceiveRead, SweepRead, Read, StartUpdate, FinishUpdate, Rollback, Idle, events, ghosts,
      TypeOK
<1>6. ASSUME NEW r \in Requests,
             \/ StartCommit(r) \/ HoldCommit(r) \/ SendCommit(r) \/ ReceiveCommit(r)
             \/ SweepCommit(r)
      PROVE  \E q \in Requests : tx'[q].op \in {"completed", "backflush"}
  BY <1>0, <1>1, <1>6
  DEF StartCommit, HoldCommit, SendCommit, ReceiveCommit, SweepCommit, Done, MarkRaced,
      events, TypeOK
<1>7. ASSUME NEW r \in Requests, FinishCommit(r)
      PROVE  \E q \in Requests : tx'[q].op \in {"completed", "backflush"}
  <2>1. CASE tx[r].wo
    BY <1>0, <1>7, <2>1 DEF FinishCommit, TypeOK
  <2>2. CASE ~ tx[r].wo
    BY <1>0, <1>1, <1>7, <2>2 DEF FinishCommit, Done, MarkRaced, TypeOK
  <2> QED
    BY <2>1, <2>2
<1>8. ASSUME NEW r \in Requests, BackflushRead(r)
      PROVE  \E q \in Requests : tx'[q].op \in {"completed", "backflush"}
  BY <1>0, <1>8 DEF BackflushRead, events, TypeOK
<1>9. ASSUME NEW r \in Requests, BackflushCommit(r) \/ HookLost(r) PROVE FALSE
  <2>1. CASE BackflushCommit(r)
    BY <1>0, <2>1 DEF BackflushCommit, TypeOK
  <2>2. CASE HookLost(r)
    BY <2>2, Zenon DEF HookLost
  <2> QED
    BY <1>9, <2>1, <2>2
<1> QED
  BY <1>2, <1>3, <1>4, <1>5, <1>6, <1>7, <1>8, <1>9 DEF Next, Hooks

(* IndInv holds in every reachable state.                                  *)
THEOREM WorkOrderInvariant == Spec => []IndInv
<1>1. IndInv /\ [Next]_vars => IndInv'
  BY NextTypeOK, NextCompletedHasScan, NextMemory, NextEarned, NextOwed DEF IndInv
<1> QED
  BY InitIndInv, <1>1, PTL DEF Spec

(* Every variable keeps its type, a used subcontract row its step.         *)
THEOREM TypeCorrect == Spec => []TypeOK
<1>1. IndInv => TypeOK
  BY DEF IndInv
<1> QED
  BY WorkOrderInvariant, <1>1, PTL

(* A COMPLETED work order has a FINISH scan of each of its steps, and its  *)
(* materials are backflushed only after it completed.                      *)
THEOREM CompletionEarned == Spec => []CompletionIsEarned
<1>1. IndInv => CompletionIsEarned
  BY DEF IndInv
<1> QED
  BY WorkOrderInvariant, <1>1, PTL

(* A completion not backflushed yet is owed it by a running hook, or the   *)
(* hook was lost.                                                          *)
THEOREM BackflushIsOwed == Spec => []FlushIsOwed
<1>1. IndInv => FlushIsOwed
  BY DEF IndInv
<1> QED
  BY WorkOrderInvariant, <1>1, PTL

-----------------------------------------------------------------------------
(* What holds as long as no two requests overlap on a row: what a request  *)
(* under way has read of the row is still what is stored.                  *)

(* The work order's status, as a scan saw it after its UPDATE of the step. *)
SawOrder(r) ==
  /\ tx[r].op = "starting" /\ tx[r].wo => wo = "PENDING"
  /\ tx[r].op = "finishing" /\ maybeComplete(tx[r].step) => tx[r].wo

ScansAreCurrent ==
  WorkOrder \notin raced =>
    /\ (\A s \in Steps : step[s] = "COMPLETED") => wo = "COMPLETED"
    /\ \A r \in Requests : SawOrder(r)

(* delay_notified is set with the one alert, and no sweep under way is     *)
(* about to repeat it.                                                     *)
AlertsAreCurrent ==
  \A s \in Steps \ raced :
    /\ delays[s] = IF s \in notified THEN 1 ELSE 0
    /\ \A r \in Requests : tx[r].op = "sweep" /\ s \in tx[r].steps => s \notin notified

(* A subcontract that a request is about to receive or report is still out.*)
SubsAreCurrent ==
  \A c \in Subcontracts \ raced : \A r \in Requests :
    /\ tx[r].op = "receive" /\ tx[r].sub = c => sub[c].status \in {"SENT", "OVERDUE"}
    /\ tx[r].op = "sweep" /\ c \in tx[r].subs => sub[c].status = "SENT"

CurrentInv == ScansAreCurrent /\ AlertsAreCurrent /\ SubsAreCurrent

(* A step that completes nothing, alerts nobody and leaves every           *)
(* subcontract row and every decision under way alone.                     *)
Calm ==
  /\ raced \subseteq raced' /\ UNCHANGED <<wo, notified, delays>>
  /\ \A s \in Steps : step'[s] = "COMPLETED" => step[s] = "COMPLETED"
  /\ \A c \in Subcontracts : sub[c].status # "NONE" => sub'[c] = sub[c]
  /\ \A q \in Requests :
       \/ tx'[q] = tx[q]
       \/ tx'[q].op \in {"idle", "start", "finish", "hold", "send", "completed", "backflush"}

(* A COMMIT of r: a row no other request relies on stays unmarked.         *)
Marks(r) ==
  /\ raced \subseteq raced'
  /\ \A q \in Requests \ {r} : \A x \in {WorkOrder} \cup Steps \cup Subcontracts :
       x \in touches(r) /\ x \in touches(q) => x \in raced'

LEMMA MarkedCommits ==
  ASSUME NEW r \in Requests, MarkRaced(r)
  PROVE  Marks(r)
  BY DEF MarkRaced, Marks

LEMMA TouchesShape ==
  ASSUME NEW r \in Requests
  PROVE  /\ tx[r].op \in {"starting", "finishing"} => touches(r) = {WorkOrder}
         /\ tx[r].op = "receive" => touches(r) = {tx[r].sub}
         /\ tx[r].op = "sweep" => touches(r) = tx[r].steps \cup tx[r].subs
  BY DEF touches

LEMMA StepShape ==
  ASSUME TypeOK, [Next]_vars
  PROVE  \/ Calm
         \/ \E r \in Requests :
              \/ \E c \in Subcontracts : ReceiveRead(r, c)
              \/ SweepRead(r) \/ StartUpdate(r) \/ StartCommit(r) \/ FinishUpdate(r)
              \/ FinishCommit(r) \/ ReceiveCommit(r) \/ SweepCommit(r)
<1>1. CASE UNCHANGED vars
  <2>1. UNCHANGED <<wo, step, sub, notified, delays, tx, raced>>
    BY <1>1 DEF vars
  <2> QED
    BY <2>1 DEF Calm
<1>2. ASSUME NEW x \in Steps \cup Subcontracts, TimePasses(x) PROVE Calm
  BY <1>2 DEF TimePasses, Calm, ghosts
<1>3. ASSUME NEW r \in Requests, NEW s \in Steps,
             StartRead(r, s) \/ FinishRead(r, s) \/ HoldRead(r, s) \/ SendRead(r, s)
      PROVE  Calm
  BY <1>3 DEF StartRead, FinishRead, HoldRead, SendRead, Read, Calm, alerts, ghosts, TypeOK
<1>4. ASSUME NEW r \in Requests, BackflushRead(r) \/ Rollback(r) \/ HookLost(r) PROVE Calm
  BY <1>4 DEF BackflushRead, Rollback, HookLost, Idle, Calm, alerts, ghosts, TypeOK
<1>5. ASSUME NEW r \in Requests, BackflushCommit(r) PROVE Calm
  BY <1>5 DEF BackflushCommit, Done, MarkRaced, Idle, Calm, alerts, TypeOK
<1>6. ASSUME NEW r \in Requests, HoldCommit(r) PROVE Calm
  BY <1>6 DEF HoldCommit, Done, MarkRaced, Idle, Calm, alerts, TypeOK
<1>7. ASSUME NEW r \in Requests, SendCommit(r) PROVE Calm
  BY <1>7 DEF SendCommit, Done, MarkRaced, Idle, Calm, alerts, TypeOK
<1> QED
  BY <1>1, <1>2, <1>3, <1>4, <1>5, <1>6, <1>7 DEF Next, Hooks

(* Scans: a COMMIT that moves the work order outdates every other scan     *)
(* under way, which is then marked; the rest completes nothing.            *)
LEMMA NextScans ==
  ASSUME IndInv, ScansAreCurrent, [Next]_vars
  PROVE  ScansAreCurrent'
<1> TypeOK
  BY DEF IndInv
<1> DEFINE Others(r) == \A q \in Requests \ {r} : tx'[q] = tx[q]
<1>0. ASSUME NEW q \in Requests, tx'[q].op \notin {"starting", "finishing"}
      PROVE  SawOrder(q)'
  BY <1>0 DEF SawOrder
<1>1. ASSUME WorkOrder \notin raced, wo' = wo,
             \A s \in Steps : step'[s] = "COMPLETED" => step[s] = "COMPLETED",
             NEW q \in Requests, tx'[q] = tx[q]
      PROVE  SawOrder(q)'
  <2>1. SawOrder(q)
    BY <1>1 DEF ScansAreCurrent
  <2> QED
    BY <1>1, <2>1 DEF SawOrder, maybeComplete
<1>2. ASSUME raced \subseteq raced', wo' = wo,
             \A s \in Steps : step'[s] = "COMPLETED" => step[s] = "COMPLETED",
             \A q \in Requests : tx'[q] = tx[q] \/ tx'[q].op \notin {"starting", "finishing"}
      PROVE  ScansAreCurrent'
  <2> SUFFICES ASSUME WorkOrder \notin raced' PROVE ScansAreCurrent'
    BY DEF ScansAreCurrent
  <2>0. WorkOrder \notin raced
    BY <1>2
  <2>1. (\A s \in Steps : step'[s] = "COMPLETED") => wo' = "COMPLETED"
    BY <1>2, <2>0 DEF ScansAreCurrent
  <2>2. \A q \in Requests : SawOrder(q)'
    BY <1>0, <1>1, <1>2, <2>0
  <2> QED
    BY <2>1, <2>2 DEF ScansAreCurrent
<1>3. CASE Calm
  BY <1>2, <1>3 DEF Calm
<1>4. ASSUME NEW r \in Requests, SweepRead(r) \/ \E c \in Subcontracts : ReceiveRead(r, c)
      PROVE  ScansAreCurrent'
  BY <1>2, <1>4 DEF SweepRead, ReceiveRead, Read, ghosts, TypeOK
<1>5. ASSUME NEW r \in Requests, SweepCommit(r) \/ ReceiveCommit(r) PROVE ScansAreCurrent'
  <2>1. raced \subseteq raced' /\ wo' = wo
    BY <1>5 DEF SweepCommit, ReceiveCommit, Done, MarkRaced
  <2>2. \A s \in Steps : step'[s] = "COMPLETED" => step[s] = "COMPLETED"
    BY <1>5 DEF SweepCommit, ReceiveCommit, TypeOK
  <2>3. \A q \in Requests : tx'[q] = tx[q] \/ tx'[q].op \notin {"starting", "finishing"}
    BY <1>5 DEF SweepCommit, ReceiveCommit, Done, Idle, TypeOK
  <2> QED
    BY <1>2, <2>1, <2>2, <2>3
<1>6. ASSUME NEW r \in Requests, StartUpdate(r) \/ FinishUpdate(r) PROVE ScansAreCurrent'
  <2> SUFFICES ASSUME WorkOrder \notin raced' PROVE ScansAreCurrent'
    BY DEF ScansAreCurrent
  <2>1. UNCHANGED <<wo, step, raced>> /\ Others(r)
    BY <1>6 DEF StartUpdate, FinishUpdate, ghosts, TypeOK
  <2>2. (\A s \in Steps : step'[s] = "COMPLETED") => wo' = "COMPLETED"
    BY <2>1 DEF ScansAreCurrent
  <2>3. \A q \in Requests \ {r} : SawOrder(q)'
    BY <1>1, <2>1
  <2>4. SawOrder(r)'
    <3>1. CASE StartUpdate(r)
      <4>1. tx'[r] = [op |-> "starting", step |-> tx[r].step, wo |-> wo = "PENDING"]
        BY <3>1 DEF StartUpdate, TypeOK
      <4>2. tx'[r].op = "starting" /\ (tx'[r].wo = (wo = "PENDING"))
        BY <4>1
      <4> QED
        BY <2>1, <4>2, Zenon DEF SawOrder
    <3>2. CASE FinishUpdate(r)
      <4>1. tx'[r] = [op |-> "finishing", step |-> tx[r].step, wo |-> maybeComplete(tx[r].step)]
        BY <3>2 DEF FinishUpdate, TypeOK
      <4>2. /\ tx'[r].op = "finishing" /\ tx'[r].step = tx[r].step
            /\ (tx'[r].wo = maybeComplete(tx[r].step))
        BY <4>1
      <4> QED
        BY <2>1, <4>2, Zenon DEF SawOrder, maybeComplete
    <3> QED
      BY <1>6, <3>1, <3>2
  <2> QED
    BY <2>2, <2>3, <2>4 DEF ScansAreCurrent
<1>7. ASSUME NEW r \in Requests, StartCommit(r) \/ FinishCommit(r), WorkOrder \notin raced'
      PROVE  /\ raced \subseteq raced'
             /\ \A q \in Requests : tx'[q].op \notin {"starting", "finishing"}
  <2>1. Marks(r) /\ tx[r].op \in {"starting", "finishing"}
    BY <1>7, MarkedCommits DEF StartCommit, FinishCommit, Done
  <2>2. Others(r) /\ tx'[r].op \in {"idle", "completed"}
    BY <1>7 DEF StartCommit, FinishCommit, Done, Idle, TypeOK
  <2> QED
    BY <1>7, <2>1, <2>2, TouchesShape DEF Marks
<1>8. ASSUME NEW r \in Requests, StartCommit(r) PROVE ScansAreCurrent'
  <2>1. ~ \A s \in Steps : step'[s] = "COMPLETED"
    <3>1. tx[r].step \in Steps
      BY <1>8 DEF StartCommit, TypeOK, Tx, Idle
    <3> QED
      BY <1>8, <3>1 DEF StartCommit, TypeOK
  <2> QED
    BY <1>0, <1>7, <1>8, <2>1 DEF ScansAreCurrent
<1>9. ASSUME NEW r \in Requests, FinishCommit(r) PROVE ScansAreCurrent'
  <2> SUFFICES ASSUME WorkOrder \notin raced' PROVE ScansAreCurrent'
    BY DEF ScansAreCurrent
  <2>1. WorkOrder \notin raced /\ \A q \in Requests : tx'[q].op \notin {"starting", "finishing"}
    BY <1>7, <1>9
  <2>2. ASSUME \A s \in Steps : step'[s] = "COMPLETED" PROVE wo' = "COMPLETED"
    <3>0. tx[r].op = "finishing" /\ SawOrder(r)
      BY <1>9, <2>1 DEF FinishCommit, ScansAreCurrent
    <3>1. \A s \in Steps \ {tx[r].step} : step[s] = "COMPLETED"
      BY <1>9, <2>2 DEF FinishCommit, TypeOK
    <3>2. CASE tx[r].wo
      BY <1>9, <3>2 DEF FinishCommit
    <3>3. CASE ~ tx[r].wo
      <4>1. ~ maybeComplete(tx[r].step) /\ wo' = wo
        BY <1>9, <3>0, <3>3 DEF FinishCommit, SawOrder
      <4> QED
        BY <3>1, <4>1 DEF maybeComplete
    <3> QED
      BY <3>2, <3>3
  <2> QED
    BY <1>0, <2>1, <2>2 DEF ScansAreCurrent
<1> QED
  BY <1>3, <1>4, <1>5, <1>6, <1>8, <1>9, StepShape

-----------------------------------------------------------------------------
(* The commits that write alert flags and subcontract rows.                *)

LEMMA SnapshotShape ==
  ASSUME TypeOK, NEW r \in Requests
  PROVE  /\ tx[r].op = "receive" => tx[r].sub \in Subcontracts
         /\ tx[r].op = "sweep" => tx[r].steps \subseteq Steps /\ tx[r].subs \subseteq Subcontracts
<1>1. tx[r] \in Tx
  BY DEF TypeOK
<1>2. tx[r].op = "receive" => tx[r].sub \in Subcontracts
  BY <1>1 DEF Tx, Idle
<1>3. tx[r].op = "sweep" => tx[r].steps \subseteq Steps /\ tx[r].subs \subseteq Subcontracts
  BY <1>1 DEF Tx, Idle
<1> QED
  BY <1>2, <1>3

LEMMA SweepWrites ==
  ASSUME TypeOK, NEW r \in Requests, SweepCommit(r)
  PROVE  /\ tx[r].op = "sweep" /\ Marks(r)
         /\ tx'[r].op = "idle" /\ \A q \in Requests \ {r} : tx'[q] = tx[q]
         /\ \A s \in Steps \ tx[r].steps : delays'[s] = delays[s]
         /\ \A s \in Steps \cap tx[r].steps : delays'[s] = delays[s] + 1
         /\ notified' = notified \cup tx[r].steps
         /\ \A c \in Subcontracts \ tx[r].subs : sub'[c] = sub[c]
<1>1. Marks(r)
  BY MarkedCommits DEF SweepCommit, Done
<1>2. tx'[r].op = "idle" /\ \A q \in Requests \ {r} : tx'[q] = tx[q]
  BY DEF SweepCommit, Done, Idle, TypeOK
<1> QED
  BY <1>1, <1>2 DEF SweepCommit

LEMMA ReceiveWrites ==
  ASSUME TypeOK, NEW r \in Requests, ReceiveCommit(r)
  PROVE  /\ tx[r].op = "receive" /\ Marks(r) /\ UNCHANGED <<notified, delays>>
         /\ tx'[r].op = "idle" /\ \A q \in Requests \ {r} : tx'[q] = tx[q]
         /\ sub'[tx[r].sub].status = "RECEIVED"
         /\ \A c \in Subcontracts \ {tx[r].sub} : sub'[c] = sub[c]
<1>1. Marks(r)
  BY MarkedCommits DEF ReceiveCommit, Done
<1>2. tx'[r].op = "idle" /\ \A q \in Requests \ {r} : tx'[q] = tx[q]
  BY DEF ReceiveCommit, Done, Idle, TypeOK
<1>3. tx[r].op = "receive" /\ tx[r].sub \in Subcontracts
  BY SnapshotShape DEF ReceiveCommit
<1> QED
  BY <1>1, <1>2, <1>3 DEF ReceiveCommit, alerts, TypeOK

(* The scans' updates and commits touch neither.                           *)
LEMMA ScansAside ==
  ASSUME TypeOK, NEW r \in Requests,
         StartUpdate(r) \/ StartCommit(r) \/ FinishUpdate(r) \/ FinishCommit(r)
  PROVE  /\ raced \subseteq raced' /\ UNCHANGED <<sub, notified, delays>>
         /\ \A q \in Requests : tx'[q] = tx[q] \/ tx'[q].op \notin {"receive", "sweep"}
<1>1. CASE StartUpdate(r) \/ FinishUpdate(r)
  BY <1>1 DEF StartUpdate, FinishUpdate, alerts, ghosts, TypeOK
<1>2. CASE StartCommit(r)
  BY <1>2 DEF StartCommit, Done, MarkRaced, Idle, alerts, TypeOK
<1>3. CASE FinishCommit(r)
  <2>1. UNCHANGED <<sub, notified, delays>> /\ MarkRaced(r)
    BY <1>3 DEF FinishCommit, Done, alerts
  <2>2. \A q \in Requests : tx'[q] = tx[q] \/ tx'[q].op \notin {"receive", "sweep"}
    BY <1>3 DEF FinishCommit, Done, Idle, TypeOK
  <2> QED
    BY <2>1, <2>2 DEF MarkRaced
<1> QED
  BY <1>1, <1>2, <1>3

(* A sweep alerts steps it saw unnotified; unless another sweep commits    *)
(* first, which marks them, they still are.                                *)
LEMMA NextAlerts ==
  ASSUME IndInv, AlertsAreCurrent, [Next]_vars
  PROVE  AlertsAreCurrent'
<1> TypeOK
  BY DEF IndInv
<1>1. ASSUME raced \subseteq raced', UNCHANGED <<notified, delays>>,
             \A q \in Requests :
               \/ tx'[q] = tx[q] \/ tx'[q].op # "sweep"
               \/ \A s \in tx'[q].steps : s \notin notified
      PROVE  AlertsAreCurrent'
  BY <1>1 DEF AlertsAreCurrent
<1>2. CASE Calm
  BY <1>1, <1>2 DEF Calm
<1>3. ASSUME NEW r \in Requests, NEW c \in Subcontracts, ReceiveRead(r, c)
      PROVE  AlertsAreCurrent'
  BY <1>1, <1>3 DEF ReceiveRead, Read, alerts, ghosts, TypeOK
<1>4. ASSUME NEW r \in Requests, SweepRead(r) PROVE AlertsAreCurrent'
  <2>1. UNCHANGED <<raced, notified, delays>> /\ \A q \in Requests \ {r} : tx'[q] = tx[q]
    BY <1>4 DEF SweepRead, Read, alerts, ghosts, TypeOK
  <2>2. tx'[r].steps = delayCandidates
    BY <1>4 DEF SweepRead, Read, TypeOK
  <2> QED
    BY <1>1, <2>1, <2>2 DEF delayCandidates
<1>5. ASSUME NEW r \in Requests,
             StartUpdate(r) \/ StartCommit(r) \/ FinishUpdate(r) \/ FinishCommit(r)
      PROVE  AlertsAreCurrent'
  BY <1>1, <1>5, ScansAside
<1>6. ASSUME NEW r \in Requests, ReceiveCommit(r) PROVE AlertsAreCurrent'
  BY <1>1, <1>6, ReceiveWrites DEF Marks
<1>7. ASSUME NEW r \in Requests, SweepCommit(r) PROVE AlertsAreCurrent'
  <2> SUFFICES ASSUME NEW s \in Steps \ raced'
               PROVE  /\ delays'[s] = IF s \in notified' THEN 1 ELSE 0
                      /\ \A q \in Requests :
                           tx'[q].op = "sweep" /\ s \in tx'[q].steps => s \notin notified'
    BY DEF AlertsAreCurrent
  <2>1. /\ delays[s] = IF s \in notified THEN 1 ELSE 0
        /\ \A q \in Requests : tx[q].op = "sweep" /\ s \in tx[q].steps => s \notin notified
    BY <1>7, SweepWrites DEF AlertsAreCurrent, Marks
  <2>2. CASE s \notin tx[r].steps
    BY <1>7, <2>1, <2>2, SweepWrites
  <2>3. CASE s \in tx[r].steps
    <3>1. delays'[s] = 1 /\ s \in notified'
      BY <1>7, <2>1, <2>3, SweepWrites
    <3>2. ASSUME NEW q \in Requests, tx'[q].op = "sweep" PROVE s \notin tx'[q].steps
      BY <1>7, <2>3, <3>2, SweepWrites, TouchesShape DEF Marks
    <3> QED
      BY <3>1, <3>2
  <2> QED
    BY <2>2, <2>3
<1> QED
  BY <1>2, <1>3, <1>4, <1>5, <1>6, <1>7, StepShape

(* A receipt and a sweep decide on a subcontract they saw out; unless one  *)
(* of them commits first, which marks it, it still is.                     *)
SawSub(r, c) ==
  /\ tx[r].op = "receive" /\ tx[r].sub = c => sub[c].status \in {"SENT", "OVERDUE"}
  /\ tx[r].op = "sweep" /\ c \in tx[r].subs => sub[c].status = "SENT"

LEMMA NextSubs ==
  ASSUME IndInv, SubsAreCurrent, [Next]_vars
  PROVE  SubsAreCurrent'
<1> TypeOK /\ SubcontractsWereSent
  BY DEF IndInv
<1> SUFFICES ASSUME NEW c \in Subcontracts \ raced', NEW q \in Requests
             PROVE  SawSub(q, c)'
  BY DEF SubsAreCurrent, SawSub
<1>1. ASSUME raced \subseteq raced', tx'[q] = tx[q],
             sub[c].status # "NONE" => sub'[c] = sub[c]
      PROVE  SawSub(q, c)'
  <2>1. SawSub(q, c)
    BY <1>1 DEF SubsAreCurrent, SawSub
  <2>2. sub[c].status = "NONE" => /\ tx[q].op = "receive" => tx[q].sub # c
                                  /\ tx[q].op = "sweep" => c \notin tx[q].subs
    BY DEF SubcontractsWereSent
  <2> QED
    BY <1>1, <2>1, <2>2 DEF SawSub
<1>2. ASSUME tx'[q].op \notin {"receive", "sweep"} PROVE SawSub(q, c)'
  BY <1>2 DEF SawSub
<1>3. CASE Calm
  BY <1>1, <1>2, <1>3 DEF Calm
<1>4. ASSUME NEW r \in Requests, NEW d \in Subcontracts, ReceiveRead(r, d) PROVE SawSub(q, c)'
  <2>1. UNCHANGED <<raced, sub>>
    BY <1>4 DEF ReceiveRead, Read, ghosts
  <2>2. CASE q = r
    BY <1>4, <2>1, <2>2 DEF ReceiveRead, Read, SawSub, TypeOK
  <2>3. CASE q # r
    BY <1>1, <1>4, <2>1, <2>3 DEF ReceiveRead, Read, TypeOK
  <2> QED
    BY <2>2, <2>3
<1>5. ASSUME NEW r \in Requests, SweepRead(r) PROVE SawSub(q, c)'
  <2>1. UNCHANGED <<raced, sub>>
    BY <1>5 DEF SweepRead, Read, ghosts
  <2>2. CASE q = r
    BY <1>5, <2>1, <2>2 DEF SweepRead, Read, SawSub, overdueCandidates, TypeOK
  <2>3. CASE q # r
    BY <1>1, <1>5, <2>1, <2>3 DEF SweepRead, Read, TypeOK
  <2> QED
    BY <2>2, <2>3
<1>6. ASSUME NEW r \in Requests,
             StartUpdate(r) \/ StartCommit(r) \/ FinishUpdate(r) \/ FinishCommit(r)
      PROVE  SawSub(q, c)'
  BY <1>1, <1>2, <1>6, ScansAside
<1>7. ASSUME NEW r \in Requests, Marks(r), tx'[r].op = "idle",
             \A p \in Requests \ {r} : tx'[p] = tx[p],
             c \notin touches(r) => sub'[c] = sub[c]
      PROVE  SawSub(q, c)'
  <2>1. CASE q = r
    BY <1>2, <1>7, <2>1
  <2>2. CASE q # r /\ c \notin touches(r)
    BY <1>1, <1>7, <2>2 DEF Marks
  <2>3. CASE q # r /\ c \in touches(r)
    <3>1. c \notin touches(q) /\ tx'[q] = tx[q]
      BY <1>7, <2>3 DEF Marks
    <3>2. /\ tx[q].op = "receive" => tx[q].sub # c
          /\ tx[q].op = "sweep" => c \notin tx[q].subs
      BY <3>1, TouchesShape
    <3> QED
      BY <3>1, <3>2 DEF SawSub
  <2> QED
    BY <2>1, <2>2, <2>3
<1>8. ASSUME NEW r \in Requests, ReceiveCommit(r) PROVE SawSub(q, c)'
  BY <1>7, <1>8, ReceiveWrites, TouchesShape
<1>9. ASSUME NEW r \in Requests, SweepCommit(r) PROVE SawSub(q, c)'
  BY <1>7, <1>9, SweepWrites, TouchesShape
<1> QED
  BY <1>3, <1>4, <1>5, <1>6, <1>8, <1>9, StepShape

LEMMA InitCurrent == Init => CurrentInv
  BY WorkOrderAssumptions
  DEF Init, CurrentInv, ScansAreCurrent, SawOrder, AlertsAreCurrent, SubsAreCurrent, Idle

(* CurrentInv holds in every reachable state.                              *)
THEOREM RowsAreCurrent == Spec => []CurrentInv
<1>1. IndInv /\ CurrentInv /\ [Next]_vars => CurrentInv'
  BY NextScans, NextAlerts, NextSubs DEF CurrentInv
<1> QED
  BY WorkOrderInvariant, InitCurrent, <1>1, PTL DEF Spec

(* Unless two scans overlapped, a work order whose steps are all COMPLETED *)
(* is COMPLETED.                                                           *)
THEOREM LastFinish == Spec => []LastFinishCompletes
<1>1. CurrentInv => LastFinishCompletes
  BY DEF CurrentInv, ScansAreCurrent, LastFinishCompletes
<1> QED
  BY RowsAreCurrent, <1>1, PTL

(* Unless two sweeps overlapped on a step, it is reported delayed once.    *)
THEOREM OneAlert == Spec => []AlertedOnce
<1>1. CurrentInv => AlertedOnce
  BY DEF CurrentInv, AlertsAreCurrent, AlertedOnce
<1> QED
  BY RowsAreCurrent, <1>1, PTL

(* A completed work order stays completed unless two scans overlapped.     *)
LEMMA CompletedStays ==
  ASSUME IndInv, CurrentInv, [Next]_vars, WorkOrder \notin raced, wo = "COMPLETED"
  PROVE  wo' = "COMPLETED"
<1>1. ASSUME NEW r \in Requests, StartCommit(r) PROVE wo' = wo
  <2>1. ~ tx[r].wo
    BY <1>1 DEF StartCommit, CurrentInv, ScansAreCurrent, SawOrder
  <2> QED
    BY <1>1, <2>1 DEF StartCommit
<1>2. ASSUME NEW r \in Requests, FinishCommit(r) PROVE wo' = "COMPLETED"
  BY <1>2 DEF FinishCommit
<1>3. ASSUME NEW r \in Requests,
             \/ \E c \in Subcontracts : ReceiveRead(r, c)
             \/ SweepRead(r) \/ StartUpdate(r) \/ FinishUpdate(r)
             \/ ReceiveCommit(r) \/ SweepCommit(r)
      PROVE  wo' = wo
  BY <1>3 DEF ReceiveRead, SweepRead, Read, StartUpdate, FinishUpdate, ReceiveCommit, SweepCommit
<1>4. CASE Calm
  BY <1>4 DEF Calm
<1> QED
  BY <1>1, <1>2, <1>3, <1>4, StepShape DEF IndInv

(* A received subcontract stays received unless a sweep or a second        *)
(* receipt overlapped the first.                                           *)
LEMMA ReceivedStays ==
  ASSUME IndInv, CurrentInv, [Next]_vars, NEW c \in Subcontracts \ raced,
         sub[c].status = "RECEIVED"
  PROVE  sub'[c].status = "RECEIVED"
<1> TypeOK
  BY DEF IndInv
<1>1. ASSUME NEW r \in Requests, SweepCommit(r) PROVE sub'[c] = sub[c]
  <2>1. c \notin tx[r].subs
    BY <1>1, SweepWrites DEF CurrentInv, SubsAreCurrent
  <2> QED
    BY <1>1, <2>1, SweepWrites
<1>2. ASSUME NEW r \in Requests, ReceiveCommit(r) PROVE sub'[c].status = "RECEIVED"
  BY <1>2, ReceiveWrites
<1>3. ASSUME NEW r \in Requests, SweepRead(r) \/ \E d \in Subcontracts : ReceiveRead(r, d)
      PROVE  sub' = sub
  BY <1>3 DEF ReceiveRead, SweepRead, Read
<1>4. CASE Calm
  BY <1>4 DEF Calm
<1> QED
  BY <1>1, <1>2, <1>3, <1>4, StepShape, ScansAside

(* No late scan reopens a completed work order and no late sweep reports a *)
(* received subcontract overdue, unless requests overlapped on the row.    *)
THEOREM FinalStays == Spec => FinalStaysFinal
<1>1. ASSUME IndInv, CurrentInv, [Next]_vars
      PROVE  [WorkOrder \notin raced /\ wo = "COMPLETED" => wo' = "COMPLETED"]_vars
  BY <1>1, CompletedStays
<1>2. ASSUME IndInv, CurrentInv, [Next]_vars
      PROVE  [\A c \in Subcontracts \ raced :
                sub[c].status = "RECEIVED" => sub'[c].status = "RECEIVED"]_vars
  BY <1>2, ReceivedStays
<1> QED
  BY WorkOrderInvariant, RowsAreCurrent, <1>1, <1>2, PTL
  DEF Spec, FinalStaysFinal, CompletedIsFinal, ReceivedIsFinal
===============================================================================
