---------------------------- MODULE FiberProofs ----------------------------
(***************************************************************************)
(* Proofs about how the fibers of a client wait, work for each other and   *)
(* end: about Waiter, for any sets of items, about Executor, for any set   *)
(* of calls, and about ClientLifecycle, for any accounts, fibers and       *)
(* number of sessions.                                                     *)
(***************************************************************************)
EXTENDS Waiter, Executor, ClientLifecycle, FiniteSetTheorems, TLAPS

-----------------------------------------------------------------------------
(* Waiter *)

(* What an evaluation of the predicate that has not blocked knows.         *)
EvaluationInv ==
  /\ pc = "locking" => suspended
  /\ pc \in {"check", "enqueue", "blocked"} /\ ~suspended => ~waitCancelled
  /\ pc = "check" /\ ~suspended =>
       \A i \in attached \cap LocalItems : woken[i] => i \in unread \/ seen
  /\ pc \in {"enqueue", "blocked"} /\ ~suspended =>
       \A i \in attached \cap LocalItems : ~woken[i]

(* Why a wait that is about to return may return.                          *)
ReasonInv ==
  /\ pc \in {"check", "locking"} => unread \subseteq attached
  /\ pc \in {"check", "locking", "leave"} /\ seen /\ ~waitCancelled =>
       \E i \in attached : woken[i]
  /\ pc = "leave" /\ ~waitCancelled => seen \/ timer = "expired"

(* The steps of Next by name, so that the proofs below split them once.    *)
LEMMA WaiterCases ==
  ASSUME [WaiterNext]_waiterVars
  PROVE  \/ \E i \in Items : AskItem(i)
         \/ GotMutex \/ Decide \/ EnqueueOwner \/ Timeout \/ Resume \/ Leave
         \/ \E deadline \in {"none", "armed"} : Wait(deadline)
         \/ \E i \in Items : CreateWaiter(i) \/ DropItem(i) \/ Collect(i)
         \/ \E i \in Items : LocalSignal(i) \/ RemoteSet(i) \/ RemoteWakeup(i)
         \/ \E i \in Items : Hold(i) \/ Free(i)
         \/ CancelWaiter
         \/ UNCHANGED waiterVars
BY DEF WaiterNext, OwnerStep, Owner, Setters

(* The type invariant, for any items.                                      *)
THEOREM WaiterTypeCorrect == WaiterSpec => []WaiterTypeOK
<1> USE ItemsAssumption DEF WaiterTypeOK, Items
<1>1. WaiterInit => WaiterTypeOK
  BY DEF WaiterInit
<1>2. WaiterTypeOK /\ [WaiterNext]_waiterVars => WaiterTypeOK'
  <2> SUFFICES ASSUME WaiterTypeOK, [WaiterNext]_waiterVars PROVE WaiterTypeOK'
    OBVIOUS
  <2>1. ASSUME NEW i \in Items, AskItem(i) PROVE WaiterTypeOK'
    BY <2>1 DEF AskItem, itemVars
  <2>2. CASE GotMutex \/ Decide \/ EnqueueOwner \/ Timeout \/ Leave
    BY <2>2 DEF GotMutex, Decide, EnqueueOwner, Timeout, Leave, itemVars, ownerVars
  <2>3. CASE Resume
    BY <2>3 DEF Resume, Evaluate, itemVars
  <2>4. ASSUME NEW deadline \in {"none", "armed"}, Wait(deadline) PROVE WaiterTypeOK'
    BY <2>4 DEF Wait, Evaluate, itemVars
  <2>5. ASSUME NEW i \in Items, CreateWaiter(i) \/ DropItem(i) \/ Collect(i)
        PROVE WaiterTypeOK'
    BY <2>5 DEF CreateWaiter, DropItem, Collect, ownerVars
  <2>6. ASSUME NEW i \in Items, LocalSignal(i) PROVE WaiterTypeOK'
    BY <2>6 DEF LocalSignal, NotifyAll, ownerVars
  <2>7. ASSUME NEW i \in Items, RemoteSet(i) PROVE WaiterTypeOK'
    BY <2>7 DEF RemoteSet, ownerVars
  <2>8. ASSUME NEW i \in Items, RemoteWakeup(i) PROVE WaiterTypeOK'
    BY <2>8 DEF RemoteWakeup, NotifyAll, ownerVars
  <2>9. ASSUME NEW i \in Items, Hold(i) \/ Free(i) PROVE WaiterTypeOK'
    BY <2>9 DEF Hold, Free, ownerVars
  <2>10. CASE CancelWaiter
    BY <2>10 DEF CancelWaiter, NotifyAll, itemVars, ownerVars
  <2>11. CASE UNCHANGED waiterVars
    BY <2>11 DEF waiterVars
  <2> QED
    BY WaiterCases, <2>1, <2>2, <2>3, <2>4, <2>5, <2>6, <2>7, <2>8, <2>9, <2>10, <2>11
<1> QED
  BY <1>1, <1>2, PTL DEF WaiterSpec

(* The strengthening both safety properties rest on is inductive.          *)
LEMMA EvaluationInvariant == WaiterSpec => []EvaluationInv
<1> USE DEF WaiterTypeOK, EvaluationInv
<1>1. WaiterInit => EvaluationInv
  BY DEF WaiterInit
<1>2. WaiterTypeOK /\ EvaluationInv /\ [WaiterNext]_waiterVars => EvaluationInv'
  <2> SUFFICES ASSUME WaiterTypeOK, EvaluationInv, [WaiterNext]_waiterVars PROVE EvaluationInv'
    OBVIOUS
  <2>1. ASSUME NEW i \in Items, AskItem(i) PROVE EvaluationInv'
    BY <2>1 DEF AskItem, itemVars
  <2>2. CASE GotMutex \/ Decide \/ EnqueueOwner \/ Timeout \/ Leave
    BY <2>2 DEF GotMutex, Decide, EnqueueOwner, Timeout, Leave, itemVars, ownerVars
  <2>3. CASE Resume
    BY <2>3 DEF Resume, Evaluate, itemVars
  <2>4. ASSUME NEW deadline \in {"none", "armed"}, Wait(deadline) PROVE EvaluationInv'
    BY <2>4 DEF Wait, Evaluate, itemVars
  <2>5. ASSUME NEW i \in Items, CreateWaiter(i) \/ DropItem(i) \/ Collect(i)
        PROVE EvaluationInv'
    BY <2>5 DEF CreateWaiter, DropItem, Collect, ownerVars
  <2>6. ASSUME NEW i \in Items, LocalSignal(i) PROVE EvaluationInv'
    BY <2>6 DEF LocalSignal, OthersMayRun, NotifyAll, ownerVars
  <2>7. ASSUME NEW i \in Items, RemoteSet(i) PROVE EvaluationInv'
    BY <2>7, ItemsAssumption DEF RemoteSet, Items, ownerVars
  <2>8. ASSUME NEW i \in Items, RemoteWakeup(i) PROVE EvaluationInv'
    BY <2>8 DEF RemoteWakeup, NotifyAll, ownerVars
  <2>9. ASSUME NEW i \in Items, Hold(i) \/ Free(i) PROVE EvaluationInv'
    BY <2>9 DEF Hold, Free, ownerVars
  <2>10. CASE CancelWaiter
    BY <2>10 DEF CancelWaiter, OthersMayRun, NotifyAll, itemVars, ownerVars
  <2>11. CASE UNCHANGED waiterVars
    BY <2>11 DEF waiterVars
  <2> QED
    BY WaiterCases, <2>1, <2>2, <2>3, <2>4, <2>5, <2>6, <2>7, <2>8, <2>9, <2>10, <2>11
<1> QED
  BY <1>1, <1>2, WaiterTypeCorrect, PTL DEF WaiterSpec

(* No wakeup of an item of the client's own thread is lost, whatever other *)
(* items are attached: only a predicate that blocked can lose one.         *)
THEOREM LocalWakeupsArrive == WaiterSpec => []NoLostLocalWakeup
<1>1. EvaluationInv => NoLostLocalWakeup
  BY DEF EvaluationInv, NoLostLocalWakeup
<1> QED
  BY <1>1, EvaluationInvariant, PTL

(* cancel() reaches a waiting fiber, under the same condition.             *)
THEOREM CancelArrives == WaiterSpec => []NoLostCancel
<1>1. EvaluationInv => NoLostCancel
  BY DEF EvaluationInv, NoLostCancel
<1> QED
  BY <1>1, EvaluationInvariant, PTL

-----------------------------------------------------------------------------
(* A wait about to return has its reason: the items it saw triggered stay  *)
(* attached and triggered, because only the owner drops or empties them.   *)
LEMMA ReasonInvariant == WaiterSpec => []ReasonInv
<1> USE DEF WaiterTypeOK, ReasonInv
<1>1. WaiterInit => ReasonInv
  BY DEF WaiterInit
<1>2. WaiterTypeOK /\ ReasonInv /\ [WaiterNext]_waiterVars => ReasonInv'
  <2> SUFFICES ASSUME WaiterTypeOK, ReasonInv, [WaiterNext]_waiterVars PROVE ReasonInv'
    OBVIOUS
  <2>1. ASSUME NEW i \in Items, AskItem(i) PROVE ReasonInv'
    BY <2>1 DEF AskItem, itemVars
  <2>2. CASE GotMutex \/ Decide \/ EnqueueOwner \/ Timeout \/ Leave
    BY <2>2 DEF GotMutex, Decide, EnqueueOwner, Timeout, Leave, itemVars, ownerVars
  <2>3. CASE Resume
    BY <2>3 DEF Resume, Evaluate, itemVars
  <2>4. ASSUME NEW deadline \in {"none", "armed"}, Wait(deadline) PROVE ReasonInv'
    BY <2>4 DEF Wait, Evaluate, itemVars
  <2>5. ASSUME NEW i \in Items, CreateWaiter(i) \/ DropItem(i) \/ Collect(i)
        PROVE ReasonInv'
    BY <2>5 DEF CreateWaiter, DropItem, Collect, ownerVars
  <2>6. ASSUME NEW i \in Items, LocalSignal(i) PROVE ReasonInv'
    BY <2>6 DEF LocalSignal, NotifyAll, ownerVars
  <2>7. ASSUME NEW i \in Items, RemoteSet(i) PROVE ReasonInv'
    BY <2>7 DEF RemoteSet, ownerVars
  <2>8. ASSUME NEW i \in Items, RemoteWakeup(i) PROVE ReasonInv'
    BY <2>8 DEF RemoteWakeup, NotifyAll, ownerVars
  <2>9. ASSUME NEW i \in Items, Hold(i) \/ Free(i) PROVE ReasonInv'
    BY <2>9 DEF Hold, Free, ownerVars
  <2>10. CASE CancelWaiter
    BY <2>10 DEF CancelWaiter, NotifyAll, itemVars, ownerVars
  <2>11. CASE UNCHANGED waiterVars
    BY <2>11 DEF waiterVars
  <2> QED
    BY WaiterCases, <2>1, <2>2, <2>3, <2>4, <2>5, <2>6, <2>7, <2>8, <2>9, <2>10, <2>11
<1> QED
  BY <1>1, <1>2, WaiterTypeCorrect, PTL DEF WaiterSpec

(* The waiter implements the port: whatever the items and however their    *)
(* setters interleave with the predicate, wait() neither returns without a *)
(* reason nor throws without a cancel.                                     *)
THEOREM WaiterImplementsPort == WaiterSpec => ImplementsPort
<1>1. WaiterInit => Port!Init
  BY DEF WaiterInit, Port!Init
<1>2. WaiterTypeOK /\ ReasonInv /\ [WaiterNext]_waiterVars => [Port!Next]_(Port!vars)
  <2> SUFFICES ASSUME WaiterTypeOK, ReasonInv, [WaiterNext]_waiterVars
               PROVE  Port!Next \/ UNCHANGED Port!vars
    OBVIOUS
  <2> USE DEF WaiterTypeOK
  <2>1. ASSUME NEW i \in Items, AskItem(i) PROVE UNCHANGED Port!vars
    BY <2>1 DEF AskItem, itemVars, Port!vars
  <2>2. CASE GotMutex \/ Decide \/ EnqueueOwner
    BY <2>2 DEF GotMutex, Decide, EnqueueOwner, itemVars, ownerVars, Port!vars
  <2>3. CASE Timeout
    BY <2>3 DEF Timeout, itemVars, Port!vars
  <2>4. CASE Resume
    BY <2>4 DEF Resume, Evaluate, itemVars, Port!vars
  <2>5. CASE Leave /\ waitCancelled
    <3>1. Port!Throw
      BY <2>5 DEF Leave, itemVars, ownerVars, Port!Throw, Port!Waiting
    <3> QED
      BY <3>1 DEF Port!Next
  <2>6. CASE Leave /\ ~waitCancelled
    <3>1. Port!Return
      BY <2>6 DEF Leave, itemVars, ownerVars, ReasonInv, Port!Return, Port!Waiting, Port!Woken
    <3> QED
      BY <3>1 DEF Port!Next
  <2>7. ASSUME NEW deadline \in {"none", "armed"}, Wait(deadline) PROVE Port!Next
    <3>1. CASE deadline = "none"
      <4>1. Port!Wait("waiting")
        BY <2>7, <3>1 DEF Wait, Evaluate, itemVars, Port!Wait
      <4> QED
        BY <4>1 DEF Port!Next
    <3>2. CASE deadline = "armed"
      <4>1. Port!Wait("timed")
        BY <2>7, <3>2 DEF Wait, Evaluate, itemVars, Port!Wait
      <4> QED
        BY <4>1 DEF Port!Next
    <3> QED
      BY <2>7, <3>1, <3>2
  <2>8. ASSUME NEW i \in Items, CreateWaiter(i) PROVE Port!Next
    <3>1. Port!Attach(i)
      BY <2>8 DEF CreateWaiter, ownerVars, Port!Attach
    <3> QED
      BY <3>1 DEF Port!Next
  <2>9. ASSUME NEW i \in Items, DropItem(i) PROVE Port!Next
    <3>1. Port!Detach(i)
      BY <2>9 DEF DropItem, ownerVars, Port!Detach
    <3> QED
      BY <3>1 DEF Port!Next
  <2>10. ASSUME NEW i \in Items, Collect(i) PROVE Port!Next
    <3>1. Port!Collect(i)
      BY <2>10 DEF Collect, ownerVars, Port!Collect
    <3> QED
      BY <3>1 DEF Port!Next
  <2>11. ASSUME NEW i \in Items, LocalSignal(i) \/ RemoteSet(i) PROVE Port!Next
    <3>1. Port!Report(i)
      BY <2>11 DEF LocalSignal, RemoteSet, NotifyAll, ownerVars, Port!Report
    <3> QED
      BY <3>1 DEF Port!Next
  <2>12. ASSUME NEW i \in Items, RemoteWakeup(i) PROVE UNCHANGED Port!vars
    BY <2>12 DEF RemoteWakeup, NotifyAll, ownerVars, Port!vars
  <2>13. ASSUME NEW i \in Items, Hold(i) \/ Free(i) PROVE UNCHANGED Port!vars
    BY <2>13 DEF Hold, Free, ownerVars, Port!vars
  <2>14. CASE CancelWaiter
    <3>1. Port!Cancel
      BY <2>14 DEF CancelWaiter, NotifyAll, itemVars, ownerVars, Port!Cancel
    <3> QED
      BY <3>1 DEF Port!Next
  <2>15. CASE UNCHANGED waiterVars
    BY <2>15 DEF waiterVars, Port!vars
  <2> QED
    BY WaiterCases, <2>1, <2>2, <2>3, <2>4, <2>5, <2>6, <2>7, <2>8, <2>9, <2>10,
       <2>11, <2>12, <2>13, <2>14, <2>15
<1> QED
  BY <1>1, <1>2, WaiterTypeCorrect, ReasonInvariant, PTL DEF WaiterSpec, ImplementsPort, Port!Spec

-----------------------------------------------------------------------------
(* Executor *)

(* A function in the queue is there once, untouched, and its caller waits. *)
QueueInv ==
  /\ \A j, k \in 1..Len(queue) : queue[j] = queue[k] => j = k
  /\ \A k \in 1..Len(queue) : /\ status[queue[k]] = "Executing"
                              /\ queue[k] \notin started
                              /\ queue[k] # current
                              /\ caller[queue[k]] \in {"notify", "wait", "blocked"}

(* What the executor fiber holds at each of its steps.                     *)
FiberInv ==
  /\ current # None <=> exec \in {"run", "notifyRun", "notifyKilled"}
  /\ exec = "run" => current \in started /\ status[current] = "Executing"
  /\ exec = "notifyRun" => status[current] = "Run"
  /\ exec = "notifyKilled" => status[current] = "Killed"
  /\ exec = "pop" => queue # <<>>
  /\ exec \in {"drain", "notifyKilled", "ended"} => cancelled
  /\ exec = "ended" => queue = <<>>

(* What a caller knows at each of its steps.                               *)
CallInv ==
  \A c \in Calls :
    /\ caller[c] \in {"idle", "waitReady"} =>
         status[c] = "Executing" /\ c \notin started /\ c # current
    /\ status[c] = "Run" => c \in completed
    /\ status[c] = "Killed" => c \notin started
    /\ result[c] # "none" <=> caller[c] = "returned"

Inv == TypeOK /\ QueueInv /\ FiberInv /\ CallInv
         /\ ResultTellsTheTruth /\ EveryCallHasAnOwner

(* The steps of Next by name, so that the proofs below split them once.    *)
LEMMA StepCases ==
  ASSUME [Next]_vars
  PROVE  \/ BecomeReady \/ Register \/ AwaitWork \/ RunFunction \/ FunctionReturns
         \/ FunctionThrows \/ NotifyCaller \/ Catch \/ DrainOne \/ DrainEnd
         \/ Cancel \/ CancelNotify
         \/ \E c \in Calls : Call(c) \/ Enqueue(c) \/ Refuse(c) \/ Notify(c) \/ AwaitStatus(c)
         \/ UNCHANGED vars
BY DEF Next, FiberStep, CallerStep

(* What taking the head of a non-empty queue leaves.                       *)
LEMMA TakeHead ==
  ASSUME NEW q \in Seq(Calls), q # <<>>
  PROVE  /\ Len(q) \in Nat \ {0}
         /\ Head(q) \in Calls
         /\ Head(q) = q[1]
         /\ Tail(q) \in Seq(Calls)
         /\ Len(Tail(q)) = Len(q) - 1
         /\ \A k \in 1..Len(Tail(q)) : Tail(q)[k] = q[k + 1]
OBVIOUS

LEMMA InitInv == Init => Inv
<1> SUFFICES ASSUME Init PROVE Inv
  OBVIOUS
<1> USE DEF Init
<1>1. TypeOK
  <2>1. queue \in Seq(Calls)
    OBVIOUS
  <2> QED
    BY <2>1 DEF TypeOK
<1>2. QueueInv /\ FiberInv /\ CallInv
  BY CallsAssumption DEF QueueInv, FiberInv, CallInv
<1>3. ResultTellsTheTruth /\ EveryCallHasAnOwner
  BY DEF ResultTellsTheTruth, EveryCallHasAnOwner
<1> QED
  BY <1>1, <1>2, <1>3 DEF Inv

(* The steps that only move a program counter or a flag.                   *)
LEMMA QuietSteps ==
  ASSUME Inv, BecomeReady \/ Register \/ AwaitWork \/ Catch \/ DrainEnd \/ Cancel
              \/ CancelNotify \/ UNCHANGED vars
  PROVE  Inv'
<1> USE DEF Inv, moduleVars, history
<1>1. UNCHANGED <<queue, current, status, caller, result, started, completed, escaped>>
  BY DEF BecomeReady, Register, AwaitWork, Catch, DrainEnd, Cancel, CancelNotify, vars
<1>2. QueueInv'
  BY <1>1 DEF QueueInv
<1>3. CallInv' /\ ResultTellsTheTruth'
  BY <1>1 DEF CallInv, ResultTellsTheTruth
<1>4. EveryCallHasAnOwner'
  BY <1>1 DEF EveryCallHasAnOwner, Queued
<1>5. TypeOK'
  BY DEF TypeOK, BecomeReady, Register, AwaitWork, Catch, DrainEnd, Cancel, CancelNotify,
         NotifyExecutor, vars
<1>6. FiberInv'
  BY DEF FiberInv, BecomeReady, Register, AwaitWork, Catch, DrainEnd, Cancel, CancelNotify,
         NotifyExecutor, vars
<1> QED
  BY <1>2, <1>3, <1>4, <1>5, <1>6

(* The steps of a caller that leave the queue alone.                       *)
LEMMA CallerSteps ==
  ASSUME Inv, NEW c \in Calls, Call(c) \/ Refuse(c) \/ Notify(c) \/ AwaitStatus(c)
  PROVE  Inv'
<1> USE DEF Inv, moduleVars, history
<1>1. UNCHANGED <<ready, registered, cancelled, cancelling, queue, current, status, started,
                  completed, escaped>>
  BY DEF Call, Refuse, Notify, AwaitStatus
<1>2. exec' = exec \/ (exec = "blocked" /\ exec' = "loop")
  BY DEF Call, Refuse, Notify, AwaitStatus, NotifyExecutor
<1>3. TypeOK'
  BY <1>1, <1>2 DEF TypeOK, Call, Refuse, Notify, AwaitStatus
<1>4. FiberInv'
  BY <1>1, <1>2 DEF FiberInv
<1>5. \A d \in Calls \ {c} : caller'[d] = caller[d] /\ result'[d] = result[d]
  BY DEF TypeOK, Call, Refuse, Notify, AwaitStatus
<1>6. CASE Call(c) \/ Notify(c)
  <2>1. result' = result /\ caller'[c] \in {"waitReady", "wait"}
        /\ (caller'[c] = "waitReady" => caller[c] = "idle")
        /\ (caller'[c] = "wait" => caller[c] = "notify")
    BY <1>6 DEF TypeOK, Call, Notify
  <2>2. QueueInv'
    BY <1>1, <1>5, <2>1 DEF QueueInv, TypeOK
  <2>3. CallInv' /\ ResultTellsTheTruth'
    BY <1>1, <1>5, <2>1 DEF CallInv, ResultTellsTheTruth
  <2>4. EveryCallHasAnOwner'
    BY <1>1, <1>5, <2>1 DEF EveryCallHasAnOwner, Queued
  <2> QED
    BY <1>3, <1>4, <2>2, <2>3, <2>4
<1>7. CASE Refuse(c)
  <2>1. caller[c] = "waitReady" /\ caller'[c] = "returned" /\ result'[c] = "false"
    BY <1>7 DEF TypeOK, Refuse
  <2>2. QueueInv'
    BY <1>1, <1>5, <2>1 DEF QueueInv, TypeOK
  <2>3. CallInv' /\ ResultTellsTheTruth'
    BY <1>1, <1>5, <2>1 DEF CallInv, ResultTellsTheTruth
  <2>4. EveryCallHasAnOwner'
    BY <1>1, <1>5, <2>1 DEF EveryCallHasAnOwner, Queued
  <2> QED
    BY <1>3, <1>4, <2>2, <2>3, <2>4
<1>8. CASE AwaitStatus(c) /\ status[c] = "Executing"
  <2>1. caller[c] = "wait" /\ caller'[c] = "blocked" /\ result' = result
    BY <1>8 DEF TypeOK, AwaitStatus
  <2>2. QueueInv'
    BY <1>1, <1>5, <2>1 DEF QueueInv, TypeOK
  <2>3. CallInv' /\ ResultTellsTheTruth'
    BY <1>1, <1>5, <2>1 DEF CallInv, ResultTellsTheTruth
  <2>4. EveryCallHasAnOwner'
    BY <1>1, <1>5, <2>1 DEF EveryCallHasAnOwner, Queued
  <2> QED
    BY <1>3, <1>4, <2>2, <2>3, <2>4
<1>9. CASE AwaitStatus(c) /\ status[c] # "Executing"
  <2>1. /\ caller[c] = "wait" /\ caller'[c] = "returned"
        /\ result'[c] = IF status[c] = "Run" THEN "true" ELSE "false"
        /\ status[c] \in {"Run", "Killed"}
    BY <1>9 DEF TypeOK, AwaitStatus
  <2>2. QueueInv'
    BY <1>1, <1>5, <2>1 DEF QueueInv, TypeOK
  <2>3. CallInv' /\ ResultTellsTheTruth'
    BY <1>1, <1>5, <2>1 DEF CallInv, ResultTellsTheTruth
  <2>4. EveryCallHasAnOwner'
    BY <1>1, <1>5, <2>1 DEF EveryCallHasAnOwner, Queued
  <2> QED
    BY <1>3, <1>4, <2>2, <2>3, <2>4
<1> QED
  BY <1>6, <1>7, <1>8, <1>9

LEMMA EnqueueStep ==
  ASSUME Inv, NEW c \in Calls, Enqueue(c)
  PROVE  Inv'
<1> USE DEF Inv, history, Enqueue
<1>1. /\ queue' \in Seq(Calls)
      /\ Len(queue') = Len(queue) + 1
      /\ Len(queue) \in Nat
      /\ \A k \in 1..Len(queue) : queue'[k] = queue[k]
      /\ queue'[Len(queue')] = c
  BY DEF TypeOK
<1>2. /\ caller'[c] = "notify"
      /\ \A d \in Calls \ {c} : caller'[d] = caller[d]
      /\ status[c] = "Executing" /\ c \notin started /\ c # current
      /\ \A k \in 1..Len(queue) : queue[k] # c
  BY DEF TypeOK, CallInv, QueueInv
<1>3. TypeOK'
  BY <1>1 DEF TypeOK
<1>4. QueueInv'
  <2>1. \A k \in 1..Len(queue') : k \in 1..Len(queue) \/ k = Len(queue')
    BY <1>1
  <2>2. \A j, k \in 1..Len(queue') : queue'[j] = queue'[k] => j = k
    BY <1>1, <1>2, <2>1 DEF QueueInv
  <2>3. \A k \in 1..Len(queue) : queue[k] \in Calls
    BY DEF TypeOK
  <2>4. UNCHANGED <<status, started, current>>
    OBVIOUS
  <2>5. \A k \in 1..Len(queue') : /\ status'[queue'[k]] = "Executing"
                                  /\ queue'[k] \notin started'
                                  /\ queue'[k] # current'
                                  /\ caller'[queue'[k]] \in {"notify", "wait", "blocked"}
    BY <1>1, <1>2, <2>1, <2>3, <2>4 DEF QueueInv
  <2> QED
    BY <2>2, <2>5 DEF QueueInv
<1>5. FiberInv'
  BY DEF FiberInv
<1>6. CallInv' /\ ResultTellsTheTruth'
  BY <1>2 DEF CallInv, ResultTellsTheTruth
<1>7. EveryCallHasAnOwner'
  <2>1. c \in Queued' /\ Queued \subseteq Queued'
    BY <1>1 DEF Queued
  <2> QED
    BY <1>2, <2>1 DEF EveryCallHasAnOwner
<1> QED
  BY <1>3, <1>4, <1>5, <1>6, <1>7

(* RunFunction and DrainOne take the head of the queue and hold it.        *)
LEMMA TakeSteps ==
  ASSUME Inv, RunFunction \/ DrainOne
  PROVE  Inv'
<1> USE DEF Inv, history
<1>0. queue # <<>>
  BY DEF RunFunction, DrainOne, FiberInv
<1> DEFINE h == Head(queue)
<1>1. /\ h \in Calls /\ h # None
      /\ Len(queue) \in Nat \ {0}
      /\ h = queue[1]
      /\ Tail(queue) \in Seq(Calls)
      /\ Len(Tail(queue)) = Len(queue) - 1
      /\ \A k \in 1..Len(Tail(queue)) : Tail(queue)[k] = queue[k + 1]
  BY <1>0, TakeHead, CallsAssumption DEF TypeOK
<1>2. /\ status[h] = "Executing" /\ h \notin started /\ h # current
      /\ caller[h] \in {"notify", "wait", "blocked"}
      /\ \A k \in 1..Len(Tail(queue)) : Tail(queue)[k] # h
  BY <1>1 DEF QueueInv
<1>3. /\ queue' = Tail(queue) /\ current' = h
      /\ UNCHANGED <<ready, registered, cancelled, cancelling, caller, result, completed,
                     escaped>>
  BY <1>0 DEF RunFunction, DrainOne
<1>4. exec \in {"pop", "drain"} /\ current = None
  BY DEF RunFunction, DrainOne, FiberInv
<1>5. /\ \A d \in Calls \ {h} : status'[d] = status[d] /\ (d \in started' <=> d \in started)
  BY <1>0 DEF RunFunction, DrainOne, TypeOK
<1>6. TypeOK'
  BY <1>0, <1>1, <1>3 DEF TypeOK, RunFunction, DrainOne
<1>7. QueueInv'
  <2>1. \A k \in 1..Len(queue') : queue'[k] = queue[k + 1] /\ queue'[k] \in Calls \ {h}
    BY <1>1, <1>2, <1>3
  <2>2. \A j, k \in 1..Len(queue') : queue'[j] = queue'[k] => j = k
    BY <1>1, <1>3, <2>1 DEF QueueInv
  <2>3. \A k \in 1..Len(queue') : /\ status'[queue'[k]] = "Executing"
                                  /\ queue'[k] \notin started'
                                  /\ caller'[queue'[k]] \in {"notify", "wait", "blocked"}
    BY <1>1, <1>3, <1>5, <2>1 DEF QueueInv
  <2> QED
    BY <1>3, <2>1, <2>2, <2>3 DEF QueueInv
<1>8. FiberInv'
  BY <1>0, <1>1, <1>2, <1>3, <1>4 DEF FiberInv, RunFunction, DrainOne, TypeOK
<1>9. CallInv'
  <2>1. (status'[h] = "Executing" /\ h \in started') \/ (status'[h] = "Killed" /\ h \notin started')
    BY <1>0, <1>2, <1>1 DEF RunFunction, DrainOne, TypeOK
  <2> QED
    BY <1>2, <1>3, <1>4, <1>5, <2>1 DEF CallInv
<1>10. ResultTellsTheTruth'
  <2>1. result[h] = "none"
    BY <1>1, <1>2 DEF CallInv
  <2> QED
    BY <1>3, <1>5, <2>1 DEF ResultTellsTheTruth
<1>11. EveryCallHasAnOwner'
  <2>1. Queued \subseteq Queued' \cup {h}
    <3> SUFFICES ASSUME NEW k \in 1..Len(queue), k # 1 PROVE queue[k] \in Queued'
      BY <1>1 DEF Queued
    <3>1. k - 1 \in 1..Len(queue') /\ queue'[k - 1] = queue[k]
      BY <1>1, <1>3
    <3> QED
      BY <3>1 DEF Queued
  <2>2. \A d \in Calls : status'[d] = "Executing" => status[d] = "Executing"
    BY <1>2, <1>5
  <2> QED
    BY <1>3, <1>4, <2>1, <2>2, CallsAssumption DEF EveryCallHasAnOwner
<1> QED
  BY <1>6, <1>7, <1>8, <1>9, <1>10, <1>11

(* The executor fiber lets go of the function it holds.                    *)
LEMMA HoldSteps ==
  ASSUME Inv, FunctionReturns \/ FunctionThrows \/ NotifyCaller
  PROVE  Inv'
<1> USE DEF Inv, moduleVars, history
<1>1. current \in Calls /\ current # None /\ None \notin Calls
  BY CallsAssumption DEF FunctionReturns, FunctionThrows, NotifyCaller, FiberInv, TypeOK
<1>2. UNCHANGED <<ready, registered, cancelled, cancelling, queue, started>>
  BY DEF FunctionReturns, FunctionThrows, NotifyCaller
<1>3. \A k \in 1..Len(queue) : queue[k] \in Calls /\ queue[k] # current
  BY DEF QueueInv, TypeOK
<1>4. CASE FunctionReturns
  <2>1. /\ \A d \in Calls \ {current} : status'[d] = status[d]
        /\ status'[current] = "Run" /\ current \in completed'
        /\ completed \subseteq completed' /\ current \in started
        /\ UNCHANGED <<caller, result, current, escaped>>
        /\ exec = "run" /\ exec' = "notifyRun"
    BY <1>1, <1>4 DEF FunctionReturns, FiberInv, TypeOK
  <2>2. TypeOK'
    BY <1>1, <1>4, <2>1 DEF TypeOK, FunctionReturns
  <2>3. QueueInv'
    BY <1>2, <1>3, <2>1 DEF QueueInv
  <2>4. FiberInv'
    BY <1>2, <2>1 DEF FiberInv
  <2>5. CallInv' /\ ResultTellsTheTruth'
    BY <1>2, <2>1 DEF CallInv, ResultTellsTheTruth
  <2>6. EveryCallHasAnOwner'
    BY <1>2, <2>1 DEF EveryCallHasAnOwner, Queued
  <2> QED
    BY <2>2, <2>3, <2>4, <2>5, <2>6
<1>5. CASE FunctionThrows
  <2>1. /\ UNCHANGED <<caller, result, status, completed>>
        /\ exec = "run" /\ exec' = "catch" /\ current' = None
        /\ escaped' = escaped \cup {current}
    BY <1>5 DEF FunctionThrows
  <2>2. TypeOK'
    BY <1>1, <1>5, <2>1 DEF TypeOK, FunctionThrows
  <2>3. QueueInv'
    BY <1>1, <1>2, <1>3, <2>1 DEF QueueInv
  <2>4. FiberInv'
    BY <1>2, <2>1 DEF FiberInv
  <2>5. CallInv' /\ ResultTellsTheTruth'
    BY <1>1, <1>2, <2>1 DEF CallInv, ResultTellsTheTruth
  <2>6. EveryCallHasAnOwner'
    BY <1>2, <2>1 DEF EveryCallHasAnOwner, Queued
  <2> QED
    BY <2>2, <2>3, <2>4, <2>5, <2>6
<1>6. CASE NotifyCaller
  <2>1. /\ \A d \in Calls \ {current} : caller'[d] = caller[d]
        /\ caller'[current] = caller[current]
             \/ (caller[current] = "blocked" /\ caller'[current] = "wait")
        /\ UNCHANGED <<result, status, completed, escaped>>
        /\ current' = None /\ exec' \in {"loop", "drain"}
        /\ exec' = "drain" => exec = "notifyKilled"
        /\ status[current] # "Executing"
    BY <1>1, <1>6 DEF NotifyCaller, FiberInv, TypeOK
  <2>2. TypeOK'
    BY <1>1, <1>6, <2>1 DEF TypeOK, NotifyCaller
  <2>3. QueueInv'
    BY <1>1, <1>2, <1>3, <2>1 DEF QueueInv
  <2>4. FiberInv'
    BY <1>2, <2>1 DEF FiberInv
  <2>5. CallInv' /\ ResultTellsTheTruth'
    BY <1>1, <1>2, <2>1 DEF CallInv, ResultTellsTheTruth
  <2>6. EveryCallHasAnOwner'
    BY <1>1, <1>2, <2>1 DEF EveryCallHasAnOwner, Queued
  <2> QED
    BY <2>2, <2>3, <2>4, <2>5, <2>6
<1> QED
  BY <1>4, <1>5, <1>6

LEMMA NextInv == Inv /\ [Next]_vars => Inv'
BY StepCases, QuietSteps, CallerSteps, EnqueueStep, TakeSteps, HoldSteps

(* The types, and that the executor fiber never calls a null function.     *)
THEOREM TypeCorrect == Spec => []TypeOK
<1>1. Inv => TypeOK
  BY DEF Inv
<1> QED
  BY <1>1, InitInv, NextInv, PTL DEF Spec

(* Whoever gets an answer from execute() gets a true one.                  *)
THEOREM AnswersAreTrue == Spec => []ResultTellsTheTruth
<1>1. Inv => ResultTellsTheTruth
  BY DEF Inv
<1> QED
  BY <1>1, InitInv, NextInv, PTL DEF Spec

(* Whoever waits for one has somebody to give it, unless its function      *)
(* threw.                                                                  *)
THEOREM CallsAreOwned == Spec => []EveryCallHasAnOwner
<1>1. Inv => EveryCallHasAnOwner
  BY DEF Inv
<1> QED
  BY <1>1, InitInv, NextInv, PTL DEF Spec

(* The assertion in ~ExecutorModule holds.                                 *)
THEOREM QueueEndsEmpty == Spec => []NothingLeftBehind
<1>1. Inv => NothingLeftBehind
  BY DEF Inv, FiberInv, NothingLeftBehind
<1> QED
  BY <1>1, InitInv, NextInv, PTL DEF Spec

(* No notification is lost, neither the executor's nor a caller's.         *)
THEOREM NoLostNotification == Spec => []NobodySleepsOverWork
<1>1. Init => NobodySleepsOverWork
  BY DEF Init, NobodySleepsOverWork
<1>2. Inv /\ NobodySleepsOverWork /\ [Next]_vars => NobodySleepsOverWork'
  <2> SUFFICES ASSUME Inv, NobodySleepsOverWork, [Next]_vars
               PROVE  NobodySleepsOverWork'
    OBVIOUS
  <2> USE DEF NobodySleepsOverWork, moduleVars, history
  <2>1. TypeOK /\ FiberInv
    BY DEF Inv
  <2>2. CASE BecomeReady \/ Register \/ AwaitWork \/ Catch \/ DrainEnd \/ Cancel
             \/ UNCHANGED vars
    BY <2>2 DEF BecomeReady, Register, AwaitWork, Catch, DrainEnd, Cancel, vars
  <2>3. CASE CancelNotify
    BY <2>3 DEF CancelNotify, NotifyExecutor
  <2>4. CASE RunFunction
    BY <2>1, <2>4 DEF RunFunction, FiberInv
  <2>5. CASE DrainOne
    BY <2>1, <2>5 DEF DrainOne, TypeOK
  <2>6. CASE FunctionReturns \/ FunctionThrows
    BY <2>1, <2>6 DEF FunctionReturns, FunctionThrows, TypeOK
  <2>7. CASE NotifyCaller
    BY <2>1, <2>7 DEF NotifyCaller, TypeOK
  <2>8. ASSUME NEW c \in Calls, Call(c) PROVE NobodySleepsOverWork'
    BY <2>1, <2>8 DEF Call, TypeOK
  <2>9. ASSUME NEW c \in Calls, Enqueue(c) PROVE NobodySleepsOverWork'
    BY <2>1, <2>9 DEF Enqueue, TypeOK
  <2>10. ASSUME NEW c \in Calls, Refuse(c) PROVE NobodySleepsOverWork'
    BY <2>1, <2>10 DEF Refuse, TypeOK
  <2>11. ASSUME NEW c \in Calls, Notify(c) PROVE NobodySleepsOverWork'
    BY <2>1, <2>11 DEF Notify, NotifyExecutor, TypeOK
  <2>12. ASSUME NEW c \in Calls, AwaitStatus(c) PROVE NobodySleepsOverWork'
    BY <2>1, <2>12 DEF AwaitStatus, TypeOK
  <2> QED
    BY StepCases, <2>2, <2>3, <2>4, <2>5, <2>6, <2>7, <2>8, <2>9, <2>10, <2>11, <2>12
<1>3. Init /\ [][Next]_vars => []Inv
  BY InitInv, NextInv, PTL
<1> QED
  BY <1>1, <1>2, <1>3, PTL DEF Spec

-----------------------------------------------------------------------------
(* ClientLifecycle *)

Phases == Live \cup {"none", "exiting", "done"}
WithClient == {"init", "starting", "running", "leaving"}

(* Where the thread of an account's latest session is.                     *)
Latest(a) == IF sessions[a] = 0 THEN "none" ELSE phase[a][sessions[a]]

(* Only the latest session of an account can be live, and the flag says    *)
(* whether it is.                                                          *)
SessionInv ==
  \A a \in Accounts :
    /\ \A s \in Sessions : phase[a][s] \in Live => s = sessions[a]
    /\ active[a] <=> Latest(a) \in Live

(* The client is there from setClient() on until it is taken away.         *)
ClientInv ==
  \A a \in Accounts :
    /\ client[a] # NoClient => client[a] = sessions[a]
    /\ client[a] # NoClient <=> Latest(a) \in WithClient

(* Fibers live only while the session's thread runs them.                  *)
ClientFiberInv ==
  \A a \in Accounts, f \in Fibers :
    fiber[a][f] \in {"ready", "running"} => Latest(a) \in {"starting", "running"}

(* A client that quits to be restarted keeps its account, and its thread   *)
(* or the next one a handle.                                               *)
RestartInv ==
  \A a \in Accounts : quitMode[a] = "Restart" => Latest(a) \in Live \ {"launching"}

LifecycleInv == LifecycleTypeOK /\ SessionInv /\ ClientInv /\ ClientFiberInv /\ RestartInv

-----------------------------------------------------------------------------
(* The steps by name, those of quitAll() that touch no client              *)
(* together.                                                               *)
QuitAllSteps ==
  /\ UNCHANGED <<clientVars, fiberVars>>
  /\ \/ StartQuitAll \/ StartWaitAll \/ WaitAllReturns
     \/ \E a \in Accounts : VisitRunning(a) \/ VisitIdle(a)
     \/ \E a \in Accounts, s \in Sessions : ExecuteRefused(a, s)

LEMMA LifecycleCases ==
  ASSUME [LifecycleNext]_lifecycleVars
  PROVE  \/ \E a \in Accounts, s \in Sessions :
              \/ CreateThread(a, s) \/ SetClient(a, s) \/ InitModules(a, s) \/ SetReady(a, s)
              \/ SessionOver(a, s) \/ ClearClient(a, s) \/ Deactivate(a, s)
              \/ SleepBeforeRestart(a, s) \/ Relaunch(a, s) \/ ThreadExit(a, s)
              \/ ExecuteQuit(a, s)
         \/ \E a \in Accounts, f \in Fibers :
              FiberRun(a, f) \/ FiberCancelled(a, f) \/ LaunchLate(a, f) \/ FiberReturns(a, f)
         \/ \E a \in Accounts : Launch(a)
         \/ \E a \in Accounts, mode \in {"Quit", "Restart"} : FiberQuit(a, mode)
         \/ QuitAllSteps
         \/ UNCHANGED lifecycleVars
<1>1. /\ StartQuitAll \/ StartWaitAll \/ WaitAllReturns => UNCHANGED <<clientVars, fiberVars>>
      /\ \A a \in Accounts :
            VisitRunning(a) \/ VisitIdle(a) => UNCHANGED <<clientVars, fiberVars>>
      /\ \A a \in Accounts, s \in Sessions :
            ExecuteRefused(a, s) => UNCHANGED <<clientVars, fiberVars>>
  BY DEF StartQuitAll, StartWaitAll, WaitAllReturns, VisitRunning, VisitIdle, ExecuteRefused
<1> QED
  BY <1>1 DEF LifecycleNext, ThreadStep, ClientFiberStep, QuitterStep, QuitAllSteps

(* What moving a session's thread does to the table of phases.             *)
LEMMA PhaseMoves ==
  ASSUME LifecycleTypeOK, NEW a \in Accounts, NEW s \in Sessions, NEW from, NEW to \in Phases,
         Move(a, s, from, to), sessions' = sessions
  PROVE  /\ phase[a][s] = from
         /\ phase' \in [Accounts -> [Sessions -> Phases]]
         /\ phase'[a][s] = to
         /\ \A t \in Sessions : t # s => phase'[a][t] = phase[a][t]
         /\ \A b \in Accounts : b # a => phase'[b] = phase[b]
         /\ Latest(a)' = IF s = sessions[a] THEN to ELSE Latest(a)
         /\ s = sessions[a] => Latest(a) = from
<1>1. /\ phase[a][s] = from
      /\ phase' \in [Accounts -> [Sessions -> Phases]]
      /\ phase'[a][s] = to
      /\ \A t \in Sessions : t # s => phase'[a][t] = phase[a][t]
      /\ \A b \in Accounts : b # a => phase'[b] = phase[b]
  BY DEF Move, LifecycleTypeOK, Phases
<1>2. sessions[a] \in 0..MaxSessions /\ s # 0
  BY DEF LifecycleTypeOK, Sessions
<1>3. sessions[a] # 0 => sessions[a] \in Sessions
  BY <1>2, LifecycleAssumption DEF Sessions
<1> QED
  BY <1>1, <1>2, <1>3 DEF Latest

(* One account is concerned; for the others nothing changes.               *)
Others(a) ==
  \A b \in Accounts : b # a =>
    /\ active'[b] = active[b] /\ client'[b] = client[b] /\ sessions'[b] = sessions[b]
    /\ phase'[b] = phase[b] /\ quitMode'[b] = quitMode[b] /\ fiber'[b] = fiber[b]

Here(a) ==
  /\ \A s \in Sessions : phase[a][s] \in Live => s = sessions[a]
  /\ active[a] <=> Latest(a) \in Live
  /\ client[a] # NoClient => client[a] = sessions[a]
  /\ client[a] # NoClient <=> Latest(a) \in WithClient
  /\ \A f \in Fibers : fiber[a][f] \in {"ready", "running"} => Latest(a) \in {"starting", "running"}
  /\ quitMode[a] = "Restart" => Latest(a) \in Live \ {"launching"}

LEMMA InvByAccount == LifecycleInv <=> LifecycleTypeOK /\ \A a \in Accounts : Here(a)
BY DEF LifecycleInv, SessionInv, ClientInv, ClientFiberInv, RestartInv, Here

LEMMA OthersStay ==
  ASSUME LifecycleInv, NEW a \in Accounts, Others(a), Here(a)', LifecycleTypeOK'
  PROVE  LifecycleInv'
<1>1. ASSUME NEW b \in Accounts, b # a PROVE Here(b)'
  <2>1. Here(b)
    BY InvByAccount
  <2>2. /\ active'[b] = active[b] /\ client'[b] = client[b] /\ sessions'[b] = sessions[b]
        /\ phase'[b] = phase[b] /\ quitMode'[b] = quitMode[b] /\ fiber'[b] = fiber[b]
    BY <1>1 DEF Others
  <2> QED
    BY <2>1, <2>2 DEF Here, Latest
<1>2. \A b \in Accounts : Here(b)'
  BY <1>1
<1> QED
  BY <1>2 DEF LifecycleInv, SessionInv, ClientInv, ClientFiberInv, RestartInv, Here

-----------------------------------------------------------------------------
LEMMA InvInit == LifecycleInit => LifecycleInv
<1> SUFFICES ASSUME LifecycleInit PROVE LifecycleTypeOK /\ \A a \in Accounts : Here(a)
  BY InvByAccount
<1>1. \A a \in Accounts, s \in Sessions : phase[a][s] = "none"
  BY DEF LifecycleInit
<1>2. LifecycleTypeOK
  BY LifecycleAssumption DEF LifecycleInit, LifecycleTypeOK
<1> QED
  BY <1>1, <1>2 DEF LifecycleInit, Here, Latest, Live, WithClient, NoClient

(* The steps of a session's thread that only move it on.                   *)
LEMMA ThreadMoves ==
  ASSUME LifecycleInv, NEW a \in Accounts, NEW s \in Sessions,
         \/ CreateThread(a, s) \/ SetReady(a, s) \/ SessionOver(a, s)
         \/ SleepBeforeRestart(a, s) \/ ThreadExit(a, s)
  PROVE  LifecycleInv'
<1>1. UNCHANGED <<active, client, sessions, fiberVars, quitVars>>
  BY DEF CreateThread, SetReady, SessionOver, SleepBeforeRestart, ThreadExit
<1>2. LifecycleTypeOK /\ Here(a)
  BY InvByAccount
<1>3. ASSUME NEW from, NEW to \in Phases, Move(a, s, from, to)
      PROVE  /\ phase[a][s] = from /\ phase'[a][s] = to
             /\ \A t \in Sessions : t # s => phase'[a][t] = phase[a][t]
             /\ Latest(a)' = IF s = sessions[a] THEN to ELSE Latest(a)
             /\ s = sessions[a] => Latest(a) = from
             /\ LifecycleTypeOK' /\ Others(a)
  <2>1. /\ phase[a][s] = from
        /\ phase' \in [Accounts -> [Sessions -> Phases]]
        /\ phase'[a][s] = to
        /\ \A t \in Sessions : t # s => phase'[a][t] = phase[a][t]
        /\ \A b \in Accounts : b # a => phase'[b] = phase[b]
        /\ Latest(a)' = IF s = sessions[a] THEN to ELSE Latest(a)
        /\ s = sessions[a] => Latest(a) = from
    BY <1>1, <1>2, <1>3, PhaseMoves
  <2>2. LifecycleTypeOK'
    BY <1>1, <1>2, <2>1 DEF LifecycleTypeOK, Phases, fiberVars, quitVars
  <2>3. Others(a)
    BY <1>1, <2>1 DEF Others, fiberVars
  <2> QED
    BY <2>1, <2>2, <2>3
<1>4. CASE CreateThread(a, s)
  <2>1. Move(a, s, "launching", "created") /\ "created" \in Phases
    BY <1>4 DEF CreateThread, Phases, Live
  <2>2. /\ phase[a][s] = "launching" /\ phase'[a][s] = "created"
        /\ \A t \in Sessions : t # s => phase'[a][t] = phase[a][t]
        /\ Latest(a)' = IF s = sessions[a] THEN "created" ELSE Latest(a)
        /\ s = sessions[a] => Latest(a) = "launching"
        /\ LifecycleTypeOK' /\ Others(a)
    BY <1>3, <2>1
  <2>3. Here(a)'
    BY <1>1, <1>2, <1>4, <2>2 DEF Here, Live, WithClient, fiberVars
  <2> QED
    BY <2>2, <2>3, OthersStay
<1>5. CASE SetReady(a, s)
  <2>1. Move(a, s, "starting", "running") /\ "running" \in Phases
    BY <1>5 DEF SetReady, Phases, Live
  <2>2. /\ phase[a][s] = "starting" /\ phase'[a][s] = "running"
        /\ \A t \in Sessions : t # s => phase'[a][t] = phase[a][t]
        /\ Latest(a)' = IF s = sessions[a] THEN "running" ELSE Latest(a)
        /\ s = sessions[a] => Latest(a) = "starting"
        /\ LifecycleTypeOK' /\ Others(a)
    BY <1>3, <2>1
  <2>3. Here(a)'
    BY <1>1, <1>2, <1>5, <2>2 DEF Here, Live, WithClient, fiberVars
  <2> QED
    BY <2>2, <2>3, OthersStay
<1>6. CASE SessionOver(a, s)
  <2>1. Move(a, s, "running", "leaving") /\ "leaving" \in Phases
    BY <1>6 DEF SessionOver, Phases, Live
  <2>2. /\ phase[a][s] = "running" /\ phase'[a][s] = "leaving"
        /\ \A t \in Sessions : t # s => phase'[a][t] = phase[a][t]
        /\ Latest(a)' = IF s = sessions[a] THEN "leaving" ELSE Latest(a)
        /\ s = sessions[a] => Latest(a) = "running"
        /\ LifecycleTypeOK' /\ Others(a)
    BY <1>3, <2>1
  <2>3. Here(a)'
    BY <1>1, <1>2, <1>6, <2>2 DEF Here, Live, WithClient, fiberVars, SessionOver
  <2> QED
    BY <2>2, <2>3, OthersStay
<1>7. CASE SleepBeforeRestart(a, s)
  <2>1. Move(a, s, "closing", "sleeping") /\ "sleeping" \in Phases
    BY <1>7 DEF SleepBeforeRestart, Phases, Live
  <2>2. /\ phase[a][s] = "closing" /\ phase'[a][s] = "sleeping"
        /\ \A t \in Sessions : t # s => phase'[a][t] = phase[a][t]
        /\ Latest(a)' = IF s = sessions[a] THEN "sleeping" ELSE Latest(a)
        /\ s = sessions[a] => Latest(a) = "closing"
        /\ LifecycleTypeOK' /\ Others(a)
    BY <1>3, <2>1
  <2>3. Here(a)'
    BY <1>1, <1>2, <1>7, <2>2 DEF Here, Live, WithClient, fiberVars
  <2> QED
    BY <2>2, <2>3, OthersStay
<1>8. CASE ThreadExit(a, s)
  <2>1. Move(a, s, "exiting", "done") /\ "done" \in Phases
    BY <1>8 DEF ThreadExit, Phases, Live
  <2>2. /\ phase[a][s] = "exiting" /\ phase'[a][s] = "done"
        /\ \A t \in Sessions : t # s => phase'[a][t] = phase[a][t]
        /\ Latest(a)' = IF s = sessions[a] THEN "done" ELSE Latest(a)
        /\ s = sessions[a] => Latest(a) = "exiting"
        /\ LifecycleTypeOK' /\ Others(a)
    BY <1>3, <2>1
  <2>3. Here(a)'
    BY <1>1, <1>2, <1>8, <2>2 DEF Here, Live, WithClient, fiberVars
  <2> QED
    BY <2>2, <2>3, OthersStay
<1> QED
  BY <1>4, <1>5, <1>6, <1>7, <1>8

(* The thread makes its client and takes it away, and releases the account. *)
LEMMA ThreadSteps ==
  ASSUME LifecycleInv, NEW a \in Accounts, NEW s \in Sessions,
         SetClient(a, s) \/ InitModules(a, s) \/ ClearClient(a, s) \/ Deactivate(a, s)
  PROVE  LifecycleInv'
<1>1. LifecycleTypeOK /\ Here(a)
  BY InvByAccount
<1>2. CASE SetClient(a, s)
  <2>1. /\ Move(a, s, "created", "init") /\ "init" \in Phases
        /\ client' = [client EXCEPT ![a] = s]
        /\ quitMode' = [quitMode EXCEPT ![a] = "None"]
        /\ fiber' = [fiber EXCEPT ![a] = [f \in Fibers |-> "none"]]
        /\ hit' = [hit EXCEPT ![a] = {}]
        /\ UNCHANGED <<active, sessions, missed, quitVars>>
    BY <1>2 DEF SetClient, Phases, Live
  <2>2. /\ phase[a][s] = "created"
        /\ phase' \in [Accounts -> [Sessions -> Phases]]
        /\ phase'[a][s] = "init"
        /\ \A t \in Sessions : t # s => phase'[a][t] = phase[a][t]
        /\ \A b \in Accounts : b # a => phase'[b] = phase[b]
        /\ Latest(a)' = IF s = sessions[a] THEN "init" ELSE Latest(a)
        /\ s = sessions[a] => Latest(a) = "created"
    BY <1>1, <2>1, PhaseMoves
  <2>3. /\ client' \in [Accounts -> Sessions \cup {NoClient}]
        /\ quitMode' \in [Accounts -> {"None", "Restart", "Quit"}]
        /\ fiber' \in [Accounts -> [Fibers -> {"none", "ready", "running", "ended"}]]
        /\ hit' \in [Accounts -> SUBSET Fibers]
    BY <1>1, <2>1 DEF LifecycleTypeOK
  <2>4. LifecycleTypeOK'
    BY <1>1, <2>1, <2>2, <2>3 DEF LifecycleTypeOK, Phases, quitVars
  <2>5. Others(a)
    BY <1>1, <2>1, <2>2 DEF Others, LifecycleTypeOK
  <2>6. /\ client'[a] = s /\ quitMode'[a] = "None" /\ fiber'[a] = [f \in Fibers |-> "none"]
        /\ s # NoClient
    BY <1>1, <2>1 DEF LifecycleTypeOK, Sessions, NoClient
  <2>7. Here(a)'
    BY <1>1, <2>1, <2>2, <2>6 DEF Here, Live, WithClient
  <2> QED
    BY <2>4, <2>5, <2>7, OthersStay
<1>3. CASE InitModules(a, s)
  <2>1. /\ Move(a, s, "init", "starting") /\ "starting" \in Phases
        /\ fiber' = [fiber EXCEPT ![a] =
                       [f \in Fibers |-> IF f \in ModuleFibers THEN "ready" ELSE "none"]]
        /\ UNCHANGED <<active, client, sessions, quitMode, hit, missed, quitVars>>
    BY <1>3 DEF InitModules, Phases, Live
  <2>2. /\ phase[a][s] = "init"
        /\ phase' \in [Accounts -> [Sessions -> Phases]]
        /\ phase'[a][s] = "starting"
        /\ \A t \in Sessions : t # s => phase'[a][t] = phase[a][t]
        /\ \A b \in Accounts : b # a => phase'[b] = phase[b]
        /\ Latest(a)' = IF s = sessions[a] THEN "starting" ELSE Latest(a)
        /\ s = sessions[a] => Latest(a) = "init"
    BY <1>1, <2>1, PhaseMoves
  <2>3. fiber' \in [Accounts -> [Fibers -> {"none", "ready", "running", "ended"}]]
    BY <1>1, <2>1 DEF LifecycleTypeOK
  <2>4. LifecycleTypeOK'
    BY <1>1, <2>1, <2>2, <2>3 DEF LifecycleTypeOK, Phases, quitVars
  <2>5. Others(a)
    BY <1>1, <2>1, <2>2 DEF Others, LifecycleTypeOK
  <2>6. Here(a)'
    BY <1>1, <2>1, <2>2 DEF Here, Live, WithClient
  <2> QED
    BY <2>4, <2>5, <2>6, OthersStay
<1>4. CASE ClearClient(a, s)
  <2>1. /\ Move(a, s, "leaving", "closing") /\ "closing" \in Phases
        /\ client' = [client EXCEPT ![a] = NoClient]
        /\ UNCHANGED <<active, sessions, fiberVars, quitVars>>
    BY <1>4 DEF ClearClient, Phases, Live
  <2>2. /\ phase[a][s] = "leaving"
        /\ phase' \in [Accounts -> [Sessions -> Phases]]
        /\ phase'[a][s] = "closing"
        /\ \A t \in Sessions : t # s => phase'[a][t] = phase[a][t]
        /\ \A b \in Accounts : b # a => phase'[b] = phase[b]
        /\ Latest(a)' = IF s = sessions[a] THEN "closing" ELSE Latest(a)
        /\ s = sessions[a] => Latest(a) = "leaving"
    BY <1>1, <2>1, PhaseMoves
  <2>3. client' \in [Accounts -> Sessions \cup {NoClient}] /\ client'[a] = NoClient
    BY <1>1, <2>1 DEF LifecycleTypeOK
  <2>4. LifecycleTypeOK'
    BY <1>1, <2>1, <2>2, <2>3 DEF LifecycleTypeOK, Phases, fiberVars, quitVars
  <2>5. Others(a)
    BY <1>1, <2>1, <2>2 DEF Others, LifecycleTypeOK, fiberVars
  <2>6. Here(a)'
    BY <1>1, <2>1, <2>2, <2>3 DEF Here, Live, WithClient, fiberVars
  <2> QED
    BY <2>4, <2>5, <2>6, OthersStay
<1>5. CASE Deactivate(a, s)
  <2>1. /\ Move(a, s, "closing", "exiting") /\ "exiting" \in Phases
        /\ quitMode[a] \in {"None", "Quit"}
        /\ active' = [active EXCEPT ![a] = FALSE]
        /\ UNCHANGED <<client, sessions, fiberVars, quitVars>>
    BY <1>5 DEF Deactivate, Phases, Live
  <2>2. /\ phase[a][s] = "closing"
        /\ phase' \in [Accounts -> [Sessions -> Phases]]
        /\ phase'[a][s] = "exiting"
        /\ \A t \in Sessions : t # s => phase'[a][t] = phase[a][t]
        /\ \A b \in Accounts : b # a => phase'[b] = phase[b]
        /\ Latest(a)' = IF s = sessions[a] THEN "exiting" ELSE Latest(a)
        /\ s = sessions[a] => Latest(a) = "closing"
    BY <1>1, <2>1, PhaseMoves
  <2>3. active' \in [Accounts -> BOOLEAN] /\ active'[a] = FALSE
    BY <1>1, <2>1 DEF LifecycleTypeOK
  <2>4. LifecycleTypeOK'
    BY <1>1, <2>1, <2>2, <2>3 DEF LifecycleTypeOK, Phases, fiberVars, quitVars
  <2>5. Others(a)
    BY <1>1, <2>1, <2>2 DEF Others, LifecycleTypeOK, fiberVars
  <2>6. Here(a)'
    BY <1>1, <2>1, <2>2, <2>3 DEF Here, Live, WithClient, fiberVars
  <2> QED
    BY <2>4, <2>5, <2>6, OthersStay
<1> QED
  BY <1>2, <1>3, <1>4, <1>5

(* A launch, and the next thread of an account that is restarted: a new    *)
(* session when no other one is live.                                      *)
LEMMA NewSession ==
  ASSUME LifecycleInv, NEW a \in Accounts,
         Launch(a) \/ \E s \in Sessions : Relaunch(a, s)
  PROVE  LifecycleInv'
<1>1. LifecycleTypeOK /\ Here(a)
  BY InvByAccount
<1>2. sessions[a] < MaxSessions /\ sessions' = [sessions EXCEPT ![a] = @ + 1]
  BY DEF Launch, Relaunch
<1>3. sessions[a] \in 0..MaxSessions
  BY <1>1 DEF LifecycleTypeOK
<1> DEFINE new == sessions[a] + 1
<1>4. /\ new \in Sessions /\ sessions'[a] = new /\ new # 0 /\ new # sessions[a]
      /\ sessions' \in [Accounts -> 0..MaxSessions]
      /\ \A b \in Accounts : b # a => sessions'[b] = sessions[b]
  BY <1>1, <1>2, <1>3, LifecycleAssumption DEF LifecycleTypeOK, Sessions
<1> HIDE DEF new
<1>5. CASE Launch(a)
  <2>1. /\ ~active[a]
        /\ active' = [active EXCEPT ![a] = TRUE]
        /\ phase' = [phase EXCEPT ![a][new] = "launching"]
        /\ escapees' \subseteq escapees \cup {a}
        /\ UNCHANGED <<client, fiberVars, quitter, todo, target>>
    BY <1>5 DEF Launch, new
  <2>2. /\ phase' \in [Accounts -> [Sessions -> Phases]]
        /\ phase'[a][new] = "launching"
        /\ \A t \in Sessions : t # new => phase'[a][t] = phase[a][t]
        /\ \A b \in Accounts : b # a => phase'[b] = phase[b]
        /\ active' \in [Accounts -> BOOLEAN] /\ active'[a] = TRUE
        /\ \A b \in Accounts : b # a => active'[b] = active[b]
    BY <1>1, <1>4, <2>1 DEF LifecycleTypeOK, Phases, Live
  <2>3. Latest(a)' = "launching"
    BY <1>4, <2>2 DEF Latest
  <2>4. \A s \in Sessions : phase[a][s] \notin Live
    <3>1. Latest(a) \notin Live
      BY <1>1, <2>1 DEF Here
    <3> SUFFICES ASSUME NEW s \in Sessions, phase[a][s] \in Live PROVE FALSE
      OBVIOUS
    <3>2. s = sessions[a] /\ s # 0
      BY <1>1 DEF Here, Sessions
    <3> QED
      BY <3>1, <3>2 DEF Latest
  <2>5. LifecycleTypeOK'
    BY <1>1, <1>4, <2>1, <2>2 DEF LifecycleTypeOK, Phases, fiberVars
  <2>6. Others(a)
    BY <1>4, <2>1, <2>2 DEF Others, fiberVars
  <2>7. Here(a)'
    BY <1>1, <1>4, <2>1, <2>2, <2>3, <2>4 DEF Here, Live, WithClient, fiberVars
  <2> QED
    BY <2>5, <2>6, <2>7, OthersStay
<1>6. ASSUME NEW s \in Sessions, Relaunch(a, s) PROVE LifecycleInv'
  <2>1. /\ phase[a][s] = "sleeping"
        /\ phase' = [phase EXCEPT ![a][s] = "exiting", ![a][new] = "created"]
        /\ UNCHANGED <<active, client, fiberVars, quitVars>>
    BY <1>6 DEF Relaunch, new
  <2>2. s = sessions[a] /\ Latest(a) = "sleeping" /\ s # new
    BY <1>1, <1>4, <2>1 DEF Here, Latest, Live, Sessions
  <2>3. /\ phase' \in [Accounts -> [Sessions -> Phases]]
        /\ phase'[a][new] = "created"
        /\ phase'[a][s] = "exiting"
        /\ \A t \in Sessions : t # new /\ t # s => phase'[a][t] = phase[a][t]
        /\ \A b \in Accounts : b # a => phase'[b] = phase[b]
    BY <1>1, <1>4, <2>1, <2>2 DEF LifecycleTypeOK, Phases, Live
  <2>4. Latest(a)' = "created"
    BY <1>4, <2>3 DEF Latest
  <2>5. LifecycleTypeOK'
    BY <1>1, <1>4, <2>1, <2>3 DEF LifecycleTypeOK, Phases, fiberVars, quitVars
  <2>6. Others(a)
    BY <1>4, <2>1, <2>3 DEF Others, fiberVars
  <2>7. Here(a)'
    BY <1>1, <1>4, <2>1, <2>2, <2>3, <2>4 DEF Here, Live, WithClient, fiberVars
  <2> QED
    BY <2>5, <2>6, <2>7, OthersStay
<1> QED
  BY <1>5, <1>6

(* A fiber runs, launches another one, ends or quits its client; quitAll() *)
(* quits a client.                                                         *)
LEMMA FiberSteps ==
  ASSUME LifecycleInv, NEW a \in Accounts,
         \/ \E f \in Fibers : \/ FiberRun(a, f) \/ FiberCancelled(a, f)
                              \/ LaunchLate(a, f) \/ FiberReturns(a, f)
         \/ \E mode \in {"Quit", "Restart"} : FiberQuit(a, mode)
         \/ \E s \in Sessions : ExecuteQuit(a, s)
  PROVE  LifecycleInv'
<1>1. LifecycleTypeOK /\ Here(a)
  BY InvByAccount
<1>2. UNCHANGED clientVars
  BY DEF FiberRun, FiberCancelled, LaunchLate, FiberReturns, FiberQuit, ExecuteQuit
<1>3. Latest(a)' = Latest(a)
  BY <1>2 DEF Latest, clientVars
<1>4. ASSUME NEW f \in Fibers,
             FiberRun(a, f) \/ FiberCancelled(a, f) \/ LaunchLate(a, f) \/ FiberReturns(a, f)
      PROVE  LifecycleInv'
  <2>1. PICK to \in {"ready", "running", "ended"} : fiber' = [fiber EXCEPT ![a][f] = to]
    BY <1>4 DEF FiberRun, FiberCancelled, LaunchLate, FiberReturns
  <2>2. UNCHANGED <<quitMode, hit, quitVars>> /\ missed' \subseteq missed \cup {a}
    BY <1>4 DEF FiberRun, FiberCancelled, LaunchLate, FiberReturns
  <2>3. \E g \in Fibers : fiber[a][g] \in {"ready", "running"}
    BY <1>4 DEF FiberRun, FiberCancelled, LaunchLate, FiberReturns, Running
  <2>4. Latest(a) \in {"starting", "running"}
    BY <1>1, <2>3 DEF Here
  <2>5. /\ fiber' \in [Accounts -> [Fibers -> {"none", "ready", "running", "ended"}]]
        /\ \A b \in Accounts : b # a => fiber'[b] = fiber[b]
    BY <1>1, <2>1 DEF LifecycleTypeOK
  <2>6. LifecycleTypeOK'
    BY <1>1, <1>2, <2>2, <2>5 DEF LifecycleTypeOK, clientVars, quitVars
  <2>7. Others(a)
    BY <1>2, <2>2, <2>5 DEF Others, clientVars
  <2>8. Here(a)'
    BY <1>1, <1>2, <1>3, <2>2, <2>4 DEF Here, clientVars
  <2> QED
    BY <2>6, <2>7, <2>8, OthersStay
<1>5. ASSUME NEW mode \in {"Quit", "Restart"}, FiberQuit(a, mode) PROVE LifecycleInv'
  <2>1. /\ Running(a) # {} /\ quitMode' = [quitMode EXCEPT ![a] = mode]
        /\ hit' = [hit EXCEPT ![a] = Running(a)]
        /\ UNCHANGED <<fiber, missed, quitVars>>
    BY <1>5 DEF FiberQuit, Quit
  <2>2. Latest(a) \in {"starting", "running"}
    BY <1>1, <2>1 DEF Here, Running
  <2>3. /\ quitMode' \in [Accounts -> {"None", "Restart", "Quit"}]
        /\ \A b \in Accounts : b # a => quitMode'[b] = quitMode[b]
        /\ hit' \in [Accounts -> SUBSET Fibers]
    BY <1>1, <2>1 DEF LifecycleTypeOK, Running
  <2>4. LifecycleTypeOK'
    BY <1>1, <1>2, <2>1, <2>3 DEF LifecycleTypeOK, clientVars, quitVars
  <2>5. Others(a)
    BY <1>2, <2>1, <2>3 DEF Others, clientVars
  <2>6. Here(a)'
    BY <1>1, <1>2, <1>3, <2>1, <2>2 DEF Here, Live, clientVars
  <2> QED
    BY <2>4, <2>5, <2>6, OthersStay
<1>6. ASSUME NEW s \in Sessions, ExecuteQuit(a, s) PROVE LifecycleInv'
  <2>1. /\ \/ /\ quitMode' = [quitMode EXCEPT ![a] = "Quit"]
              /\ hit' = [hit EXCEPT ![a] = Running(a)]
           \/ UNCHANGED <<quitMode, hit>>
        /\ escapees' \subseteq escapees \cup {a}
        /\ quitter' = "visit"
        /\ UNCHANGED <<fiber, missed, todo, target>>
    BY <1>6 DEF ExecuteQuit, Quit
  <2>2. /\ quitMode' \in [Accounts -> {"None", "Restart", "Quit"}]
        /\ \A b \in Accounts : b # a => quitMode'[b] = quitMode[b]
        /\ hit' \in [Accounts -> SUBSET Fibers]
        /\ quitMode'[a] = "Quit" \/ quitMode'[a] = quitMode[a]
    <3>1. /\ quitMode \in [Accounts -> {"None", "Restart", "Quit"}]
          /\ hit \in [Accounts -> SUBSET Fibers]
          /\ Running(a) \in SUBSET Fibers
      BY <1>1 DEF LifecycleTypeOK, Running
    <3>2. CASE UNCHANGED <<quitMode, hit>>
      BY <3>1, <3>2
    <3>3. CASE /\ quitMode' = [quitMode EXCEPT ![a] = "Quit"]
               /\ hit' = [hit EXCEPT ![a] = Running(a)]
      BY <3>1, <3>3
    <3> QED
      BY <2>1, <3>2, <3>3
  <2>3. LifecycleTypeOK'
    BY <1>1, <1>2, <2>1, <2>2 DEF LifecycleTypeOK, clientVars
  <2>4. Others(a)
    BY <1>2, <2>1, <2>2 DEF Others, clientVars
  <2>5. Here(a)'
    BY <1>1, <1>2, <1>3, <2>1, <2>2 DEF Here, clientVars
  <2> QED
    BY <2>3, <2>4, <2>5, OthersStay
<1> QED
  BY <1>4, <1>5, <1>6

LEMMA InvStep == LifecycleInv /\ [LifecycleNext]_lifecycleVars => LifecycleInv'
<1> SUFFICES ASSUME LifecycleInv, [LifecycleNext]_lifecycleVars PROVE LifecycleInv'
  OBVIOUS
<1>1. CASE QuitAllSteps \/ UNCHANGED lifecycleVars
  <2>1. UNCHANGED <<clientVars, fiberVars>>
    BY <1>1 DEF QuitAllSteps, lifecycleVars
  <2>2. /\ quitter' \in {"idle", "visit", "execute", "waitAll", "done"}
        /\ todo' \subseteq Accounts
        /\ target' \in {<<>>} \cup (Accounts \X Sessions)
        /\ escapees' \subseteq Accounts
    BY <1>1 DEF QuitAllSteps, StartQuitAll, StartWaitAll, WaitAllReturns, VisitRunning, VisitIdle,
       ExecuteRefused, lifecycleVars, quitVars, LifecycleInv, LifecycleTypeOK, NoClient
  <2>3. LifecycleTypeOK'
    BY <2>1, <2>2 DEF LifecycleInv, LifecycleTypeOK, clientVars, fiberVars
  <2>4. ASSUME NEW a \in Accounts PROVE Here(a)'
    <3>1. Here(a)
      BY InvByAccount
    <3> QED
      BY <2>1, <3>1 DEF Here, Latest, clientVars, fiberVars
  <2> QED
    BY <2>3, <2>4 DEF LifecycleInv, SessionInv, ClientInv, ClientFiberInv, RestartInv, Here
<1> QED
  BY <1>1, LifecycleCases, ThreadMoves, ThreadSteps, NewSession, FiberSteps

LEMMA InvAlways == LifecycleSpec => []LifecycleInv
BY InvInit, InvStep, PTL DEF LifecycleSpec

-----------------------------------------------------------------------------
(* Every variable keeps its type, and setClient() and the restart never    *)
(* count a session past the bound.                                         *)
THEOREM LifecycleTypeCorrect == LifecycleSpec => []LifecycleTypeOK
BY InvAlways, PTL DEF LifecycleInv

(* ClientInfo::setActive() admits one session at a time: the flag is set   *)
(* exactly while one is live, also between the two of a restart.           *)
THEOREM OneSession == LifecycleSpec => []OneSessionPerAccount
<1>1. LifecycleInv => OneSessionPerAccount
  <2> SUFFICES ASSUME LifecycleInv, NEW a \in Accounts
               PROVE  Cardinality({s \in Sessions : phase[a][s] \in Live})
                        = IF active[a] THEN 1 ELSE 0
    BY DEF OneSessionPerAccount
  <2> DEFINE live == {s \in Sessions : phase[a][s] \in Live}
  <2>1. /\ \A s \in Sessions : phase[a][s] \in Live => s = sessions[a]
        /\ active[a] <=> Latest(a) \in Live
        /\ active[a] \in BOOLEAN
        /\ sessions[a] \in 0..MaxSessions
    BY DEF LifecycleInv, SessionInv, LifecycleTypeOK
  <2>2. CASE active[a]
    <3>1. sessions[a] # 0 /\ phase[a][sessions[a]] \in Live
      BY <2>1, <2>2 DEF Latest, Live
    <3>2. sessions[a] \in Sessions
      BY <2>1, <3>1, LifecycleAssumption DEF Sessions
    <3>3. live = {sessions[a]}
      BY <2>1, <3>1, <3>2
    <3> QED
      BY <2>2, <3>3, FS_Singleton
  <2>3. CASE ~active[a]
    <3>1. \A s \in Sessions : s # 0
      BY LifecycleAssumption DEF Sessions
    <3>2. live = {}
      BY <2>1, <2>3, <3>1 DEF Latest
    <3> QED
      BY <2>3, <3>2, FS_EmptySet
  <2> QED
    BY <2>1, <2>2, <2>3
<1> QED
  BY <1>1, InvAlways, PTL

(* ClientInfo::client is set while any of the client's fibers can run, and *)
(* only while the session's thread is between setClient() and its end.     *)
THEOREM ClientIsThere == LifecycleSpec => []ClientOutlivesFibers
<1>1. LifecycleInv => ClientOutlivesFibers
  <2> SUFFICES ASSUME LifecycleInv, NEW a \in Accounts
               PROVE  /\ \A f \in Fibers :
                            fiber[a][f] \in {"ready", "running"} => client[a] # NoClient
                      /\ client[a] # NoClient =>
                           phase[a][client[a]] \in {"init", "starting", "running", "leaving"}
    BY DEF ClientOutlivesFibers
  <2>1. /\ client[a] # NoClient => client[a] = sessions[a]
        /\ client[a] # NoClient <=> Latest(a) \in WithClient
        /\ \A f \in Fibers :
              fiber[a][f] \in {"ready", "running"} => Latest(a) \in {"starting", "running"}
    BY DEF LifecycleInv, ClientInv, ClientFiberInv
  <2>2. \A f \in Fibers : fiber[a][f] \in {"ready", "running"} => client[a] # NoClient
    BY <2>1 DEF WithClient
  <2>3. client[a] # NoClient =>
          phase[a][client[a]] \in {"init", "starting", "running", "leaving"}
    BY <2>1 DEF WithClient, Latest, NoClient
  <2> QED
    BY <2>2, <2>3
<1> QED
  BY <1>1, InvAlways, PTL

(* ClientInfo's waitAll() does not return while a client that quit to be   *)
(* restarted still holds its account: its thread, or the one that thread   *)
(* has made, holds a handle of threadCounter.                              *)
THEOREM RestartsAreCovered == LifecycleSpec => WaitAllCoversRestarts
<1> DEFINE Covered == quitter = "waitAll" /\ quitter' = "done" =>
                        \A a \in Accounts : active[a] => quitMode[a] # "Restart"
<1>1. LifecycleInv /\ [LifecycleNext]_lifecycleVars => Covered
  <2> SUFFICES ASSUME LifecycleInv, [LifecycleNext]_lifecycleVars, quitter = "waitAll", quitter' = "done",
                      NEW a \in Accounts, active[a], quitMode[a] = "Restart"
               PROVE  FALSE
    OBVIOUS
  <2>1. Handles = {}
    <3>1. ~ QuitAllSteps \/ WaitAllReturns
      BY DEF QuitAllSteps, StartQuitAll, StartWaitAll, VisitRunning, VisitIdle, ExecuteRefused
    <3>2. CASE WaitAllReturns
      BY <3>2 DEF WaitAllReturns
    <3>3. \A b \in Accounts, s \in Sessions : ~ ThreadStep(b, s) /\ ~ ExecuteQuit(b, s)
      BY DEF ThreadStep, CreateThread, SetClient, InitModules, SetReady, SessionOver, ClearClient,
         Deactivate, SleepBeforeRestart, Relaunch, ThreadExit, ExecuteQuit, quitVars
    <3>4. \A b \in Accounts, f \in Fibers :
            ~ (FiberRun(b, f) \/ FiberCancelled(b, f) \/ LaunchLate(b, f) \/ FiberReturns(b, f))
      BY DEF FiberRun, FiberCancelled, LaunchLate, FiberReturns, quitVars
    <3>5. \A b \in Accounts : ~ Launch(b) /\ \A mode \in {"Quit", "Restart"} : ~ FiberQuit(b, mode)
      BY DEF Launch, FiberQuit, quitVars
    <3>6. ~ UNCHANGED lifecycleVars
      BY DEF lifecycleVars, quitVars
    <3> QED
      BY <3>1, <3>2, <3>3, <3>4, <3>5, <3>6, LifecycleCases DEF ThreadStep
  <2>2. /\ Latest(a) \in Live \ {"launching"}
        /\ sessions[a] \in 0..MaxSessions
    BY DEF LifecycleInv, RestartInv, LifecycleTypeOK
  <2>3. /\ sessions[a] # 0
        /\ phase[a][sessions[a]] \in Live \ {"launching"}
    BY <2>2 DEF Latest, Live
  <2>4. sessions[a] \in Sessions
    BY <2>2, <2>3, LifecycleAssumption DEF Sessions
  <2>5. <<a, sessions[a]>> \in Handles
    BY <2>3, <2>4 DEF Handles, Live
  <2> QED
    BY <2>1, <2>5
<1>2. LifecycleSpec => [][Covered]_lifecycleVars
  BY <1>1, InvAlways, PTL DEF LifecycleSpec
<1> QED
  BY <1>2 DEF WaitAllCoversRestarts
=============================================================================
