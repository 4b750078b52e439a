------------------------------- MODULE Waiter -------------------------------
(***************************************************************************)
(* Headers/Client/Waiter.hpp, Sources/Client/Waiter.cpp: one Waiter, the   *)
(* fiber that owns it, the items attached to it and those who set them.    *)
(*                                                                         *)
(* All fibers of a client run on one thread and switch only where they     *)
(* block, so another fiber of the client never runs between the predicate  *)
(* of condition.wait and the fiber joining the condition's queue.  That is *)
(* not so for an item another thread sets (a ResultWaiter completed by the *)
(* Asio or the UI thread), nor for an item whose isWoken() itself locks a  *)
(* mutex another thread may hold (Connections::Connection): there the      *)
(* predicate suspends the fiber half-way.                                  *)
(***************************************************************************)
EXTENDS Integers, FiniteSets

CONSTANTS LocalItems,   \* set by fibers of the client thread (Whiteboard, Messageboard, Signal)
          RemoteItems,  \* set by another thread, isWoken() reads an atomic flag
          MutexItems    \* set by another thread, isWoken() locks the item's fiber mutex

ASSUME ItemsAssumption == /\ LocalItems \cap RemoteItems = {}
                          /\ LocalItems \cap MutexItems = {}
                          /\ RemoteItems \cap MutexItems = {}

Items == LocalItems \cup RemoteItems \cup MutexItems

VARIABLES
  waitCancelled, \* WaiterBase::cancelled
  attached,     \* the items whose weak_ptr in WaiterBase::items is alive
  woken,        \* [Items -> BOOLEAN]: the item's own trigger status
  pc,           \* where the owning fiber is
  timer,        \* the wait's deadline: "none", "armed" or "expired"
  unread,       \* the items isWoken() has still to ask
  seen,         \* isWoken()'s local variable "woken"
  held,         \* the MutexItems whose mutex another thread holds
  notifying,    \* the items another thread has set and not yet called wakeup() for
  suspended     \* history: the current evaluation of the predicate blocked on a mutex

waiterVars == <<waitCancelled, attached, woken, pc, timer, unread, seen, held, notifying, suspended>>
ownerVars == <<timer, unread, seen, suspended>>
itemVars == <<attached, woken, held, notifying>>

(* In "check", "enqueue" and "leave" the fiber runs without a point where  *)
(* it could block, so no other fiber of its thread takes a step.           *)
OthersMayRun == pc \notin {"check", "enqueue", "leave"}

WaiterInit == /\ waitCancelled = FALSE
              /\ attached = {}
              /\ woken = [i \in Items |-> FALSE]
              /\ pc = "running"
              /\ timer = "none"
              /\ unread = {}
              /\ seen = FALSE
              /\ held = {}
              /\ notifying = {}
              /\ suspended = FALSE

-----------------------------------------------------------------------------
(* Mutations of the definitions below, for testing the properties.         *)

MutNoCancelTest == /\ pc' = "check"
                   /\ unread' = attached
                   /\ seen' = FALSE
                   /\ suspended' = FALSE

MutNoNotify == UNCHANGED pc

MutNotifyIsWake == pc' = IF pc = "blocked" THEN "leave" ELSE pc

MutSetByAnyThread(i) == /\ i \in attached \ held
                        /\ woken' = [woken EXCEPT ![i] = TRUE]
                        /\ notifying' = notifying \cup {i}
                        /\ UNCHANGED <<waitCancelled, pc, ownerVars, attached, held>>

-----------------------------------------------------------------------------
(* condition.notify_all(): a fiber in the condition's queue is made ready; *)
(* nothing remembers the call for a fiber that is not in it yet.           *)
NotifyAll == pc' = IF pc = "blocked" THEN "notified" ELSE pc

(* The start of the predicate "cancelled || isWoken()".                    *)
Evaluate == IF waitCancelled
            THEN pc' = "leave" /\ UNCHANGED <<unread, seen, suspended>>
            ELSE /\ pc' = "check"
                 /\ unread' = attached
                 /\ seen' = FALSE
                 /\ suspended' = FALSE

(* Waiter::wait(), and Waiter::wait(timeout) with an armed timer.          *)
Wait(deadline) == /\ pc = "running"
                  /\ timer' = deadline
                  /\ Evaluate
                  /\ UNCHANGED <<waitCancelled, itemVars>>

(* isWoken() asks item i; a held mutex suspends the fiber instead.         *)
AskItem(i) == /\ pc = "check"
              /\ i \in unread
              /\ IF i \in held
                 THEN /\ pc' = "locking"
                      /\ suspended' = TRUE
                      /\ UNCHANGED <<unread, seen>>
                 ELSE /\ unread' = unread \ {i}
                      /\ seen' = (seen \/ woken[i])
                      /\ UNCHANGED <<pc, suspended>>
              /\ UNCHANGED <<waitCancelled, timer, itemVars>>

(* The mutexes are free again and isWoken() goes on.                       *)
GotMutex == /\ pc = "locking"
            /\ unread \cap held = {}
            /\ pc' = "check"
            /\ UNCHANGED <<waitCancelled, ownerVars, itemVars>>

(* All items asked: leave the wait, or suspend in the condition's queue.   *)
Decide == /\ pc = "check"
          /\ unread = {}
          /\ pc' = IF seen \/ timer = "expired" THEN "leave" ELSE "enqueue"
          /\ UNCHANGED <<waitCancelled, ownerVars, itemVars>>

EnqueueOwner == /\ pc = "enqueue"
                /\ pc' = "blocked"
                /\ UNCHANGED <<waitCancelled, ownerVars, itemVars>>

Timeout == /\ pc = "blocked"
           /\ timer = "armed"
           /\ timer' = "expired"
           /\ pc' = "notified"
           /\ UNCHANGED <<waitCancelled, unread, seen, suspended, itemVars>>

(* Scheduled again, the fiber evaluates the predicate anew.                *)
Resume == /\ pc = "notified"
          /\ Evaluate
          /\ UNCHANGED <<waitCancelled, timer, itemVars>>

(* The end of wait(): OperationCancelledException, or back to the caller.  *)
Leave == /\ pc = "leave"
         /\ pc' = IF waitCancelled THEN "thrown" ELSE "running"
         /\ UNCHANGED <<waitCancelled, ownerVars, itemVars>>

-----------------------------------------------------------------------------
(* The owner between two waits: createWaiter() and install(), which may    *)
(* find the item triggered at once; dropping the item; reading its result. *)

CreateWaiter(i) == /\ pc = "running"
                   /\ i \notin attached
                   /\ attached' = attached \cup {i}
                   /\ \E w \in BOOLEAN : woken' = [woken EXCEPT ![i] = w]
                   /\ UNCHANGED <<waitCancelled, pc, ownerVars, held, notifying>>

DropItem(i) == /\ pc = "running"
               /\ i \in attached
               /\ attached' = attached \ {i}
               /\ UNCHANGED <<waitCancelled, pc, ownerVars, woken, held, notifying>>

Collect(i) == /\ pc = "running"
              /\ i \in attached \ held
              /\ woken[i]
              /\ woken' = [woken EXCEPT ![i] = FALSE]
              /\ UNCHANGED <<waitCancelled, pc, ownerVars, attached, held, notifying>>

-----------------------------------------------------------------------------
(* Those who set items, and the canceller.                                 *)

(* A fiber of the same thread: Signal::signal, WaiterBase::setChanged.     *)
LocalSignal(i) == /\ OthersMayRun
                  /\ i \in attached \cap LocalItems
                  /\ ~woken[i]
                  /\ woken' = [woken EXCEPT ![i] = TRUE]
                  /\ NotifyAll
                  /\ UNCHANGED <<waitCancelled, ownerVars, attached, held, notifying>>

(* Another thread: ResultWaiterBase::completed sets the flag, then calls   *)
(* wakeup(); Connection::setStatus does so under the item's mutex.         *)
RemoteSet(i) == /\ i \in attached \ (LocalItems \cup held)
                /\ i \in MutexItems \/ ~woken[i]
                /\ woken' = [woken EXCEPT ![i] = TRUE]
                /\ notifying' = notifying \cup {i}
                /\ UNCHANGED <<waitCancelled, pc, ownerVars, attached, held>>

RemoteWakeup(i) == /\ i \in notifying
                   /\ notifying' = notifying \ {i}
                   /\ NotifyAll
                   /\ UNCHANGED <<waitCancelled, ownerVars, attached, woken, held>>

(* Another thread keeps the item's mutex for a while (makeConnection).     *)
Hold(i) == /\ i \in MutexItems \ held
           /\ held' = held \cup {i}
           /\ UNCHANGED <<waitCancelled, pc, ownerVars, attached, woken, notifying>>

Free(i) == /\ i \in held
           /\ held' = held \ {i}
           /\ UNCHANGED <<waitCancelled, pc, ownerVars, attached, woken, notifying>>

(* WaiterBase::cancel(), called through Client::cancel on the same thread. *)
CancelWaiter == /\ OthersMayRun
                /\ ~waitCancelled
                /\ waitCancelled' = TRUE
                /\ NotifyAll
                /\ UNCHANGED <<ownerVars, itemVars>>

-----------------------------------------------------------------------------
OwnerStep == \/ \E i \in Items : AskItem(i)
             \/ GotMutex
             \/ Decide
             \/ EnqueueOwner
             \/ Timeout
             \/ Resume
             \/ Leave

Owner == \/ \E deadline \in {"none", "armed"} : Wait(deadline)
         \/ \E i \in Items : CreateWaiter(i) \/ DropItem(i) \/ Collect(i)

Setters == \E i \in Items : \/ LocalSignal(i)
                            \/ RemoteSet(i)
                            \/ RemoteWakeup(i)
                            \/ Hold(i)
                            \/ Free(i)

WaiterNext == OwnerStep \/ Owner \/ Setters \/ CancelWaiter

WaiterSpec == WaiterInit /\ [][WaiterNext]_waiterVars

(* The scheduler runs every ready fiber, a module's loop always returns to *)
(* wait(), a thread inside wakeup() finishes it and a mutex is not kept.   *)
WaiterFairness == /\ WF_waiterVars(OwnerStep)
                  /\ WF_waiterVars(\E deadline \in {"none", "armed"} : Wait(deadline))
                  /\ \A i \in Items : WF_waiterVars(RemoteWakeup(i)) /\ WF_waiterVars(Free(i))

FairWaiterSpec == WaiterSpec /\ WaiterFairness

-----------------------------------------------------------------------------
(* Every variable has its type; a mutex is held only on an item that has   *)
(* one, and only foreign items have a wakeup() under way.                  *)
WaiterTypeOK == /\ waitCancelled \in BOOLEAN
                /\ attached \subseteq Items
                /\ woken \in [Items -> BOOLEAN]
                /\ pc \in {"running", "check", "locking", "enqueue", "blocked",
                           "notified", "leave", "thrown"}
                /\ timer \in {"none", "armed", "expired"}
                /\ unread \subseteq Items
                /\ seen \in BOOLEAN
                /\ held \subseteq MutexItems
                /\ notifying \subseteq Items \ LocalItems
                /\ suspended \in BOOLEAN

(* A fiber is never left in the condition's queue with a triggered item of *)
(* its own thread, although notify_all() is called without the mutex: the  *)
(* only way to lose that wakeup is a predicate that blocked half-way.      *)
NoLostLocalWakeup ==
  pc = "blocked" /\ ~suspended => \A i \in attached \cap LocalItems : ~woken[i]

(* Likewise cancel(): "Call cancel() to abort ongoing wait() calls"        *)
(* (Waiter.hpp:136) holds for a wait whose predicate ran through.          *)
NoLostCancel == pc = "blocked" /\ ~suspended => ~waitCancelled

(* As long as no evaluation is suspended, a cancelled waiter's fiber does  *)
(* get its OperationCancelledException.                                    *)
CancelEndsTheFiber == []~suspended => (waitCancelled ~> pc = "thrown")

(* ItemBase::wakeup, "Note: this is threadsafe" (Waiter.hpp:122): once a   *)
(* thread has set an item and its wakeup() has returned, the fiber is not  *)
(* in the condition's queue any more.                                      *)
WakeupIsThreadsafe ==
  pc = "blocked" => \A i \in attached : woken[i] => i \in notifying

(* wait() has the behaviour of the abstract port: it returns only for a    *)
(* triggered item or a passed deadline, throws only when cancelled, and    *)
(* changes nothing else.                                                   *)
Port == INSTANCE WaitPort WITH
          cancelled <- waitCancelled,
          fiber <- CASE pc \in {"running", "thrown"} -> pc
                     [] OTHER -> IF timer = "none" THEN "waiting" ELSE "timed"
ImplementsPort == Port!Spec
=============================================================================
