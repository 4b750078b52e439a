------------------------------ MODULE Executor ------------------------------
(***************************************************************************)
(* Sources/Modules/Executor.cpp: other threads hand functions to a client  *)
(* and block until its executor fiber has run or refused them.             *)
(*                                                                         *)
(* Each element of Calls is one call of Executor::execute by its own       *)
(* thread; the function it passes has the same name.  The two condition    *)
(* variables are kept explicit: "blocked" is in the queue of the condition *)
(* variable, and only a notify_one() issued after that ends it.            *)
(*                                                                         *)
(* A function that throws throws an OperationCancelledException, as every  *)
(* wait() does in a client that quits; run() passes any other exception on *)
(* to launchFiber(), which does not catch it and so ends the program.      *)
(***************************************************************************)
EXTENDS Integers, Sequences, FiniteSets

CONSTANTS Calls,       \* the calls other threads make
          Throwing,    \* those whose function may end with an exception
          None         \* no function

ASSUME CallsAssumption == Throwing \subseteq Calls /\ None \notin Calls

VARIABLES
  ready,        \* Client::status = Ready; getModule() waits for it
  registered,   \* run()'s registration with client.cancel exists
  cancelled,    \* ExecutorModule::cancelled
  queue,        \* ExecutorModule::queue
  exec,         \* where the executor fiber is
  current,      \* the ExecutorFunction the executor fiber holds
  status,       \* ExecutorFunction::status
  caller,       \* where the calling thread is
  result,       \* what execute() returned: "true", "false" or not yet "none"
  cancelling,   \* cancel() has set the flag and not yet notified
  started,      \* history: functions whose body was entered
  completed,    \* history: functions whose body was left normally
  escaped       \* history: functions whose body was left by an exception

moduleVars == <<registered, cancelled, queue, cancelling>>
history == <<started, completed, escaped>>
vars == <<ready, moduleVars, exec, current, status, caller, result, history>>

Queued == {queue[k] : k \in 1..Len(queue)}

Init == /\ ready = FALSE
        /\ registered = FALSE
        /\ cancelled = FALSE
        /\ queue = <<>>
        /\ exec = "launched"
        /\ current = None
        /\ status = [c \in Calls |-> "Executing"]
        /\ caller = [c \in Calls |-> "idle"]
        /\ result = [c \in Calls |-> "none"]
        /\ cancelling = FALSE
        /\ started = {}
        /\ completed = {}
        /\ escaped = {}

-----------------------------------------------------------------------------
(* Mutations of the definitions below, for testing the properties.         *)

MutEnqueueAfterCancel(c) == /\ caller[c] = "waitReady"
                            /\ ready
                            /\ queue' = Append(queue, c)
                            /\ caller' = [caller EXCEPT ![c] = "notify"]
                            /\ UNCHANGED <<ready, registered, cancelled, cancelling, exec,
                                           current, status, result, history>>

MutWaitIgnoresQueue == /\ exec = "loop"
                       /\ exec' = IF cancelled THEN "catch" ELSE "blocked"
                       /\ UNCHANGED <<ready, moduleVars, current, status, caller, result, history>>

MutCancelledStillPops == /\ exec = "loop"
                         /\ exec' = IF cancelled \/ queue # <<>> THEN "pop" ELSE "blocked"
                         /\ UNCHANGED <<ready, moduleVars, current, status, caller, result,
                                        history>>

MutThrowKills == /\ exec = "run"
                 /\ current \in Throwing
                 /\ status' = [status EXCEPT ![current] = "Killed"]
                 /\ escaped' = escaped \cup {current}
                 /\ current' = None
                 /\ exec' = "catch"
                 /\ UNCHANGED <<ready, moduleVars, caller, result, started, completed>>

MutDropOnThrow == /\ exec = "catch"
                  /\ cancelled' = TRUE
                  /\ queue' = <<>>
                  /\ exec' = "drain"
                  /\ UNCHANGED <<ready, registered, cancelling, current, status, caller,
                                 result, history>>

-----------------------------------------------------------------------------
(* condition.notify_one() of the module: only the executor fiber waits.    *)
NotifyExecutor == exec' = IF exec = "blocked" THEN "loop" ELSE exec

(* Client::launch has initialised all modules.                             *)
BecomeReady == /\ ~ready
               /\ ready' = TRUE
               /\ UNCHANGED <<moduleVars, exec, current, status, caller, result, history>>

(* execute(): getModule() first waits for the client to be ready.          *)
Call(c) == /\ caller[c] = "idle"
           /\ caller' = [caller EXCEPT ![c] = "waitReady"]
           /\ UNCHANGED <<ready, moduleVars, exec, current, status, result, history>>

(* The section under the module's mutex, for a module that is alive.       *)
Enqueue(c) == /\ caller[c] = "waitReady"
              /\ ready
              /\ ~cancelled
              /\ queue' = Append(queue, c)
              /\ caller' = [caller EXCEPT ![c] = "notify"]
              /\ UNCHANGED <<ready, registered, cancelled, cancelling, exec, current,
                             status, result, history>>

(* The same section for a module that has been cancelled.                  *)
Refuse(c) == /\ caller[c] = "waitReady"
             /\ ready
             /\ cancelled
             /\ caller' = [caller EXCEPT ![c] = "returned"]
             /\ result' = [result EXCEPT ![c] = "false"]
             /\ UNCHANGED <<ready, moduleVars, exec, current, status, history>>

Notify(c) == /\ caller[c] = "notify"
             /\ caller' = [caller EXCEPT ![c] = "wait"]
             /\ NotifyExecutor
             /\ UNCHANGED <<ready, moduleVars, current, status, result, history>>

(* ExecutorFunction::wait(): the predicate, under the function's mutex.    *)
AwaitStatus(c) == /\ caller[c] = "wait"
                  /\ IF status[c] = "Executing"
                     THEN /\ caller' = [caller EXCEPT ![c] = "blocked"]
                          /\ UNCHANGED result
                     ELSE /\ caller' = [caller EXCEPT ![c] = "returned"]
                          /\ result' = [result EXCEPT ![c] =
                                          IF status[c] = "Run" THEN "true" ELSE "false"]
                  /\ UNCHANGED <<ready, moduleVars, exec, current, status, history>>

-----------------------------------------------------------------------------
(* The executor fiber: ExecutorModule::run().                              *)

Register == /\ exec = "launched"
            /\ registered' = TRUE
            /\ exec' = "loop"
            /\ UNCHANGED <<ready, cancelled, queue, cancelling, current, status, caller,
                           result, history>>

(* ExecutorModule::wait(), under the mutex.                                *)
AwaitWork == /\ exec = "loop"
             /\ exec' = IF cancelled THEN "catch"
                        ELSE IF queue # <<>> THEN "pop" ELSE "blocked"
             /\ UNCHANGED <<ready, moduleVars, current, status, caller, result, history>>

(* getFunction()->execute(client) enters the function; with nothing in the *)
(* queue the call would go through a null pointer.                         *)
RunFunction == /\ exec = "pop"
               /\ IF queue = <<>>
                  THEN exec' = "crashed" /\ UNCHANGED <<queue, current, started>>
                  ELSE /\ exec' = "run"
                       /\ current' = Head(queue)
                       /\ queue' = Tail(queue)
                       /\ started' = started \cup {Head(queue)}
               /\ UNCHANGED <<ready, registered, cancelled, cancelling, status, caller,
                              result, completed, escaped>>

FunctionReturns == /\ exec = "run"
                   /\ status' = [status EXCEPT ![current] = "Run"]
                   /\ completed' = completed \cup {current}
                   /\ exec' = "notifyRun"
                   /\ UNCHANGED <<ready, moduleVars, current, caller, result, started, escaped>>

(* The exception passes setStatus() and lands in run()'s catch(...).       *)
FunctionThrows == /\ exec = "run"
                  /\ current \in Throwing
                  /\ escaped' = escaped \cup {current}
                  /\ current' = None
                  /\ exec' = "catch"
                  /\ UNCHANGED <<ready, moduleVars, status, caller, result, started, completed>>

(* The second half of setStatus(): condition.notify_one() of the function. *)
NotifyCaller == /\ exec \in {"notifyRun", "notifyKilled"}
                /\ caller' = IF caller[current] = "blocked"
                             THEN [caller EXCEPT ![current] = "wait"] ELSE caller
                /\ current' = None
                /\ exec' = IF exec = "notifyRun" THEN "loop" ELSE "drain"
                /\ UNCHANGED <<ready, moduleVars, status, result, history>>

Catch == /\ exec = "catch"
         /\ cancelled' = TRUE
         /\ exec' = "drain"
         /\ UNCHANGED <<ready, registered, queue, cancelling, current, status, caller,
                        result, history>>

DrainOne == /\ exec = "drain"
            /\ queue # <<>>
            /\ current' = Head(queue)
            /\ queue' = Tail(queue)
            /\ status' = [status EXCEPT ![Head(queue)] = "Killed"]
            /\ exec' = "notifyKilled"
            /\ UNCHANGED <<ready, registered, cancelled, cancelling, caller, result, history>>

(* The queue is empty: the exception is thrown on, and run() is left.      *)
DrainEnd == /\ exec = "drain"
            /\ queue = <<>>
            /\ exec' = "ended"
            /\ registered' = FALSE
            /\ UNCHANGED <<ready, cancelled, queue, cancelling, current, status, caller,
                           result, history>>

(* ExecutorModule::cancel(), reached through the registration from         *)
(* Client::quit: by the running function or by another fiber.              *)
Cancel == /\ registered
          /\ ~cancelled
          /\ cancelled' = TRUE
          /\ cancelling' = TRUE
          /\ UNCHANGED <<ready, registered, queue, exec, current, status, caller, result, history>>

CancelNotify == /\ cancelling
                /\ cancelling' = FALSE
                /\ NotifyExecutor
                /\ UNCHANGED <<ready, registered, cancelled, queue, current, status, caller,
                               result, history>>

-----------------------------------------------------------------------------
CallerStep(c) == Enqueue(c) \/ Refuse(c) \/ Notify(c) \/ AwaitStatus(c)

FiberStep == \/ Register
             \/ AwaitWork
             \/ RunFunction
             \/ FunctionReturns
             \/ FunctionThrows
             \/ NotifyCaller
             \/ Catch
             \/ DrainOne
             \/ DrainEnd

Next == \/ BecomeReady
        \/ \E c \in Calls : Call(c) \/ CallerStep(c)
        \/ FiberStep
        \/ Cancel
        \/ CancelNotify

Spec == Init /\ [][Next]_vars

(* Threads that can go on do, functions end, and initialisation ends.      *)
(* Nobody has to call execute() or to quit.                                *)
Fairness == /\ WF_vars(BecomeReady)
            /\ WF_vars(FiberStep)
            /\ WF_vars(CancelNotify)
            /\ \A c \in Calls : WF_vars(CallerStep(c))

FairSpec == Spec /\ Fairness

-----------------------------------------------------------------------------
(* The types; the executor fiber is never in "crashed", the null pointer.  *)
TypeOK == /\ ready \in BOOLEAN
          /\ registered \in BOOLEAN
          /\ cancelled \in BOOLEAN
          /\ queue \in Seq(Calls)
          /\ exec \in {"launched", "loop", "blocked", "pop", "run", "notifyRun", "catch",
                       "drain", "notifyKilled", "ended"}
          /\ current \in Calls \cup {None}
          /\ status \in [Calls -> {"Executing", "Run", "Killed"}]
          /\ caller \in [Calls -> {"idle", "waitReady", "notify", "wait", "blocked", "returned"}]
          /\ result \in [Calls -> {"none", "true", "false"}]
          /\ cancelling \in BOOLEAN
          /\ started \subseteq Calls
          /\ completed \subseteq started
          /\ escaped \subseteq Throwing

(* Executor.hpp:26: execute() returns "true if the function was actually   *)
(* run, or false if the client died before that could happen", whenever    *)
(* the cancel arrives.                                                     *)
ResultTellsTheTruth ==
  \A c \in Calls : /\ result[c] = "true" => c \in completed
                   /\ result[c] = "false" => c \notin started

(* A thread blocked in execute() has somebody who will answer it: its      *)
(* function is still queued, or the executor fiber holds it.  The one      *)
(* exception is a function that threw: run()'s catch(...) forgets it.      *)
EveryCallHasAnOwner ==
  \A c \in Calls : caller[c] \in {"notify", "wait", "blocked"} /\ status[c] = "Executing"
                     => c \in Queued \cup {current} \cup escaped

(* The assertion of ~ExecutorModule: a caller racing with the draining     *)
(* never leaves a function behind in the queue of a module that has ended. *)
NothingLeftBehind == exec = "ended" => queue = <<>>

(* No notify_one() is lost: the executor fiber does not sleep over work or *)
(* a cancel, nor a caller over its answer, unless the notify is under way. *)
NobodySleepsOverWork ==
  /\ exec = "blocked" /\ queue # <<>> => \E c \in Calls : caller[c] = "notify"
  /\ exec = "blocked" /\ cancelled => cancelling
  /\ \A c \in Calls : caller[c] = "blocked" /\ status[c] # "Executing"
                        => current = c /\ exec \in {"notifyRun", "notifyKilled"}

(* As long as no function throws, every execute() returns.                 *)
CallsReturn ==
  [](escaped = {}) => \A c \in Calls : caller[c] = "waitReady" ~> caller[c] = "returned"
=============================================================================
