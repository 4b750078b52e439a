--------------------------- MODULE ClientLifecycle ---------------------------
(***************************************************************************)
(* Sources/Client/Client.cpp, ClientInfo.cpp, Headers/Client/Cancel.hpp    *)
(* and Asio/Signals.cpp: launching, quitting and restarting the clients,   *)
(* and quitAll(), which a signal starts to end them all.                   *)
(*                                                                         *)
(* Every launch or restart of an account is a session with a thread of its *)
(* own.  A session's client has one fiber per module; a fiber registers    *)
(* its waiter with Client::cancel when it first runs, and may launch late  *)
(* fibers.  Client::cancel reaches the fibers registered at that moment.   *)
(* A call of Executor::execute is one step here: Executor shows that it    *)
(* runs the function or refuses it.                                        *)
(***************************************************************************)
EXTENDS Integers, FiniteSets

CONSTANTS Accounts,      \* the ClientInfo objects
          ModuleFibers,  \* the fibers initModules() launches
          LateFibers,    \* fibers those launch later
          Executor,      \* the executor module's fiber
          MaxSessions    \* bound: sessions per account

ASSUME LifecycleAssumption ==
  /\ Executor \in ModuleFibers
  /\ ModuleFibers \cap LateFibers = {}
  /\ MaxSessions \in Nat \ {0}

Fibers == ModuleFibers \cup LateFibers
Sessions == 1..MaxSessions
NoClient == 0

VARIABLES
  active,     \* ClientInfo::active
  client,     \* ClientInfo::client: the session it belongs to, or NoClient
  sessions,   \* how many sessions the account has had
  phase,      \* [Accounts -> [Sessions -> where the session's thread is]]
  quitMode,   \* Client::quitMode of the account's latest client
  fiber,      \* the fibers of the account's latest client
  hit,        \* the fibers whose waiter has been cancelled
  quitter,    \* the thread that runs quitAll(): "idle", "visit", "execute", "waitAll", "done"
  todo,       \* the accounts quitAll() has still to visit
  target,     \* the account and session whose client quitAll() holds
  missed,     \* history: accounts with a fiber that registered after the quit
  escapees    \* history: accounts quitAll() did not get hold of

clientVars == <<active, client, sessions, phase>>
fiberVars == <<quitMode, fiber, hit, missed>>
quitVars == <<quitter, todo, target, escapees>>
lifecycleVars == <<clientVars, fiberVars, quitVars>>

(* A session that owns the account's "active" flag.                        *)
Live == {"launching", "created", "init", "starting", "running", "leaving", "closing", "sleeping"}

(* A thread that holds a handle of threadCounter.                          *)
Handles == {h \in Accounts \X Sessions : phase[h[1]][h[2]] \notin {"none", "launching", "done"}}

Running(a) == {f \in Fibers : fiber[a][f] = "running"}

LifecycleInit ==
  /\ active = [a \in Accounts |-> FALSE]
  /\ client = [a \in Accounts |-> NoClient]
  /\ sessions = [a \in Accounts |-> 0]
  /\ phase = [a \in Accounts |-> [s \in Sessions |-> "none"]]
  /\ quitMode = [a \in Accounts |-> "None"]
  /\ fiber = [a \in Accounts |-> [f \in Fibers |-> "none"]]
  /\ hit = [a \in Accounts |-> {}]
  /\ quitter = "idle"
  /\ todo = {}
  /\ target = <<>>
  /\ missed = {}
  /\ escapees = {}

Move(a, s, from, to) == /\ phase[a][s] = from
                        /\ phase' = [phase EXCEPT ![a][s] = to]

-----------------------------------------------------------------------------
(* Mutations of the definitions below, for testing the properties.         *)

MutRelaunchLosesHandle(a, s) ==
  /\ phase[a][s] = "sleeping"
  /\ sessions[a] < MaxSessions
  /\ sessions' = [sessions EXCEPT ![a] = @ + 1]
  /\ phase' = [phase EXCEPT ![a][s] = "done", ![a][sessions[a] + 1] = "launching"]
  /\ UNCHANGED <<active, client, fiberVars, quitVars>>

MutSleepInactive(a, s) == /\ quitMode[a] = "Restart"
                          /\ Move(a, s, "closing", "sleeping")
                          /\ active' = [active EXCEPT ![a] = FALSE]
                          /\ UNCHANGED <<client, sessions, fiberVars, quitVars>>

MutOverWithQuit(a, s) == /\ quitMode[a] # "None"
                         /\ Move(a, s, "running", "leaving")
                         /\ UNCHANGED <<active, client, sessions, fiberVars, quitVars>>

MutQuitSparesExecutor(a, mode) ==
  /\ quitMode' = [quitMode EXCEPT ![a] = mode]
  /\ hit' = [hit EXCEPT ![a] = Running(a) \ {Executor}]

MutVisitWithoutTest(a) == /\ quitter = "visit"
                          /\ a \in todo
                          /\ todo' = todo \ {a}
                          /\ target' = <<a, client[a]>>
                          /\ quitter' = "execute"
                          /\ UNCHANGED <<clientVars, fiberVars, escapees>>

-----------------------------------------------------------------------------
(* Client::launch: setActive(true) returned false.  A launch of an active  *)
(* account changes nothing.                                                *)
Launch(a) ==
  /\ ~active[a]
  /\ sessions[a] < MaxSessions
  /\ active' = [active EXCEPT ![a] = TRUE]
  /\ sessions' = [sessions EXCEPT ![a] = @ + 1]
  /\ phase' = [phase EXCEPT ![a][sessions[a] + 1] = "launching"]
  /\ escapees' = IF quitter # "idle" /\ a \notin todo THEN escapees \cup {a} ELSE escapees
  /\ UNCHANGED <<client, fiberVars, quitter, todo, target>>

(* Launcher::launch: the lambda takes a handle of threadCounter.           *)
CreateThread(a, s) == /\ Move(a, s, "launching", "created")
                      /\ UNCHANGED <<active, client, sessions, fiberVars, quitVars>>

(* The new thread makes its client and publishes it with setClient().      *)
SetClient(a, s) == /\ Move(a, s, "created", "init")
                   /\ client' = [client EXCEPT ![a] = s]
                   /\ quitMode' = [quitMode EXCEPT ![a] = "None"]
                   /\ fiber' = [fiber EXCEPT ![a] = [f \in Fibers |-> "none"]]
                   /\ hit' = [hit EXCEPT ![a] = {}]
                   /\ UNCHANGED <<active, sessions, missed, quitVars>>

(* initModules() ends with launching a fiber for every module.             *)
InitModules(a, s) ==
  /\ Move(a, s, "init", "starting")
  /\ fiber' = [fiber EXCEPT ![a] =
                 [f \in Fibers |-> IF f \in ModuleFibers THEN "ready" ELSE "none"]]
  /\ UNCHANGED <<active, client, sessions, quitMode, hit, missed, quitVars>>

(* status=Ready; locking statusMutex may already have let fibers run.      *)
SetReady(a, s) == /\ Move(a, s, "starting", "running")
                  /\ UNCHANGED <<active, client, sessions, fiberVars, quitVars>>

(* scheduler->wait() returns when no fiber is left.                        *)
SessionOver(a, s) == /\ \A f \in Fibers : fiber[a][f] \in {"none", "ended"}
                     /\ Move(a, s, "running", "leaving")
                     /\ UNCHANGED <<active, client, sessions, fiberVars, quitVars>>

ClearClient(a, s) == /\ Move(a, s, "leaving", "closing")
                     /\ client' = [client EXCEPT ![a] = NoClient]
                     /\ UNCHANGED <<active, sessions, fiberVars, quitVars>>

(* The switch on quitMode: None and Quit release the account ...           *)
Deactivate(a, s) == /\ quitMode[a] \in {"None", "Quit"}
                    /\ Move(a, s, "closing", "exiting")
                    /\ active' = [active EXCEPT ![a] = FALSE]
                    /\ UNCHANGED <<client, sessions, fiberVars, quitVars>>

(* ... Restart keeps it active, sleeps for 15 seconds ...                  *)
SleepBeforeRestart(a, s) == /\ quitMode[a] = "Restart"
                            /\ Move(a, s, "closing", "sleeping")
                            /\ UNCHANGED <<active, client, sessions, fiberVars, quitVars>>

(* ... and makes the next thread, with its handle, before this one ends.   *)
Relaunch(a, s) ==
  /\ phase[a][s] = "sleeping"
  /\ sessions[a] < MaxSessions
  /\ sessions' = [sessions EXCEPT ![a] = @ + 1]
  /\ phase' = [phase EXCEPT ![a][s] = "exiting", ![a][sessions[a] + 1] = "created"]
  /\ UNCHANGED <<active, client, fiberVars, quitVars>>

ThreadExit(a, s) == /\ Move(a, s, "exiting", "done")
                    /\ UNCHANGED <<active, client, sessions, fiberVars, quitVars>>

-----------------------------------------------------------------------------
(* Client::quit of a client that is not quitting yet: cancel.cancel().     *)
Quit(a, mode) == /\ quitMode' = [quitMode EXCEPT ![a] = mode]
                 /\ hit' = [hit EXCEPT ![a] = Running(a)]

(* A fiber runs for the first time and registers its waiter, even when the *)
(* client is already quitting.                                             *)
FiberRun(a, f) ==
  /\ fiber[a][f] = "ready"
  /\ fiber' = [fiber EXCEPT ![a][f] = "running"]
  /\ missed' = IF quitMode[a] # "None" THEN missed \cup {a} ELSE missed
  /\ UNCHANGED <<clientVars, quitMode, hit, quitVars>>

LaunchLate(a, f) == /\ f \in LateFibers
                    /\ fiber[a][f] = "none"
                    /\ Running(a) # {}
                    /\ fiber' = [fiber EXCEPT ![a][f] = "ready"]
                    /\ UNCHANGED <<clientVars, quitMode, hit, missed, quitVars>>

(* A fiber of the client quits it: a failed login, a lost connection.      *)
FiberQuit(a, mode) ==
  /\ Running(a) # {}
  /\ quitMode[a] = "None"
  /\ mode = "Restart" => sessions[a] < MaxSessions
  /\ Quit(a, mode)
  /\ UNCHANGED <<clientVars, fiber, missed, quitVars>>

(* A cancelled waiter's fiber ends with OperationCancelledException.       *)
FiberCancelled(a, f) == /\ f \in hit[a]
                        /\ fiber[a][f] = "running"
                        /\ fiber' = [fiber EXCEPT ![a][f] = "ended"]
                        /\ UNCHANGED <<clientVars, quitMode, hit, missed, quitVars>>

(* Any fiber but the executor's may also return on its own.                *)
FiberReturns(a, f) == /\ f # Executor
                      /\ fiber[a][f] = "running"
                      /\ fiber' = [fiber EXCEPT ![a][f] = "ended"]
                      /\ UNCHANGED <<clientVars, quitMode, hit, missed, quitVars>>

-----------------------------------------------------------------------------
(* ClientInfo::quitAll(), on the thread the first SIGINT or SIGTERM makes. *)

StartQuitAll == /\ quitter = "idle"
                /\ quitter' = "visit"
                /\ todo' = Accounts
                /\ UNCHANGED <<clientVars, fiberVars, target, escapees>>

VisitRunning(a) == /\ quitter = "visit"
                   /\ a \in todo
                   /\ client[a] # NoClient
                   /\ todo' = todo \ {a}
                   /\ target' = <<a, client[a]>>
                   /\ quitter' = "execute"
                   /\ UNCHANGED <<clientVars, fiberVars, escapees>>

(* No client, although the account may be between two or before its first. *)
VisitIdle(a) == /\ quitter = "visit"
                /\ a \in todo
                /\ client[a] = NoClient
                /\ todo' = todo \ {a}
                /\ escapees' = IF active[a] THEN escapees \cup {a} ELSE escapees
                /\ UNCHANGED <<clientVars, fiberVars, quitter, target>>

ExecutorAlive(a) == fiber[a][Executor] = "running" /\ Executor \notin hit[a]

(* Executor::execute() runs "client_.quit()" on the client's thread.       *)
ExecuteQuit(a, s) ==
  /\ quitter = "execute"
  /\ target = <<a, s>>
  /\ phase[a][s] = "running"
  /\ ExecutorAlive(a)
  /\ IF quitMode[a] = "None" THEN Quit(a, "Quit") ELSE UNCHANGED <<quitMode, hit>>
  /\ escapees' = IF quitMode[a] = "Restart" THEN escapees \cup {a} ELSE escapees
  /\ quitter' = "visit"
  /\ UNCHANGED <<clientVars, fiber, missed, todo, target>>

(* ... or refuses it: that session's executor is cancelled or gone.        *)
ExecuteRefused(a, s) ==
  /\ quitter = "execute"
  /\ target = <<a, s>>
  /\ \/ phase[a][s] = "running" /\ (Executor \in hit[a] \/ fiber[a][Executor] = "ended")
     \/ phase[a][s] \in {"leaving", "closing", "sleeping", "exiting", "done"}
  /\ escapees' = IF active[a] /\ quitMode[a] # "Quit" THEN escapees \cup {a} ELSE escapees
  /\ quitter' = "visit"
  /\ UNCHANGED <<clientVars, fiberVars, todo, target>>

StartWaitAll == /\ quitter = "visit"
                /\ todo = {}
                /\ quitter' = "waitAll"
                /\ UNCHANGED <<clientVars, fiberVars, todo, target, escapees>>

(* threadCounter.wait(): no handle is left.                                *)
WaitAllReturns == /\ quitter = "waitAll"
                  /\ Handles = {}
                  /\ quitter' = "done"
                  /\ UNCHANGED <<clientVars, fiberVars, todo, target, escapees>>

-----------------------------------------------------------------------------
ThreadStep(a, s) == \/ CreateThread(a, s)
                    \/ SetClient(a, s)
                    \/ InitModules(a, s)
                    \/ SetReady(a, s)
                    \/ SessionOver(a, s)
                    \/ ClearClient(a, s)
                    \/ Deactivate(a, s)
                    \/ SleepBeforeRestart(a, s)
                    \/ Relaunch(a, s)
                    \/ ThreadExit(a, s)

ClientFiberStep(a, f) == FiberRun(a, f) \/ FiberCancelled(a, f)

QuitterStep == \/ \E a \in Accounts : VisitRunning(a) \/ VisitIdle(a)
               \/ \E a \in Accounts, s \in Sessions : ExecuteQuit(a, s) \/ ExecuteRefused(a, s)
               \/ StartWaitAll
               \/ WaitAllReturns

LifecycleNext ==
  \/ \E a \in Accounts, s \in Sessions : ThreadStep(a, s)
  \/ \E a \in Accounts, f \in Fibers :
       \/ ClientFiberStep(a, f)
       \/ LaunchLate(a, f)
       \/ FiberReturns(a, f)
  \/ \E a \in Accounts : Launch(a)
  \/ \E a \in Accounts, mode \in {"Quit", "Restart"} : FiberQuit(a, mode)
  \/ StartQuitAll
  \/ QuitterStep

LifecycleSpec == LifecycleInit /\ [][LifecycleNext]_lifecycleVars

(* Threads and ready fibers are scheduled; nobody has to launch or quit.   *)
LifecycleFairness ==
  /\ \A a \in Accounts, s \in Sessions : WF_lifecycleVars(ThreadStep(a, s))
  /\ \A a \in Accounts, f \in Fibers : WF_lifecycleVars(ClientFiberStep(a, f))
  /\ WF_lifecycleVars(QuitterStep)

FairLifecycleSpec == LifecycleSpec /\ LifecycleFairness

-----------------------------------------------------------------------------
(* The types; only sessions the account has had are somewhere.             *)
LifecycleTypeOK ==
  /\ active \in [Accounts -> BOOLEAN]
  /\ client \in [Accounts -> Sessions \cup {NoClient}]
  /\ sessions \in [Accounts -> 0..MaxSessions]
  /\ phase \in [Accounts -> [Sessions -> Live \cup {"none", "exiting", "done"}]]
  /\ quitMode \in [Accounts -> {"None", "Restart", "Quit"}]
  /\ fiber \in [Accounts -> [Fibers -> {"none", "ready", "running", "ended"}]]
  /\ hit \in [Accounts -> SUBSET Fibers]
  /\ quitter \in {"idle", "visit", "execute", "waitAll", "done"}
  /\ todo \subseteq Accounts
  /\ target \in {<<>>} \cup (Accounts \X Sessions)
  /\ missed \subseteq Accounts
  /\ escapees \subseteq Accounts

(* The "active" flag guards an account against a second client: it is set  *)
(* exactly while one session is live, through the whole restart window in  *)
(* which there is no client, so that no launch gets in between.            *)
OneSessionPerAccount ==
  \A a \in Accounts : LET live == {s \in Sessions : phase[a][s] \in Live}
                      IN  Cardinality(live) = IF active[a] THEN 1 ELSE 0

(* ClientInfo::client never outlives the client's fibers' thread, and no   *)
(* fiber runs after its client has been taken away.                        *)
ClientOutlivesFibers ==
  \A a \in Accounts :
    /\ \A f \in Fibers : fiber[a][f] \in {"ready", "running"} => client[a] # NoClient
    /\ client[a] # NoClient =>
         phase[a][client[a]] \in {"init", "starting", "running", "leaving"}

(* waitAll() (called before the program ends) covers a client that has     *)
(* quit in order to be restarted: the counter does not drop to zero while  *)
(* the next thread is still to come.                                       *)
WaitAllCoversRestarts ==
  [][quitter = "waitAll" /\ quitter' = "done" =>
       \A a \in Accounts : active[a] => quitMode[a] # "Restart"]_lifecycleVars

(* quitAll() ends, unless a client escapes it: launched during quitAll(),  *)
(* in its restart window, already restarting, or with a fiber that         *)
(* registered too late (the cases of the comments at ClientInfo.cpp:256    *)
(* and Cancel.hpp:105).                                                    *)
QuitAllEnds ==
  [](missed = {} /\ escapees = {}) => (quitter = "visit" ~> quitter = "done")

(* A client that quits for a restart comes back.                           *)
RestartComesBack ==
  [](missed = {}) =>
    \A a \in Accounts : (client[a] = 1 /\ quitMode[a] = "Restart") ~> client[a] = 2

(* Cancel.hpp:40, "all cancels() will, eventually, lead to the owning      *)
(* fiber to exit, and the eventloop runs until all fibers are gone": a     *)
(* client that has been told to quit is gone in the end.                   *)
QuitEndsTheClient ==
  \A a \in Accounts, s \in Sessions :
    (client[a] = s /\ quitMode[a] # "None") ~> client[a] # s
=============================================================================
