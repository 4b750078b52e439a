----------------------------- MODULE AsioFibers -----------------------------
(***************************************************************************)
(* Fibers on the Asio thread. Its main context runs the io_context in the  *)
(* service lambda of round_robin, the dispatcher context looks for fibers  *)
(* that may go on, and the fibers wait for asio operations, for mutexes    *)
(* that fibers of other threads hold, or for a time. Contexts switch only  *)
(* where they block. Another thread that frees a mutex puts the waiting    *)
(* context into the remote queue first and calls notify() afterwards.      *)
(*                                                                         *)
(* The scheduler (remote_ready2ready(), sleep2ready()) and asio's timer,   *)
(* whose flag and expiry notify() and suspend_until() share without a      *)
(* lock, are those of Boost. Handlers run in any order.                    *)
(***************************************************************************)
EXTENDS Naturals, Sequences, SequencesExt

CONSTANTS
    Fibers,      \* fibers on the Asio thread
    Threads,     \* other threads
    Nap,         \* how long a fiber sleeps
    MaxTime,     \* bound on the clock
    MaxHandlers  \* bound on the waits of the timer, pending or called off

FiberAssumption ==
    /\ Nap \in Nat \ {0} /\ MaxTime \in Nat /\ MaxHandlers \in Nat
    /\ IsFiniteSet(Fibers) /\ Fibers \cap {"main", "dispatcher"} = {}

VARIABLES
    ready,       \* rqueue_
    active,      \* the context that runs
    mainAt,      \* the service lambda: "loop", in "poll" or "run" (run_one), or at "cnd"
    within,      \* where the handler that main runs has blocked, "none" if there is none
    fiberAt,     \* fiberAt[f]: "none", "ready", "op", "mutex", "remote" or "asleep"
    deadline,    \* deadline[f]: when a sleeping fiber goes on
    remote,      \* the scheduler's queue of contexts readied by other threads
    threadAt,    \* threadAt[t]: "idle", or the step of notify() that is next
    dispatching, \* the dispatcher's next step
    handlers,    \* fibers with a handler in the io_context: to start one, or its operation's
    locking,     \* a handler that finds a mutex taken is in the io_context
    yields,      \* handlers of the timer in the io_context
    timer,       \* suspend_timer_
    now,
    lapses       \* history, since suspend_until() last had the timer to itself: "notify" has
                 \* used it, too, or "main" has gone on after it had waited for a mutex

fiberVars == <<ready, active, mainAt, within, fiberAt, deadline, remote, threadAt, dispatching,
               handlers, locking, yields, timer, now, lapses>>
ioVars == <<handlers, locking, yields>>
timerVars == <<timer, lapses>>
elsewhere == <<remote, threadAt, dispatching, timer, now, lapses>>

FiberInit ==
    /\ ready = <<"dispatcher">> /\ active = "main" /\ mainAt = "loop" /\ within = "none"
    /\ fiberAt = [f \in Fibers |-> "none"] /\ deadline = [f \in Fibers |-> 0]
    /\ remote = <<>> /\ threadAt = [t \in Threads |-> "idle"] /\ dispatching = "loop"
    /\ handlers = {} /\ locking = FALSE /\ yields = 0 /\ now = 0 /\ lapses = {}
    /\ timer = [expiry |-> 0, pending |-> FALSE, armed |-> {}, waits |-> 0]

----------------------------------------------------------------------------
\* The active context suspends itself: pick_next() is resumed.
Suspend == active' = Head(ready) /\ ready' = Tail(ready)

HasReadyFibers == \E i \in 1..Len(ready) : ready[i] # "dispatcher"

\* The first waits of a timer decide when it fires; later ones join them.
AsyncWait == [timer EXCEPT !.armed = IF @ = {} THEN {timer.expiry} ELSE @, !.waits = @ + 1]

\* The first half of expires_at(): the waits are called off, which makes their handlers
\* ready, unless nobody seems to wait.
CallOff ==
    IF timer.pending
    THEN /\ yields' = yields + timer.waits
         /\ timer' = [timer EXCEPT !.pending = FALSE, !.armed = {}, !.waits = 0]
    ELSE UNCHANGED <<yields, timer>>

----------------------------------------------------------------------------
\* The service lambda: while other contexts are ready all pending handlers are run, and
\* main waits until suspend_until() notifies it; otherwise it runs or awaits one handler.
ServiceLoop ==
    /\ active = "main" /\ mainAt = "loop"
    /\ mainAt' = IF HasReadyFibers THEN "poll" ELSE "run"
    /\ UNCHANGED <<ready, active, within, fiberAt, deadline, ioVars, elsewhere>>

PollEnds ==
    /\ active = "main" /\ mainAt = "poll" /\ within = "none"
    /\ handlers = {} /\ ~locking /\ yields = 0
    /\ mainAt' = "cnd" /\ Suspend
    /\ UNCHANGED <<within, fiberAt, deadline, ioVars, elsewhere>>

Notified ==
    /\ active = "main" /\ mainAt = "cnd" /\ mainAt' = "loop"
    /\ UNCHANGED <<ready, active, within, fiberAt, deadline, ioVars, elsewhere>>

\* run_one() returns after one handler, poll() after all.
HandlerReturns == mainAt' = IF mainAt = "run" THEN "loop" ELSE "poll"

\* A handler runs on main: one that starts a fiber, the completion of a fiber's operation
\* (yield_handler), the timer's, which yields, or one that blocks main on a mutex, like
\* the one that writePacket() posts.
RunHandler ==
    /\ active = "main" /\ mainAt \in {"poll", "run"} /\ within = "none"
    /\ \/ \E f \in handlers :
            /\ handlers' = handlers \ {f} /\ ready' = Append(ready, f)
            /\ fiberAt' = [fiberAt EXCEPT ![f] = "ready"]
            /\ HandlerReturns /\ UNCHANGED <<active, within, locking, yields>>
       \/ /\ yields > 0 /\ yields' = yields - 1 /\ within' = "yield"
          /\ active' = Head(ready) /\ ready' = Append(Tail(ready), "main")
          /\ UNCHANGED <<mainAt, fiberAt, handlers, locking>>
       \/ /\ locking /\ locking' = FALSE /\ within' = "mutex" /\ Suspend
          /\ UNCHANGED <<mainAt, fiberAt, handlers, yields>>
    /\ UNCHANGED <<deadline, elsewhere>>

HandlerGoesOn ==
    /\ active = "main" /\ within # "none" /\ within' = "none" /\ HandlerReturns
    /\ lapses' = IF within = "woken" THEN lapses \cup {"main"} ELSE lapses
    /\ UNCHANGED <<ready, active, fiberAt, deadline, remote, threadAt, dispatching, ioVars>>
    /\ UNCHANGED <<timer, now>>

----------------------------------------------------------------------------
\* The sleeping fibers whose time has come, or all.
Asleep == {f \in Fibers : fiberAt[f] = "asleep"}
Due == {f \in Asleep : deadline[f] <= now}

\* The dispatcher readies what other threads have woken and what has slept enough, and
\* resumes the first context that is ready. If there is none, suspend_until() follows,
\* with the time of the first sleeper.
Dispatch ==
    /\ active = "dispatcher" /\ dispatching = "loop"
    /\ \E due \in SetToSeqs(Due) :
          LET queue == ready \o remote \o due
          IN /\ (\A i, j \in 1..Len(due) : i < j => deadline[due[i]] <= deadline[due[j]])
             /\ fiberAt' = [f \in Fibers |-> IF f \in Due \cup ToSet(remote)
                                             THEN "ready" ELSE fiberAt[f]]
             /\ IF queue # <<>>
                THEN /\ active' = Head(queue) /\ ready' = Append(Tail(queue), "dispatcher")
                     /\ UNCHANGED dispatching
                ELSE /\ Asleep # {} => yields + timer.waits < MaxHandlers
                     /\ dispatching' = IF Asleep = {} THEN "notify" ELSE "cancel"
                     /\ UNCHANGED <<active, ready>>
    /\ remote' = <<>>
    /\ UNCHANGED <<mainAt, within, deadline, threadAt, ioVars, timerVars, now>>

\* suspend_until(): expires_at() and async_wait(), then notify_one() for main.
SuspendUntil ==
    /\ active = "dispatcher" /\ UNCHANGED <<active, mainAt, within, fiberAt, deadline, remote>>
    /\ UNCHANGED <<threadAt, handlers, locking, now>>
    /\ \/ /\ dispatching = "cancel" /\ dispatching' = "expiry"
          /\ CallOff /\ UNCHANGED ready
          /\ lapses' = IF timer'.armed = {} /\ \A t \in Threads : threadAt[t] = "idle"
                       THEN {} ELSE {"notify"}
       \/ /\ dispatching = "expiry" /\ dispatching' = "pending"
          /\ \E f \in Asleep :
                /\ \A g \in Asleep : deadline[f] <= deadline[g]
                /\ timer' = [timer EXCEPT !.expiry = deadline[f]]
          /\ UNCHANGED <<ready, yields, lapses>>
       \/ /\ dispatching = "pending" /\ dispatching' = "wait"
          /\ timer' = [timer EXCEPT !.pending = TRUE]
          /\ UNCHANGED <<ready, yields, lapses>>
       \/ /\ dispatching = "wait" /\ dispatching' = "notify"
          /\ timer' = AsyncWait /\ UNCHANGED <<ready, yields, lapses>>
       \/ /\ dispatching = "notify" /\ dispatching' = "loop"
          /\ ready' = IF mainAt = "cnd" THEN Append(ready, "main") ELSE ready
          /\ UNCHANGED <<yields, timerVars>>

----------------------------------------------------------------------------
\* A fiber runs until it sleeps, has started an operation, finds a mutex taken or ends.
\* The operation cannot complete before yield_completion::wait() suspends the fiber:
\* main does not run.
FiberSuspends(f) ==
    /\ active = f /\ Suspend
    /\ \/ /\ now + Nap <= MaxTime /\ fiberAt' = [fiberAt EXCEPT ![f] = "asleep"]
          /\ deadline' = [deadline EXCEPT ![f] = now + Nap]
       \/ \E at \in {"op", "mutex", "none"} :
             fiberAt' = [fiberAt EXCEPT ![f] = at] /\ UNCHANGED deadline
    /\ UNCHANGED <<mainAt, within, ioVars, elsewhere>>

\* A handler comes into the io_context: one that is posted, or an operation's.
EnqueueHandler ==
    /\ \/ \E f \in Fibers :
            /\ fiberAt[f] \in {"none", "op"} /\ handlers' = handlers \cup {f}
            /\ UNCHANGED locking
       \/ yields + timer.waits < MaxHandlers /\ locking' = TRUE /\ UNCHANGED handlers
    /\ UNCHANGED <<ready, active, mainAt, within, fiberAt, deadline, yields, elsewhere>>

TimerFires ==
    /\ \E t \in timer.armed : t <= now
    /\ timer' = [timer EXCEPT !.armed = {}, !.waits = 0] /\ yields' = yields + timer.waits
    /\ UNCHANGED <<ready, active, mainAt, within, fiberAt, deadline, remote, threadAt>>
    /\ UNCHANGED <<dispatching, handlers, locking, now, lapses>>

TimePasses ==
    /\ now < MaxTime /\ now' = now + 1
    /\ UNCHANGED <<ready, active, mainAt, within, fiberAt, deadline, remote, threadAt>>
    /\ UNCHANGED <<dispatching, ioVars, timerVars>>

\* Another thread frees a mutex: the context that waits for it is put into the remote
\* queue, and notify() is next.
WakeRemotely(t, c) ==
    /\ threadAt[t] = "idle" /\ threadAt' = [threadAt EXCEPT ![t] = "pending"]
    /\ remote' = Append(remote, c)
    /\ \/ /\ c = "main" /\ within = "mutex" /\ within' = "woken" /\ UNCHANGED fiberAt
       \/ /\ c \in Fibers /\ fiberAt[c] = "mutex" /\ yields + timer.waits < MaxHandlers
          /\ fiberAt' = [fiberAt EXCEPT ![c] = "remote"] /\ UNCHANGED within
    /\ UNCHANGED <<ready, active, mainAt, deadline, dispatching, ioVars, timerVars, now>>

\* notify(): async_wait(), then expires_at().
Notify(t) ==
    /\ lapses' = lapses \cup {"notify"}
    /\ \/ /\ threadAt[t] = "pending" /\ threadAt' = [threadAt EXCEPT ![t] = "wait"]
          /\ timer' = [timer EXCEPT !.pending = TRUE] /\ UNCHANGED yields
       \/ /\ threadAt[t] = "wait" /\ threadAt' = [threadAt EXCEPT ![t] = "cancel"]
          /\ timer' = AsyncWait /\ UNCHANGED yields
       \/ /\ threadAt[t] = "cancel" /\ threadAt' = [threadAt EXCEPT ![t] = "expiry"]
          /\ CallOff
       \/ /\ threadAt[t] = "expiry" /\ threadAt' = [threadAt EXCEPT ![t] = "idle"]
          /\ timer' = [timer EXCEPT !.expiry = now] /\ UNCHANGED yields
    /\ UNCHANGED <<ready, active, mainAt, within, fiberAt, deadline, remote, dispatching>>
    /\ UNCHANGED <<handlers, locking, now>>

FiberNext ==
    \/ ServiceLoop \/ PollEnds \/ Notified \/ RunHandler \/ HandlerGoesOn
    \/ Dispatch \/ SuspendUntil \/ EnqueueHandler \/ TimerFires \/ TimePasses
    \/ \E f \in Fibers : FiberSuspends(f)
    \/ \E t \in Threads : Notify(t) \/ \E c \in Fibers \cup {"main"} : WakeRemotely(t, c)

FiberSpec == FiberInit /\ [][FiberNext]_fiberVars

----------------------------------------------------------------------------
\* Type invariant.
FiberTypeOK ==
    /\ ToSet(ready) \subseteq Fibers \cup {"main", "dispatcher"} /\ IsInjective(ready)
    /\ mainAt \in {"loop", "poll", "run", "cnd"}
    /\ within \in {"none", "yield", "mutex", "woken"}
    /\ ToSet(remote) \subseteq Fibers \cup {"main"} /\ handlers \subseteq Fibers
    /\ timer.expiry \in 0..MaxTime /\ (timer.waits = 0 <=> timer.armed = {})

\* Main sleeps in run_one(), with no handler to run and no timer that is due.
Idle ==
    /\ active = "main" /\ mainAt = "run" /\ within = "none"
    /\ handlers = {} /\ ~locking /\ yields = 0 /\ \A t \in timer.armed : t > now

\* The thread does not sleep for ever on what another thread has woken: while it sleeps, no
\* context is ready, and if another thread has readied one then some notify() is still under
\* way, or a timer is armed. That may be for any time, however late: when two calls of
\* notify() meet, the later one can leave its wait to the time that suspend_until() has set
\* for another fiber (round_robin.hpp:81-97, 110-128, 162-182).
WakeupsArrive ==
    Idle => /\ ready = <<"dispatcher">>
            /\ remote # <<>> =>
                  timer.armed # {} \/ \E t \in Threads : threadAt[t] \in {"pending", "wait", "cancel"}

\* While the thread sleeps, the timer is set for whoever else sleeps, with two exceptions:
\* notify() used it, too, while its context was found without it; or main had blocked on a
\* mutex in a handler, and a fiber went to sleep right before main went on
\* (round_robin.hpp:81-97, 131-182).
SleepersAreTimed ==
    Idle => \A f \in Asleep : (\E t \in timer.armed : t <= deadline[f]) \/ lapses # {}

\* Not checked, as it does not hold: whoever sleeps while the thread does is timed. A fiber
\* that waits before its next attempt to connect (Connections.cpp:407) may sleep on until
\* some other handler runs: notify() has called its timer off or joined it too late, with
\* only aborted handlers left, although its comment counts on "once for timer expiration"
\* (round_robin.hpp:177-181); or main, which had blocked on a mutex in a handler, goes on
\* and into run_one() without a look at the dispatcher.
EverySleeperIsTimed == Idle => \A f \in Asleep : \E t \in timer.armed : t <= deadline[f]

=============================================================================
