------------------------------ MODULE HttpQueue ------------------------------
(***************************************************************************)
(* Sources/Asio/RateLimit.cpp, BasicQuery.cpp, BasicQueryRedirect.cpp and  *)
(* HTTPClient.cpp: one RateLimitQueue, the Asio thread that works on it,   *)
(* and the fibers whose queries go through it.                             *)
(*                                                                         *)
(* The Asio thread runs one handler at a time, so each handler is one      *)
(* step; what it waits for (a resolver, a socket, the timer) is up to the  *)
(* environment.  Time is counted in ticks since the last query completed.  *)
(***************************************************************************)
EXTENDS Integers, Sequences, FiniteSets

CONSTANTS Queries,    \* one query each of as many fibers
          Urls,       \* the URLs servers may redirect to
          Schedule,   \* RateLimitQueue::schedule, in ticks
          NoQuery

ASSUME HttpAssumption == /\ Schedule \in Nat \ {0}
                         /\ NoQuery \notin Queries
                         /\ Urls # {}

VARIABLES
  caller,      \* HTTPClient::perform of each query: "idle", "wait" or "gone"
  enqueued,    \* enqueue() calls posted to the Asio thread
  queue,       \* RateLimitQueue::queue
  inProgress,  \* RateLimitQueue::inProgress
  left,        \* ticks until timer.expiry()
  waiting,     \* an async_wait of the timer is pending
  fired,       \* handlers of timers that have fired, not yet run
  stage,       \* what the BasicQuery in progress waits for
  url,         \* Query::url
  response,    \* Query::response: "empty", "final" or "found"
  location,    \* its Location header
  error,       \* Query::error
  completed,   \* ResultWaiterBase::resultAvailable
  gap,         \* history: ticks since a query completed, up to Schedule
  answered,    \* history: the last attempt at the query has been answered
  noSni        \* history: queries whose SSL set-up failed

timerVars == <<left, waiting, fired>>
queryVars == <<url, response, location, error, answered, noSni>>
httpVars == <<caller, enqueued, queue, inProgress, timerVars, stage, queryVars, completed, gap>>

Queued == {queue[k] : k \in 1..Len(queue)}

HttpInit == /\ caller = [q \in Queries |-> "idle"]
            /\ enqueued = <<>>
            /\ queue = <<>>
            /\ inProgress = NoQuery
            /\ left = 0
            /\ waiting = FALSE
            /\ fired = 0
            /\ stage = "none"
            /\ \E u \in Urls : url = [q \in Queries |-> u]
            /\ response = [q \in Queries |-> "empty"]
            /\ location = url
            /\ error = [q \in Queries |-> FALSE]
            /\ completed = {}
            /\ gap = Schedule
            /\ answered = {}
            /\ noSni = {}

-----------------------------------------------------------------------------
(* Mutations of the definitions below, for testing the properties.         *)

MutStartWithoutWait(pending, current, remaining, armed) ==
  LET start == current = NoQuery /\ pending # <<>> /\ remaining = 0
  IN  /\ left' = remaining
      /\ waiting' = (~start /\ armed)
      /\ inProgress' = IF start THEN Head(pending) ELSE current
      /\ queue' = IF start THEN Tail(pending) ELSE pending
      /\ stage' = IF start THEN "resolve" ELSE IF current = NoQuery THEN "none" ELSE stage

MutStartTooEarly(pending, current, remaining, armed) ==
  LET start == current = NoQuery /\ pending # <<>>
  IN  /\ left' = remaining
      /\ waiting' = (~start /\ armed)
      /\ inProgress' = IF start THEN Head(pending) ELSE current
      /\ queue' = IF start THEN Tail(pending) ELSE pending
      /\ stage' = IF start THEN "resolve" ELSE IF current = NoQuery THEN "none" ELSE stage

MutStartKeepsWait(pending, current, remaining, armed) ==
  LET idle == current = NoQuery /\ pending # <<>>
      start == idle /\ remaining = 0
  IN  /\ left' = remaining
      /\ waiting' = ((idle /\ ~start) \/ armed)
      /\ inProgress' = IF start THEN Head(pending) ELSE current
      /\ queue' = IF start THEN Tail(pending) ELSE pending
      /\ stage' = IF start THEN "resolve" ELSE IF current = NoQuery THEN "none" ELSE stage

MutFollowAnyRedirect(q) == response'[q] = "found"

-----------------------------------------------------------------------------
(* RateLimitQueue::startQuery with the given queue, inProgress, timer and  *)
(* pending wait: an earlier wait is cancelled; the query starts if the     *)
(* timer has expired, otherwise a new wait is begun.                       *)
StartQuery(pending, current, remaining, armed) ==
  LET idle == current = NoQuery /\ pending # <<>>
      start == idle /\ remaining = 0
  IN  /\ left' = remaining
      /\ waiting' = ((idle /\ ~start) \/ (~idle /\ armed))
      /\ IF start
         THEN /\ inProgress' = Head(pending)
              /\ queue' = Tail(pending)
              /\ stage' = "resolve"
         ELSE /\ inProgress' = current
              /\ queue' = pending
              /\ stage' = IF current = NoQuery THEN "none" ELSE stage

(* perform(): a fiber posts its query and waits.                           *)
Perform(q) == /\ caller[q] = "idle"
              /\ caller' = [caller EXCEPT ![q] = "wait"]
              /\ enqueued' = Append(enqueued, q)
              /\ UNCHANGED <<queue, inProgress, timerVars, stage, queryVars, completed, gap>>

Return(q) == /\ caller[q] = "wait"
             /\ q \in completed
             /\ caller' = [caller EXCEPT ![q] = "gone"]
             /\ UNCHANGED <<enqueued, queue, inProgress, timerVars, stage, queryVars, completed,
                            gap>>

(* The client quits; nobody withdraws the query.                           *)
Cancelled(q) == /\ caller[q] = "wait"
                /\ caller' = [caller EXCEPT ![q] = "gone"]
                /\ UNCHANGED <<enqueued, queue, inProgress, timerVars, stage, queryVars, completed,
                               gap>>

(* enqueue() on the Asio thread.                                           *)
Enqueue == /\ enqueued # <<>>
           /\ enqueued' = Tail(enqueued)
           /\ StartQuery(Append(queue, Head(enqueued)), inProgress, left, waiting)
           /\ UNCHANGED <<caller, fired, queryVars, completed, gap>>

Tick == /\ left' = IF left > 0 THEN left - 1 ELSE 0
        /\ gap' = IF gap < Schedule THEN gap + 1 ELSE gap
        /\ UNCHANGED <<caller, enqueued, queue, inProgress, waiting, fired, stage, queryVars,
                       completed>>

(* The timer expires with a wait pending: from now on it is too late to    *)
(* cancel the wait's handler.                                              *)
TimerFires == /\ waiting
              /\ left = 0
              /\ waiting' = FALSE
              /\ fired' = fired + 1
              /\ UNCHANGED <<caller, enqueued, queue, inProgress, left, stage, queryVars, completed,
                             gap>>

TimerHandler == /\ fired > 0
                /\ fired' = fired - 1
                /\ StartQuery(queue, inProgress, left, waiting)
                /\ UNCHANGED <<caller, enqueued, queryVars, completed, gap>>

-----------------------------------------------------------------------------
(* BasicQuery.                                                             *)

(* checkRedirect(): the response, possibly that of an earlier attempt,     *)
(* leads somewhere else.                                                   *)
Redirects(q) == response'[q] = "found" /\ location'[q] # url[q]

(* complete(): the callback posts another attempt at the new URL, or tells *)
(* the fiber, re-arms the timer and looks for the next query.              *)
Complete(failed) ==
  LET q == inProgress
  IN  /\ error' = [error EXCEPT ![q] = failed]
      /\ IF Redirects(q)
         THEN /\ url' = [url EXCEPT ![q] = location'[q]]
              /\ stage' = "redirect"
              /\ UNCHANGED <<queue, inProgress, left, waiting, completed, gap>>
         ELSE /\ completed' = completed \cup {q}
              /\ StartQuery(queue, NoQuery, Schedule, FALSE)
              /\ gap' = 0
              /\ UNCHANGED url

(* A stage that ended well leads to the next.                              *)
NextStage(next) == /\ stage' = next
                   /\ UNCHANGED <<url, error, queue, inProgress, left, waiting, completed, gap>>

Performed == /\ stage = "redirect"
             /\ NextStage("resolve")
             /\ UNCHANGED <<caller, enqueued, fired, response, location, answered, noSni>>

(* resolve_completed(); the SSL stream may refuse the host name, which is  *)
(* reported with the resolver's code, a success.                           *)
ResolveCompleted(failed, sniFails) ==
  /\ stage = "resolve"
  /\ UNCHANGED <<caller, enqueued, fired, response, location>>
  /\ answered' = answered \ {inProgress}
  /\ noSni' = IF ~failed /\ sniFails THEN noSni \cup {inProgress} ELSE noSni \ {inProgress}
  /\ IF failed \/ sniFails THEN Complete(failed) ELSE NextStage("connect")

ConnectCompleted(failed) ==
  /\ stage = "connect"
  /\ UNCHANGED <<caller, enqueued, fired, response, location, answered, noSni>>
  /\ IF failed THEN Complete(failed) ELSE NextStage("handshake")

HandshakeCompleted(failed) ==
  /\ stage = "handshake"
  /\ UNCHANGED <<caller, enqueued, fired, response, location, answered, noSni>>
  /\ IF failed THEN Complete(failed) ELSE NextStage("write")

(* write_completed() empties the response before it is read.               *)
WriteCompleted(failed) ==
  /\ stage = "write"
  /\ UNCHANGED <<caller, enqueued, fired, answered, noSni>>
  /\ IF failed
     THEN UNCHANGED <<response, location>> /\ Complete(failed)
     ELSE /\ response' = [response EXCEPT ![inProgress] = "empty"]
          /\ location' = [location EXCEPT ![inProgress] = url[inProgress]]
          /\ NextStage("read")

(* read_completed() with an answer: a final one (whose Location, if any,   *)
(* nobody looks at), or a redirection.                                     *)
ReadCompleted(outcome, target) ==
  /\ stage = "read"
  /\ outcome = "final" => target = url[inProgress]
  /\ UNCHANGED <<caller, enqueued, fired, noSni>>
  /\ response' = [response EXCEPT ![inProgress] = outcome]
  /\ location' = [location EXCEPT ![inProgress] = target]
  /\ answered' = answered \cup {inProgress}
  /\ Complete(FALSE)

(* Mutation: the error of the read is not passed on.                       *)
MutReadErrorLost == /\ stage = "read"
                    /\ UNCHANGED <<caller, enqueued, fired, response, location, answered, noSni>>
                    /\ Complete(FALSE)

(* read_completed() with an error: the response has not been filled in.    *)
ReadFailed == /\ stage = "read"
              /\ UNCHANGED <<caller, enqueued, fired, response, location, answered, noSni>>
              /\ Complete(TRUE)

-----------------------------------------------------------------------------
QueryHandler ==
  \/ Performed
  \/ \E failed \in BOOLEAN : \/ \E sniFails \in BOOLEAN : ResolveCompleted(failed, sniFails)
                             \/ ConnectCompleted(failed)
                             \/ HandshakeCompleted(failed)
                             \/ WriteCompleted(failed)
  \/ \E outcome \in {"final", "found"}, target \in Urls : ReadCompleted(outcome, target)
  \/ ReadFailed

HttpNext == \/ \E q \in Queries : Perform(q) \/ Return(q) \/ Cancelled(q)
            \/ Enqueue
            \/ Tick
            \/ TimerFires
            \/ TimerHandler
            \/ QueryHandler

HttpSpec == HttpInit /\ [][HttpNext]_httpVars

(* The Asio thread runs its handlers, time passes, and the network answers *)
(* one way or the other.                                                   *)
HttpFairness == /\ WF_httpVars(Enqueue)
                /\ WF_httpVars(Tick)
                /\ WF_httpVars(TimerFires)
                /\ WF_httpVars(TimerHandler)
                /\ WF_httpVars(QueryHandler)
                /\ \A q \in Queries : WF_httpVars(Return(q))

FairHttpSpec == HttpSpec /\ HttpFairness

-----------------------------------------------------------------------------
(* The types.  A query in progress is worked on, and the timer's wait is   *)
(* pending only when there is a query to start.                            *)
HttpTypeOK ==
  /\ caller \in [Queries -> {"idle", "wait", "gone"}]
  /\ enqueued \in Seq(Queries)
  /\ queue \in Seq(Queries)
  /\ inProgress \in Queries \cup {NoQuery}
  /\ left \in 0..Schedule
  /\ waiting \in BOOLEAN
  /\ fired \in Nat
  /\ stage \in {"none", "resolve", "connect", "handshake", "write", "read", "redirect"}
  /\ url \in [Queries -> Urls]
  /\ response \in [Queries -> {"empty", "final", "found"}]
  /\ location \in [Queries -> Urls]
  /\ error \in [Queries -> BOOLEAN]
  /\ completed \subseteq Queries
  /\ gap \in 0..Schedule
  /\ answered \subseteq Queries
  /\ noSni \subseteq Queries
  /\ stage = "none" <=> inProgress = NoQuery
  /\ waiting => inProgress = NoQuery /\ queue # <<>>

(* The queue never stalls: whenever a query waits and none is in progress, *)
(* a timer is pending or a handler that will call startQuery() is queued,  *)
(* although every startQuery() begins with cancelling the timer.           *)
NobodyIdles == queue # <<>> /\ inProgress = NoQuery => waiting \/ fired > 0

(* Query::error, "Check the error first" (HTTPClient.hpp): a query that    *)
(* completed without an error was answered by the server it was sent to    *)
(* last, not by one that redirected it.  The exception is a host name the  *)
(* SSL stream refuses: BasicQuery.cpp:306 completes with the wrong code.   *)
SuccessMeansAnswer == \A q \in completed : ~error[q] => q \in answered \cup noSni

(* Between the completion of a query and the start of the next lies at     *)
(* least the schedule, whichever of enqueue(), the timer and the           *)
(* completion starts it.                                                   *)
Spaced == [][inProgress' # NoQuery /\ inProgress' # inProgress => gap = Schedule]_httpVars

(* Unless servers redirect for ever, each fiber gets its query back: also  *)
(* when a redirection leads to a server that fails, with the old response  *)
(* still in the query.                                                     *)
AnswersArrive ==
  <>[](stage = "redirect" => inProgress \notin answered) =>
    \A q \in Queries : caller[q] = "wait" ~> caller[q] # "wait"
=============================================================================
