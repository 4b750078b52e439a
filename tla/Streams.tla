------------------------------- MODULE Streams ------------------------------
(***************************************************************************)
(* Watching streams: start() and stop() hand a function to the ViewStreams *)
(* module through an Execute queue and wait until it is completed; the     *)
(* module's fiber runs one function per round, after it has sent the       *)
(* heartbeats that are due. A function carries a bare pointer to the url   *)
(* in its caller's frame.                                                  *)
(*                                                                         *)
(* Time is abstracted to whether a stream's next heartbeat is due. Pages   *)
(* and answers come from the server (external), or fail.                   *)
(***************************************************************************)
EXTENDS Naturals, Sequences, FiniteSets, SequencesExt, FiniteSetsExt, Selection

CONSTANTS
    Watchers,  \* fibers that call start() and stop()
    Urls,      \* urls of streams
    MaxStreams \* bound on the functions enqueued

StreamAssumption == MaxStreams \in Nat

VARIABLES
    streams,   \* ViewStreamsModule::streams: the url and whether a heartbeat is due
    functions, \* the Execute queue
    viewPc,    \* where the module is: "wait", "beat", "page", "tmpd" or "gone"
    beatNext,  \* the stream of the heartbeat loop
    running,   \* {the function that is being executed}
    calling,   \* calling[w]: "no", "yes" or what the call has ended with
    enqueued,  \* functions made so far
    beats,     \* urls of the heartbeats since they were last stopped or started
    viewQuit   \* Cancel::cancel() has been called

streamVars == <<streams, functions, viewPc, beatNext, running, calling, enqueued, beats, viewQuit>>

StreamInit ==
    /\ streams = <<>> /\ functions = <<>> /\ viewPc = "wait" /\ beatNext = 0 /\ running = {}
    /\ calling = [w \in Watchers |-> "no"] /\ enqueued = 0 /\ beats = {} /\ viewQuit = FALSE

----------------------------------------------------------------------------
\* viewAction(): a function for the module is enqueued and its caller waits. A stop()
\* without a url is for all of them.
ViewAction(w, action, urls) ==
    /\ calling[w] = "no" /\ enqueued < MaxStreams /\ ~viewQuit
    /\ enqueued' = enqueued + 1
    /\ functions' = Append(functions, [watcher |-> w, action |-> action, urls |-> urls])
    /\ calling' = [calling EXCEPT ![w] = "yes"]
    /\ UNCHANGED <<streams, viewPc, beatNext, running, beats, viewQuit>>

\* The caller is done with the result.
Returned(w) ==
    /\ calling[w] \in {"true", "false"} /\ calling' = [calling EXCEPT ![w] = "no"]
    /\ UNCHANGED <<streams, functions, viewPc, beatNext, running, enqueued, beats, viewQuit>>

\* complete(): the function's caller gets the result, if it still waits.
Complete(f, result) ==
    calling' = [calling EXCEPT ![f.watcher] = IF @ = "yes" THEN result ELSE @]

----------------------------------------------------------------------------
\* The time of a stream's next heartbeat comes.
BeatDue(i) ==
    /\ i \in 1..Len(streams) /\ ~streams[i].due
    /\ streams' = [streams EXCEPT ![i].due = TRUE]
    /\ UNCHANGED <<functions, viewPc, beatNext, running, calling, enqueued, beats, viewQuit>>

\* execute->run(): one function, if there is one. Stopping needs no answer; starting
\* asks for the stream's page.
RunFunction ==
    IF functions = <<>>
    THEN viewPc' = "wait" /\ UNCHANGED <<functions, running, streams, calling, beats>>
    ELSE LET f == Head(functions)
             others == {s \in Range(streams) : s.url \notin f.urls}
         IN /\ functions' = Tail(functions)
            /\ IF f.action = "start"
               THEN viewPc' = "page" /\ running' = {f} /\ UNCHANGED <<streams, calling, beats>>
               ELSE /\ streams' = Kept(streams, others) /\ beats' = beats \ f.urls
                    /\ Complete(f, "true") /\ viewPc' = "wait" /\ UNCHANGED running

\* doHeartbeat() of the streams from the k-th on: the first that is due has its heartbeat
\* sent, whose answer the module waits for (and sets the next time whatever it says).
\* When none is left the functions have their turn, with no wait in between.
BeatsFrom(k) ==
    LET due == {i \in k..Len(streams) : streams[i].due}
    IN IF due = {} THEN RunFunction /\ UNCHANGED beatNext
       ELSE LET i == Min(due)
            IN /\ viewPc' = "beat" /\ beatNext' = i + 1
               /\ streams' = [streams EXCEPT ![i].due = FALSE]
               /\ beats' = beats \cup {streams[i].url}
               /\ UNCHANGED <<functions, running, calling>>

\* run(): the wait ends when a function is queued or a heartbeat is due.
RoundBegins ==
    /\ viewPc = "wait" /\ ~viewQuit
    /\ functions # <<>> \/ \E i \in 1..Len(streams) : streams[i].due
    /\ BeatsFrom(1)
    /\ UNCHANGED <<enqueued, viewQuit>>

HeartbeatAnswered ==
    /\ viewPc = "beat" /\ ~viewQuit
    /\ BeatsFrom(beatNext)
    /\ UNCHANGED <<enqueued, viewQuit>>

\* The constructor of ViewStream: getBroadcastSteamID(), then getTmpdData(). An error at
\* either throws, and ViewFunction::execute() completes with false. The new stream's
\* first heartbeat is due at once.
StartAnswered(ok) ==
    /\ viewPc \in {"page", "tmpd"} /\ ~viewQuit
    /\ \E f \in running :
          IF ok /\ viewPc = "page" THEN viewPc' = "tmpd" /\ UNCHANGED <<running, streams, calling>>
          ELSE /\ running' = {} /\ viewPc' = "wait"
               /\ Complete(f, IF ok THEN "true" ELSE "false")
               /\ IF ok THEN \E u \in f.urls : streams' = Append(streams, [url |-> u, due |-> TRUE])
                  ELSE UNCHANGED streams
    /\ UNCHANGED <<functions, beatNext, enqueued, beats, viewQuit>>

\* The client quits: the callers' waits and the module's throw. A start() that is under
\* way is caught and completed before the module finds that its own waiter is cancelled.
ViewQuit ==
    /\ ~viewQuit /\ viewQuit' = TRUE
    /\ calling' = [w \in Watchers |-> IF calling[w] = "yes" THEN "cancelled" ELSE calling[w]]
    /\ viewPc' = IF viewPc \in {"wait", "beat"} THEN "gone" ELSE viewPc
    /\ UNCHANGED <<streams, functions, beatNext, running, enqueued, beats>>

CancelledStart ==
    /\ viewQuit /\ viewPc \in {"page", "tmpd"}
    /\ running' = {} /\ viewPc' = "wait"
    /\ UNCHANGED <<streams, functions, beatNext, calling, enqueued, beats, viewQuit>>

ModuleEnds ==
    /\ viewQuit /\ viewPc = "wait" /\ viewPc' = "gone"
    /\ UNCHANGED <<streams, functions, beatNext, running, calling, enqueued, beats, viewQuit>>

StreamNext ==
    \/ \E w \in Watchers : Returned(w) \/ ViewAction(w, "stop", Urls)
          \/ \E u \in Urls, action \in {"start", "stop"} : ViewAction(w, action, {u})
    \/ \E i \in 1..MaxStreams : BeatDue(i)
    \/ RoundBegins \/ HeartbeatAnswered
    \/ \E ok \in BOOLEAN : StartAnswered(ok)
    \/ ViewQuit \/ CancelledStart \/ ModuleEnds

StreamSpec == StreamInit /\ [][StreamNext]_streamVars

----------------------------------------------------------------------------
\* Type invariant.
StreamTypeOK ==
    /\ \A i \in 1..Len(streams) : streams[i].url \in Urls /\ streams[i].due \in BOOLEAN
    /\ viewPc \in {"wait", "beat", "page", "tmpd", "gone"}
    /\ calling \in [Watchers -> {"no", "yes", "true", "false", "cancelled"}]
    /\ enqueued \in 0..MaxStreams /\ beats \subseteq Urls /\ Cardinality(running) <= 1

\* A caller that waits has its function in the queue or under way, once, so that it is
\* completed exactly once (ViewStream.cpp:384-424, 456-463; Execute.cpp:52-61 asserts it).
CallersHaveFunctions ==
    \A w \in Watchers : calling[w] = "yes" =>
        Cardinality({i \in 1..Len(functions) : functions[i].watcher = w})
            + Cardinality({f \in running : f.watcher = w}) = 1

\* The bare url pointer is only used while its owner waits: when the module takes a
\* function off the queue, the caller that made it is still in its wait()
\* (ViewStream.cpp:381-392, 429-433).
UrlPointersAreValid ==
    functions # <<>> /\ viewPc \in {"wait", "beat"} /\ ~viewQuit
        => calling[Head(functions).watcher] = "yes"

\* After stop() no heartbeat goes out for a stream until it is started again: whatever
\* has beaten since is still in the list (ViewStream.cpp:352-366, 437-450).
OnlyLiveStreamsBeat == beats \subseteq {streams[i].url : i \in 1..Len(streams)}

=============================================================================
