-------------------------- MODULE UnifiedMessages ---------------------------
(***************************************************************************)
(* Remote calls to Steam services over the connection of one client.       *)
(* UnifiedMessageClient gives each call a job id, sends it, and waits for  *)
(* the response that carries the id; the connection's fiber decodes each   *)
(* response when it comes in, with the help of the call that made it.      *)
(* UnifiedMessageServer turns incoming notifications into messages of the  *)
(* type their job name is registered for. BlockingQuery is the same thing  *)
(* for messages that have a response type of their own.                    *)
(*                                                                         *)
(* Several fibers make calls; the server (external) answers each request   *)
(* once, in any order, with a result code, and sends notifications.        *)
(***************************************************************************)
EXTENDS Naturals, Sequences, FiniteSets

CONSTANTS
    Calls,       \* calls of UnifiedMessageClient::execute(), one job id each
    Codes,       \* result codes the server uses
    MaxRetries,  \* the code's 10
    JobNames,    \* job names of notifications
    Registered   \* the ones somebody has called registerNotification() for

CallAssumption ==
    /\ {"OK", "Busy"} \subseteq Codes
    /\ Codes \cap {"idle", "waiting", "sleeping", "content", "empty", "cancelled"} = {}
    /\ MaxRetries \in Nat /\ Registered \subseteq JobNames

VARIABLES
    callPc,      \* "idle", "waiting", "sleeping" or what the call ended with
    messageList, \* UnifiedMessageClientModule::messageList
    callsReceived,    \* calls whose receivedResponse is set
    retries,     \* UnifiedMessage::execute()'s counter
    atServer,    \* the server: requests it has not answered
    callInbox,   \* callInbox[c]: responses its waiter holds; <<>> when it has no waiter
    serverNotified,    \* UnifiedMessageServer's waiter: job names of ServiceMethodMessages
    published,   \* the notifications that went to the messageboard
    ignored,     \* those nobody has registered for
    quitting     \* Client::quit() has been called

callVars == <<callPc, messageList, callsReceived, retries, atServer, callInbox,
              serverNotified, published, ignored, quitting>>
serverSide == <<serverNotified, published, ignored>>

Ended == {"content", "empty", "cancelled"} \cup (Codes \ {"OK"})

CallInit ==
    /\ callPc = [c \in Calls |-> "idle"] /\ messageList = {} /\ callsReceived = {}
    /\ retries = [c \in Calls |-> 0] /\ atServer = {}
    /\ callInbox = [c \in Calls |-> <<>>]
    /\ serverNotified = <<>> /\ published = <<>> /\ ignored = 0 /\ quitting = FALSE

----------------------------------------------------------------------------
\* execute(): the UnifiedMessage enters the list, the request goes to the
\* connection, and waitForResponse() makes its waiter; no fiber runs in between.
Execute(c) ==
    /\ callPc[c] = "idle" /\ ~quitting
    /\ messageList' = messageList \cup {c} /\ atServer' = atServer \cup {c}
    /\ callPc' = [callPc EXCEPT ![c] = "waiting"]
    /\ UNCHANGED <<callsReceived, retries, callInbox, serverSide, quitting>>

\* A response arrives: it is decoded by the call it names, unless that has had one
\* before or is gone, and then goes to every waiter there is.
ResponseArrives(c, code) ==
    LET known == c \in messageList /\ c \notin callsReceived
        response == [job |-> c, code |-> code, content |-> known]
    IN /\ c \in atServer /\ atServer' = atServer \ {c}
       /\ callsReceived' = IF known THEN callsReceived \cup {c} ELSE callsReceived
       /\ callInbox' = [d \in Calls |-> IF callPc[d] = "waiting" THEN Append(callInbox[d], response)
                                        ELSE callInbox[d]]
       /\ UNCHANGED <<callPc, messageList, retries, serverSide, quitting>>

\* A mutant: the destructor leaves the UnifiedMessage in the list.
EndsWithoutErase(c, how) ==
    /\ callPc' = [callPc EXCEPT ![c] = how]
    /\ callsReceived' = callsReceived \ {c}
    /\ UNCHANGED messageList

\* The call ends, and with it its UnifiedMessage.
EndsWith(c, how) ==
    /\ callPc' = [callPc EXCEPT ![c] = how]
    /\ messageList' = messageList \ {c}
    /\ callsReceived' = callsReceived \ {c}

\* waitForResponse() fetches a response. One for another call is skipped. After Busy
\* the waiter is given up and execute() sleeps, MaxRetries times at most.
Fetch(c) ==
    /\ callPc[c] = "waiting" /\ callInbox[c] # <<>>
    /\ LET response == Head(callInbox[c])
           mine == response.job = c
           again == response.code = "Busy" /\ retries[c] < MaxRetries
       IN IF ~mine
          THEN /\ callInbox' = [callInbox EXCEPT ![c] = Tail(@)]
               /\ UNCHANGED <<callPc, messageList, callsReceived, retries>>
          ELSE /\ callInbox' = [callInbox EXCEPT ![c] = <<>>]
               /\ IF again
                  THEN /\ callPc' = [callPc EXCEPT ![c] = "sleeping"]
                       /\ retries' = [retries EXCEPT ![c] = @ + 1]
                       /\ UNCHANGED <<messageList, callsReceived>>
                  ELSE /\ EndsWith(c, IF response.code # "OK" THEN response.code
                                      ELSE IF response.content THEN "content" ELSE "empty")
                       /\ UNCHANGED retries
    /\ UNCHANGED <<atServer, serverSide, quitting>>

\* The ten seconds are over, and the same request is sent once more. A client that
\* quits has to wait for this: the sleep is no waiter.
Resend(c) ==
    /\ callPc[c] = "sleeping"
    /\ callPc' = [callPc EXCEPT ![c] = "waiting"] /\ atServer' = atServer \cup {c}
    /\ UNCHANGED <<messageList, callsReceived, retries, callInbox, serverSide, quitting>>

\* Client::quit() cancels the waiters, and every call that waits throws. One that
\* begins to wait later makes a waiter nobody cancels.
QuitCancels ==
    /\ ~quitting /\ quitting' = TRUE
    /\ LET gone == {c \in Calls : callPc[c] = "waiting"}
       IN /\ callPc' = [c \in Calls |-> IF c \in gone THEN "cancelled" ELSE callPc[c]]
          /\ messageList' = messageList \ gone /\ callsReceived' = callsReceived \ gone
          /\ callInbox' = [c \in Calls |-> <<>>]
    /\ UNCHANGED <<retries, atServer, serverSide>>

----------------------------------------------------------------------------
\* A ServiceMethod message arrives (from the external server).
NotificationArrives(n) ==
    /\ Len(serverNotified) + Len(published) + ignored < 2 /\ ~quitting
    /\ serverNotified' = Append(serverNotified, n)
    /\ UNCHANGED <<callPc, messageList, callsReceived, retries, atServer, callInbox, published,
                   ignored, quitting>>

\* UnifiedMessageServerModule::run() hands every message to the handler of its name.
ServerModuleWakes ==
    /\ serverNotified # <<>> /\ ~quitting
    /\ LET ours(n) == n \in Registered
       IN /\ published' = published \o SelectSeq(serverNotified, ours)
          /\ ignored' = ignored + Len(serverNotified) - Len(SelectSeq(serverNotified, ours))
    /\ serverNotified' = <<>>
    /\ UNCHANGED <<callPc, messageList, callsReceived, retries, atServer, callInbox, quitting>>

CallNext ==
    \/ \E c \in Calls : Execute(c) \/ Fetch(c) \/ Resend(c)
                        \/ \E code \in Codes : ResponseArrives(c, code)
    \/ QuitCancels
    \/ \E n \in JobNames : NotificationArrives(n)
    \/ ServerModuleWakes

CallSpec == CallInit /\ [][CallNext]_callVars

----------------------------------------------------------------------------
\* Type invariant.
CallTypeOK ==
    /\ callPc \in [Calls -> {"idle", "waiting", "sleeping"} \cup Ended]
    /\ messageList \subseteq Calls /\ callsReceived \subseteq messageList
    /\ retries \in [Calls -> 0..MaxRetries] /\ atServer \subseteq Calls
    /\ \A c \in Calls : \A i \in 1..Len(callInbox[c]) : callInbox[c][i].job \in Calls

\* A call that waits before the client quits can still be answered: its request is
\* with the server or the response to it is in its own inbox, whichever responses for
\* others are in front of it (UnifiedMessageClient.cpp:98-119).
EveryCallIsAnswered ==
    ~quitting => \A c \in Calls : callPc[c] = "waiting" =>
        c \in atServer \/ \E i \in 1..Len(callInbox[c]) : callInbox[c][i].job = c

\* The first response to a call carries its content: a call that was never told Busy
\* does not end with an empty one, whatever the order of the responses and whoever
\* else was waiting (UnifiedMessageClient.cpp:78-94).
FirstAnswerHasContent ==
    \A c \in Calls : callPc[c] = "empty" => retries[c] > 0

\* The list names exactly the calls that are under way, and only for those a response
\* is decoded (UnifiedMessageClient.cpp:59-71).
ListMatchesCalls == messageList = {c \in Calls : callPc[c] \in {"waiting", "sleeping"}}

\* A call that ends well has its content. It does not hold: the answer to a retry
\* after Busy is not decoded, for receivedResponse is still set.
AnswersHaveContent == \A c \in Calls : callPc[c] # "empty"

=============================================================================
