-------------------------------- MODULE Login --------------------------------
(***************************************************************************)
(* Sources/Modules/Login-Auth.cpp, Login-Session.cpp and UI/UI.cpp: the    *)
(* login module of every client, the session thread that asks the user for *)
(* what a login lacks, and the UI thread it asks through.                  *)
(*                                                                         *)
(* The login module never waits for the user: it hands its account's       *)
(* CredentialsSession to the session thread and quits its client; the      *)
(* session thread launches the client again with the answer.  The          *)
(* authentication server answers every request as it likes, or never.      *)
(* Connections that break and clients ended by others are left to          *)
(* SteamConnection and ClientLifecycle.  The application launches an       *)
(* account that has no client and that the user is not being asked about.  *)
(***************************************************************************)
EXTENDS Naturals, SequencesExt

CONSTANTS Accounts,  \* the ClientInfo objects
          UiCancels  \* the UI sets a cancel function while it shows a prompt

ASSUME LoginAssumption == UiCancels \in BOOLEAN

Secrets == {"password", "code"}
Confirmations == <<"None", "DeviceConfirmation", "DeviceCode", "EmailCode">>
Methods == Range(Confirmations)

VARIABLES
  client,       \* each account's client: "none", "running", "quitting", "restarting"
  loginStatus,  \* LoginStatus
  fiber,        \* what LoginModule::run waits for
  method,       \* LoginModule::confirmation.type
  token,        \* LoginModule::refreshToken is not empty
  file,         \* the data file has a refresh token
  creds,        \* the secrets in the account's CredentialsSession
  threadQueue,  \* SessionThread::threadQueue
  fiberQueue,   \* body()'s fiberQueue
  sessions,     \* SessionThread::sessions, as records of account and passwordType
  main,         \* the session thread's main fiber; "off" when "running" is FALSE
  signal,       \* SessionThread::signal
  uiQueue,      \* the prompts in UI::Thread::queue
  prompt,       \* each account's UI::Waiter
  terminated,   \* an exception nobody catches, or an assertion, has ended the program
  refusedSecrets, \* history: what the server refused and nobody has replaced since
  ignored       \* history: the session thread has launched a client that was still active

loginVars == <<loginStatus, fiber, method, token, file>>
threadVars == <<threadQueue, fiberQueue, sessions, main, signal>>
uiVars == <<uiQueue, prompt>>
authVars == <<client, loginVars, creds, threadVars, uiVars, terminated, refusedSecrets, ignored>>

AccountsOf(s) == {s[k].account : k \in 1..Len(s)}

(* The accounts the session thread has been told to ask about.             *)
Asked == Range(threadQueue) \cup Range(fiberQueue) \cup AccountsOf(sessions)

LoginInit == /\ client = [a \in Accounts |-> "none"]
             /\ loginStatus = [a \in Accounts |-> "LoggedOut"]
             /\ fiber = [a \in Accounts |-> "none"]
             /\ method = [a \in Accounts |-> "Unknown"]
             /\ token = [a \in Accounts |-> FALSE]
             /\ file \in [Accounts -> BOOLEAN]
             /\ creds = [a \in Accounts |-> {}]
             /\ threadQueue = <<>>
             /\ fiberQueue = <<>>
             /\ sessions = <<>>
             /\ main = "off"
             /\ signal = FALSE
             /\ uiQueue = <<>>
             /\ prompt = [a \in Accounts |-> "none"]
             /\ terminated = FALSE
             /\ refusedSecrets = [a \in Accounts |-> {}]
             /\ ignored = FALSE

-----------------------------------------------------------------------------
(* Mutations of the definitions below, for testing the properties.         *)

MutRunSession(a) == /\ client' = [client EXCEPT ![a] = "quitting"]
                    /\ fiber' = [fiber EXCEPT ![a] = "ended"]
                    /\ threadQueue' = Append(threadQueue, a)
                    /\ main' = "started"
                    /\ UNCHANGED <<fiberQueue, sessions, signal>>

MutRequestCode(a, type, secrets) ==
  IF type \in {"None", "DeviceConfirmation"}
  THEN fiber' = [fiber EXCEPT ![a] = "poll"] /\ UNCHANGED <<client, threadVars>>
  ELSE /\ client' = [client EXCEPT ![a] = "quitting"]
       /\ fiber' = [fiber EXCEPT ![a] = "ended"]
       /\ threadQueue' = Append(threadQueue, a)
       /\ main' = IF main = "off" THEN "wait" ELSE main
       /\ UNCHANGED <<fiberQueue, sessions, signal>>

MutLoginFailed(a) ==
  /\ fiber[a] = "wait" /\ loginStatus[a] = "LoggingIn"
  /\ client' = [client EXCEPT ![a] = "restarting"]
  /\ fiber' = [fiber EXCEPT ![a] = "ended"]
  /\ refusedSecrets' = [refusedSecrets EXCEPT ![a] = @ \cup {"token"}]
  /\ UNCHANGED <<loginStatus, method, token, file, creds, threadVars, uiVars,
                 terminated, ignored>>

MutCommunicate == /\ main # "off"
                  /\ threadQueue # <<>>
                  /\ fiberQueue' = fiberQueue \o threadQueue
                  /\ threadQueue' = <<>>
                  /\ signal' = (signal \/ fiberQueue # <<>>)
                  /\ UNCHANGED <<client, loginVars, creds, sessions, main, uiVars, terminated,
                                 refusedSecrets, ignored>>

MutInputsHandled == /\ main = "handle"
                    /\ \A a \in AccountsOf(sessions) : prompt[a] # "answered"
                    /\ main' = IF threadQueue = <<>> /\ sessions = <<>> THEN "off" ELSE "wait"
                    /\ UNCHANGED <<client, loginVars, creds, threadQueue, fiberQueue, sessions, signal,
                                   uiVars, terminated, refusedSecrets, ignored>>

-----------------------------------------------------------------------------
(* A new client: its login module sets LoggedOut, reads the refresh token  *)
(* from the data file and gets the account's CredentialsSession.           *)
StartClient(a) == /\ client' = [client EXCEPT ![a] = "running"]
                  /\ loginStatus' = [loginStatus EXCEPT ![a] = "LoggedOut"]
                  /\ fiber' = [fiber EXCEPT ![a] = "wait"]
                  /\ method' = [method EXCEPT ![a] = "Unknown"]
                  /\ token' = [token EXCEPT ![a] = file[a]]
                  /\ UNCHANGED file

(* The application launches the account.                                   *)
Launch(a) == /\ client[a] = "none"
             /\ a \notin Asked
             /\ StartClient(a)
             /\ UNCHANGED <<creds, threadVars, uiVars, terminated, refusedSecrets, ignored>>

(* All fibers of a client that quits have ended: it is gone ...            *)
ClientEnds(a) == /\ client[a] = "quitting"
                 /\ client' = [client EXCEPT ![a] = "none"]
                 /\ fiber' = [fiber EXCEPT ![a] = "none"]
                 /\ UNCHANGED <<loginStatus, method, token, file, creds, threadVars,
                                uiVars, terminated, refusedSecrets, ignored>>

(* ... or, 15 seconds later, replaced.                                     *)
ClientRestarts(a) == /\ client[a] = "restarting"
                     /\ StartClient(a)
                     /\ UNCHANGED <<creds, threadVars, uiVars, terminated, refusedSecrets, ignored>>

-----------------------------------------------------------------------------
(* Client::quit() by the login module, whose next wait() throws.           *)
QuitClient(a, mode) == /\ client' = [client EXCEPT ![a] = mode]
                       /\ fiber' = [fiber EXCEPT ![a] = "ended"]

(* An exception that run() does not catch ends the fiber and the program.  *)
Terminate == /\ terminated' = TRUE
             /\ UNCHANGED <<client, loginVars, creds, threadVars, uiVars, refusedSecrets, ignored>>

(* InteractiveSessionException: CredentialsSession::run() quits the client *)
(* and queues the session, for a new session thread if none is running.    *)
RunSession(a) == /\ QuitClient(a, "quitting")
                 /\ threadQueue' = Append(threadQueue, a)
                 /\ main' = IF main = "off" THEN "wait" ELSE main
                 /\ UNCHANGED <<fiberQueue, sessions, signal>>

(* doLogon() forgets the session and sends the refresh token.              *)
DoLogon(a) == /\ creds' = [creds EXCEPT ![a] = {}]
              /\ fiber' = [fiber EXCEPT ![a] = "wait"]

(* run() finds, whenever that may be, the connection made and the client   *)
(* logged out.                                                             *)
WakeConnected(a) == /\ fiber[a] = "wait"
                    /\ client[a] = "running"
                    /\ loginStatus[a] = "LoggedOut"
                    /\ loginStatus' = [loginStatus EXCEPT ![a] = "LoggingIn"]
                    /\ UNCHANGED <<method, token, file, uiVars, terminated, refusedSecrets,
                                   ignored>>

LogonWithToken(a) == /\ WakeConnected(a)
                     /\ token[a]
                     /\ DoLogon(a)
                     /\ UNCHANGED <<client, threadVars>>

LackPassword(a) == /\ WakeConnected(a)
                   /\ ~token[a]
                   /\ "password" \notin creds[a]
                   /\ RunSession(a)
                   /\ UNCHANGED creds

(* The public key and BeginAuthSessionViaCredentials are one request here. *)
StartAuthSession(a) == /\ WakeConnected(a)
                       /\ ~token[a]
                       /\ "password" \in creds[a]
                       /\ fiber' = [fiber EXCEPT ![a] = "begin"]
                       /\ UNCHANGED <<client, creds, threadVars>>

(* getConfirmationType(): the first of the preferred types that is allowed.*)
Preferred(allowed) ==
  Confirmations[CHOOSE k \in 1..Len(Confirmations) :
                  /\ Confirmations[k] \in allowed
                  /\ \A j \in 1..(k - 1) : Confirmations[j] \notin allowed]

(* requestCode(): poll, send the guard code, or ask for one.               *)
RequestCode(a, type, secrets) ==
  CASE type \in {"None", "DeviceConfirmation"} ->
         fiber' = [fiber EXCEPT ![a] = "poll"] /\ UNCHANGED <<client, threadVars>>
    [] type \notin {"None", "DeviceConfirmation"} /\ "code" \in secrets ->
         fiber' = [fiber EXCEPT ![a] = "guard"] /\ UNCHANGED <<client, threadVars>>
    [] OTHER -> RunSession(a)

SessionBegun(a, allowed) ==
  /\ fiber[a] = "begin"
  /\ method' = [method EXCEPT ![a] = Preferred(allowed)]
  /\ RequestCode(a, Preferred(allowed), creds[a])
  /\ UNCHANGED <<loginStatus, token, file, creds, uiVars, terminated, refusedSecrets, ignored>>

(* UnsupportedConfirmationsException.                                      *)
NoConfirmation(a) == fiber[a] = "begin" /\ Terminate

GuardAccepted(a) == /\ fiber[a] = "guard"
                    /\ fiber' = [fiber EXCEPT ![a] = "poll"]
                    /\ UNCHANGED <<client, loginStatus, method, token, file, creds, threadVars,
                                   uiVars, terminated, refusedSecrets, ignored>>

(* sendGuardCode(): a wrong code is cleared and requestCode() called again.*)
GuardRefused(a) ==
  /\ fiber[a] = "guard"
  /\ creds' = [creds EXCEPT ![a] = @ \ {"code"}]
  /\ refusedSecrets' = [refusedSecrets EXCEPT ![a] = @ \cup {"code"}]
  /\ RequestCode(a, method[a], creds'[a])
  /\ UNCHANGED <<loginStatus, method, token, file, uiVars, terminated, ignored>>

(* The poll brings a token, which is stored before it is used.             *)
PollSucceeds(a) ==
  /\ fiber[a] = "poll"
  /\ token' = [token EXCEPT ![a] = TRUE]
  /\ file' = [file EXCEPT ![a] = TRUE]
  /\ refusedSecrets' = [refusedSecrets EXCEPT ![a] = @ \ {"token"}]
  /\ DoLogon(a)
  /\ UNCHANGED <<client, loginStatus, method, threadVars, uiVars, terminated, ignored>>

(* No token yet: an empty one is stored, and only a confirmation on the    *)
(* user's device is waited for ...                                         *)
PollAgain(a) == /\ fiber[a] = "poll"
                /\ method[a] = "DeviceConfirmation"
                /\ file' = [file EXCEPT ![a] = FALSE]
                /\ fiber' = [fiber EXCEPT ![a] = "sleep"]
                /\ UNCHANGED <<client, loginStatus, method, token, creds, threadVars,
                               uiVars, terminated, refusedSecrets, ignored>>

(* ... else AuthenticationFailedException.                                 *)
PollFails(a) == /\ fiber[a] = "poll"
                /\ method[a] # "DeviceConfirmation"
                /\ Terminate

SleepOver(a) == /\ fiber[a] = "sleep"
                /\ fiber' = [fiber EXCEPT ![a] = "poll"]
                /\ UNCHANGED <<client, loginStatus, method, token, file, creds, threadVars,
                               uiVars, terminated, refusedSecrets, ignored>>

InRequest(a) == fiber[a] \in {"begin", "guard", "poll"}

(* UnifiedMessageClient::Error: TryAnotherCM, ServiceUnavailable ...       *)
RequestUnavailable(a) ==
  /\ InRequest(a)
  /\ QuitClient(a, "restarting")
  /\ UNCHANGED <<loginStatus, method, token, file, creds, threadVars, uiVars,
                 terminated, refusedSecrets, ignored>>

(* ... InvalidPassword, after which nobody restarts the client ...         *)
InvalidPassword(a) ==
  /\ InRequest(a)
  /\ QuitClient(a, "quitting")
  /\ creds' = [creds EXCEPT ![a] = @ \ {"password"}]
  /\ refusedSecrets' = [refusedSecrets EXCEPT ![a] = @ \cup {"password"}]
  /\ UNCHANGED <<loginStatus, method, token, file, threadVars, uiVars, terminated, ignored>>

(* ... and any other, which is thrown again.                               *)
RequestFails(a) == InRequest(a) /\ Terminate

-----------------------------------------------------------------------------
(* The answer to a logon.                                                  *)
AwaitsLogon(a) == fiber[a] = "wait" /\ loginStatus[a] = "LoggingIn"

LoggedIn(a) == /\ AwaitsLogon(a)
               /\ loginStatus' = [loginStatus EXCEPT ![a] = "LoggedIn"]
               /\ UNCHANGED <<client, fiber, method, token, file, creds, threadVars,
                              uiVars, terminated, refusedSecrets, ignored>>

(* InvalidPassword, InvalidSignature, Expired: loginFailed() removes the   *)
(* token from the file.                                                    *)
LoginFailed(a) ==
  /\ AwaitsLogon(a)
  /\ file' = [file EXCEPT ![a] = FALSE]
  /\ refusedSecrets' = [refusedSecrets EXCEPT ![a] = @ \cup {"token"}]
  /\ QuitClient(a, "restarting")
  /\ UNCHANGED <<loginStatus, method, token, creds, threadVars, uiVars, terminated, ignored>>

LogonUnavailable(a) ==
  /\ AwaitsLogon(a)
  /\ QuitClient(a, "restarting")
  /\ UNCHANGED <<loginStatus, method, token, file, creds, threadVars, uiVars,
                 terminated, refusedSecrets, ignored>>

(* Every other result fails an assertion.                                  *)
LogonAsserts(a) == AwaitsLogon(a) /\ Terminate

-----------------------------------------------------------------------------
(* The session thread.                                                     *)

(* The comm fiber takes over what the clients have queued.                 *)
Communicate == /\ main # "off"
               /\ threadQueue # <<>>
               /\ fiberQueue' = fiberQueue \o threadQueue
               /\ threadQueue' = <<>>
               /\ signal' = TRUE
               /\ UNCHANGED <<client, loginVars, creds, sessions, main, uiVars, terminated,
                              refusedSecrets, ignored>>

Answered(s) == \E k \in 1..Len(s) : prompt[s[k].account] = "answered"

(* The main fiber's wait() returns.                                        *)
MainWakes == /\ main = "wait"
             /\ signal \/ Answered(sessions)
             /\ signal' = FALSE
             /\ main' = "launch"
             /\ UNCHANGED <<client, loginVars, creds, threadQueue, fiberQueue, sessions, uiVars,
                            terminated, refusedSecrets, ignored>>

(* input->cancel() reaches the UI only while it shows the prompt.          *)
Withdraw(p, as) ==
  [a \in Accounts |-> IF UiCancels /\ a \in as /\ p[a] = "open" THEN "withdrawn" ELSE p[a]]

(* launchSessions(): emplace_back() asks the UI.  When the vector must     *)
(* grow its elements are copied, and the old copies' destructors cancel    *)
(* their inputs.                                                           *)
LaunchSession(grows) ==
  LET a == Head(fiberQueue)
      type == IF "password" \notin creds[a] THEN "password" ELSE "code"
  IN  /\ main = "launch"
      /\ fiberQueue # <<>>
      /\ fiberQueue' = Tail(fiberQueue)
      /\ sessions' = Append(sessions, [account |-> a, type |-> type])
      /\ uiQueue' = Append(uiQueue, a)
      /\ prompt' = [IF grows THEN Withdraw(prompt, AccountsOf(sessions)) ELSE prompt
                      EXCEPT ![a] = "queued"]
      /\ UNCHANGED <<client, loginVars, creds, threadQueue, main, signal, terminated,
                     refusedSecrets, ignored>>

SessionsLaunched == /\ main = "launch"
                    /\ fiberQueue = <<>>
                    /\ main' = "handle"
                    /\ UNCHANGED <<client, loginVars, creds, threadQueue, fiberQueue, sessions, signal,
                                   uiVars, terminated, refusedSecrets, ignored>>

(* SteamBot::erase(): the last element is copied over the erased one, and  *)
(* then destroyed.                                                         *)
EraseAt(s, k) == IF k = Len(s) THEN Front(s) ELSE Front([s EXCEPT ![k] = Last(s)])

(* handleInputs(): a session with an answer is erased and its client       *)
(* launched, which does nothing if the old client is still active.         *)
HandleInput(k) ==
  LET a == sessions[k].account
  IN  /\ main = "handle"
      /\ prompt[a] = "answered"
      /\ creds' = [creds EXCEPT ![a] = @ \cup {sessions[k].type}]
      /\ refusedSecrets' = [refusedSecrets EXCEPT ![a] = @ \ {sessions[k].type}]
      /\ \/ client[a] = "none" /\ StartClient(a) /\ UNCHANGED ignored
         \/ client[a] # "none" /\ ignored' = TRUE /\ UNCHANGED <<client, loginVars>>
      /\ sessions' = EraseAt(sessions, k)
      /\ prompt' = [Withdraw(prompt, {Last(sessions).account}) EXCEPT ![a] = "none"]
      /\ UNCHANGED <<threadQueue, fiberQueue, main, signal, uiQueue, terminated>>

(* The thread ends when nobody is left to ask about.                       *)
InputsHandled == /\ main = "handle"
                 /\ ~Answered(sessions)
                 /\ main' = IF Asked = {} THEN "off" ELSE "wait"
                 /\ UNCHANGED <<client, loginVars, creds, threadQueue, fiberQueue, sessions, signal,
                                uiVars, terminated, refusedSecrets, ignored>>

-----------------------------------------------------------------------------
(* The UI thread shows one prompt at a time ...                            *)
ShowPrompt == /\ \A a \in Accounts : prompt[a] # "open"
              /\ uiQueue # <<>>
              /\ prompt' = [prompt EXCEPT ![Head(uiQueue)] = "open"]
              /\ uiQueue' = Tail(uiQueue)
              /\ UNCHANGED <<client, loginVars, creds, threadVars, terminated, refusedSecrets,
                             ignored>>

(* ... until the user has answered it: WaiterBase::completed().            *)
Answer(a) == /\ prompt[a] = "open"
             /\ prompt' = [prompt EXCEPT ![a] = "answered"]
             /\ UNCHANGED <<client, loginVars, creds, threadVars, uiQueue, terminated, refusedSecrets,
                            ignored>>

-----------------------------------------------------------------------------
Client(a) == \/ Launch(a)
             \/ ClientEnds(a)
             \/ ClientRestarts(a)

ModuleStep(a) == \/ LogonWithToken(a)
                 \/ LackPassword(a)
                 \/ StartAuthSession(a)
                 \/ \E allowed \in (SUBSET Methods) \ {{}} : SessionBegun(a, allowed)
                 \/ NoConfirmation(a)
                 \/ GuardAccepted(a)
                 \/ GuardRefused(a)
                 \/ PollSucceeds(a)
                 \/ PollAgain(a)
                 \/ PollFails(a)
                 \/ SleepOver(a)
                 \/ RequestUnavailable(a)
                 \/ InvalidPassword(a)
                 \/ RequestFails(a)
                 \/ LoggedIn(a)
                 \/ LoginFailed(a)
                 \/ LogonUnavailable(a)
                 \/ LogonAsserts(a)

SessionThread == \/ MainWakes
                 \/ \E grows \in BOOLEAN : LaunchSession(grows)
                 \/ SessionsLaunched
                 \/ \E k \in 1..Len(sessions) : HandleInput(k)
                 \/ InputsHandled

LoginNext == /\ ~terminated
             /\ \/ \E a \in Accounts : Client(a) \/ ModuleStep(a) \/ Answer(a)
                \/ Communicate
                \/ SessionThread
                \/ ShowPrompt

LoginSpec == LoginInit /\ [][LoginNext]_authVars

(* The session thread's two fibers and the UI thread are scheduled.        *)
LoginFairness == /\ WF_authVars(~terminated /\ Communicate)
                 /\ WF_authVars(~terminated /\ SessionThread)
                 /\ WF_authVars(~terminated /\ ShowPrompt)

FairLoginSpec == LoginSpec /\ LoginFairness

-----------------------------------------------------------------------------
(* The types.                                                              *)
LoginTypeOK ==
  /\ client \in [Accounts -> {"none", "running", "quitting", "restarting"}]
  /\ loginStatus \in [Accounts -> {"LoggedOut", "LoggingIn", "LoggedIn"}]
  /\ fiber \in [Accounts -> {"none", "wait", "begin", "guard", "poll", "sleep", "ended"}]
  /\ method \in [Accounts -> Methods \cup {"Unknown"}]
  /\ token \in [Accounts -> BOOLEAN]
  /\ file \in [Accounts -> BOOLEAN]
  /\ creds \in [Accounts -> SUBSET Secrets]
  /\ threadQueue \in Seq(Accounts)
  /\ fiberQueue \in Seq(Accounts)
  /\ sessions \in Seq([account : Accounts, type : Secrets])
  /\ main \in {"off", "wait", "launch", "handle"}
  /\ signal \in BOOLEAN
  /\ uiQueue \in Seq(Accounts)
  /\ prompt \in [Accounts -> {"none", "queued", "open", "answered", "withdrawn"}]
  /\ terminated \in BOOLEAN
  /\ refusedSecrets \in [Accounts -> SUBSET (Secrets \cup {"token"})]
  /\ ignored \in BOOLEAN

(* The assertions of the two threads: credentials are sent with a password *)
(* (Login-Auth.cpp:245), a guard code only for a confirmation by code      *)
(* (:383), and launchSessions() never finds a session that lacks nothing   *)
(* (Login-Session.cpp:162), whatever the clients did to it in between.     *)
AssertionsHold ==
  /\ \A a \in Accounts : fiber[a] \in {"begin", "guard", "poll", "sleep"} => "password" \in creds[a]
  /\ \A a \in Accounts : fiber[a] = "guard" => method[a] \in {"DeviceCode", "EmailCode"}
  /\ \A a \in Range(threadQueue) \cup Range(fiberQueue) : creds[a] # Secrets

(* What the server has refused (a password, a guard code, a refresh token) *)
(* is not sent to it again, neither by that client nor by the clients that *)
(* follow it.                                                              *)
RefusedIsNotResent ==
  \A a \in Accounts : /\ fiber[a] = "begin" => "password" \notin refusedSecrets[a]
                      /\ fiber[a] = "guard" => "code" \notin refusedSecrets[a]
                      /\ AwaitsLogon(a) => "token" \notin refusedSecrets[a]

(* A session that a client has handed over is in one place until it has    *)
(* been served: on its way to the main fiber, or waiting for a prompt the  *)
(* UI has (or has withdrawn).  The session thread does not end before.     *)
NoSessionForgotten ==
  LET unserved == threadQueue \o fiberQueue \o [k \in 1..Len(sessions) |-> sessions[k].account]
  IN  /\ IsInjective(unserved)
      /\ main = "off" => unserved = <<>>
      /\ \A a \in Accounts : prompt[a] # "none" <=> a \in AccountsOf(sessions)

(* A client that hands its session over is launched again, if the user     *)
(* answers every prompt that is shown, no prompt is withdrawn and every    *)
(* old client is gone by then.                                             *)
AskedIsRestarted ==
  (/\ [](~ignored /\ ~terminated)
   /\ [](\A a \in Accounts : prompt[a] # "withdrawn")
   /\ \A a \in Accounts : []<>(prompt[a] # "open")) =>
     \A a \in Accounts : a \in Asked ~> client[a] = "running"

(* Login-Session.cpp:283, CredentialsSession::run "terminates the client,  *)
(* asks the user for whatever we need, and restarts the client".           *)
RunRestartsTheClient ==
  (/\ [](~ignored /\ ~terminated)
   /\ \A a \in Accounts : []<>(prompt[a] # "open")) =>
     \A a \in Accounts : a \in Asked ~> client[a] = "running"
=============================================================================
