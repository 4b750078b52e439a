------------------------------ MODULE Presence ------------------------------
(***************************************************************************)
(* The small modules that keep a logged-in client present: Heartbeat sends *)
(* a message when none has been sent for a while, PersonaState goes online *)
(* once, ClientAppList answers a question of the server, LoginTracking     *)
(* records logins in the account's data file, and TradeToken stores the    *)
(* trade token there. They share the whiteboard's LoginStatus and the      *)
(* connection module's outgoing messages.                                  *)
(*                                                                         *)
(* Time passes in ticks, which wait for a timeout that is due: a fiber is  *)
(* never late by more than the model's granularity.                        *)
(***************************************************************************)
EXTENDS Naturals, Sequences, FiniteSets

CONSTANTS
    Interval,  \* HeartbeatInterval in ticks
    MaxClock,   \* bound on the clock
    MaxOutgoing \* bound on the messages other modules send

PresenceAssumption ==
    Interval \in Nat \ {0} /\ MaxClock \in Nat \ {0} /\ MaxOutgoing \in Nat

VARIABLES
    clock, loginState, clientGone, \* time, LoginStatus, and that the client has been cancelled
    outgoing,     \* SendSteamMessages the connection has not sent
    extra,        \* messages of other modules so far
    lastSent,     \* time of LastMessageSent, {} when there is none
    sentChanged,  \* Heartbeat's item for LastMessageSent is changed
    beatDue,      \* when Heartbeat's wait times out, {} when it does not wait for that
    beatsSince,   \* when Heartbeat began to watch, {} before that (history)
    present,      \* modules that are past waitForLogin()
    online,       \* CMsgClientChangeStatus messages sent
    appLists,     \* requests for the app list minus the answers
    statusWoken,  \* LoginTracking's item is changed
    loginTime,    \* LoginTracking's loginTime, {} when zero
    lastLogin,    \* the data file: "Last login", {} when there is none
    tradeToken    \* the data file's token: "none", "old" or "new"

trackVars == <<statusWoken, loginTime, lastLogin>>
beatVars == <<lastSent, sentChanged, beatDue, beatsSince>>
presenceVars == <<clock, loginState, clientGone, outgoing, extra, lastSent, sentChanged, beatDue,
                  beatsSince,
                  present, online, appLists, statusWoken, loginTime, lastLogin, tradeToken>>

PresenceInit ==
    /\ clock = 1 /\ loginState = "LoggedOut" /\ clientGone = FALSE
    /\ outgoing = <<>> /\ extra = 0 /\ lastSent = {} /\ sentChanged = FALSE /\ beatDue = {}
    /\ beatsSince = {}
    /\ present = {} /\ online = 0 /\ appLists = 0
    /\ statusWoken = TRUE /\ loginTime = {} /\ lastLogin = {}
    /\ tradeToken \in {"none", "old"}

----------------------------------------------------------------------------
\* The Login module sets LoginStatus; with LoggedIn comes the HeartbeatInterval.
SetLoginStatus ==
    /\ ~clientGone /\ loginState # "LoggedIn"
    /\ loginState' = IF loginState = "LoggedOut" THEN "LoggingIn" ELSE "LoggedIn"
    /\ statusWoken' = TRUE
    /\ UNCHANGED <<clock, clientGone, outgoing, extra, beatVars, present, online, appLists,
                   loginTime,
                   lastLogin, tradeToken>>

\* Time passes, but not past a timeout or a message that waits to be sent.
Tick ==
    /\ ~clientGone /\ clock < MaxClock /\ outgoing = <<>>
    /\ \A t \in beatDue : clock < t
    /\ loginState = "LoggedIn" => "Heartbeat" \in present
    /\ ~sentChanged
    /\ clock' = clock + 1
    /\ UNCHANGED <<loginState, clientGone, outgoing, extra, beatVars, present, online, appLists,
                   trackVars,
                   tradeToken>>

\* Some module sends a message, and the connection module writes the first of them and
\* sets LastMessageSent.
OtherMessage ==
    /\ ~clientGone /\ extra < MaxOutgoing /\ extra' = extra + 1
    /\ outgoing' = Append(outgoing, "Other")
    /\ UNCHANGED <<clock, loginState, clientGone, beatVars, present, online, appLists, trackVars,
                   tradeToken>>

ConnectionSends ==
    /\ ~clientGone /\ outgoing # <<>> /\ outgoing' = Tail(outgoing)
    /\ lastSent' = {clock} /\ sentChanged' = TRUE
    /\ online' = IF Head(outgoing) = "ChangeStatus" THEN online + 1 ELSE online
    /\ appLists' = IF Head(outgoing) = "AppList" THEN appLists - 1 ELSE appLists
    /\ UNCHANGED <<clock, loginState, clientGone, extra, beatDue, beatsSince, present, trackVars,
                   tradeToken>>

----------------------------------------------------------------------------
\* waitForLogin() ends with the LoginStatus that says so.
WaitForLogin(m) == loginState = "LoggedIn" /\ m \notin present /\ present' = present \cup {m}

\* Heartbeat then waits with a timeout, PersonaState sets the state, TradeToken asks for
\* its token.
PastLogin(m) ==
    /\ ~clientGone /\ WaitForLogin(m)
    /\ IF m = "Heartbeat" THEN beatDue' = {clock + Interval} /\ beatsSince' = {clock}
       ELSE UNCHANGED <<beatDue, beatsSince>>
    /\ outgoing' = IF m = "PersonaState" THEN Append(outgoing, "ChangeStatus") ELSE outgoing
    /\ UNCHANGED <<clock, loginState, clientGone, extra, lastSent, sentChanged, online, appLists,
                   trackVars,
                   tradeToken>>

\* Heartbeat's wait times out, or ends because of LastMessageSent. Either way has()
\* resets the item and the wait begins anew.
HeartbeatWakes ==
    /\ ~clientGone /\ beatDue # {} /\ (sentChanged \/ clock \in beatDue)
    /\ outgoing' = IF ~sentChanged THEN Append(outgoing, "HeartBeat") ELSE outgoing
    /\ sentChanged' = FALSE /\ beatDue' = {clock + Interval}
    /\ UNCHANGED <<clock, loginState, clientGone, extra, lastSent, beatsSince, present, online,
                   appLists, trackVars,
                   tradeToken>>

\* CMsgClientGetClientAppList, which is answered before and after the login.
AppListRequested ==
    /\ ~clientGone /\ appLists = 0 /\ extra < MaxOutgoing /\ extra' = extra + 1
    /\ appLists' = 1 /\ outgoing' = Append(outgoing, "AppList")
    /\ UNCHANGED <<clock, loginState, clientGone, beatVars, present, online, trackVars, tradeToken>>

\* TradeTokenModule::run() gets the token and stores it if it is another one.
TokenStored ==
    /\ ~clientGone /\ "TradeToken" \in present /\ tradeToken # "new" /\ tradeToken' = "new"
    /\ UNCHANGED <<clock, loginState, clientGone, outgoing, extra, beatVars, present, online,
                   appLists,
                   trackVars>>

----------------------------------------------------------------------------
\* LoginTracking::update(): the file learns when the login was and how long ago.
Update(t) == lastLogin' = IF t = {} THEN lastLogin
                          ELSE {[when |-> w, duration |-> clock - w] : w \in t}

TrackerWakes ==
    /\ ~clientGone /\ statusWoken /\ statusWoken' = FALSE
    /\ CASE loginState = "LoggedOut" -> Update(loginTime) /\ loginTime' = {}
         [] loginState = "LoggingIn" -> UNCHANGED <<loginTime, lastLogin>>
         [] loginState = "LoggedIn" ->
              IF loginTime = {} THEN loginTime' = {clock} /\ Update(loginTime')
              ELSE UNCHANGED <<loginTime, lastLogin>>
    /\ UNCHANGED <<clock, loginState, clientGone, outgoing, extra, beatVars, present, online,
                   appLists,
                   tradeToken>>

\* The client is cancelled: every fiber ends, the tracker after a last update.
Cancelled ==
    /\ ~clientGone /\ clientGone' = TRUE /\ Update(loginTime)
    /\ beatDue' = {}
    /\ UNCHANGED <<clock, loginState, outgoing, extra, lastSent, sentChanged, beatsSince,
                   present, online, appLists,
                   statusWoken, loginTime, tradeToken>>

PresenceNext ==
    \/ SetLoginStatus \/ Tick \/ OtherMessage \/ ConnectionSends
    \/ \E m \in {"Heartbeat", "PersonaState", "TradeToken"} : PastLogin(m)
    \/ HeartbeatWakes \/ AppListRequested \/ TokenStored \/ TrackerWakes \/ Cancelled

PresenceSpec == PresenceInit /\ [][PresenceNext]_presenceVars

----------------------------------------------------------------------------
\* Type invariant.
PresenceTypeOK ==
    /\ clock \in 1..MaxClock /\ loginState \in {"LoggedOut", "LoggingIn", "LoggedIn"}
    /\ lastSent \subseteq 1..MaxClock /\ loginTime \subseteq 1..MaxClock
    /\ online \in {0, 1} /\ appLists \in {0, 1}

\* A logged-in client is never silent for longer than the heartbeat interval, however
\* its own messages fall between the heartbeats (Heartbeat.cpp:44-74).
NeverSilent ==
    ~clientGone /\ outgoing = <<>> =>
        \A s \in beatsSince : \E t \in {s} \cup lastSent : t >= s /\ clock - t <= Interval

\* After the client the data file holds the time it logged in and how long it stayed,
\* if its tracker saw the login at all (LoginTracking.cpp:83-145).
LoginIsRecorded ==
    clientGone /\ loginTime # {} => lastLogin = {[when |-> w, duration |-> clock - w] : w \in loginTime}

=============================================================================
