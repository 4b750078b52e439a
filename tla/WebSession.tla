----------------------------- MODULE WebSession -----------------------------
(***************************************************************************)
(* Authenticated web queries of one client: the WebSession module performs *)
(* them one after the other with the cookies of its jar, getAccessToken()  *)
(* serves it and other modules, and makeQuery() and PostWithSession wait   *)
(* for the Response that names their request.                              *)
(*                                                                         *)
(* A domain or a host is the sequence of its labels, so that the suffix    *)
(* test of checkDomain() is a suffix of labels. The server (external)      *)
(* forbids a query exactly when the token in its cookie has expired.       *)
(***************************************************************************)
EXTENDS Naturals, Sequences, FiniteSets, SequencesExt

CONSTANTS
    Requests,   \* Request objects, one for each call of makeQuery()
    Posts,      \* the requests made by PostWithSession
    HostOf,     \* [Requests -> host of the url]
    Others,     \* fibers of other modules that call getAccessToken()
    MaxTokens   \* bound on the access tokens handed out

Domains == {<<"steamcommunity", "com">>, <<"steampowered", "com">>}

WebAssumption ==
    /\ Posts \subseteq Requests
    /\ \A r \in Requests : HostOf[r] \in Seq(STRING) /\ HostOf[r] # <<>>
    /\ MaxTokens \in Nat
    /\ Others \cap {"web", "nobody"} = {}

VARIABLES
    jar,         \* cookies: records of name, domain and value; 0 is the empty value
    accessToken, \* number of the token, 0 when empty
    tokenOwner,  \* who holds accessTokenMutex (and waits for a token), "nobody" if none
    tokenQueue,  \* fibers blocked on accessTokenMutex
    tokens,      \* tokens handed out so far
    expired,     \* tokens the server accepts no longer
    toModule,    \* the requestWaiter's messages
    webQueue,    \* WebSessionModule::requests
    forbidden,   \* WebSessionModule::forbidden, {} when null
    webPc,       \* where run() is: "wait", "login", "perform"; or an assertion or an exception
                 \* has ended the process: "failed" in handleRequests(), "noToken" for a token
    webSent,     \* the cookies the query that is under way carries
    waiters,     \* requests whose makeQuery() waits for an answer
    inboxes,     \* inboxes[r]: initiators of the responses r's waiter has not fetched
    performed,   \* requests in the order their final answer came in
    makerRuns    \* makerRuns[r]: times the request's queryMaker was called

tokenPart == <<accessToken, tokenOwner, tokenQueue, tokens, expired>>
callPart == <<waiters, inboxes>>
webVars == <<jar, accessToken, tokenOwner, tokenQueue, tokens, expired, toModule, webQueue,
             forbidden, webPc, webSent, waiters, inboxes, performed, makerRuns>>

WebInit ==
    /\ jar = {} /\ accessToken = 0 /\ tokenOwner = "nobody" /\ tokenQueue = {}
    /\ tokens = 0 /\ expired = {}
    /\ toModule = <<>> /\ webQueue = <<>> /\ forbidden = {} /\ webPc = "wait" /\ webSent = {}
    /\ waiters = {} /\ inboxes = [r \in Requests |-> <<>>] /\ performed = <<>>
    /\ makerRuns = [r \in Requests |-> 0]

----------------------------------------------------------------------------
\* The cookie jar. checkDomain(): the domain (kept with a leading dot) is the
\* host itself or ends it.
CheckDomain(host, domain) == domain # <<>> /\ IsSuffix(domain, host)

SameCookie(c, d) == c.name = d.name /\ c.domain = d.domain

\* store(): an empty value removes the cookie it matches, any other replaces it;
\* a cookie that matches none is added even when its value is empty.
Store(cookies, c) ==
    LET old == {d \in cookies : SameCookie(c, d)}
    IN IF old # {} /\ c.value = 0 THEN cookies \ old ELSE (cookies \ old) \cup {c}

\* get(url, name): the values of that name that go to the host.
ValuesOf(cookies, host, name) ==
    {c.value : c \in {d \in cookies : d.name = name /\ CheckDomain(host, d.domain)}}

\* WebSessionModule::setCookie(): one cookie for each of the two domains.
SetCookie(cookies, name, value) ==
    LET For(d) == [name |-> name, domain |-> d, value |-> value]
    IN Store(Store(cookies, For(<<"steamcommunity", "com">>)), For(<<"steampowered", "com">>))

\* The cookies that go with a query to the host.
CookiesFor(cookies, host) == {c \in cookies : CheckDomain(host, c.domain)}

----------------------------------------------------------------------------
\* getAccessToken(): the mutex is held while the token is asked for.
TakeToken(f) ==
    /\ f # tokenOwner /\ f \notin tokenQueue
    /\ IF tokenOwner # "nobody"
       THEN tokenQueue' = tokenQueue \cup {f} /\ UNCHANGED <<accessToken, tokenOwner, tokens,
                                                             expired>>
       ELSE /\ accessToken = 0 /\ tokens < MaxTokens
            /\ tokenOwner' = f /\ UNCHANGED <<accessToken, tokenQueue, tokens, expired>>

\* The answer to GenerateAccessTokenForApp holds a token. Those who waited for the mutex
\* find the token there.
TokenArrives ==
    /\ tokenOwner # "nobody"
    /\ tokens' = tokens + 1 /\ accessToken' = tokens'
    /\ tokenOwner' = "nobody" /\ tokenQueue' = {}
    /\ IF "web" \in {tokenOwner} \cup tokenQueue
       THEN jar' = SetCookie(jar, "steamLoginSecure", tokens') /\ webPc' = "perform"
       ELSE UNCHANGED <<jar, webPc>>
    /\ UNCHANGED <<expired, toModule, webQueue, forbidden, webSent, callPart, performed, makerRuns>>

\* execute() throws an Error, which releases the mutex: MyClaim catches it, and whoever
\* waited for the mutex next finds no token and asks as well; nothing catches it in run().
TokenRefused ==
    /\ tokenOwner # "nobody"
    /\ \/ /\ tokenOwner = "web" /\ webPc' = "noToken"
          /\ UNCHANGED <<tokenOwner, tokenQueue>>
       \/ /\ tokenOwner \in Others /\ tokenQueue = {} /\ tokenOwner' = "nobody"
          /\ UNCHANGED <<tokenQueue, webPc>>
       \/ /\ tokenOwner \in Others /\ tokenOwner' \in tokenQueue
          /\ tokenQueue' = tokenQueue \ {tokenOwner'} /\ UNCHANGED webPc
    /\ UNCHANGED <<jar, accessToken, tokens, expired, toModule, webQueue, forbidden, webSent,
                   callPart, performed, makerRuns>>

\* The answer has no token: assert(!accessToken.empty()), whoever asked
TokenMissing ==
    /\ tokenOwner # "nobody" /\ webPc' = "noToken"
    /\ UNCHANGED <<jar, tokenPart, toModule, webQueue, forbidden, webSent, callPart, performed,
                   makerRuns>>

OtherAsksForToken(f) ==
    /\ f \in Others /\ (accessToken = 0 \/ tokenOwner # "nobody")
    /\ TakeToken(f)
    /\ UNCHANGED <<jar, toModule, webQueue, forbidden, webPc, webSent, callPart, performed,
                   makerRuns>>

\* The server (external) stops accepting the tokens it has handed out.
TokenExpires ==
    /\ accessToken # 0 /\ accessToken \notin expired
    /\ expired' = 1..tokens
    /\ UNCHANGED <<jar, accessToken, tokenOwner, tokenQueue, tokens, toModule, webQueue, forbidden,
                   webPc, webSent, callPart, performed, makerRuns>>

----------------------------------------------------------------------------
\* makeQuery(): the waiter is there before the request is sent.
MakeQuery(r) ==
    /\ r \notin waiters /\ makerRuns[r] = 0 /\ r \notin Range(toModule \o webQueue)
    /\ waiters' = waiters \cup {r} /\ toModule' = Append(toModule, r)
    /\ UNCHANGED <<jar, tokenPart, webQueue, forbidden, webPc, webSent, inboxes, performed,
                   makerRuns>>

\* makeQuery()'s loop: the next Response, which ends the call if it is for it.
FetchResponse(r) ==
    /\ r \in waiters /\ inboxes[r] # <<>>
    /\ IF Head(inboxes[r]) = r
       THEN waiters' = waiters \ {r} /\ inboxes' = [inboxes EXCEPT ![r] = <<>>]
       ELSE inboxes' = [inboxes EXCEPT ![r] = Tail(@)] /\ UNCHANGED waiters
    /\ UNCHANGED <<jar, tokenPart, toModule, webQueue, forbidden, webPc, webSent, performed,
                   makerRuns>>

\* run() takes every message there is and begins handleRequests(): the timezone
\* cookie, then the login cookie, for which it may have to wait.
ModuleWakes ==
    LET zone == SetCookie(jar, "timezoneOffset", 1)
    IN /\ webPc = "wait" /\ toModule # <<>>
       /\ webQueue' = webQueue \o toModule /\ toModule' = <<>>
       /\ IF accessToken # 0 /\ tokenOwner = "nobody"
          THEN /\ jar' = SetCookie(zone, "steamLoginSecure", accessToken)
               /\ webPc' = "perform" /\ UNCHANGED tokenPart
          ELSE jar' = zone /\ webPc' = "login" /\ TakeToken("web")
       /\ UNCHANGED <<forbidden, webSent, callPart, performed, makerRuns>>

\* getSessionId(url): the jar's sessionid for the host, made up if there is none.
WithSessionId(cookies, host) ==
    IF ValuesOf(cookies, host, "sessionid") \subseteq {0}
    THEN Store(cookies, [name |-> "sessionid", domain |-> host, value |-> 1]) ELSE cookies

\* The loop of handleRequests(): the front request's queryMaker makes a query that
\* gets the jar.
Perform ==
    /\ webPc = "perform" /\ webQueue # <<>> /\ webSent = {}
    /\ LET r == Head(webQueue)
           used == IF r \in Posts THEN WithSessionId(jar, HostOf[r]) ELSE jar
       IN /\ jar' = used /\ webSent' = {CookiesFor(used, HostOf[r])}
          /\ makerRuns' = [makerRuns EXCEPT ![r] = @ + 1]
    /\ UNCHANGED <<tokenPart, toModule, webQueue, forbidden, webPc, callPart, performed>>

\* Whether the server (external) refuses the cookies the query carries.
Refused(cookies) == \E c \in cookies : c.name = "steamLoginSecure" /\ c.value \in expired

\* A response other than 403: every makeQuery() that waits gets it.
Answered ==
    /\ webPc = "perform" /\ webSent # {}
    /\ ~\E s \in webSent : Refused(s)
    /\ LET r == Head(webQueue)
           stays == forbidden \ {r}
       IN IF stays # {} THEN webPc' = "failed" /\ UNCHANGED <<forbidden, webQueue, inboxes,
                                                              performed>>
          ELSE /\ forbidden' = {} /\ webQueue' = Tail(webQueue)
               /\ inboxes' = [q \in Requests |-> IF q \in waiters THEN Append(inboxes[q], r) ELSE <<>>]
               /\ performed' = Append(performed, r)
               /\ webPc' = IF webQueue' = <<>> THEN "wait" ELSE "perform"
    /\ webSent' = {}
    /\ UNCHANGED <<jar, tokenPart, toModule, waiters, makerRuns>>

\* A 403: the token is dropped and the same request is performed again. The cookie
\* in the jar is not replaced before handleRequests() is called the next time.
Forbidden ==
    /\ webPc = "perform" /\ webSent # {} /\ \E s \in webSent : Refused(s)
    /\ IF forbidden # {} THEN webPc' = "failed" /\ UNCHANGED <<forbidden, accessToken>>
       ELSE forbidden' = {Head(webQueue)} /\ accessToken' = 0 /\ UNCHANGED webPc
    /\ webSent' = {}
    /\ UNCHANGED <<jar, tokenOwner, tokenQueue, tokens, expired, toModule, webQueue, callPart,
                   performed, makerRuns>>

WebEnded == webPc \in {"failed", "noToken"}

WebNext ==
    /\ ~WebEnded
    /\ \/ \E r \in Requests : MakeQuery(r) \/ FetchResponse(r)
       \/ \E f \in Others : OtherAsksForToken(f)
       \/ TokenArrives \/ TokenRefused \/ TokenMissing \/ TokenExpires
       \/ ModuleWakes \/ Perform \/ Answered \/ Forbidden

WebSpec == WebInit /\ [][WebNext]_webVars

----------------------------------------------------------------------------
\* Type invariant.
WebTypeOK ==
    /\ \A c \in jar : c.name \in {"timezoneOffset", "steamLoginSecure", "sessionid"}
    /\ accessToken \in 0..MaxTokens /\ tokens \in 0..MaxTokens /\ expired \subseteq 1..MaxTokens
    /\ tokenOwner \in Others \cup {"web", "nobody"} /\ tokenQueue \subseteq Others \cup {"web"}
    /\ webPc \in {"wait", "login", "perform", "failed", "noToken"}
    /\ waiters \subseteq Requests /\ forbidden \subseteq Requests

\* As long as the process runs, a caller of makeQuery() can still get its answer: its
\* request is on its way to the module, in the module's queue, or answered in the caller's
\* own inbox; the module has something to perform or, if it wants a token, is asking for it
\* or waits for the mutex that another holds, also when the other's request was refused
\* (WebSession.cpp:121-145, 245-277, 305-329).
QueriesAreServed ==
    ~WebEnded =>
        /\ \A r \in waiters : r \in Range(toModule \o webQueue) \/ r \in Range(inboxes[r])
        /\ webPc = "login" => "web" \in {tokenOwner} \cup tokenQueue
        /\ tokenQueue # {} => tokenOwner # "nobody"
        /\ webQueue # <<>> => webPc # "wait"

\* Two fibers never ask for a token at the same time, and whoever waited uses the
\* one that came: fetching a token always starts from an empty one, and a query
\* carries the login cookie exactly once (WebSession.cpp:121-145, 219-234).
OneTokenAtATime ==
    /\ tokenOwner # "nobody" => accessToken = 0
    /\ tokenQueue # {} => tokenOwner # "nobody"
    /\ \A s \in webSent : Cardinality({c \in s : c.name = "steamLoginSecure"}) <= 1

\* A request that was forbidden is asked for again with a new access token, and
\* being forbidden twice does not happen (WebSession.cpp:271-274: the token is
\* cleared and the code asserts that it was not forbidden before). TLC finds it
\* violated: the request that is performed again gets the cookie of the old token.
ForbiddenOnce == webPc # "failed"

\* An assertion of handleRequests() ends the process only when the cookie in the jar is that
\* of a refused token: a request that carries a token the server accepts is answered however
\* often tokens expire. And want of a token ends it only when a request for one fails while
\* there is none, never for a fiber that finds a token (WebSession.cpp:121-145, 245-277).
EndsForATokenOnly ==
    /\ webPc = "failed" => \E c \in jar : c.name = "steamLoginSecure" /\ c.value \in expired
    /\ webPc = "noToken" => tokenOwner # "nobody" /\ accessToken = 0

=============================================================================
