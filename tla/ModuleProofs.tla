---------------------------- MODULE ModuleProofs ----------------------------
(***************************************************************************)
(* Proofs about the modules above the connection and the transport below   *)
(* it, for any packages, apps, items, offers, pages, requests and fibers.  *)
(***************************************************************************)
EXTENDS
    WaitingProofs, WebSession, UnifiedMessages, Transport, LicenseFlow, AppInfoCache,
    PackageNames, InventoryFlow, TradeOffers, TradePages

-----------------------------------------------------------------------------
(* WebSession                                                              *)

(* The cookies a jar can hold, at most one of a name for each domain.      *)
CookieNames == {"timezoneOffset", "steamLoginSecure", "sessionid"}
CookiesOK(kept) ==
  /\ \A c \in kept : /\ c.name \in CookieNames
                     /\ c.name = "steamLoginSecure" => c.domain \in Domains
  /\ \A c, d \in kept : SameCookie(c, d) => c = d

(* Tokens are numbers that are counted up, and one fiber asks for the next. *)
TokenInv ==
  /\ tokens \in 0..MaxTokens /\ accessToken \in 0..tokens /\ expired \subseteq 1..tokens
  /\ tokenOwner \in Others \cup {"web", "nobody"} /\ tokenQueue \subseteq Others \cup {"web"}
  /\ tokenOwner # "nobody" => accessToken = 0 /\ tokens < MaxTokens
  /\ tokenQueue # {} => tokenOwner # "nobody"
  /\ "web" \in {tokenOwner} \cup tokenQueue => webPc \in {"login", "noToken"}
  /\ webPc = "login" => "web" \in {tokenOwner} \cup tokenQueue
  /\ webPc = "noToken" => tokenOwner # "nobody"

(* A query carries cookies of the jar, and one login cookie at most.       *)
SentInv ==
  /\ CookiesOK(jar)
  /\ webPc \in {"wait", "login", "perform", "failed", "noToken"}
  /\ webQueue # <<>> => webPc # "wait"
  /\ webSent # {} => webPc \in {"perform", "noToken"} /\ webQueue # <<>>
  /\ \A s \in webSent :
       /\ s \subseteq jar
       /\ \A c, d \in s : c.name = "steamLoginSecure" /\ d.name = "steamLoginSecure" => c = d

(* The request that was refused is the first.                              *)
ForbiddenInv ==
  /\ toModule \in Seq(Requests) /\ webQueue \in Seq(Requests)
  /\ forbidden # {} => webQueue # <<>> /\ forbidden = {Head(webQueue)} /\ webPc # "wait"
  /\ webPc = "failed" => \E c \in jar : c.name = "steamLoginSecure" /\ c.value \in expired

(* Responses wait for the callers of makeQuery().                          *)
ServedInv ==
  /\ waiters \subseteq Requests /\ inboxes \in [Requests -> Seq(Requests)]
  /\ \A r \in waiters : \/ r \in Range(toModule) \cup Range(webQueue)
                        \/ r \in Range(inboxes[r])

(* CookieJar::store() keeps at most one cookie of a name for each domain.  *)
LEMMA StoreOK ==
  ASSUME NEW kept, CookiesOK(kept),
         NEW name \in CookieNames, NEW domain, NEW val,
         name = "steamLoginSecure" => domain \in Domains
  PROVE  CookiesOK(Store(kept, [name |-> name, domain |-> domain, value |-> val]))
<1> DEFINE c == [name |-> name, domain |-> domain, value |-> val]
           rest == {d \in kept : ~SameCookie(c, d)}
<1>1. kept \ {d \in kept : SameCookie(c, d)} = rest
  OBVIOUS
<1>2. Store(kept, c) \in {rest, rest \cup {c}}
  BY <1>1 DEF Store
<1>3. CookiesOK(rest)
  BY DEF CookiesOK
<1>4. CookiesOK(rest \cup {c})
  BY DEF CookiesOK, SameCookie
<1>5. QED
  BY <1>2, <1>3, <1>4

(* setCookie() stores a cookie for both domains.                           *)
LEMMA SetCookieOK ==
  ASSUME NEW kept, CookiesOK(kept), NEW name \in CookieNames, NEW val
  PROVE  CookiesOK(SetCookie(kept, name, val))
<1> DEFINE c == [name |-> name, domain |-> <<"steamcommunity", "com">>, value |-> val]
           d == [name |-> name, domain |-> <<"steampowered", "com">>, value |-> val]
<1>1. CookiesOK(Store(kept, c))
  BY StoreOK DEF Domains
<1>2. CookiesOK(Store(Store(kept, c), d))
  BY <1>1, StoreOK DEF Domains
<1>3. QED
  BY <1>2 DEF SetCookie

(* No host ends with both domains.                                         *)
LEMMA OneDomain ==
  ASSUME NEW host \in Seq(STRING), NEW d \in Domains, NEW e \in Domains,
         CheckDomain(host, d), CheckDomain(host, e)
  PROVE  d = e
<1>1. ASSUME NEW f \in Domains, CheckDomain(host, f)
      PROVE  host[Len(host) - 1] = f[1]
  <2>1. f \in Seq({f[1], f[2]}) /\ Len(f) = 2
    <3>1. PICK a, b : f = <<a, b>>
      BY DEF Domains
    <3>2. <<a, b>> \in Seq({a, b}) /\ Len(<<a, b>>) = 2 /\ <<a, b>>[1] = a /\ <<a, b>>[2] = b
      OBVIOUS
    <3>3. QED
      BY <3>1, <3>2
  <2>2. Len(host) \in Nat
    OBVIOUS
  <2>3. /\ Len(Reverse(f)) = 2 /\ Reverse(f) \in Seq({f[1], f[2]}) /\ Reverse(f)[2] = f[1]
        /\ Reverse(host) \in Seq(STRING) /\ Len(Reverse(host)) = Len(host)
        /\ 2 <= Len(host) => Reverse(host)[2] = host[Len(host) - 1]
    BY <2>1, <2>2, ReverseFacts
  <2>4. 2 <= Len(host) /\ SubSeq(Reverse(f), 1, 2) = SubSeq(Reverse(host), 1, 2)
    BY <1>1, <2>3 DEF CheckDomain, IsSuffix, IsPrefix
  <2>5. /\ SubSeq(Reverse(f), 1, 2)[2] = Reverse(f)[2]
        /\ SubSeq(Reverse(host), 1, 2)[2] = Reverse(host)[2]
    BY <2>2, <2>3, <2>4
  <2>6. QED
    BY <2>3, <2>4, <2>5
<1>2. d[1] = e[1]
  BY <1>1
<1>3. QED
  BY <1>2 DEF Domains

(* The cookies for a host have at most one that logs in: no host ends with *)
(* both domains.                                                           *)
LEMMA OneLoginCookie ==
  ASSUME NEW kept, CookiesOK(kept), NEW host \in Seq(STRING)
  PROVE  \A c, d \in CookiesFor(kept, host) :
           c.name = "steamLoginSecure" /\ d.name = "steamLoginSecure" => c = d
<1>1. ASSUME NEW c \in CookiesFor(kept, host), NEW d \in CookiesFor(kept, host),
             c.name = "steamLoginSecure", d.name = "steamLoginSecure"
      PROVE  c = d
  <2>1. c \in kept /\ d \in kept /\ CheckDomain(host, c.domain) /\ CheckDomain(host, d.domain)
    BY DEF CookiesFor
  <2>2. c.domain \in Domains /\ d.domain \in Domains
    BY <1>1, <2>1 DEF CookiesOK
  <2>3. c.domain = d.domain
    BY <2>1, <2>2, OneDomain
  <2>4. QED
    BY <1>1, <2>1, <2>3 DEF CookiesOK, SameCookie
<1>2. QED
  BY <1>1

(* The steps of web sessions, one disjunct for each.                       *)
LEMMA WebCases ==
  ASSUME [WebNext]_webVars
  PROVE  \/ \E r \in Requests : MakeQuery(r) \/ FetchResponse(r)
         \/ \E f \in Others : OtherAsksForToken(f)
         \/ (TokenArrives \/ TokenRefused \/ TokenMissing) /\ ~WebEnded
         \/ TokenExpires
         \/ ModuleWakes \/ Perform \/ Answered \/ Forbidden
         \/ UNCHANGED webVars
BY DEF WebNext

(* Only the fiber that asks for a token may store one, and nobody asks     *)
(* while another does.                                                     *)
LEMMA TokenStep ==
  ASSUME WebAssumption, TokenInv, [WebNext]_webVars
  PROVE  TokenInv'
<1>1. ASSUME NEW r \in Requests, MakeQuery(r) \/ FetchResponse(r)
      PROVE  TokenInv'
  BY <1>1 DEF MakeQuery, FetchResponse, TokenInv, tokenPart
<1>2. ASSUME NEW f \in Others, OtherAsksForToken(f)
      PROVE  TokenInv'
  BY <1>2 DEF OtherAsksForToken, TakeToken, TokenInv, WebAssumption
<1>3. CASE TokenArrives /\ ~WebEnded
  BY <1>3 DEF TokenArrives, TokenInv, WebAssumption, WebEnded
<1>a. CASE TokenRefused /\ ~WebEnded
  <2>1. /\ UNCHANGED <<accessToken, tokens, expired>> /\ webPc \notin {"failed", "noToken"}
        /\ \/ tokenOwner = "web" /\ webPc' = "noToken" /\ UNCHANGED <<tokenOwner, tokenQueue>>
           \/ tokenOwner \in Others /\ tokenQueue = {} /\ tokenOwner' = "nobody"
              /\ UNCHANGED <<tokenQueue, webPc>>
           \/ tokenOwner \in Others /\ tokenOwner' \in tokenQueue
              /\ tokenQueue' = tokenQueue \ {tokenOwner'} /\ UNCHANGED webPc
    BY <1>a DEF TokenRefused, WebEnded
  <2>2. "web" # "nobody" /\ \A f \in Others : f # "web" /\ f # "nobody"
    BY DEF WebAssumption
  <2>3. QED
    BY <2>1, <2>2 DEF TokenInv
<1>b. CASE TokenMissing /\ ~WebEnded
  BY <1>b DEF TokenMissing, TokenInv, tokenPart
<1>4. CASE TokenExpires
  BY <1>4 DEF TokenExpires, TokenInv
<1>5. CASE ModuleWakes
  <2>1. CASE accessToken # 0 /\ tokenOwner = "nobody"
    BY <1>5, <2>1 DEF ModuleWakes, TokenInv, tokenPart
  <2>2. CASE ~(accessToken # 0 /\ tokenOwner = "nobody")
    <3>1. webPc' = "login" /\ TakeToken("web")
      BY <1>5, <2>2 DEF ModuleWakes
    <3>2. QED
      BY <3>1 DEF TakeToken, TokenInv, WebAssumption
  <2>3. QED
    BY <2>1, <2>2
<1>6. CASE Perform \/ Answered
  <2>1. UNCHANGED tokenPart /\ webPc = "perform" /\ webPc' \in {"wait", "perform", "failed"}
    BY <1>6 DEF Perform, Answered
  <2>2. QED
    BY <2>1 DEF TokenInv, tokenPart
<1>7. CASE Forbidden
  BY <1>7 DEF Forbidden, TokenInv
<1>8. CASE UNCHANGED webVars
  BY <1>8 DEF webVars, TokenInv
<1>9. QED
  BY <1>1, <1>2, <1>3, <1>a, <1>b, <1>4, <1>5, <1>6, <1>7, <1>8, WebCases

(* What a query carries is what the jar had when it was sent.              *)
LEMMA SentStep ==
  ASSUME WebAssumption, TokenInv, SentInv, toModule \in Seq(Requests), webQueue \in Seq(Requests),
         [WebNext]_webVars
  PROVE  SentInv'
<1>1. CASE UNCHANGED <<jar, webPc, webSent, webQueue>>
  BY <1>1 DEF SentInv
<1>2. CASE TokenArrives /\ ~WebEnded
  <2>1. CASE "web" \in {tokenOwner} \cup tokenQueue
    <3>1. webSent = {} /\ webSent' = {} /\ webPc' = "perform"
      BY <1>2, <2>1 DEF TokenInv, SentInv, TokenArrives, WebEnded
    <3>2. CookiesOK(jar')
      BY <1>2, <2>1, SetCookieOK DEF SentInv, TokenArrives, CookieNames
    <3>3. QED
      BY <3>1, <3>2 DEF SentInv
  <2>2. CASE ~("web" \in {tokenOwner} \cup tokenQueue)
    BY <1>1, <1>2, <2>2 DEF TokenArrives
  <2>3. QED
    BY <2>1, <2>2
<1>a. CASE (TokenRefused \/ TokenMissing) /\ ~WebEnded
  <2>1. UNCHANGED <<jar, webSent, webQueue>> /\ (webPc' = webPc \/ webPc' = "noToken")
    BY <1>a DEF TokenRefused, TokenMissing
  <2>2. CASE webPc' = webPc
    BY <1>1, <2>1, <2>2
  <2>3. CASE webPc' = "noToken"
    BY <2>1, <2>3 DEF SentInv
  <2>4. QED
    BY <2>1, <2>2, <2>3
<1>3. CASE ModuleWakes
  <2>1. webSent' = {} /\ webPc' \in {"login", "perform"}
    BY <1>3 DEF ModuleWakes, SentInv
  <2>2. CookiesOK(SetCookie(jar, "timezoneOffset", 1))
    BY SetCookieOK DEF SentInv, CookieNames
  <2>3. CookiesOK(SetCookie(SetCookie(jar, "timezoneOffset", 1), "steamLoginSecure", accessToken))
    BY <2>2, SetCookieOK DEF CookieNames
  <2>4. CookiesOK(jar')
    BY <1>3, <2>2, <2>3 DEF ModuleWakes
  <2>5. QED
    BY <2>1, <2>4 DEF SentInv
<1>4. CASE Perform
  <2>1. PICK used : /\ \/ used = jar
                       \/ used = Store(jar, [name |-> "sessionid", domain |-> HostOf[Head(webQueue)], value |-> 1])
                    /\ jar' = used /\ webSent' = {CookiesFor(used, HostOf[Head(webQueue)])}
    BY <1>4 DEF Perform, WithSessionId
  <2>2. CookiesOK(used)
    BY <2>1, StoreOK DEF SentInv, CookieNames
  <2>3. webPc' = "perform" /\ webQueue' # <<>> /\ Head(webQueue) \in Requests
    BY <1>4 DEF Perform
  <2>4. \A c, d \in CookiesFor(used, HostOf[Head(webQueue)]) :
          c.name = "steamLoginSecure" /\ d.name = "steamLoginSecure" => c = d
    BY <2>2, <2>3, OneLoginCookie DEF WebAssumption
  <2>5. CookiesFor(used, HostOf[Head(webQueue)]) \subseteq used
    BY DEF CookiesFor
  <2>6. QED
    BY <2>1, <2>2, <2>3, <2>4, <2>5 DEF SentInv
<1>5. CASE Answered \/ Forbidden
  <2>1. /\ webSent' = {} /\ jar' = jar /\ webPc' \in {"wait", "perform", "failed"}
        /\ webQueue' # <<>> => webPc' # "wait"
    BY <1>5 DEF Answered, Forbidden
  <2>2. QED
    BY <2>1 DEF SentInv
<1>6. ASSUME NEW r \in Requests, MakeQuery(r) \/ FetchResponse(r)
      PROVE  SentInv'
  BY <1>1, <1>6 DEF MakeQuery, FetchResponse
<1>7. ASSUME NEW f \in Others, OtherAsksForToken(f)
      PROVE  SentInv'
  BY <1>1, <1>7 DEF OtherAsksForToken
<1>8. CASE TokenExpires
  BY <1>1, <1>8 DEF TokenExpires
<1>9. CASE UNCHANGED webVars
  BY <1>1, <1>9 DEF webVars
<1>10. QED
  BY <1>2, <1>a, <1>3, <1>4, <1>5, <1>6, <1>7, <1>8, <1>9, WebCases

(* The request that failed stays in front until its query is repeated or   *)
(* answered.                                                               *)
LEMMA ForbiddenStep ==
  ASSUME TokenInv, SentInv, ForbiddenInv, [WebNext]_webVars
  PROVE  ForbiddenInv'
<1>1. ASSUME NEW r \in Requests, MakeQuery(r)
      PROVE  ForbiddenInv'
  BY <1>1 DEF MakeQuery, ForbiddenInv, tokenPart
<1>2. ASSUME NEW r \in Requests, FetchResponse(r)
      PROVE  ForbiddenInv'
  BY <1>2 DEF FetchResponse, ForbiddenInv, tokenPart
<1>3. ASSUME NEW f \in Others, OtherAsksForToken(f)
      PROVE  ForbiddenInv'
  <2>1. /\ UNCHANGED <<jar, toModule, webQueue, forbidden, webPc>> /\ expired' = expired
    BY <1>3 DEF OtherAsksForToken, TakeToken
  <2>2. QED
    BY <2>1 DEF ForbiddenInv
<1>4. CASE TokenArrives \/ TokenRefused \/ TokenMissing
  <2>1. CASE TokenArrives
    BY <2>1 DEF TokenArrives, ForbiddenInv
  <2>2. CASE TokenRefused \/ TokenMissing
    <3>1. UNCHANGED <<jar, expired, toModule, webQueue, forbidden>>
          /\ (webPc' = webPc \/ webPc' = "noToken")
      BY <2>2 DEF TokenRefused, TokenMissing, tokenPart
    <3>2. QED
      BY <3>1 DEF ForbiddenInv
  <2>3. QED
    BY <1>4, <2>1, <2>2
<1>5. CASE TokenExpires
  <2>1. expired \subseteq expired'
    BY <1>5 DEF TokenExpires, TokenInv
  <2>2. QED
    BY <1>5, <2>1 DEF TokenExpires, ForbiddenInv
<1>6. CASE ModuleWakes
  <2>1. webQueue \o toModule \in Seq(Requests)
    BY DEF ForbiddenInv
  <2>2. forbidden' = {} /\ webPc' # "failed"
    BY <1>6 DEF ModuleWakes, ForbiddenInv
  <2>3. QED
    BY <1>6, <2>1, <2>2 DEF ModuleWakes, ForbiddenInv
<1>7. CASE Perform
  <2>1. UNCHANGED <<toModule, webQueue, forbidden, webPc>> /\ webPc = "perform"
    BY <1>7 DEF Perform
  <2>2. QED
    BY <2>1 DEF ForbiddenInv
<1>8. CASE Answered
  <2>1. forbidden \ {Head(webQueue)} = {}
    BY <1>8 DEF ForbiddenInv
  <2>2. /\ forbidden' = {} /\ webQueue' = Tail(webQueue) /\ webPc' # "failed" /\ toModule' = toModule
    BY <1>8, <2>1 DEF Answered
  <2>3. webQueue # <<>>
    BY <1>8 DEF Answered, SentInv
  <2>4. Tail(webQueue) \in Seq(Requests)
    BY <2>3 DEF ForbiddenInv
  <2>5. QED
    BY <2>2, <2>4 DEF ForbiddenInv
<1>9. CASE Forbidden
  <2>1. \E c \in jar : c.name = "steamLoginSecure" /\ c.value \in expired
    BY <1>9 DEF Forbidden, Refused, SentInv
  <2>2. webQueue # <<>>
    BY <1>9 DEF Forbidden, SentInv
  <2>3. QED
    BY <1>9, <2>1, <2>2 DEF Forbidden, ForbiddenInv
<1>10. CASE UNCHANGED webVars
  BY <1>10 DEF webVars, ForbiddenInv
<1>11. QED
  BY <1>1, <1>2, <1>3, <1>4, <1>5, <1>6, <1>7, <1>8, <1>9, <1>10, WebCases

(* A request moves on from a place to the next one, and its caller waits   *)
(* for it there.                                                           *)
LEMMA ServedStep ==
  ASSUME SentInv, ForbiddenInv, ServedInv, [WebNext]_webVars
  PROVE  ServedInv'
<1>1. CASE UNCHANGED <<toModule, webQueue, waiters, inboxes>>
  BY <1>1 DEF ServedInv
<1>2. ASSUME NEW r \in Requests, MakeQuery(r)
      PROVE  ServedInv'
  <2>1. Range(toModule') = Range(toModule) \cup {r}
    BY <1>2, RangeAppend DEF MakeQuery, ForbiddenInv
  <2>2. QED
    BY <1>2, <2>1 DEF MakeQuery, ServedInv
<1>3. ASSUME NEW r \in Requests, FetchResponse(r)
      PROVE  ServedInv'
  <2>1. inboxes[r] \in Seq(Requests) /\ inboxes[r] # <<>>
    BY <1>3 DEF FetchResponse, ServedInv
  <2>2. Tail(inboxes[r]) \in Seq(Requests) /\ Range(inboxes[r]) = {Head(inboxes[r])} \cup Range(Tail(inboxes[r]))
    BY <2>1, RangeTail
  <2>3. toModule' = toModule /\ webQueue' = webQueue
    BY <1>3 DEF FetchResponse
  <2>4. CASE Head(inboxes[r]) = r
    <3>1. waiters' = waiters \ {r} /\ inboxes' = [inboxes EXCEPT ![r] = <<>>]
      BY <1>3, <2>4 DEF FetchResponse
    <3>2. QED
      BY <2>3, <3>1 DEF ServedInv
  <2>5. CASE Head(inboxes[r]) # r
    <3>1. waiters' = waiters /\ inboxes' = [inboxes EXCEPT ![r] = Tail(@)]
      BY <1>3, <2>5 DEF FetchResponse
    <3>2. QED
      BY <2>2, <2>3, <2>5, <3>1 DEF ServedInv
  <2>6. QED
    BY <2>4, <2>5
<1>4. CASE ModuleWakes
  <2>1. webQueue' = webQueue \o toModule /\ toModule' = <<>> /\ UNCHANGED <<waiters, inboxes>>
    BY <1>4 DEF ModuleWakes, callPart
  <2>2. Range(webQueue') = Range(webQueue) \cup Range(toModule)
    BY <2>1, RangeConcat DEF ForbiddenInv
  <2>3. QED
    BY <2>1, <2>2 DEF ServedInv
<1>5. CASE Answered
  <2>1. forbidden \ {Head(webQueue)} = {} /\ webQueue # <<>> /\ webQueue \in Seq(Requests)
    BY <1>5 DEF ForbiddenInv, Answered, SentInv
  <2>2. /\ webQueue' = Tail(webQueue) /\ UNCHANGED <<toModule, waiters>>
        /\ inboxes' = [q \in Requests |-> IF q \in waiters THEN Append(inboxes[q], Head(webQueue)) ELSE <<>>]
    BY <1>5, <2>1 DEF Answered
  <2>3. Head(webQueue) \in Requests /\ Range(webQueue) = {Head(webQueue)} \cup Range(Tail(webQueue))
    BY <2>1, RangeTail
  <2>4. \A q \in Requests : inboxes[q] \in Seq(Requests)
    BY DEF ServedInv
  <2>5. \A q \in Requests : /\ Append(inboxes[q], Head(webQueue)) \in Seq(Requests)
                            /\ Range(Append(inboxes[q], Head(webQueue))) = Range(inboxes[q]) \cup {Head(webQueue)}
    BY <2>3, <2>4, RangeAppend
  <2>6. QED
    BY <2>2, <2>3, <2>5 DEF ServedInv
<1>6. ASSUME NEW f \in Others, OtherAsksForToken(f)
      PROVE  ServedInv'
  BY <1>1, <1>6 DEF OtherAsksForToken, callPart
<1>7. CASE TokenArrives \/ TokenRefused \/ TokenMissing \/ TokenExpires \/ Perform \/ Forbidden
  BY <1>1, <1>7 DEF TokenArrives, TokenRefused, TokenMissing, TokenExpires, Perform, Forbidden,
                    callPart
<1>8. CASE UNCHANGED webVars
  BY <1>1, <1>8 DEF webVars
<1>9. QED
  BY <1>2, <1>3, <1>4, <1>5, <1>6, <1>7, <1>8, WebCases

(* The four invariants hold together always.                               *)
LEMMA WebInvAlways ==
  ASSUME WebAssumption
  PROVE  WebSpec => [](TokenInv /\ SentInv /\ ForbiddenInv /\ ServedInv)
<1>1. ASSUME WebInit
      PROVE  TokenInv /\ SentInv /\ ForbiddenInv /\ ServedInv
  BY <1>1 DEF WebInit, TokenInv, SentInv, ForbiddenInv, ServedInv, CookiesOK, WebAssumption
<1>2. ASSUME TokenInv, SentInv, ForbiddenInv, ServedInv, [WebNext]_webVars
      PROVE  (TokenInv /\ SentInv /\ ForbiddenInv /\ ServedInv)'
  BY <1>2, TokenStep, SentStep, ForbiddenStep, ServedStep DEF ForbiddenInv
<1>3. QED
  BY <1>1, <1>2, PTL DEF WebSpec

(* For all requests and other fibers, however often tokens expire and      *)
(* requests for them are refused: one access token is asked for at a time; *)
(* as long as the process runs, every query that a caller waits for is on  *)
(* its way to the module, queued or answered, and the module has a token,  *)
(* asks for one or waits for the fiber that does; and the process ends     *)
(* only by a 403 for the cookie of a token that has expired, or by a       *)
(* failed request for a token while there is none (WebSession.cpp:121-145, *)
(* 219-329).                                                               *)
THEOREM TokensAreAskedForOnce ==
  ASSUME WebAssumption
  PROVE  WebSpec => [](OneTokenAtATime /\ QueriesAreServed /\ EndsForATokenOnly)
<1>1. ASSUME TokenInv, SentInv
      PROVE  OneTokenAtATime
  <2>1. ASSUME NEW s \in webSent
        PROVE  Cardinality({c \in s : c.name = "steamLoginSecure"}) <= 1
    <3>1. \A c, d \in {e \in s : e.name = "steamLoginSecure"} : c = d
      BY <1>1, <2>1 DEF SentInv
    <3>2. QED
      BY <3>1, AtMostOne
  <2>2. QED
    BY <1>1, <2>1 DEF OneTokenAtATime, TokenInv
<1>2. ASSUME TokenInv, SentInv, ForbiddenInv, ServedInv
      PROVE  QueriesAreServed /\ EndsForATokenOnly
  <2>1. Range(toModule \o webQueue) = Range(toModule) \cup Range(webQueue)
    BY <1>2, RangeConcat DEF ForbiddenInv
  <2>2. QueriesAreServed
    BY <1>2, <2>1 DEF TokenInv, SentInv, ServedInv, QueriesAreServed
  <2>3. EndsForATokenOnly
    BY <1>2 DEF TokenInv, ForbiddenInv, EndsForATokenOnly
  <2>4. QED
    BY <2>2, <2>3
<1>3. QED
  BY <1>1, <1>2, WebInvAlways, PTL

-----------------------------------------------------------------------------
(* UnifiedMessages                                                         *)

CallResponses == [job : Calls, code : Codes, content : BOOLEAN]
HasResponse(c) == \E r \in Range(callInbox[c]) : r.job = c

(* Where a call and its request are; and the first response is decoded.    *)
CallsInv ==
    /\ callPc \in [Calls -> {"idle", "waiting", "sleeping"} \cup Ended]
    /\ retries \in [Calls -> Nat] /\ quitting \in BOOLEAN
    /\ callInbox \in [Calls -> Seq(CallResponses)]
    /\ messageList = {c \in Calls : callPc[c] \in {"waiting", "sleeping"}}
    /\ callsReceived \subseteq messageList
    /\ \A c \in Calls :
          /\ callPc[c] = "empty" => retries[c] > 0
          /\ callPc[c] = "sleeping" => retries[c] > 0
          /\ callPc[c] = "waiting" /\ retries[c] = 0 =>
                /\ \A r \in Range(callInbox[c]) : r.job = c => r.content
                /\ c \in atServer => c \notin callsReceived /\ ~HasResponse(c)
          /\ callPc[c] # "waiting" => callInbox[c] = <<>>
          /\ ~quitting /\ callPc[c] = "waiting" => c \in atServer \/ HasResponse(c)

(* A result code of a response is no state of a call.                      *)
LEMMA CodesAreApart ==
  ASSUME CallAssumption
  PROVE  /\ \A r \in Codes : r \notin {"idle", "waiting", "sleeping", "content", "empty", "cancelled"}
         /\ Range(<<>>) = {} /\ <<>> \in Seq(CallResponses)
BY DEF CallAssumption, Range

(* A call, its entry in the list and its response change together.         *)
LEMMA CallsStep ==
  ASSUME CallAssumption, CallsInv, [CallNext]_callVars
  PROVE  CallsInv'
<1>0. /\ \A r \in Codes : r \notin {"idle", "waiting", "sleeping", "content", "empty", "cancelled"}
      /\ Range(<<>>) = {} /\ <<>> \in Seq(CallResponses)
  BY CodesAreApart
<1>1. CASE UNCHANGED <<callPc, messageList, callsReceived, retries, atServer, callInbox, quitting>>
  BY <1>1 DEF CallsInv, HasResponse
<1>2. ASSUME NEW c \in Calls, Execute(c)
      PROVE  CallsInv'
  <2>1. /\ callPc[c] = "idle" /\ messageList' = messageList \cup {c} /\ atServer' = atServer \cup {c}
        /\ callPc' = [callPc EXCEPT ![c] = "waiting"]
        /\ UNCHANGED <<callsReceived, retries, callInbox, quitting>>
    BY <1>2 DEF Execute
  <2>2. callInbox[c] = <<>> /\ c \notin callsReceived /\ ~HasResponse(c)
    BY <1>0, <2>1 DEF CallsInv, HasResponse
  <2>3. \A d \in Calls : HasResponse(d)' <=> HasResponse(d)
    BY <2>1 DEF HasResponse
  <2>4. messageList' = {d \in Calls : callPc'[d] \in {"waiting", "sleeping"}}
    BY <2>1 DEF CallsInv
  <2>5. QED
    BY <1>0, <2>1, <2>2, <2>3, <2>4 DEF CallsInv
<1>3. ASSUME NEW c \in Calls, NEW code \in Codes, ResponseArrives(c, code)
      PROVE  CallsInv'
  <2> DEFINE isKnown == c \in messageList /\ c \notin callsReceived
             response == [job |-> c, code |-> code, content |-> isKnown]
  <2>1. /\ c \in atServer /\ atServer' = atServer \ {c}
        /\ callsReceived' = IF isKnown THEN callsReceived \cup {c} ELSE callsReceived
        /\ callInbox' = [d \in Calls |-> IF callPc[d] = "waiting" THEN Append(callInbox[d], response)
                                         ELSE callInbox[d]]
        /\ UNCHANGED <<callPc, messageList, retries, quitting>>
    BY <1>3 DEF ResponseArrives
  <2>2. response \in CallResponses /\ response.job = c /\ response.content = isKnown
    BY DEF CallResponses
  <2> HIDE DEF response
  <2>3. \A d \in Calls : callInbox'[d] \in Seq(CallResponses)
    BY <2>1, <2>2, RangeAppend DEF CallsInv
  <2>4. ASSUME NEW d \in Calls
        PROVE  Range(callInbox'[d]) = IF callPc[d] = "waiting" THEN Range(callInbox[d]) \cup {response}
                                      ELSE Range(callInbox[d])
    <3>1. callInbox[d] \in Seq(CallResponses)
      BY DEF CallsInv
    <3>2. Range(Append(callInbox[d], response)) = Range(callInbox[d]) \cup {response}
      BY <2>2, <3>1, RangeAppend
    <3>3. callInbox'[d] = IF callPc[d] = "waiting" THEN Append(callInbox[d], response)
                          ELSE callInbox[d]
      BY <2>1
    <3>4. QED
      BY <3>2, <3>3
  <2>5. ASSUME NEW d \in Calls, callPc[d] = "waiting"
        PROVE  HasResponse(d)' <=> HasResponse(d) \/ d = c
    BY <2>2, <2>4, <2>5 DEF HasResponse
  <2>6. callsReceived' \subseteq messageList'
    BY <2>1 DEF CallsInv
  <2>7. ASSUME NEW d \in Calls, callPc[d] = "waiting", retries[d] = 0
        PROVE  /\ \A r \in Range(callInbox'[d]) : r.job = d => r.content
               /\ d \in atServer' => d \notin callsReceived' /\ ~HasResponse(d)'
    <3>1. d \in messageList
      BY <2>7 DEF CallsInv
    <3>2. /\ \A r \in Range(callInbox[d]) : r.job = d => r.content
          /\ d \in atServer => d \notin callsReceived /\ ~HasResponse(d)
      BY <2>7 DEF CallsInv
    <3>3. c = d => isKnown
      BY <2>1, <3>1, <3>2
    <3>4. QED
      BY <2>1, <2>2, <2>4, <2>5, <2>7, <3>2, <3>3
  <2>8. callInbox' \in [Calls -> Seq(CallResponses)]
    BY <2>1, <2>3
  <2>9. ASSUME NEW d \in Calls
        PROVE  /\ callPc[d] # "waiting" => callInbox'[d] = <<>>
               /\ ~quitting /\ callPc[d] = "waiting" => d \in atServer' \/ HasResponse(d)'
    BY <2>1, <2>5 DEF CallsInv
  <2>10. QED
    BY <2>1, <2>6, <2>7, <2>8, <2>9 DEF CallsInv
<1>4. ASSUME NEW c \in Calls, Fetch(c), Head(callInbox[c]).job # c
      PROVE  CallsInv'
  <2>1. /\ callPc[c] = "waiting" /\ callInbox[c] # <<>>
        /\ callInbox' = [callInbox EXCEPT ![c] = Tail(@)]
        /\ UNCHANGED <<callPc, messageList, callsReceived, retries, atServer, quitting>>
    BY <1>4 DEF Fetch
  <2>2. callInbox[c] \in Seq(CallResponses)
    BY DEF CallsInv
  <2>3. /\ Tail(callInbox[c]) \in Seq(CallResponses)
        /\ Range(callInbox[c]) = {Head(callInbox[c])} \cup Range(Tail(callInbox[c]))
    BY <2>1, <2>2, RangeTail
  <2>4. callInbox' \in [Calls -> Seq(CallResponses)]
    BY <2>1, <2>3 DEF CallsInv
  <2>5. \A d \in Calls : Range(callInbox'[d]) \subseteq Range(callInbox[d])
    BY <2>1, <2>3 DEF CallsInv
  <2>6. \A d \in Calls : HasResponse(d)' <=> HasResponse(d)
    <3>1. \A d \in Calls : d # c => callInbox'[d] = callInbox[d]
      BY <2>1 DEF CallsInv
    <3>2. HasResponse(c)' <=> HasResponse(c)
      BY <1>4, <2>1, <2>3 DEF HasResponse, CallsInv
    <3>3. QED
      BY <3>1, <3>2 DEF HasResponse
  <2>7. \A d \in Calls : d # c => callInbox'[d] = callInbox[d]
    BY <2>1 DEF CallsInv
  <2>8. QED
    BY <2>1, <2>4, <2>5, <2>6, <2>7 DEF CallsInv
<1>5. ASSUME NEW c \in Calls, Fetch(c), Head(callInbox[c]).job = c
      PROVE  CallsInv'
  <2> DEFINE response == Head(callInbox[c])
  <2>1. /\ callPc[c] = "waiting" /\ callInbox[c] # <<>>
        /\ callInbox' = [callInbox EXCEPT ![c] = <<>>]
        /\ UNCHANGED <<atServer, quitting>>
        /\ \/ /\ callPc' = [callPc EXCEPT ![c] = "sleeping"]
              /\ retries' = [retries EXCEPT ![c] = @ + 1] /\ UNCHANGED <<messageList, callsReceived>>
           \/ /\ EndsWith(c, IF response.code # "OK" THEN response.code
                             ELSE IF response.content THEN "content" ELSE "empty")
              /\ UNCHANGED retries
    BY <1>5 DEF Fetch
  <2>2. callInbox[c] \in Seq(CallResponses)
    BY DEF CallsInv
  <2>3. response \in CallResponses /\ response \in Range(callInbox[c])
    BY <2>1, <2>2, RangeTail
  <2>4. \A d \in Calls : d # c => (HasResponse(d)' <=> HasResponse(d)) /\ callInbox'[d] = callInbox[d]
    BY <2>1 DEF HasResponse, CallsInv
  <2>5. CASE /\ callPc' = [callPc EXCEPT ![c] = "sleeping"]
             /\ retries' = [retries EXCEPT ![c] = @ + 1] /\ UNCHANGED <<messageList, callsReceived>>
    <3>1. retries' \in [Calls -> Nat] /\ retries'[c] > 0
      BY <2>5 DEF CallsInv
    <3>2. messageList' = {d \in Calls : callPc'[d] \in {"waiting", "sleeping"}}
      BY <2>1, <2>5 DEF CallsInv
    <3>3. QED
      BY <1>0, <2>1, <2>4, <2>5, <3>1, <3>2 DEF CallsInv
  <2>6. CASE /\ EndsWith(c, IF response.code # "OK" THEN response.code
                            ELSE IF response.content THEN "content" ELSE "empty")
             /\ UNCHANGED retries
    <3>1. PICK how : /\ how = IF response.code # "OK" THEN response.code
                              ELSE IF response.content THEN "content" ELSE "empty"
                     /\ callPc' = [callPc EXCEPT ![c] = how]
      BY <2>6 DEF EndsWith
    <3>2. messageList' = messageList \ {c} /\ callsReceived' = callsReceived \ {c}
      BY <2>6 DEF EndsWith
    <3>3. how \in Ended /\ how \notin {"waiting", "sleeping", "idle"}
      BY <1>0, <2>3, <3>1 DEF CallResponses, Ended
    <3>4. how = "empty" => retries[c] > 0
      <4>1. how = "empty" => ~response.content
        BY <1>0, <2>3, <3>1 DEF CallResponses
      <4>2. response.content \/ retries[c] # 0
        BY <1>5, <2>1, <2>3 DEF CallsInv
      <4>3. QED
        BY <4>1, <4>2 DEF CallsInv
    <3>5. messageList' = {d \in Calls : callPc'[d] \in {"waiting", "sleeping"}}
      BY <3>1, <3>2, <3>3 DEF CallsInv
    <3>6. QED
      BY <1>0, <2>1, <2>4, <2>6, <3>1, <3>2, <3>3, <3>4, <3>5 DEF CallsInv
  <2>7. QED
    BY <2>1, <2>5, <2>6
<1>6. ASSUME NEW c \in Calls, Resend(c)
      PROVE  CallsInv'
  <2>1. /\ callPc[c] = "sleeping" /\ callPc' = [callPc EXCEPT ![c] = "waiting"]
        /\ atServer' = atServer \cup {c}
        /\ UNCHANGED <<messageList, callsReceived, retries, callInbox, quitting>>
    BY <1>6 DEF Resend
  <2>2. \A d \in Calls : HasResponse(d)' <=> HasResponse(d)
    BY <2>1 DEF HasResponse
  <2>3. messageList' = {d \in Calls : callPc'[d] \in {"waiting", "sleeping"}}
    BY <2>1 DEF CallsInv
  <2>4. QED
    BY <2>1, <2>2, <2>3 DEF CallsInv
<1>7. CASE QuitCancels
  <2> DEFINE gone == {c \in Calls : callPc[c] = "waiting"}
  <2>1. /\ quitting' = TRUE
        /\ callPc' = [c \in Calls |-> IF c \in gone THEN "cancelled" ELSE callPc[c]]
        /\ messageList' = messageList \ gone /\ callsReceived' = callsReceived \ gone
        /\ callInbox' = [c \in Calls |-> <<>>]
        /\ UNCHANGED <<retries, atServer>>
    BY <1>7 DEF QuitCancels
  <2>2. "cancelled" \in Ended
    BY DEF Ended
  <2>3. messageList' = {d \in Calls : callPc'[d] \in {"waiting", "sleeping"}}
    BY <2>1 DEF CallsInv
  <2>4. \A d \in Calls : callPc'[d] # "waiting"
    BY <2>1
  <2>5. QED
    BY <1>0, <2>1, <2>2, <2>3, <2>4 DEF CallsInv
<1>8. ASSUME NEW n \in JobNames, NotificationArrives(n)
      PROVE  CallsInv'
  BY <1>1, <1>8 DEF NotificationArrives
<1>9. CASE ServerModuleWakes
  BY <1>1, <1>9 DEF ServerModuleWakes
<1>10. CASE UNCHANGED callVars
  BY <1>1, <1>10 DEF callVars
<1>11. QED
  BY <1>2, <1>3, <1>4, <1>5, <1>6, <1>7, <1>8, <1>9, <1>10 DEF CallNext

(* The calls, the list and the responses agree always.                     *)
LEMMA CallsInvAlways ==
  ASSUME CallAssumption
  PROVE  CallSpec => []CallsInv
<1>1. ASSUME CallInit
      PROVE  CallsInv
  BY <1>1, CodesAreApart DEF CallInit, CallsInv
<1>2. ASSUME CallsInv, [CallNext]_callVars
      PROVE  CallsInv'
  BY <1>2, CallsStep
<1>3. QED
  BY <1>1, <1>2, PTL DEF CallSpec

(* For every number of calls: one that waits has its job in the list or    *)
(* its answer in its inbox, its result is that of the first response, and  *)
(* the list holds the jobs of the calls that wait                          *)
(* (UnifiedMessageClient.cpp:79-170).                                      *)
THEOREM CallsAreAnswered ==
  ASSUME CallAssumption
  PROVE  CallSpec => [](EveryCallIsAnswered /\ FirstAnswerHasContent /\ ListMatchesCalls)
<1>1. CallsInv => EveryCallIsAnswered
  <2>1. CallsInv => \A c \in Calls : HasResponse(c) =>
                        \E i \in 1..Len(callInbox[c]) : callInbox[c][i].job = c
    BY RangeIs DEF CallsInv, HasResponse
  <2>2. QED
    BY <2>1 DEF CallsInv, EveryCallIsAnswered
<1>2. CallsInv => FirstAnswerHasContent /\ ListMatchesCalls
  BY DEF CallsInv, FirstAnswerHasContent, ListMatchesCalls
<1>3. QED
  BY <1>1, <1>2, CallsInvAlways, PTL

-----------------------------------------------------------------------------
(* Transport                                                               *)

RequestKinds == {"Request", "RequestChallenge"}
Results == {"ResultOk", "ResultFail"}
Packets == {"Other", "Data"} \cup RequestKinds \cup Results

\* The engine of the handshake that the server has taken part in.
Agreed == \E e \in engine : /\ e.key = server.key
                            /\ e.cipher = IF server.challenge THEN "AESHMAC" ELSE "AES"

Sockets ==
  /\ server \in [asked : BOOLEAN, challenge : BOOLEAN, key : Nat, sent : Nat]
  /\ attempt \in Nat

(* What can be on its way on the current socket.                           *)
WireInv ==
  /\ onWire \in Seq(Packets)
  /\ half => onWire # <<>>
  /\ netPc \in {"handshake", "ready"} =>
       \A i \in 1..Len(onWire) :
         /\ onWire[i] \in RequestKinds \cup Results => i = Len(onWire) /\ server.asked
         /\ onWire[i] \in RequestKinds => (onWire[i] = "RequestChallenge" <=> server.challenge)
         /\ onWire[i] \in Results => Agreed
         /\ onWire[i] = "Data" <=> netPc = "ready"

(* What has come out of the engine, on either side.                        *)
DataInv ==
  /\ netPc = "ready" => Agreed
  /\ written \in Seq(Nat) /\ decrypted \in Seq(Nat)
  /\ \A i \in 1..Len(written) : written[i] = i
  /\ \A i \in 1..Len(decrypted) : decrypted[i] = i
  /\ \A e, f \in engine : e = f

(* The steps of the transport, one disjunct for each.                      *)
LEMMA NetCases ==
  ASSUME [NetNext]_netVars
  PROVE  \/ \E ok \in BOOLEAN : TcpConnects(ok) \/ HeaderArrives(ok)
         \/ \E challenge \in BOOLEAN : ServerRequests(challenge)
         \/ ServerStrays \/ ServerSends
         \/ HandleEncryptRequest \/ HandleEncryptResult \/ Ignored
         \/ ReadPacket \/ WritePacket \/ ServerCloses
         \/ UNCHANGED netVars
BY DEF NetNext

(* The engine is there from the challenge on (EngineFollowsState).         *)
THEOREM EngineIsThere == NetSpec => []EngineFollowsState
<1> USE DEF EngineFollowsState
<1>1. NetInit => EngineFollowsState
  BY DEF NetInit
<1>2. EngineFollowsState /\ [NetNext]_netVars => EngineFollowsState'
  <2> SUFFICES ASSUME EngineFollowsState, [NetNext]_netVars PROVE EngineFollowsState'
    OBVIOUS
  <2>1. CASE HandleEncryptRequest
    BY <2>1 DEF HandleEncryptRequest
  <2>2. CASE HandleEncryptResult
    BY <2>2 DEF HandleEncryptResult
  <2>3. CASE \E ok \in BOOLEAN : TcpConnects(ok) \/ HeaderArrives(ok)
    BY <2>3 DEF TcpConnects, HeaderArrives
  <2>4. CASE \E challenge \in BOOLEAN : ServerRequests(challenge)
    BY <2>4 DEF ServerRequests
  <2>5. CASE ServerStrays \/ ServerSends \/ Ignored \/ ReadPacket \/ WritePacket \/ ServerCloses
    BY <2>5 DEF ServerStrays, ServerSends, Ignored, ReadPacket, WritePacket, ServerCloses
  <2>6. CASE UNCHANGED netVars
    BY <2>6 DEF netVars
  <2>7. QED
    BY NetCases, <2>1, <2>2, <2>3, <2>4, <2>5, <2>6
<1>3. QED
  BY <1>1, <1>2, PTL DEF NetSpec

(* The server and the sockets stay what they are.                          *)
LEMMA SocketsStep ==
  ASSUME Sockets, [NetNext]_netVars
  PROVE  Sockets'
<1> USE DEF Sockets
<1>1. CASE \E ok \in BOOLEAN : TcpConnects(ok) \/ HeaderArrives(ok)
  <2>1. server' \in {NewSocket, server} /\ attempt' = attempt
    BY <1>1 DEF TcpConnects, HeaderArrives
  <2>2. NewSocket \in [asked : BOOLEAN, challenge : BOOLEAN, key : Nat, sent : Nat]
    BY DEF NewSocket
  <2>3. QED
    BY <2>1, <2>2
<1>2. CASE \E challenge \in BOOLEAN : ServerRequests(challenge)
  BY <1>2 DEF ServerRequests
<1>3. CASE ServerSends \/ HandleEncryptRequest
  BY <1>3 DEF ServerSends, HandleEncryptRequest
<1>4. CASE ServerStrays \/ HandleEncryptResult \/ Ignored \/ ReadPacket \/ WritePacket
  BY <1>4 DEF ServerStrays, HandleEncryptResult, Ignored, ReadPacket, WritePacket
<1>5. CASE ServerCloses
  BY <1>5 DEF ServerCloses
<1>6. CASE UNCHANGED netVars
  BY <1>6 DEF netVars
<1>7. QED
  BY NetCases, <1>1, <1>2, <1>3, <1>4, <1>5, <1>6

(* A new packet of the handshake, or of the data after it.                 *)
LEMMA WireStep ==
  ASSUME Sockets, WireInv, DataInv, [NetNext]_netVars
  PROVE  WireInv'
<1> USE DEF RequestKinds, Results, Packets, Sockets
<1>1. CASE \E ok \in BOOLEAN : TcpConnects(ok)
  <2>1. onWire' = <<>> /\ half' = FALSE /\ server' = NewSocket
    BY <1>1 DEF TcpConnects
  <2>2. QED
    BY <2>1 DEF WireInv, NewSocket
<1>2. CASE \E ok \in BOOLEAN : HeaderArrives(ok)
  BY <1>2 DEF HeaderArrives, WireInv, Agreed
<1>3. ASSUME NEW challenge \in BOOLEAN, ServerRequests(challenge) PROVE WireInv'
  <2> DEFINE request == IF challenge THEN "RequestChallenge" ELSE "Request"
  <2>1. /\ netPc = "handshake" /\ netPc' = netPc /\ ~server.asked /\ onWire' = Append(onWire, request)
        /\ half' = half /\ engine' = engine
        /\ server' = [server EXCEPT !.asked = TRUE, !.challenge = challenge]
    BY <1>3 DEF ServerRequests
  <2>2. server'.asked /\ server'.challenge = challenge
    BY <2>1 DEF WireInv
  <2>3. \A i \in 1..Len(onWire) : onWire[i] \notin RequestKinds \cup Results \cup {"Data"}
    BY <2>1 DEF WireInv
  <2>4. request \in Packets /\ onWire \in Seq(Packets) /\ request \in RequestKinds
    BY DEF WireInv
  <2> HIDE DEF request
  <2>5. /\ onWire' \in Seq(Packets) /\ onWire' # <<>> /\ Len(onWire) \in Nat
        /\ Len(onWire') = Len(onWire) + 1 /\ onWire'[Len(onWire) + 1] = request
        /\ \A i \in 1..Len(onWire) : onWire'[i] = onWire[i]
    BY <2>1, <2>4, AppendFacts
  <2>6. request = "RequestChallenge" <=> challenge
    BY DEF request
  <2>7. ASSUME NEW i \in 1..Len(onWire')
        PROVE  /\ onWire'[i] \in RequestKinds \cup Results => i = Len(onWire')
               /\ onWire'[i] \in RequestKinds => (onWire'[i] = "RequestChallenge" <=> challenge)
               /\ onWire'[i] \notin Results \cup {"Data"}
    BY <2>3, <2>4, <2>5, <2>6
  <2>8. QED
    BY <1>3, <2>1, <2>2, <2>5, <2>7 DEF WireInv
<1>4. CASE ServerStrays
  <2>1. netPc' = "handshake" /\ onWire' = <<"Other">> /\ UNCHANGED <<half, server, engine>>
    BY <1>4 DEF ServerStrays
  <2>2. half' => onWire' # <<>>
    BY <2>1
  <2>3. QED
    BY <2>1, <2>2 DEF WireInv
<1>5. CASE ServerSends
  <2>1. /\ netPc = "ready" /\ netPc' = netPc /\ onWire' = Append(onWire, "Data") /\ half' = half
        /\ engine' = engine /\ server' = [server EXCEPT !.sent = @ + 1]
    BY <1>5 DEF ServerSends
  <2>2. server'.asked = server.asked /\ server'.challenge = server.challenge
    BY <2>1 DEF WireInv
  <2>3. onWire \in Seq(Packets) /\ "Data" \in Packets
    BY DEF WireInv
  <2>4. /\ onWire' \in Seq(Packets) /\ onWire' # <<>> /\ Len(onWire) \in Nat
        /\ Len(onWire') = Len(onWire) + 1 /\ onWire'[Len(onWire) + 1] = "Data"
        /\ \A i \in 1..Len(onWire) : onWire'[i] = onWire[i]
    BY <2>1, <2>3, AppendFacts
  <2>5. \A i \in 1..Len(onWire) : onWire[i] = "Data"
    BY <2>1 DEF WireInv
  <2>6. \A i \in 1..Len(onWire') : onWire'[i] = "Data"
    BY <2>4, <2>5
  <2>7. QED
    BY <2>1, <2>2, <2>4, <2>6 DEF WireInv
<1>6. CASE HandleEncryptRequest
  <2>1. /\ netPc = "handshake" /\ netPc' = netPc /\ half /\ half' = FALSE
        /\ Head(onWire) \in RequestKinds
        /\ engine' = {[key |-> attempt, cipher |-> IF Head(onWire) = "Request" THEN "AES" ELSE "AESHMAC"]}
        /\ server' = [server EXCEPT !.key = attempt]
    BY <1>6 DEF HandleEncryptRequest
  <2>2. PICK result \in Results : onWire' = Append(Tail(onWire), result)
    BY <1>6 DEF HandleEncryptRequest
  <2>3. onWire \in Seq(Packets) /\ onWire # <<>> /\ result \in Packets
    BY <2>1 DEF WireInv
  <2>4. Head(onWire) = onWire[1] /\ Len(onWire) \in Nat \ {0} /\ Tail(onWire) \in Seq(Packets)
        /\ Len(Tail(onWire)) = Len(onWire) - 1
    BY <2>3, TailFacts
  <2>5. /\ Len(onWire) = 1 /\ server.asked
        /\ Head(onWire) = "RequestChallenge" <=> server.challenge
    BY <2>1, <2>4 DEF WireInv
  <2> DEFINE rest == Tail(onWire)
  <2>6. rest \in Seq(Packets) /\ Len(rest) = 0 /\ onWire' = Append(rest, result)
    BY <2>2, <2>4, <2>5
  <2> HIDE DEF rest
  <2>7. onWire' \in Seq(Packets) /\ Len(onWire') = 1 /\ onWire'[1] = result
    BY <2>3, <2>6, AppendFacts
  <2>8. server'.asked /\ server'.challenge = server.challenge
        /\ server'.key = attempt
    BY <2>1, <2>5 DEF WireInv
  <2>9. Agreed'
    BY <2>1, <2>5, <2>8 DEF Agreed
  <2>10. \A i \in 1..Len(onWire') : onWire'[i] = result /\ i = Len(onWire')
    BY <2>7
  <2>11. QED
    BY <2>1, <2>7, <2>8, <2>9, <2>10 DEF WireInv
<1>7. CASE HandleEncryptResult \/ Ignored \/ ReadPacket
  <2>1. /\ half /\ half' = FALSE /\ onWire' = Tail(onWire) /\ UNCHANGED <<server, engine>>
        /\ netPc \in {"handshake", "ready"}
    BY <1>7 DEF HandleEncryptResult, Ignored, ReadPacket
  <2>2. onWire \in Seq(Packets) /\ onWire # <<>>
    BY <2>1 DEF WireInv
  <2>3. /\ Head(onWire) = onWire[1] /\ onWire' \in Seq(Packets) /\ Len(onWire) \in Nat \ {0}
        /\ Len(onWire') = Len(onWire) - 1 /\ \A i \in 1..(Len(onWire) - 1) : onWire'[i] = onWire[i + 1]
    BY <2>1, <2>2, TailFacts
  <2>4. Agreed' <=> Agreed
    BY <2>1, SMTT(30) DEF Agreed
  <2>5. CASE netPc' = netPc
    <3>1. ASSUME NEW i \in 1..Len(onWire')
          PROVE  /\ onWire'[i] \in RequestKinds \cup Results => i = Len(onWire') /\ server'.asked
                 /\ onWire'[i] \in RequestKinds => (onWire'[i] = "RequestChallenge" <=> server'.challenge)
                 /\ onWire'[i] \in Results => Agreed'
                 /\ onWire'[i] = "Data" <=> netPc' = "ready"
      <4>1. i + 1 \in 1..Len(onWire) /\ onWire'[i] = onWire[i + 1]
        BY <2>3
      <4>2. /\ onWire[i + 1] \in RequestKinds \cup Results => i + 1 = Len(onWire) /\ server.asked
            /\ onWire[i + 1] \in RequestKinds => (onWire[i + 1] = "RequestChallenge" <=> server.challenge)
            /\ onWire[i + 1] \in Results => Agreed
            /\ onWire[i + 1] = "Data" <=> netPc = "ready"
        BY <2>1, <4>1 DEF WireInv
      <4>3. i + 1 = Len(onWire) => i = Len(onWire')
        BY <2>3, SMTT(30)
      <4>4. QED
        BY <2>1, <2>4, <2>5, <4>1, <4>2, <4>3
    <3>2. QED
      BY <2>1, <2>3, <3>1 DEF WireInv
  <2>6. CASE netPc' # netPc
    <3>1. HandleEncryptResult
      BY <1>7, <2>6 DEF Ignored, ReadPacket
    <3>2. netPc = "handshake" /\ Head(onWire) \in Results
      BY <3>1 DEF HandleEncryptResult
    <3>3. Len(onWire) = 1
      BY <2>3, <3>2 DEF WireInv
    <3>4. 1..Len(onWire') = {}
      BY <2>3, <3>3
    <3>5. QED
      BY <2>1, <2>3, <3>4 DEF WireInv
  <2>7. QED
    BY <2>5, <2>6
<1>8. CASE WritePacket \/ UNCHANGED netVars
  BY <1>8 DEF WritePacket, netVars, WireInv, Agreed
<1>9. CASE ServerCloses
  <2>1. onWire' = <<>> /\ half' = FALSE /\ server' = server
    BY <1>9 DEF ServerCloses
  <2>2. QED
    BY <2>1 DEF WireInv
<1>10. QED
  BY NetCases, <1>1, <1>2, <1>3, <1>4, <1>5, <1>6, <1>7, <1>8, <1>9

(* What comes out of the engine is what went in on the other side.         *)
LEMMA DataStep ==
  ASSUME Sockets, WireInv, DataInv, [NetNext]_netVars
  PROVE  DataInv'
<1> USE DEF RequestKinds, Results, Packets, Sockets
<1>1. CASE \/ \E ok \in BOOLEAN : TcpConnects(ok) \/ HeaderArrives(ok)
            \/ \E challenge \in BOOLEAN : ServerRequests(challenge)
            \/ ServerStrays \/ Ignored \/ ServerCloses \/ UNCHANGED netVars
  <2>1. UNCHANGED <<engine, written, decrypted>> /\ (netPc' = "ready" => netPc = "ready" /\ UNCHANGED server)
    BY <1>1 DEF TcpConnects, HeaderArrives, ServerRequests, ServerStrays, Ignored, ServerCloses, netVars
  <2>2. QED
    BY <2>1 DEF DataInv, Agreed
<1>2. CASE ServerSends
  <2>1. server'.key = server.key /\ server'.challenge = server.challenge
    BY <1>2 DEF ServerSends, WireInv
  <2>2. UNCHANGED <<engine, written, decrypted, netPc>>
    BY <1>2 DEF ServerSends
  <2>3. QED
    BY <2>1, <2>2 DEF DataInv, Agreed
<1>3. CASE HandleEncryptRequest
  <2>1. netPc' = "handshake" /\ UNCHANGED <<written, decrypted>> /\ \A e, f \in engine' : e = f
    BY <1>3 DEF HandleEncryptRequest
  <2>2. QED
    BY <2>1 DEF DataInv
<1>4. CASE HandleEncryptResult
  <2>1. UNCHANGED <<engine, server, written, decrypted>> /\ netPc = "handshake" /\ half
        /\ Head(onWire) \in Results
    BY <1>4 DEF HandleEncryptResult
  <2>2. onWire \in Seq(Packets) /\ onWire # <<>>
    BY <2>1 DEF WireInv
  <2>3. Head(onWire) = onWire[1] /\ Len(onWire) \in Nat \ {0}
    BY <2>2, TailFacts
  <2>4. Agreed
    BY <2>1, <2>3 DEF WireInv
  <2>5. QED
    BY <2>1, <2>4 DEF DataInv, Agreed
<1>5. CASE ReadPacket
  <2>1. netPc = "ready" /\ half /\ UNCHANGED <<netPc, engine, server, written>>
    BY <1>5 DEF ReadPacket
  <2>2. PICK e \in engine : decrypted' = Append(decrypted, IF Head(onWire) = "Data" /\ e.key = server.key
                                                          THEN Len(decrypted) + 1 ELSE 0)
    BY <1>5 DEF ReadPacket
  <2>3. e.key = server.key
    BY <2>1, <2>2 DEF DataInv, Agreed
  <2>4. onWire \in Seq(Packets) /\ onWire # <<>>
    BY <2>1 DEF WireInv
  <2>5. Head(onWire) = onWire[1] /\ Len(onWire) \in Nat \ {0}
    BY <2>4, TailFacts
  <2>6. Head(onWire) = "Data"
    BY <2>1, <2>5 DEF WireInv
  <2>7. decrypted' = Append(decrypted, Len(decrypted) + 1)
    BY <2>2, <2>3, <2>6
  <2>8. decrypted \in Seq(Nat) /\ Len(decrypted) + 1 \in Nat
    BY DEF DataInv
  <2>9. decrypted' \in Seq(Nat) /\ \A i \in 1..Len(decrypted') : decrypted'[i] = i
    BY <2>7, <2>8, AppendFacts DEF DataInv
  <2>10. QED
    BY <2>1, <2>9 DEF DataInv, Agreed
<1>6. CASE WritePacket
  <2>1. netPc = "ready" /\ UNCHANGED <<netPc, engine, server, decrypted>>
    BY <1>6 DEF WritePacket
  <2>2. PICK e \in engine : written' = Append(written, IF e.key = server.key THEN Len(written) + 1 ELSE 0)
    BY <1>6 DEF WritePacket
  <2>3. e.key = server.key
    BY <2>1, <2>2 DEF DataInv, Agreed
  <2>4. written' = Append(written, Len(written) + 1)
    BY <2>2, <2>3
  <2>5. written \in Seq(Nat) /\ Len(written) + 1 \in Nat
    BY DEF DataInv
  <2>6. written' \in Seq(Nat) /\ \A i \in 1..Len(written') : written'[i] = i
    BY <2>4, <2>5, AppendFacts DEF DataInv
  <2>7. QED
    BY <2>1, <2>6 DEF DataInv, Agreed
<1>7. QED
  BY NetCases, <1>1, <1>2, <1>3, <1>4, <1>5, <1>6

(* The three invariants hold together always.                              *)
LEMMA NetInvAlways == NetSpec => [](Sockets /\ WireInv /\ DataInv)
<1>1. NetInit => Sockets /\ WireInv /\ DataInv
  <2> SUFFICES ASSUME NetInit PROVE Sockets /\ WireInv /\ DataInv
    OBVIOUS
  <2>1. onWire = <<>> /\ written = <<>> /\ decrypted = <<>> /\ engine = {} /\ ~half
        /\ netPc = "connect" /\ server = NewSocket /\ attempt = 1
    BY DEF NetInit
  <2>2. Sockets
    BY <2>1 DEF Sockets, NewSocket
  <2>3. WireInv
    BY <2>1 DEF WireInv, Packets, RequestKinds, Results
  <2>4. QED
    BY <2>1, <2>2, <2>3 DEF DataInv
<1>2. Sockets /\ WireInv /\ DataInv /\ [NetNext]_netVars => Sockets' /\ WireInv' /\ DataInv'
  BY SocketsStep, WireStep, DataStep
<1>3. QED
  BY <1>1, <1>2, PTL DEF NetSpec

(* Both ends agree on key and cipher, and neither reads garbage, for any   *)
(* number of attempts and packets (KeysAgree).                             *)
THEOREM KeysDoAgree == NetSpec => []KeysAgree
<1>1. WireInv /\ DataInv => KeysAgree
  BY DEF DataInv, KeysAgree, Agreed
<1>2. QED
  BY <1>1, NetInvAlways, PTL

-----------------------------------------------------------------------------
(* LicenseFlow                                                             *)

Partials == PartialFunctions(Packages, Infos)

(* Data in which every package that may has no app twice.                  *)
PlainPartials == {f \in Partials : \A p \in DOMAIN f \cap NamedOnce : IsInjective(f[p].apps)}
ResponseParts == [job : Nat, infos : PlainPartials]

(* The index has the packages of each app, according to the data.          *)
Linked(d, index) ==
    \A a \in Apps, p \in NamedOnce : p \in index[a] <=> p \in DOMAIN d /\ a \in Range(d[p].apps)

(* What the store, its file, the requests and the answers are made of; the *)
(* index is the one of the data, and the file has the data unless that is  *)
(* marked.                                                                 *)
FlowInv ==
    /\ version \in [Packages -> 1..MaxVersion]
    /\ data \in PlainPartials /\ file \in PlainPartials
    /\ appData \in [Apps -> SUBSET Packages] /\ Linked(data, appData)
    /\ wasUpdated \in BOOLEAN /\ (wasUpdated \/ file = data)
    /\ jobs \in Nat
    /\ \A r \in asked : /\ r.client \in Clients /\ r.job \in Nat
                        /\ r = [client |-> r.client, job |-> r.job, packages |-> r.packages]
    /\ responses \in [Clients -> Seq(ResponseParts)]

(* Partial functions are known by their domain.                            *)
LEMMA PartialsAre ==
  ASSUME NEW f
  PROVE  f \in Partials <=> DOMAIN f \subseteq Packages /\ f \in [DOMAIN f -> Infos]
BY DEF Partials, PartialFunctions

(* The package of a plain one is in no app any more once it is unlinked.   *)
LEMMA UnlinkFacts ==
  ASSUME NEW d \in PlainPartials, NEW index \in [Apps -> SUBSET Packages], Linked(d, index),
         NEW p \in Packages
  PROVE  /\ Unlink(d, index, p) \in [Apps -> SUBSET Packages]
         /\ \A a \in Apps : \A q \in Packages \ {p} : q \in Unlink(d, index, p)[a] <=> q \in index[a]
         /\ p \in NamedOnce => \A a \in Apps : p \notin Unlink(d, index, p)[a]
<1>1. ASSUME NEW a \in Apps
      PROVE  Unlink(d, index, p)[a] = IF p \in DOMAIN d /\ a \in Range(d[p].apps)
                                      THEN index[a] \ {p} ELSE index[a]
  BY DEF Unlink
<1>2. Unlink(d, index, p) \in [Apps -> SUBSET Packages]
  BY DEF Unlink
<1>3. QED
  BY <1>1, <1>2 DEF Linked

(* The new apps of a package that has none twice are all linked, and its   *)
(* data is stored; the data of another may be.                             *)
LEMMA LinkFacts ==
  ASSUME NEW d \in PlainPartials, NEW index \in [Apps -> SUBSET Packages], Linked(d, index),
         NEW p \in Packages, NEW info \in Infos, p \in NamedOnce => IsInjective(info.apps),
         NEW new, new = StoreNew(d, index, p, info)
  PROVE  /\ new.appData \in [Apps -> SUBSET Packages]
         /\ \A a \in Apps : \A q \in Packages \ {p} : q \in new.appData[a] <=> q \in index[a]
         /\ \/ new.data = [q \in DOMAIN d \cup {p} |-> IF q = p THEN info ELSE d[q]]
            \/ new.data = d /\ p \notin NamedOnce
         /\ p \in NamedOnce => \A a \in Apps : p \in new.appData[a] <=> a \in Range(info.apps)
<1> DEFINE unlinked == Unlink(d, index, p)
           again == {i \in DOMAIN info.apps : \/ p \in unlinked[info.apps[i]]
                                             \/ \E j \in 1..(i - 1) : info.apps[j] = info.apps[i]}
           linked == {info.apps[i] : i \in {k \in DOMAIN info.apps : \A j \in again : k < j}}
<1>1. /\ new.appData = [a \in Apps |-> IF a \in linked THEN unlinked[a] \cup {p} ELSE unlinked[a]]
      /\ new.data = IF again = {} THEN [q \in DOMAIN d \cup {p} |-> IF q = p THEN info ELSE d[q]] ELSE d
  BY DEF StoreNew
<1>2. /\ unlinked \in [Apps -> SUBSET Packages]
      /\ \A a \in Apps : \A q \in Packages \ {p} : q \in unlinked[a] <=> q \in index[a]
      /\ p \in NamedOnce => \A a \in Apps : p \notin unlinked[a]
  BY UnlinkFacts
<1>3. info.apps \in Seq(Apps)
  BY DEF Infos
<1> HIDE DEF unlinked
<1>4. ASSUME p \in NamedOnce
      PROVE  again = {} /\ linked = Range(info.apps)
  <2>1. IsInjective(info.apps)
    BY <1>4
  <2>2. ASSUME NEW i \in DOMAIN info.apps
        PROVE  i \notin again
    <3>1. info.apps[i] \in Apps /\ i \in 1..Len(info.apps) /\ Len(info.apps) \in Nat
      BY <1>3, <2>2
    <3>2. p \notin unlinked[info.apps[i]]
      BY <1>2, <1>4, <3>1
    <3>3. \A j \in 1..(i - 1) : j \in DOMAIN info.apps /\ j # i
      BY <1>3, <3>1
    <3>4. \A j \in 1..(i - 1) : info.apps[j] # info.apps[i]
      BY <2>1, <3>3 DEF IsInjective
    <3>5. QED
      BY <3>2, <3>4
  <2>3. again = {}
    BY <2>2
  <2>4. QED
    BY <2>3 DEF Range
<1>5. /\ \A a \in Apps : \A q \in Packages \ {p} : q \in new.appData[a] <=> q \in index[a]
      /\ new.appData \in [Apps -> SUBSET Packages]
  <2> HIDE DEF linked
  <2>1. QED
    BY <1>1, <1>2
<1>6. ASSUME p \in NamedOnce, NEW a \in Apps
      PROVE  p \in new.appData[a] <=> a \in Range(info.apps)
  <2>1. linked = Range(info.apps) /\ p \notin unlinked[a]
    BY <1>2, <1>4, <1>6
  <2> HIDE DEF linked
  <2>2. new.appData[a] = IF a \in linked THEN unlinked[a] \cup {p} ELSE unlinked[a]
    BY <1>1
  <2>3. QED
    BY <2>1, <2>2
<1>7. \/ new.data = [q \in DOMAIN d \cup {p} |-> IF q = p THEN info ELSE d[q]]
      \/ new.data = d /\ p \notin NamedOnce
  <2>1. again # {} => p \notin NamedOnce
    BY <1>4
  <2> HIDE DEF again
  <2>2. QED
    BY <1>1, <2>1
<1>8. QED
  BY <1>5, <1>6, <1>7

(* What storing newer data for a package does: nothing gets older, and the *)
(* index follows.                                                          *)
LEMMA StoreFacts ==
  ASSUME FlowAssumption, NEW d \in PlainPartials, NEW index \in [Apps -> SUBSET Packages],
         Linked(d, index), NEW p \in Packages, NEW info \in Infos,
         p \in NamedOnce => IsInjective(info.apps), p \in DOMAIN d => d[p].change < info.change,
         NEW new, new = StoreNew(d, index, p, info)
  PROVE  /\ new.data \in PlainPartials
         /\ new.appData \in [Apps -> SUBSET Packages] /\ Linked(new.data, new.appData)
         /\ \A q \in DOMAIN d : q \in DOMAIN new.data /\ new.data[q].change >= d[q].change
         /\ p \in NamedOnce => p \in DOMAIN new.data /\ new.data[p] = info
<1> DEFINE all == [q \in DOMAIN d \cup {p} |-> IF q = p THEN info ELSE d[q]]
<1>1. /\ new.appData \in [Apps -> SUBSET Packages]
      /\ \A a \in Apps : \A q \in Packages \ {p} : q \in new.appData[a] <=> q \in index[a]
      /\ new.data = all \/ (new.data = d /\ p \notin NamedOnce)
      /\ p \in NamedOnce => \A a \in Apps : p \in new.appData[a] <=> a \in Range(info.apps)
  BY LinkFacts
<1>2. /\ DOMAIN d \subseteq Packages /\ d \in [DOMAIN d -> Infos]
      /\ \A q \in DOMAIN d \cap NamedOnce : IsInjective(d[q].apps)
  BY PartialsAre DEF PlainPartials
<1>3. /\ DOMAIN all = DOMAIN d \cup {p} /\ all[p] = info
      /\ \A q \in DOMAIN d \ {p} : all[q] = d[q]
  OBVIOUS
<1>4. DOMAIN all \subseteq Packages /\ all \in [DOMAIN all -> Infos]
  BY <1>2
<1> HIDE DEF all
<1>5. all \in PlainPartials
  <2>1. all \in Partials
    BY <1>4, PartialsAre
  <2>2. \A q \in DOMAIN all \cap NamedOnce : IsInjective(all[q].apps)
    BY <1>2, <1>3
  <2>3. QED
    BY <2>1, <2>2 DEF PlainPartials
<1>6. ASSUME NEW q \in DOMAIN d
      PROVE  q \in DOMAIN new.data /\ new.data[q].change >= d[q].change
  <2>1. d[q].change \in 1..MaxVersion /\ info.change \in 1..MaxVersion /\ MaxVersion \in Nat
    BY <1>2 DEF Infos, FlowAssumption
  <2>2. q \in DOMAIN new.data /\ (new.data[q] = d[q] \/ (q = p /\ new.data[q] = info))
    BY <1>1, <1>3
  <2>3. QED
    BY <2>1, <2>2
<1>7. ASSUME NEW a \in Apps, NEW q \in NamedOnce
      PROVE  q \in new.appData[a] <=> q \in DOMAIN new.data /\ a \in Range(new.data[q].apps)
  <2>1. q \in Packages
    BY DEF NamedOnce
  <2>2. CASE q = p
    BY <1>1, <1>3, <2>2
  <2>3. CASE q # p
    <3>1. q \in new.appData[a] <=> q \in DOMAIN d /\ a \in Range(d[q].apps)
      BY <1>1, <2>1, <2>3 DEF Linked
    <3>2. q \in DOMAIN d <=> q \in DOMAIN new.data
      BY <1>1, <1>3, <2>3
    <3>3. q \in DOMAIN d => new.data[q] = d[q]
      BY <1>1, <1>3, <2>3
    <3>4. QED
      BY <3>1, <3>2, <3>3
  <2>4. QED
    BY <2>2, <2>3
<1>8. QED
  BY <1>1, <1>3, <1>5, <1>6, <1>7 DEF Linked

(* What an answer has about a package is what the server has.              *)
LEMMA ReplyFacts ==
  ASSUME FlowAssumption, FlowInv, NEW r \in asked, NEW part \in SUBSET Packages
  PROVE  [job |-> r.job, infos |-> [q \in part |-> [change |-> version[q], apps |-> AppsOf[q][version[q]]]]]
           \in ResponseParts
<1> DEFINE all == [q \in part |-> [change |-> version[q], apps |-> AppsOf[q][version[q]]]]
<1>1. ASSUME NEW q \in part
      PROVE  /\ [change |-> version[q], apps |-> AppsOf[q][version[q]]] \in Infos
             /\ all[q].apps = AppsOf[q][version[q]] /\ version[q] \in 1..MaxVersion
  BY DEF FlowInv, FlowAssumption, Infos
<1>2. DOMAIN all \subseteq Packages /\ all \in [DOMAIN all -> Infos]
  BY <1>1
<1>3. \A q \in DOMAIN all \cap NamedOnce : IsInjective(all[q].apps)
  BY <1>1 DEF NamedOnce
<1>4. r.job \in Nat
  BY DEF FlowInv
<1> HIDE DEF all
<1>5. all \in PlainPartials
  BY <1>2, <1>3, PartialsAre DEF PlainPartials
<1>6. [job |-> r.job, infos |-> all] \in ResponseParts
  BY <1>4, <1>5 DEF ResponseParts
<1>7. QED
  BY <1>6 DEF all

(* The next part of an answer is one of those there are.                   *)
LEMMA PartFacts ==
  ASSUME FlowInv, NEW c \in Clients, responses[c] # <<>>
  PROVE  /\ responses[c] \in Seq(ResponseParts) /\ Tail(responses[c]) \in Seq(ResponseParts)
         /\ Head(responses[c]) \in ResponseParts /\ Head(responses[c]) = responses[c][1]
         /\ Head(responses[c]).infos \in PlainPartials
         /\ DOMAIN Head(responses[c]).infos \subseteq Packages
         /\ \A p \in DOMAIN Head(responses[c]).infos :
              /\ Head(responses[c]).infos[p] \in Infos
              /\ p \in NamedOnce => IsInjective(Head(responses[c]).infos[p].apps)
<1>1. responses[c] \in Seq(ResponseParts)
  BY DEF FlowInv
<1>2. Head(responses[c]) \in ResponseParts /\ Tail(responses[c]) \in Seq(ResponseParts)
  BY <1>1, RangeTail
<1>3. Head(responses[c]) = responses[c][1]
  BY <1>1, TailFacts
<1>4. Head(responses[c]).infos \in PlainPartials
  BY <1>2 DEF ResponseParts
<1>5. QED
  BY <1>1, <1>2, <1>3, <1>4, PartialsAre DEF PlainPartials

(* A package of a part is stored, or there is data that is not older.      *)
LEMMA PackageStored ==
  ASSUME FlowAssumption, FlowInv, NEW c \in Clients, NEW p \in Packages, StorePackage(c, p),
         responses[c] # <<>>, p \in DOMAIN Head(responses[c]).infos
  PROVE  /\ FlowInv'
         /\ \A q \in DOMAIN data : q \in DOMAIN data' /\ data'[q].change >= data[q].change
         /\ p \in NamedOnce =>
              p \in DOMAIN data' /\ data'[p].change >= Head(responses[c]).infos[p].change
<1> DEFINE info == Head(responses[c]).infos[p]
<1>1. /\ info \in Infos /\ info.change \in Nat
      /\ p \in NamedOnce => IsInjective(info.apps)
  BY PartFacts DEF Infos
<1>2. /\ UNCHANGED <<version, asked, responses, file, jobs>>
      /\ \/ /\ p \in DOMAIN data => data[p].change < info.change
            /\ data' = StoreNew(data, appData, p, info).data
            /\ appData' = StoreNew(data, appData, p, info).appData
            /\ wasUpdated' = TRUE
         \/ /\ p \in DOMAIN data /\ data[p].change >= info.change
            /\ UNCHANGED <<data, appData, wasUpdated>>
  BY DEF StorePackage, listServer
<1> HIDE DEF info
<1>3. /\ data \in PlainPartials /\ appData \in [Apps -> SUBSET Packages] /\ Linked(data, appData)
  BY DEF FlowInv
<1>4. CASE UNCHANGED <<data, appData, wasUpdated>> /\ p \in DOMAIN data /\ data[p].change >= info.change
  <2>1. FlowInv'
    BY <1>2, <1>4 DEF FlowInv
  <2>2. \A q \in DOMAIN data : data[q].change \in Nat
    BY <1>3, PartialsAre DEF PlainPartials, Infos
  <2>3. QED
    BY <1>4, <2>1, <2>2 DEF info
<1>5. CASE /\ p \in DOMAIN data => data[p].change < info.change
           /\ data' = StoreNew(data, appData, p, info).data
           /\ appData' = StoreNew(data, appData, p, info).appData
           /\ wasUpdated' = TRUE
  <2>1. /\ data' \in PlainPartials
        /\ appData' \in [Apps -> SUBSET Packages] /\ Linked(data', appData')
        /\ \A q \in DOMAIN data : q \in DOMAIN data' /\ data'[q].change >= data[q].change
        /\ p \in NamedOnce => p \in DOMAIN data' /\ data'[p] = info
    <3>1. PICK new : new = StoreNew(data, appData, p, info)
      OBVIOUS
    <3>2. /\ new.data \in PlainPartials
          /\ new.appData \in [Apps -> SUBSET Packages] /\ Linked(new.data, new.appData)
          /\ \A q \in DOMAIN data : q \in DOMAIN new.data /\ new.data[q].change >= data[q].change
          /\ p \in NamedOnce => p \in DOMAIN new.data /\ new.data[p] = info
      BY <1>1, <1>3, <1>5, <3>1, StoreFacts
    <3>3. QED
      BY <1>5, <3>1, <3>2
  <2>2. FlowInv'
    BY <1>2, <1>5, <2>1 DEF FlowInv
  <2>3. QED
    BY <1>1, <2>1, <2>2 DEF info
<1>6. QED
  BY <1>2, <1>4, <1>5

(* Where a client is in a part of an answer: what it has called update()   *)
(* for has data that is not older; and what is not in the file is marked   *)
(* while a client is at it.                                                *)
StoringOf(c) ==
    pc[c] = "store" =>
      /\ responses[c] # <<>> /\ storing[c] \subseteq DOMAIN Head(responses[c]).infos
      /\ \A p \in (DOMAIN Head(responses[c]).infos \ storing[c]) \cap NamedOnce :
           p \in DOMAIN data /\ data[p].change >= Head(responses[c]).infos[p].change
StoringInv ==
    /\ DOMAIN pc = Clients /\ storing \in [Clients -> SUBSET Packages]
    /\ \A c \in Clients : StoringOf(c)
    /\ wasUpdated => \E c \in Clients : pc[c] = "store"

(* The data, its file and its index change together.                       *)
LEMMA FlowStep ==
  ASSUME FlowAssumption, FlowInv, StoringInv, [FlowNext]_flowVars
  PROVE  /\ FlowInv'
         /\ \A p \in DOMAIN data : p \in DOMAIN data' /\ data'[p].change >= data[p].change
<1>0. ASSUME NEW p \in DOMAIN data
      PROVE  data[p].change \in Nat
  BY PartialsAre DEF FlowInv, PlainPartials, Infos
<1>1. CASE UNCHANGED <<version, asked, responses, store, jobs>>
  <2>1. FlowInv'
    BY <1>1 DEF FlowInv, store
  <2>2. QED
    BY <1>0, <1>1, <2>1 DEF store
<1>2. ASSUME NEW c \in Clients, \/ HandleLicenseList(c) \/ AppInfoUpdated(c) \/ ResponsesDone(c)
                                \/ SendLicenses(c) \/ TakeResponse(c)
      PROVE  UNCHANGED <<version, asked, responses, store, jobs>>
  BY <1>2 DEF HandleLicenseList, AppInfoUpdated, ResponsesDone, SendLicenses, TakeResponse, listServer
<1>3. ASSUME NEW c \in Clients, HandleLicenses(c)
      PROVE  FlowInv' /\ data' = data
  <2>1. UNCHANGED <<version, responses, store>>
    BY <1>3 DEF HandleLicenses
  <2>2. \/ UNCHANGED <<jobs, asked>>
        \/ /\ jobs' = jobs + 1
           /\ \E list : asked' = asked \cup {[client |-> c, job |-> jobs + 1, packages |-> list]}
    BY <1>3 DEF HandleLicenses
  <2>3. QED
    BY <2>1, <2>2 DEF FlowInv, store
<1>4. ASSUME NEW c \in Clients, NEW p \in Packages, StorePackage(c, p)
      PROVE  /\ FlowInv'
             /\ \A q \in DOMAIN data : q \in DOMAIN data' /\ data'[q].change >= data[q].change
  <2>1. responses[c] # <<>> /\ p \in DOMAIN Head(responses[c]).infos
    BY <1>4 DEF StorePackage, StoringInv, StoringOf
  <2>2. QED
    BY <1>4, <2>1, PackageStored
<1>a. ASSUME NEW c \in Clients, SaveStore(c)
      PROVE  FlowInv' /\ data' = data
  <2>1. /\ UNCHANGED <<version, asked, jobs, data, appData>> /\ wasUpdated' = FALSE
        /\ file' = (IF wasUpdated THEN data ELSE file)
        /\ responses' = [responses EXCEPT ![c] = Tail(@)]
    BY <1>a DEF SaveStore, listServer
  <2>2. responses[c] # <<>>
    BY <1>a DEF SaveStore, StoringInv, StoringOf
  <2>3. Tail(responses[c]) \in Seq(ResponseParts)
    BY <2>2, PartFacts
  <2>4. responses' \in [Clients -> Seq(ResponseParts)] /\ file' = data
    BY <2>1, <2>3 DEF FlowInv
  <2>5. QED
    BY <2>1, <2>4 DEF FlowInv
<1>5. ASSUME NEW p \in Packages, PackageChanges(p)
      PROVE  FlowInv' /\ data' = data
  <2>1. version' \in [Packages -> 1..MaxVersion]
    BY <1>5 DEF PackageChanges, FlowInv, FlowAssumption
  <2>2. QED
    BY <1>5, <2>1 DEF PackageChanges, FlowInv, store
<1>6. ASSUME NEW r \in asked, AnswerPart(r)
      PROVE  FlowInv' /\ data' = data
  <2>1. PICK part \in SUBSET (r.packages \cap Packages) :
          /\ responses' = [responses EXCEPT ![r.client] = Append(@,
                [job |-> r.job,
                 infos |-> [p \in part |-> [change |-> version[p], apps |-> AppsOf[p][version[p]]]]])]
          /\ asked' = (asked \ {r}) \cup
                (IF part = r.packages THEN {} ELSE {[r EXCEPT !.packages = @ \ part]})
    BY <1>6 DEF AnswerPart
  <2> DEFINE reply == [job |-> r.job,
                       infos |-> [p \in part |-> [change |-> version[p], apps |-> AppsOf[p][version[p]]]]]
  <2>2. UNCHANGED <<version, store, jobs>>
    BY <1>6 DEF AnswerPart
  <2>5. reply \in ResponseParts /\ r.client \in Clients
    BY ReplyFacts DEF FlowInv
  <2> HIDE DEF reply
  <2>6. Append(responses[r.client], reply) \in Seq(ResponseParts)
    BY <2>5, AppendFacts DEF FlowInv
  <2>7. responses' \in [Clients -> Seq(ResponseParts)]
    BY <2>1, <2>5, <2>6 DEF FlowInv, reply
  <2>8. \A s \in asked' : /\ s.client \in Clients /\ s.job \in Nat
                          /\ s = [client |-> s.client, job |-> s.job, packages |-> s.packages]
    <3>1. /\ r.client \in Clients /\ r.job \in Nat
          /\ r = [client |-> r.client, job |-> r.job, packages |-> r.packages]
      BY DEF FlowInv
    <3> DEFINE rest == [r EXCEPT !.packages = @ \ part]
    <3>2. rest = [client |-> r.client, job |-> r.job, packages |-> r.packages \ part]
      BY <3>1
    <3>3. /\ rest.client \in Clients /\ rest.job \in Nat
          /\ rest = [client |-> rest.client, job |-> rest.job, packages |-> rest.packages]
      BY <3>1, <3>2
    <3> HIDE DEF rest
    <3>4. asked' \subseteq asked \cup {rest}
      BY <2>1 DEF rest
    <3>5. QED
      BY <3>3, <3>4 DEF FlowInv
  <2>9. QED
    BY <2>2, <2>7, <2>8 DEF FlowInv, store
<1>7. CASE UNCHANGED flowVars
  BY <1>1, <1>7 DEF flowVars, store
<1>8. ASSUME data' = data, NEW p \in DOMAIN data
      PROVE  p \in DOMAIN data' /\ data'[p].change >= data[p].change
  BY <1>0, <1>8
<1>9. QED
  BY <1>1, <1>2, <1>3, <1>4, <1>a, <1>5, <1>6, <1>7, <1>8 DEF FlowNext, ClientStep

(* A part stays the first until its packages are stored and saved.         *)
LEMMA StoringStep ==
  ASSUME FlowAssumption, FlowInv, StoringInv, [FlowNext]_flowVars
  PROVE  StoringInv'
<1>1. /\ FlowInv' /\ \A p \in DOMAIN data : p \in DOMAIN data' /\ data'[p].change >= data[p].change
  BY FlowStep
<1>2. /\ \A p \in DOMAIN data : data[p].change \in Nat
      /\ \A p \in DOMAIN data' : data'[p].change \in Nat
  BY <1>1, PartialsAre DEF FlowInv, PlainPartials, Infos
<1>3. ASSUME NEW c \in Clients, NEW p \in NamedOnce, StoringOf(c), pc[c] = "store",
             p \in DOMAIN Head(responses[c]).infos, p \notin storing[c]
      PROVE  p \in DOMAIN data' /\ data'[p].change >= Head(responses[c]).infos[p].change
  <2> DEFINE n == Head(responses[c]).infos[p].change
  <2>1. responses[c] # <<>> /\ p \in DOMAIN data /\ data[p].change >= n
    BY <1>3 DEF StoringOf
  <2>2. n \in Nat
    BY <1>3, <2>1, PartFacts DEF Infos
  <2> HIDE DEF n
  <2>3. p \in DOMAIN data' /\ data'[p].change >= n
    BY <1>1, <1>2, <2>1, <2>2
  <2>4. QED
    BY <2>3 DEF n
<1>4. ASSUME NEW c \in Clients, StoringOf(c), pc'[c] = pc[c], storing'[c] = storing[c],
             responses'[c] = responses[c] \/ (responses[c] # <<>> => Head(responses'[c]) = Head(responses[c])
                                                                  /\ responses'[c] # <<>>)
      PROVE  StoringOf(c)'
  <2>1. CASE pc[c] # "store"
    BY <1>4, <2>1 DEF StoringOf
  <2>2. CASE pc[c] = "store"
    <3>1. responses'[c] # <<>> /\ Head(responses'[c]) = Head(responses[c])
          /\ storing[c] \subseteq DOMAIN Head(responses[c]).infos
      BY <1>4, <2>2 DEF StoringOf
    <3>2. \A p \in (DOMAIN Head(responses[c]).infos \ storing[c]) \cap NamedOnce :
            p \in DOMAIN data' /\ data'[p].change >= Head(responses[c]).infos[p].change
      BY <1>3, <1>4, <2>2
    <3>3. QED
      BY <1>4, <3>1, <3>2 DEF StoringOf
  <2>3. QED
    BY <2>1, <2>2
<1>5. CASE UNCHANGED <<pc, storing, responses, wasUpdated>>
  <2>1. \A c \in Clients : StoringOf(c)'
    BY <1>4, <1>5 DEF StoringInv
  <2>2. QED
    BY <1>5, <2>1 DEF StoringInv
<1>6. ASSUME NEW c \in Clients, HandleLicenseList(c) \/ SendLicenses(c)
      PROVE  StoringInv'
  BY <1>5, <1>6 DEF HandleLicenseList, SendLicenses, store, module
<1>7. ASSUME NEW p \in Packages, PackageChanges(p)
      PROVE  StoringInv'
  BY <1>5, <1>7 DEF PackageChanges, store, module
<1>8. ASSUME NEW c \in Clients, HandleLicenses(c) \/ AppInfoUpdated(c) \/ ResponsesDone(c)
      PROVE  StoringInv'
  <2>1. /\ pc[c] # "store" /\ pc' = [pc EXCEPT ![c] = pc'[c]] /\ pc'[c] # "store"
        /\ UNCHANGED <<storing, responses, wasUpdated>>
    <3>1. /\ pc[c] # "store" /\ (pc' = [pc EXCEPT ![c] = "responses"] \/ pc' = [pc EXCEPT ![c] = "wait"])
          /\ UNCHANGED <<storing, responses, wasUpdated>>
      BY <1>8 DEF HandleLicenses, AppInfoUpdated, ResponsesDone, store
    <3>2. QED
      BY <3>1 DEF StoringInv
  <2>2. ASSUME NEW d \in Clients
        PROVE  StoringOf(d)'
    <3>1. CASE d = c
      BY <2>1, <3>1 DEF StoringOf
    <3>2. CASE d # c
      <4>1. pc'[d] = pc[d] /\ storing'[d] = storing[d] /\ responses'[d] = responses[d] /\ StoringOf(d)
        BY <2>1, <3>2 DEF StoringInv
      <4>2. QED
        BY <1>4, <4>1
    <3>3. QED
      BY <3>1, <3>2
  <2>3. wasUpdated' => \E d \in Clients : pc'[d] = "store"
    BY <2>1 DEF StoringInv
  <2>4. DOMAIN pc' = Clients
    BY <2>1 DEF StoringInv
  <2>5. QED
    BY <2>1, <2>2, <2>3, <2>4 DEF StoringInv
<1>9. ASSUME NEW c \in Clients, TakeResponse(c)
      PROVE  StoringInv'
  <2>1. /\ responses[c] # <<>> /\ pc' = [pc EXCEPT ![c] = "store"]
        /\ storing' = [storing EXCEPT ![c] = DOMAIN Head(responses[c]).infos]
        /\ UNCHANGED <<responses, wasUpdated>>
    BY <1>9 DEF TakeResponse, store
  <2>2. DOMAIN Head(responses[c]).infos \subseteq Packages
    BY <2>1, PartFacts
  <2>3. /\ pc'[c] = "store" /\ storing'[c] = DOMAIN Head(responses[c]).infos
        /\ DOMAIN pc' = Clients /\ storing' \in [Clients -> SUBSET Packages]
    BY <2>1, <2>2 DEF StoringInv
  <2>4. ASSUME NEW d \in Clients
        PROVE  StoringOf(d)'
    <3>1. CASE d = c
      BY <2>1, <2>3, <3>1 DEF StoringOf
    <3>2. CASE d # c
      <4>1. pc'[d] = pc[d] /\ storing'[d] = storing[d] /\ responses'[d] = responses[d] /\ StoringOf(d)
        BY <2>1, <3>2 DEF StoringInv
      <4>2. QED
        BY <1>4, <4>1
    <3>3. QED
      BY <3>1, <3>2
  <2>5. QED
    BY <2>3, <2>4 DEF StoringInv
<1>10. ASSUME NEW c \in Clients, NEW p \in Packages, StorePackage(c, p)
       PROVE  StoringInv'
  <2>1. /\ pc[c] = "store" /\ p \in storing[c] /\ storing' = [storing EXCEPT ![c] = @ \ {p}]
        /\ UNCHANGED <<responses, pc>>
    BY <1>10 DEF StorePackage
  <2>2. /\ StoringOf(c) /\ responses[c] # <<>> /\ p \in DOMAIN Head(responses[c]).infos
        /\ storing[c] \subseteq DOMAIN Head(responses[c]).infos
    BY <2>1 DEF StoringInv, StoringOf
  <2>3. p \in NamedOnce => p \in DOMAIN data' /\ data'[p].change >= Head(responses[c]).infos[p].change
    BY <1>10, <2>2, PackageStored
  <2>4. storing' \in [Clients -> SUBSET Packages] /\ storing'[c] = storing[c] \ {p}
    BY <2>1 DEF StoringInv
  <2>5. ASSUME NEW d \in Clients
        PROVE  StoringOf(d)'
    <3>1. CASE d = c
      <4>1. \A q \in (DOMAIN Head(responses[c]).infos \ storing'[c]) \cap NamedOnce :
              q \in DOMAIN data' /\ data'[q].change >= Head(responses[c]).infos[q].change
        BY <1>3, <2>1, <2>2, <2>3, <2>4
      <4>2. QED
        BY <2>1, <2>2, <2>4, <3>1, <4>1 DEF StoringOf
    <3>2. CASE d # c
      <4>1. pc'[d] = pc[d] /\ storing'[d] = storing[d] /\ responses'[d] = responses[d] /\ StoringOf(d)
        BY <2>1, <3>2 DEF StoringInv
      <4>2. QED
        BY <1>4, <4>1
    <3>3. QED
      BY <3>1, <3>2
  <2>6. pc'[c] = "store" /\ DOMAIN pc' = Clients
    BY <2>1 DEF StoringInv
  <2>7. QED
    BY <2>4, <2>5, <2>6 DEF StoringInv
<1>11. ASSUME NEW c \in Clients, SaveStore(c)
       PROVE  StoringInv'
  <2>1. /\ \/ pc' = [pc EXCEPT ![c] = "appinfo"] \/ pc' = [pc EXCEPT ![c] = "responses"]
        /\ responses' = [responses EXCEPT ![c] = Tail(@)] /\ storing' = storing /\ wasUpdated' = FALSE
    BY <1>11 DEF SaveStore
  <2>2. pc'[c] # "store" /\ DOMAIN pc' = Clients
    BY <2>1 DEF StoringInv
  <2>3. ASSUME NEW d \in Clients
        PROVE  StoringOf(d)'
    <3>1. CASE d = c
      BY <2>2, <3>1 DEF StoringOf
    <3>2. CASE d # c
      <4>1. pc'[d] = pc[d] /\ storing'[d] = storing[d] /\ responses'[d] = responses[d] /\ StoringOf(d)
        BY <2>1, <3>2 DEF StoringInv, FlowInv
      <4>2. QED
        BY <1>4, <4>1
    <3>3. QED
      BY <3>1, <3>2
  <2>4. QED
    BY <2>1, <2>2, <2>3 DEF StoringInv
<1>12. ASSUME NEW r \in asked, AnswerPart(r)
       PROVE  StoringInv'
  <2>1. PICK part \in SUBSET (r.packages \cap Packages) :
          responses' = [responses EXCEPT ![r.client] = Append(@,
                [job |-> r.job,
                 infos |-> [p \in part |-> [change |-> version[p], apps |-> AppsOf[p][version[p]]]]])]
    BY <1>12 DEF AnswerPart
  <2>2. UNCHANGED <<pc, storing, wasUpdated>> /\ r.client \in Clients
    BY <1>12 DEF AnswerPart, store, module, FlowInv
  <2>3. PICK reply : /\ reply \in ResponseParts
                     /\ responses' = [responses EXCEPT ![r.client] = Append(@, reply)]
    BY <2>1, ReplyFacts
  <2>4. ASSUME NEW d \in Clients
        PROVE  StoringOf(d)'
    <3>1. responses \in [Clients -> Seq(ResponseParts)] /\ StoringOf(d)
      BY DEF FlowInv, StoringInv
    <3>2. responses'[d] = responses[d] \/ (d = r.client /\ responses'[d] = Append(responses[d], reply))
      BY <2>2, <2>3, <3>1
    <3>3. ASSUME responses[d] # <<>>
          PROVE  Head(Append(responses[d], reply)) = Head(responses[d]) /\ Append(responses[d], reply) # <<>>
      BY <2>3, <3>1, <3>3
    <3>4. QED
      BY <1>4, <2>2, <3>1, <3>2, <3>3
  <2>5. QED
    BY <2>2, <2>4 DEF StoringInv
<1>13. CASE UNCHANGED flowVars
  BY <1>5, <1>13 DEF flowVars
<1>14. QED
  BY <1>6, <1>7, <1>8, <1>9, <1>10, <1>11, <1>12, <1>13 DEF FlowNext, ClientStep

(* The data read from the file, and the index made of it.                  *)
LEMMA FlowStarts ==
  ASSUME FlowAssumption, FlowInit
  PROVE  FlowInv /\ StoringInv
<1>1. PICK change \in PartialFunctions(Packages, 1..MaxVersion) :
        /\ \A p \in DOMAIN change : change[p] <= version[p] /\ IsInjective(AppsOf[p][change[p]])
        /\ file = [p \in DOMAIN change |-> [change |-> change[p], apps |-> AppsOf[p][change[p]]]]
  BY DEF FlowInit
<1>2. DOMAIN change \subseteq Packages /\ change \in [DOMAIN change -> 1..MaxVersion]
  BY DEF PartialFunctions
<1>3. /\ DOMAIN file \subseteq Packages /\ file \in [DOMAIN file -> Infos]
      /\ \A p \in DOMAIN file : IsInjective(file[p].apps)
  BY <1>1, <1>2 DEF FlowAssumption, Infos
<1>4. file \in PlainPartials
  BY <1>3, PartialsAre DEF PlainPartials
<1>5. data = file /\ appData = [a \in Apps |-> {p \in DOMAIN file : a \in Range(file[p].apps)}]
  BY DEF FlowInit, LoadFile
<1>6. appData \in [Apps -> SUBSET Packages] /\ Linked(data, appData)
  BY <1>3, <1>5 DEF Linked
<1>7. responses \in [Clients -> Seq(ResponseParts)] /\ asked = {} /\ jobs = 0
      /\ version \in [Packages -> 1..MaxVersion] /\ wasUpdated = FALSE
  BY DEF FlowInit
<1>8. FlowInv
  BY <1>4, <1>5, <1>6, <1>7 DEF FlowInv
<1>9. pc = [c \in Clients |-> "wait"] /\ storing = [c \in Clients |-> {}]
  BY DEF FlowInit
<1>10. QED
  BY <1>7, <1>8, <1>9 DEF StoringInv, StoringOf

NothingRead == [map |-> << >>, new |-> {}, family |-> 0, ok |-> TRUE]

(* h[s] is what is read of the licenses with an index in s, a subset of I. *)
Reads(h, earlier, message, I) ==
  h = [s \in SUBSET I |->
         IF s = {} THEN NothingRead
         ELSE AddLicense(earlier, message.numbers, h[s \ {Max(s)}], message.list[Max(s)])]

(* ReadList() is such a function for all indices, if there is one.         *)
LEMMA ReadListIs ==
  ASSUME NEW earlier, NEW message
  PROVE  ReadList(earlier, message) =
           (CHOOSE h : Reads(h, earlier, message, DOMAIN message.list))[DOMAIN message.list]
BY DEF ReadList, FoldLeft, MapThenFoldSet, Reads, NothingRead

(* There is one.                                                           *)
LEMMA ReadingExists ==
  ASSUME NEW earlier, NEW message, NEW N \in Nat
  PROVE  \E h : Reads(h, earlier, message, 1..N)
<1> DEFINE T == {n \in Nat : \E h : Reads(h, earlier, message, 1..n)}
           Added(h, s) == AddLicense(earlier, message.numbers, h[s \ {Max(s)}], message.list[Max(s)])
<1>1. 0 \in T
  <2> DEFINE h == [s \in SUBSET (1..0) |-> NothingRead]
  <2>1. 1..0 = {}
    OBVIOUS
  <2>2. \A s \in SUBSET (1..0) : s = {}
    BY <2>1
  <2>3. Reads(h, earlier, message, 1..0)
    BY <2>2 DEF Reads
  <2>4. QED
    BY <2>3
<1>2. ASSUME NEW n \in Nat, n \in T
      PROVE  n + 1 \in T
  <2>1. PICK h : Reads(h, earlier, message, 1..n)
    BY <1>2
  <2>2. \A s \in SUBSET (1..n) : h[s] = IF s = {} THEN NothingRead ELSE Added(h, s)
    BY <2>1 DEF Reads
  <2> DEFINE lastOf(s) == AddLicense(earlier, message.numbers, h[s \ {n + 1}], message.list[n + 1])
             g == [s \in SUBSET (1..(n + 1)) |-> IF n + 1 \in s THEN lastOf(s) ELSE h[s]]
  <2>3. ASSUME NEW s \in SUBSET (1..(n + 1))
        PROVE  g[s] = IF s = {} THEN NothingRead ELSE Added(g, s)
    <3>1. CASE n + 1 \in s
      <4>1. Max(s) = n + 1
        BY <3>1, LastIndex
      <4>2. s \ {n + 1} \in SUBSET (1..n) /\ s \ {n + 1} \in SUBSET (1..(n + 1))
        OBVIOUS
      <4>3. g[s \ {n + 1}] = h[s \ {n + 1}]
        BY <4>2
      <4>4. g[s] = lastOf(s) /\ s # {}
        BY <3>1
      <4> HIDE DEF g
      <4>5. QED
        BY <4>1, <4>3, <4>4
    <3>2. CASE n + 1 \notin s
      <4>0. \A x \in s : x \in 1..n
        <5>1. ASSUME NEW x \in s PROVE x \in 1..n
          <6>1. x \in 1..(n + 1) /\ x # n + 1
            BY <3>2
          <6>2. QED
            BY <6>1
        <5>2. QED
          BY <5>1
      <4>1. s \in SUBSET (1..n) /\ s \ {Max(s)} \in SUBSET (1..n)
        BY <4>0
      <4>2. g[s] = h[s] /\ g[s \ {Max(s)}] = h[s \ {Max(s)}]
        <5>1. s \ {Max(s)} \in SUBSET (1..(n + 1)) /\ n + 1 \notin s \ {Max(s)}
          BY <3>2
        <5>2. QED
          BY <3>2, <5>1
      <4> HIDE DEF g
      <4>3. QED
        BY <2>2, <4>1, <4>2
    <3>3. QED
      BY <3>1, <3>2
  <2>4. Reads(g, earlier, message, 1..(n + 1))
    <3>1. g = [s \in SUBSET (1..(n + 1)) |-> g[s]]
      OBVIOUS
    <3> HIDE DEF g
    <3>2. QED
      BY <2>3, <3>1 DEF Reads
  <2>5. QED
    BY <2>4
<1> HIDE DEF T
<1>3. Nat \subseteq T
  BY <1>1, <1>2, SetInduction
<1>4. QED
  BY <1>3 DEF T

(* So the licenses are read one by one: g[i] is what is read of the first i. *)
LEMMA ReadSteps ==
  ASSUME NEW earlier, NEW message, NEW S, message.list \in Seq(S)
  PROVE  \E g : /\ g[0] = NothingRead
                /\ \A i \in 1..Len(message.list) :
                     g[i] = AddLicense(earlier, message.numbers, g[i - 1], message.list[i])
                /\ ReadList(earlier, message) = g[Len(message.list)]
<1> DEFINE N == Len(message.list)
           h == CHOOSE f : Reads(f, earlier, message, 1..N)
           g == [i \in 0..N |-> h[1..i]]
<1>1. N \in Nat /\ DOMAIN message.list = 1..N
  OBVIOUS
<1> HIDE DEF N
<1>2. Reads(h, earlier, message, 1..N)
  BY <1>1, ReadingExists
<1>3. ReadList(earlier, message) = h[1..N]
  BY <1>1, ReadListIs
<1> HIDE DEF h
<1>4. \A s \in SUBSET (1..N) :
        h[s] = IF s = {} THEN NothingRead
               ELSE AddLicense(earlier, message.numbers, h[s \ {Max(s)}], message.list[Max(s)])
  BY <1>2 DEF Reads
<1>5. g[0] = NothingRead
  <2>1. 1..0 = {} /\ 1..0 \in SUBSET (1..N)
    OBVIOUS
  <2>2. QED
    <3>1. g[0] = h[1..0]
      BY <1>1
    <3>2. h[{}] = NothingRead
      BY <1>4
    <3> HIDE DEF g
    <3>3. QED
      BY <2>1, <3>1, <3>2
<1>6. ASSUME NEW i \in 1..N
      PROVE  g[i] = AddLicense(earlier, message.numbers, g[i - 1], message.list[i])
  <2>0. i \in Nat /\ 1 <= i /\ i <= N
    BY <1>1
  <2>1. i - 1 \in Nat /\ (i - 1) + 1 = i /\ i \in 1..i
    BY <2>0
  <2>a. 1..i \in SUBSET (1..N) /\ 1..i # {}
    <3>1. \A x \in 1..i : x \in 1..N
      BY <1>1, <2>0
    <3>2. QED
      BY <2>1, <3>1
  <2>2. Max(1..i) = i
    <3>1. \A n \in Nat : n + 1 \in 1..(n + 1) => Max(1..(n + 1)) = n + 1
      BY LastIndex
    <3>2. QED
      BY <2>1, <3>1
  <2>3. (1..i) \ {i} = 1..(i - 1)
    BY <1>1
  <2>4. g[i] = h[1..i] /\ g[i - 1] = h[1..(i - 1)]
    BY <1>1
  <2> HIDE DEF g
  <2>5. QED
    BY <1>4, <2>a, <2>2, <2>3, <2>4
<1>7. g[N] = h[1..N]
  BY <1>1
<1>8. QED
  BY <1>3, <1>5, <1>6, <1>7 DEF N

(* What has been read of the first n licenses: the packages they name,     *)
(* owned if one of them is, and how many are the family's.                 *)
LicensesRead(acc, message, n) ==
  /\ DOMAIN acc.map = {message.list[j].pkg : j \in 1..n}
  /\ \A p \in DOMAIN acc.map :
       /\ acc.map[p].change = message.numbers[p] /\ acc.map[p].family \in BOOLEAN
       /\ acc.map[p].family <=> \A j \in 1..n : message.list[j].pkg = p => message.list[j].family
  /\ acc.ok = TRUE /\ acc.new \subseteq DOMAIN acc.map
  /\ IsFiniteSet({p \in DOMAIN acc.map : acc.map[p].family})
  /\ acc.family = Cardinality({p \in DOMAIN acc.map : acc.map[p].family})

(* What a list consists of.                                                *)
LEMMA LicenseItems ==
  ASSUME NEW list \in Seq([pkg : Packages, family : BOOLEAN])
  PROVE  \A j \in 1..Len(list) : list[j].family \in BOOLEAN /\ list[j].pkg \in Packages
<1>1. \A j \in 1..Len(list) : list[j] \in [pkg : Packages, family : BOOLEAN]
  BY ElementOfSeq
<1>2. QED
  BY <1>1

(* One more and one less of a finite set.                                  *)
LEMMA OneMoreOrLess ==
  ASSUME NEW S, IsFiniteSet(S), Cardinality(S) \in Nat, NEW x
  PROVE  /\ x \notin S => /\ IsFiniteSet(S \cup {x})
                         /\ Cardinality(S \cup {x}) = Cardinality(S) + 1
         /\ x \in S => /\ IsFiniteSet(S \ {x})
                      /\ Cardinality(S \ {x}) = Cardinality(S) - 1
<1>1. ASSUME x \notin S
      PROVE  IsFiniteSet(S \cup {x}) /\ Cardinality(S \cup {x}) = Cardinality(S) + 1
  BY <1>1, FS_AddElement
<1>2. ASSUME x \in S
      PROVE  IsFiniteSet(S \ {x}) /\ Cardinality(S \ {x}) = Cardinality(S) - 1
  BY <1>2, FS_RemoveElement, SMTT(30)
<1>3. QED
  BY <1>1, <1>2

(* One more license is read.                                               *)
LEMMA ReadOneMore ==
  ASSUME FlowAssumption, NEW earlier, NEW message, message.list \in Lists,
         NEW n \in Nat, n + 1 <= Len(message.list), NEW acc, LicensesRead(acc, message, n)
  PROVE  LicensesRead(AddLicense(earlier, message.numbers, acc, message.list[n + 1]), message, n + 1)
<1> DEFINE list == message.list
           l == list[n + 1]
           new == AddLicense(earlier, message.numbers, acc, l)
           twice == l.pkg \in DOMAIN acc.map
           OfFamily == {p \in DOMAIN acc.map : acc.map[p].family}
           OfFamilyNow == {p \in DOMAIN new.map : new.map[p].family}
<1>1. /\ list \in Seq([pkg : Packages, family : BOOLEAN])
      /\ \A i, j \in 1..Len(list) : (~list[i].family /\ ~list[j].family /\ list[i].pkg = list[j].pkg) => i = j
  <2>1. list \in Seq([pkg : Packages, family : BOOLEAN])
    BY DEF FlowAssumption
  <2>2. DOMAIN list = 1..Len(list)
    BY <2>1
  <2>3. QED
    BY <2>1, <2>2 DEF FlowAssumption
<1> HIDE DEF list
<1>2. l.family \in BOOLEAN /\ \A j \in 1..(n + 1) : j \in 1..n \/ j = n + 1
  <2>1. n + 1 \in 1..Len(list)
    BY <1>1 DEF list
  <2>2. \A j \in 1..Len(list) : list[j].family \in BOOLEAN
    BY <1>1, LicenseItems
  <2>3. QED
    BY <2>1, <2>2
<1>3. \A j \in 1..n : j \in 1..Len(list) /\ j \in 1..(n + 1) /\ j # n + 1
  BY <1>1 DEF list
<1>4. n + 1 \in 1..(n + 1) /\ n + 1 \in 1..Len(list)
  BY <1>1 DEF list
<1> DEFINE entry == [change |-> message.numbers[l.pkg], family |-> l.family]
           keep == twice /\ l.family
<1>5. /\ new.map = [q \in DOMAIN acc.map \cup {l.pkg} |-> IF q = l.pkg /\ ~keep THEN entry ELSE acc.map[q]]
      /\ new.family = acc.family + (IF l.family THEN 1 ELSE 0) - (IF twice THEN 1 ELSE 0)
      /\ new.ok = (acc.ok /\ (twice /\ ~l.family => acc.map[l.pkg].family))
      /\ new.new \subseteq acc.new \cup {l.pkg}
  BY DEF AddLicense, list
<1> HIDE DEF new
<1>6. DOMAIN acc.map = {list[j].pkg : j \in 1..n}
  BY DEF LicensesRead, list
<1>7. ASSUME twice, ~l.family
      PROVE  acc.map[l.pkg].family
  <2>1. \A j \in 1..n : list[j].pkg = l.pkg => list[j].family
    BY <1>1, <1>3, <1>4, <1>7
  <2>2. QED
    BY <1>7, <2>1 DEF LicensesRead, list
<1>8. DOMAIN new.map = {list[j].pkg : j \in 1..(n + 1)}
  BY <1>2, <1>3, <1>4, <1>5, <1>6
<1>9. ASSUME NEW p \in DOMAIN new.map
      PROVE  /\ new.map[p].change = message.numbers[p] /\ new.map[p].family \in BOOLEAN
             /\ new.map[p].family <=> \A j \in 1..(n + 1) : list[j].pkg = p => list[j].family
  <2>1. CASE p # l.pkg
    <3>1. p \in DOMAIN acc.map /\ new.map[p] = acc.map[p]
      BY <1>5, <2>1
    <3>2. (\A j \in 1..(n + 1) : list[j].pkg = p => list[j].family)
            <=> \A j \in 1..n : list[j].pkg = p => list[j].family
      BY <1>2, <1>3, <2>1
    <3>3. QED
      BY <3>1, <3>2 DEF LicensesRead, list
  <2>2. CASE p = l.pkg /\ ~twice
    <3>1. new.map[p] = entry /\ \A j \in 1..n : list[j].pkg # p
      BY <1>5, <1>6, <2>2
    <3>2. (\A j \in 1..(n + 1) : list[j].pkg = p => list[j].family) <=> l.family
      BY <1>2, <1>4, <2>2, <3>1
    <3>3. QED
      BY <1>2, <2>2, <3>1, <3>2
  <2>3. CASE p = l.pkg /\ twice /\ l.family
    <3>1. new.map[p] = acc.map[p] /\ p \in DOMAIN acc.map
      BY <1>5, <2>3
    <3>2. (\A j \in 1..(n + 1) : list[j].pkg = p => list[j].family)
            <=> \A j \in 1..n : list[j].pkg = p => list[j].family
      BY <1>2, <1>3, <2>3
    <3>3. QED
      BY <3>1, <3>2 DEF LicensesRead, list
  <2>4. CASE p = l.pkg /\ twice /\ ~l.family
    <3>1. new.map[p] = entry
      BY <1>5, <2>4
    <3>2. ~(\A j \in 1..(n + 1) : list[j].pkg = p => list[j].family)
      BY <1>4, <2>4
    <3>3. QED
      BY <1>2, <2>4, <3>1, <3>2
  <2>5. QED
    BY <1>2, <2>1, <2>2, <2>3, <2>4
<1>10. IsFiniteSet(OfFamily) /\ acc.family = Cardinality(OfFamily) /\ Cardinality(OfFamily) \in Nat
  <2>1. IsFiniteSet(OfFamily) /\ acc.family = Cardinality(OfFamily)
    BY DEF LicensesRead
  <2>2. QED
    BY <2>1, FS_CardinalityType
<1>11. IsFiniteSet(OfFamilyNow) /\ new.family = Cardinality(OfFamilyNow)
  <2>1. CASE twice /\ l.family
    <3>1. OfFamilyNow = OfFamily
      <4>1. \A p : p \in OfFamilyNow <=> p \in OfFamily
        BY <1>5, <2>1
      <4>2. QED
        BY <4>1
    <3>2. new.family = acc.family
      BY <1>5, <1>10, <2>1
    <3>3. QED
      BY <1>10, <3>1, <3>2
  <2>2. CASE twice /\ ~l.family
    <3>1. OfFamilyNow = OfFamily \ {l.pkg} /\ l.pkg \in OfFamily
      <4>1. \A p : p \in OfFamilyNow <=> p \in OfFamily /\ p # l.pkg
        BY <1>5, <2>2
      <4>2. OfFamilyNow = OfFamily \ {l.pkg}
        BY <4>1
      <4>3. QED
        BY <1>7, <2>2, <4>2
    <3>2. new.family = acc.family - 1
      BY <1>5, <1>10, <2>2
    <3> HIDE DEF OfFamily, OfFamilyNow
    <3>3. IsFiniteSet(OfFamily \ {l.pkg}) /\ Cardinality(OfFamily \ {l.pkg}) = Cardinality(OfFamily) - 1
      BY <1>10, <3>1, OneMoreOrLess, Zenon
    <3>4. QED
      BY <1>10, <3>1, <3>2, <3>3
  <2>3. CASE ~twice /\ l.family
    <3>1. OfFamilyNow = OfFamily \cup {l.pkg} /\ l.pkg \notin OfFamily
      <4>1. \A p : p \in OfFamilyNow <=> p \in OfFamily \/ p = l.pkg
        BY <1>5, <2>3
      <4>2. OfFamilyNow = OfFamily \cup {l.pkg}
        BY <4>1
      <4>3. QED
        BY <2>3, <4>2
    <3>2. new.family = acc.family + 1
      BY <1>5, <1>10, <2>3
    <3> HIDE DEF OfFamily, OfFamilyNow
    <3>3. /\ IsFiniteSet(OfFamily \cup {l.pkg})
          /\ Cardinality(OfFamily \cup {l.pkg}) = Cardinality(OfFamily) + 1
      BY <1>10, <3>1, OneMoreOrLess, Zenon
    <3>4. QED
      BY <1>10, <3>1, <3>2, <3>3
  <2>4. CASE ~twice /\ ~l.family
    <3>1. OfFamilyNow = OfFamily
      <4>1. \A p : p \in OfFamilyNow <=> p \in OfFamily
        BY <1>5, <2>4
      <4>2. QED
        BY <4>1
    <3>2. new.family = acc.family
      BY <1>5, <1>10, <2>4, SMTT(30)
    <3>3. QED
      BY <1>10, <3>1, <3>2
  <2>5. QED
    BY <2>1, <2>2, <2>3, <2>4
<1>12. new.ok = TRUE /\ new.new \subseteq DOMAIN new.map
  BY <1>5, <1>7 DEF LicensesRead
<1>13. QED
  BY <1>8, <1>9, <1>11, <1>12 DEF LicensesRead, new, list

(* The whole list is read.                                                 *)
LEMMA ReadAll ==
  ASSUME FlowAssumption, NEW earlier, NEW message, message.list \in Lists
  PROVE  LicensesRead(ReadList(earlier, message), message, Len(message.list))
<1> DEFINE N == Len(message.list)
<1>1. message.list \in Seq([pkg : Packages, family : BOOLEAN]) /\ N \in Nat
  <2>1. message.list \in Seq([pkg : Packages, family : BOOLEAN])
    BY DEF FlowAssumption
  <2>2. QED
    BY <2>1
<1>2. PICK g : /\ g[0] = NothingRead
               /\ \A i \in 1..N : g[i] = AddLicense(earlier, message.numbers, g[i - 1], message.list[i])
               /\ ReadList(earlier, message) = g[N]
  BY <1>1, ReadSteps, Zenon
<1> HIDE DEF N
<1> DEFINE T == {n \in Nat : n <= N => LicensesRead(g[n], message, n)}
<1>3. 0 \in T
  <2>1. 1..0 = {} /\ DOMAIN NothingRead.map = {} /\ NothingRead.ok = TRUE /\ NothingRead.family = 0
        /\ NothingRead.new = {}
    BY DEF NothingRead
  <2>2. IsFiniteSet({}) /\ Cardinality({}) = 0
    BY FS_EmptySet
  <2>3. LicensesRead(g[0], message, 0)
    <3>1. {p \in DOMAIN NothingRead.map : NothingRead.map[p].family} = {}
      BY <2>1
    <3>2. {message.list[j].pkg : j \in 1..0} = {}
      BY <2>1
    <3>3. QED
      BY <1>2, <2>1, <2>2, <3>1, <3>2 DEF LicensesRead
  <2>4. QED
    BY <2>3
<1>4. ASSUME NEW n \in Nat, n \in T
      PROVE  n + 1 \in T
  <2>1. SUFFICES ASSUME n + 1 <= N PROVE LicensesRead(g[n + 1], message, n + 1)
    OBVIOUS
  <2>2. n <= N /\ n + 1 \in 1..N /\ (n + 1) - 1 = n
    BY <1>1, <2>1
  <2>3. g[n + 1] = AddLicense(earlier, message.numbers, g[n], message.list[n + 1])
    BY <1>2, <2>2
  <2>4. LicensesRead(g[n], message, n)
    BY <1>4, <2>2
  <2>5. QED
    BY <2>1, <2>3, <2>4, ReadOneMore DEF N
<1> HIDE DEF T
<1>5. Nat \subseteq T
  BY <1>3, <1>4, SetInduction
<1>6. QED
  BY <1>1, <1>2, <1>5 DEF T, N

(* The lists on their way to a client come after the one it has, in the    *)
(* order they were sent in, with change numbers the server has had.        *)
ListMessages == [id : Nat, list : Lists, numbers : [Packages -> 1..MaxVersion]]
ListsOf(c) ==
    /\ licenses[c].id \in Nat /\ licenses[c].id <= listsSent
    /\ \A i \in 1..Len(lists[c]) :
          /\ licenses[c].id < lists[c][i].id /\ lists[c][i].id <= listsSent
          /\ \A j \in 1..Len(lists[c]) : i < j => lists[c][i].id < lists[c][j].id
          /\ \A p \in Packages : lists[c][i].numbers[p] <= version[p]
ListsInv ==
    /\ listsSent \in Nat /\ lists \in [Clients -> Seq(ListMessages)]
    /\ DOMAIN licenses = Clients
    /\ \A c \in Clients : ListsOf(c)

(* The change numbers of the server only grow.                             *)
LEMMA VersionsGrow ==
  ASSUME FlowAssumption, FlowInv, [FlowNext]_flowVars
  PROVE  \A p \in Packages : version[p] \in Nat /\ version'[p] \in Nat /\ version[p] <= version'[p]
<1>1. version \in [Packages -> 1..MaxVersion] /\ MaxVersion \in Nat
  BY SMTT(30) DEF FlowInv, FlowAssumption
<1>2. version' = version \/ \E p \in Packages : PackageChanges(p)
  BY DEF FlowNext, ClientStep, flowVars, SendLicenses, HandleLicenseList, HandleLicenses,
         TakeResponse, StorePackage, SaveStore, AppInfoUpdated, ResponsesDone, AnswerPart, listServer
<1>3. version' = version \/ \E p \in Packages : version' = [version EXCEPT ![p] = @ + 1]
  BY <1>2 DEF PackageChanges
<1>4. QED
  BY <1>1, <1>3

(* A list the client gets, and one that is sent to it.                     *)
LEMMA ListsStep ==
  ASSUME FlowAssumption, FlowInv, ListsInv, [FlowNext]_flowVars
  PROVE  ListsInv'
<1>1. \A p \in Packages : version[p] \in Nat /\ version'[p] \in Nat /\ version[p] <= version'[p]
  BY VersionsGrow
<1>2. /\ listsSent \in Nat
      /\ \A d \in Clients : /\ lists[d] \in Seq(ListMessages) /\ Len(lists[d]) \in Nat
                            /\ licenses[d].id \in Nat
  BY DEF ListsInv, ListsOf
<1>3. ASSUME NEW d \in Clients, NEW i \in 1..Len(lists[d])
      PROVE  /\ lists[d][i].id \in Nat
             /\ \A p \in Packages : lists[d][i].numbers[p] <= version'[p]
  <2>1. lists[d][i] \in ListMessages
    BY <1>2, ElementOfSeq
  <2>2. MaxVersion \in Nat /\ \A p \in Packages : lists[d][i].numbers[p] \in 1..MaxVersion
    BY <2>1 DEF ListMessages, FlowAssumption
  <2>3. \A p \in Packages : lists[d][i].numbers[p] <= version[p]
    BY DEF ListsInv, ListsOf
  <2>4. QED
    BY <1>1, <2>1, <2>2, <2>3 DEF ListMessages
<1>4. ASSUME NEW d \in Clients, lists'[d] = lists[d], licenses'[d] = licenses[d],
             listsSent' = listsSent \/ listsSent' = listsSent + 1
      PROVE  ListsOf(d)'
  <2>1. ListsOf(d)
    BY DEF ListsInv
  <2>2. licenses[d].id <= listsSent'
    BY <1>2, <1>4, <2>1 DEF ListsOf
  <2>3. ASSUME NEW i \in 1..Len(lists[d])
        PROVE  /\ licenses[d].id < lists[d][i].id /\ lists[d][i].id <= listsSent'
               /\ \A j \in 1..Len(lists[d]) : i < j => lists[d][i].id < lists[d][j].id
               /\ \A p \in Packages : lists[d][i].numbers[p] <= version'[p]
    BY <1>2, <1>3, <1>4, <2>1 DEF ListsOf
  <2>4. QED
    BY <1>2, <1>4, <2>2, <2>3 DEF ListsOf
<1>5. ASSUME NEW c \in Clients, HandleLicenseList(c)
      PROVE  ListsInv'
  <2>1. /\ lists[c] # <<>> /\ lists' = [lists EXCEPT ![c] = Tail(@)] /\ listsSent' = listsSent
        /\ \E map : licenses' = [licenses EXCEPT ![c] = [id |-> Head(lists[c]).id, map |-> map]]
    BY <1>5 DEF HandleLicenseList, listServer
  <2>2. /\ Head(lists[c]) = lists[c][1] /\ Tail(lists[c]) \in Seq(ListMessages)
        /\ Len(lists[c]) \in Nat \ {0} /\ Len(Tail(lists[c])) = Len(lists[c]) - 1
        /\ \A i \in 1..(Len(lists[c]) - 1) : Tail(lists[c])[i] = lists[c][i + 1]
    BY <1>2, <2>1, TailFacts
  <2>3. DOMAIN licenses' = Clients /\ licenses'[c].id = lists[c][1].id
        /\ \A d \in Clients \ {c} : licenses'[d] = licenses[d]
    BY <2>1, <2>2 DEF ListsInv
  <2>4. lists' \in [Clients -> Seq(ListMessages)] /\ lists'[c] = Tail(lists[c])
        /\ \A d \in Clients \ {c} : lists'[d] = lists[d]
    BY <2>1, <2>2 DEF ListsInv
  <2>5. ASSUME NEW i \in 1..Len(lists'[c])
        PROVE  /\ i + 1 \in 1..Len(lists[c]) /\ 1 < i + 1 /\ i \in Nat
               /\ lists'[c][i] = lists[c][i + 1]
    BY <2>2, <2>4
  <2>6. ListsOf(c)'
    <3>1. ListsOf(c) /\ 1 \in 1..Len(lists[c])
      BY <2>2 DEF ListsInv
    <3>2. lists[c][1].id \in Nat /\ lists[c][1].id <= listsSent
      BY <1>3, <3>1 DEF ListsOf
    <3>3. ASSUME NEW i \in 1..Len(lists'[c])
          PROVE  /\ lists[c][1].id < lists'[c][i].id /\ lists'[c][i].id <= listsSent
                 /\ \A j \in 1..Len(lists'[c]) : i < j => lists'[c][i].id < lists'[c][j].id
                 /\ \A p \in Packages : lists'[c][i].numbers[p] <= version'[p]
      <4>1. /\ i + 1 \in 1..Len(lists[c]) /\ 1 < i + 1 /\ i \in Nat /\ lists'[c][i] = lists[c][i + 1]
        BY <2>5
      <4>2. lists[c][1].id < lists[c][i + 1].id /\ lists[c][i + 1].id <= listsSent
        BY <3>1, <4>1 DEF ListsOf
      <4>3. ASSUME NEW j \in 1..Len(lists'[c]), i < j
            PROVE  lists'[c][i].id < lists'[c][j].id
        <5>1. j + 1 \in 1..Len(lists[c]) /\ j \in Nat /\ lists'[c][j] = lists[c][j + 1]
          BY <2>5
        <5>2. i + 1 < j + 1
          BY <4>1, <4>3, <5>1
        <5>3. lists[c][i + 1].id < lists[c][j + 1].id
          BY <3>1, <4>1, <5>1, <5>2 DEF ListsOf
        <5>4. QED
          BY <4>1, <5>1, <5>3
      <4>4. QED
        BY <1>3, <4>1, <4>2, <4>3
    <3>4. QED
      BY <2>1, <2>3, <3>2, <3>3 DEF ListsOf
  <2>7. \A d \in Clients : ListsOf(d)'
    BY <1>4, <2>1, <2>3, <2>4, <2>6
  <2>8. QED
    BY <1>2, <2>1, <2>3, <2>4, <2>7 DEF ListsInv
<1>6. ASSUME NEW c \in Clients, SendLicenses(c)
      PROVE  ListsInv'
  <2>1. PICK l \in Lists :
          lists' = [lists EXCEPT ![c] = Append(@, [id |-> listsSent', list |-> l, numbers |-> version])]
    BY <1>6 DEF SendLicenses
  <2>2. listsSent' = listsSent + 1 /\ licenses' = licenses /\ version' = version
    BY <1>6 DEF SendLicenses, board
  <2> DEFINE message == [id |-> listsSent', list |-> l, numbers |-> version]
  <2>3. message \in ListMessages
    BY <1>2, <2>2 DEF ListMessages, FlowInv
  <2> DEFINE longer == Append(lists[c], message)
  <2>4. message.id = listsSent + 1 /\ message.numbers = version
    BY <2>2
  <2>5. lists' = [lists EXCEPT ![c] = longer]
    BY <2>1
  <2> HIDE DEF message
  <2>6. /\ longer \in Seq(ListMessages) /\ Len(longer) = Len(lists[c]) + 1
        /\ longer[Len(lists[c]) + 1] = message
        /\ \A i \in 1..Len(lists[c]) : longer[i] = lists[c][i]
    BY <1>2, <2>3, AppendFacts
  <2> HIDE DEF longer
  <2>7. /\ lists' \in [Clients -> Seq(ListMessages)] /\ lists'[c] = longer
        /\ \A d \in Clients \ {c} : lists'[d] = lists[d]
    BY <2>5, <2>6 DEF ListsInv
  <2>8. ListsOf(c)'
    <3>1. ListsOf(c)
      BY DEF ListsInv
    <3>2. ASSUME NEW i \in 1..Len(longer)
          PROVE  \/ /\ i \in 1..Len(lists[c]) /\ longer[i] = lists[c][i]
                    /\ lists[c][i].id <= listsSent /\ licenses[c].id < lists[c][i].id
                    /\ lists[c][i].id \in Nat
                 \/ i = Len(lists[c]) + 1 /\ longer[i] = message
      BY <1>2, <1>3, <2>6, <3>1 DEF ListsOf
    <3>3. ASSUME NEW i \in 1..Len(longer)
          PROVE  /\ licenses[c].id < longer[i].id /\ longer[i].id <= listsSent + 1
                 /\ \A p \in Packages : longer[i].numbers[p] <= version'[p]
      <4>1. CASE i \in 1..Len(lists[c])
        BY <1>2, <1>3, <3>2, <4>1
      <4>2. CASE longer[i] = message
        <5>1. licenses[c].id <= listsSent
          BY <3>1 DEF ListsOf
        <5>2. QED
          BY <1>1, <1>2, <2>2, <2>4, <4>2, <5>1
      <4>3. QED
        BY <3>2, <4>1, <4>2
    <3>4. ASSUME NEW i \in 1..Len(longer), NEW j \in 1..Len(longer), i < j
          PROVE  longer[i].id < longer[j].id
      <4>1. i \in 1..Len(lists[c]) /\ longer[i] = lists[c][i] /\ lists[c][i].id <= listsSent
            /\ lists[c][i].id \in Nat
        BY <1>2, <2>6, <3>2, <3>4
      <4>2. CASE j \in 1..Len(lists[c])
        <5>1. longer[j] = lists[c][j] /\ lists[c][i].id < lists[c][j].id
          BY <2>6, <3>1, <3>4, <4>1, <4>2 DEF ListsOf
        <5>2. QED
          BY <4>1, <5>1
      <4>3. CASE longer[j] = message
        BY <1>2, <2>4, <4>1, <4>3
      <4>4. QED
        BY <3>2, <4>2, <4>3
    <3>5. licenses[c].id \in Nat /\ licenses[c].id <= listsSent + 1
      BY <1>2, <3>1 DEF ListsOf
    <3>6. QED
      BY <2>2, <2>7, <3>3, <3>4, <3>5 DEF ListsOf
  <2>9. ASSUME NEW d \in Clients
        PROVE  ListsOf(d)'
    <3>1. CASE d = c
      BY <2>8, <3>1
    <3>2. CASE d # c
      BY <1>4, <2>2, <2>7, <3>2
    <3>3. QED
      BY <3>1, <3>2
  <2>10. QED
    BY <1>2, <2>2, <2>7, <2>9 DEF ListsInv
<1>7. CASE UNCHANGED <<listsSent, lists, licenses>>
  <2>1. ASSUME NEW d \in Clients PROVE ListsOf(d)'
    <3>1. lists'[d] = lists[d] /\ licenses'[d] = licenses[d] /\ listsSent' = listsSent
      BY <1>7, ZenonT(30)
    <3>2. QED
      BY <1>4, <3>1, ZenonT(30)
  <2>2. QED
    BY <1>7, <2>1 DEF ListsInv
<1>8. UNCHANGED <<listsSent, lists, licenses>>
      \/ \E c \in Clients : HandleLicenseList(c) \/ SendLicenses(c)
  BY ZenonT(30) DEF FlowNext, ClientStep, flowVars, HandleLicenses, TakeResponse, StorePackage, SaveStore,
         AppInfoUpdated, ResponsesDone, PackageChanges, AnswerPart, listServer, board
<1>9. QED
  BY <1>5, <1>6, <1>7, <1>8

(* A license that is not older than the server's data has data in the      *)
(* store, or in an answer on its way, or is in a request.                  *)
OfServer(l) ==
    /\ l.id \in Nat /\ DOMAIN l.map \subseteq Packages
    /\ \A p \in DOMAIN l.map : l.map[p].change \in Nat /\ l.map[p].change <= version[p]
InRequest(c, p) == \E r \in asked : r.client = c /\ p \in r.packages
InResponse(c, p, change) ==
    \E i \in 1..Len(responses[c]) :
       p \in DOMAIN responses[c][i].infos /\ responses[c][i].infos[p].change >= change
Provided(c, p, change) == Lookup(p, change) \/ InRequest(c, p) \/ InResponse(c, p, change)

(* PackageData works on a list the client has or had; what it has said is  *)
(* done is not after that list, and whatever the list needs is provided.   *)
Settled(c) ==
    /\ OfServer(licenses[c]) /\ OfServer(latestLicenses[c])
    /\ packageData[c] <= latestLicenses[c].id /\ latestLicenses[c].id <= licenses[c].id
    /\ latestLicenses[c].id = licenses[c].id => latestLicenses[c] = licenses[c]
    /\ \A p \in DOMAIN latestLicenses[c].map \cap NamedOnce :
         Provided(c, p, latestLicenses[c].map[p].change)
SettledInv ==
    /\ DOMAIN latestLicenses = Clients /\ packageData \in [Clients -> Nat]
    /\ \A c \in Clients : Settled(c)

(* What is provided stays so.                                              *)
LEMMA ProvidedStays ==
  ASSUME FlowAssumption, FlowInv, StoringInv, [FlowNext]_flowVars, NEW c \in Clients,
         NEW p \in NamedOnce, p \in Packages, NEW n \in Nat, n <= version[p], Provided(c, p, n)
  PROVE  Provided(c, p, n)'
<1>1. /\ FlowInv' /\ MaxVersion \in Nat
      /\ \A q \in DOMAIN data : q \in DOMAIN data' /\ data'[q].change >= data[q].change
  BY FlowStep DEF FlowAssumption
<1>2. data \in [DOMAIN data -> Infos] /\ data' \in [DOMAIN data' -> Infos]
  BY <1>1, PartialsAre DEF FlowInv, PlainPartials
<1>3. responses[c] \in Seq(ResponseParts) /\ responses \in [Clients -> Seq(ResponseParts)]
  BY DEF FlowInv
<1>4. CASE Lookup(p, n)
  <2>1. p \in DOMAIN data /\ data[p].change >= n
    BY <1>4 DEF Lookup
  <2>2. p \in DOMAIN data' /\ data'[p].change >= data[p].change
    BY <1>1, <2>1
  <2>3. data[p].change \in 1..MaxVersion /\ data'[p].change \in 1..MaxVersion
    BY <1>2, <2>1, <2>2 DEF Infos
  <2>4. Lookup(p, n)'
    BY <1>1, <2>1, <2>2, <2>3 DEF Lookup
  <2>5. QED
    BY <2>4 DEF Provided
<1>5. CASE UNCHANGED <<asked, responses>>
  <2>1. InRequest(c, p) => InRequest(c, p)'
    BY <1>5 DEF InRequest
  <2>2. InResponse(c, p, n) => InResponse(c, p, n)'
    BY <1>5 DEF InResponse
  <2>3. QED
    BY <1>4, <2>1, <2>2 DEF Provided
<1>6. ASSUME NEW d \in Clients, HandleLicenses(d)
      PROVE  Provided(c, p, n)'
  <2>1. asked \subseteq asked' /\ responses' = responses
    BY <1>6 DEF HandleLicenses
  <2>2. InRequest(c, p) => InRequest(c, p)'
    BY <2>1 DEF InRequest
  <2>3. InResponse(c, p, n) => InResponse(c, p, n)'
    BY <2>1 DEF InResponse
  <2>4. QED
    BY <1>4, <2>2, <2>3 DEF Provided
<1>7. ASSUME NEW d \in Clients, SaveStore(d)
      PROVE  Provided(c, p, n)'
  <2>0. /\ responses' = [responses EXCEPT ![d] = Tail(@)] /\ asked' = asked /\ data' = data
        /\ pc[d] = "store" /\ storing[d] = {} /\ StoringOf(d)
    BY <1>7 DEF SaveStore, StoringInv, listServer
  <2>1. /\ responses[d] # <<>> /\ responses' = [responses EXCEPT ![d] = Tail(@)] /\ asked' = asked
        /\ \A q \in DOMAIN Head(responses[d]).infos \cap NamedOnce :
             q \in DOMAIN data' /\ data'[q].change >= Head(responses[d]).infos[q].change
    BY <2>0 DEF StoringOf
  <2>2. InRequest(c, p) => InRequest(c, p)'
    BY <2>1 DEF InRequest
  <2>3. ASSUME InResponse(c, p, n)
        PROVE  Provided(c, p, n)'
    <3>1. PICK i \in 1..Len(responses[c]) :
             p \in DOMAIN responses[c][i].infos /\ responses[c][i].infos[p].change >= n
      BY <2>3 DEF InResponse
    <3>2. CASE d # c
      <4>1. responses'[c] = responses[c]
        BY <1>3, <2>1, <3>2
      <4>2. InResponse(c, p, n)'
        BY <3>1, <4>1 DEF InResponse
      <4>3. QED
        BY <4>2 DEF Provided
    <3>3. CASE d = c
      <4>1. /\ Head(responses[c]) = responses[c][1] /\ Len(responses[c]) \in Nat \ {0}
            /\ Len(Tail(responses[c])) = Len(responses[c]) - 1
            /\ \A k \in 1..(Len(responses[c]) - 1) : Tail(responses[c])[k] = responses[c][k + 1]
        BY <1>3, <2>1, <3>3, TailFacts
      <4>2. responses'[c] = Tail(responses[c])
        BY <1>3, <2>1, <3>3
      <4>3. CASE i = 1
        <5>1. /\ p \in DOMAIN data' /\ data'[p].change >= responses[c][1].infos[p].change
              /\ p \in DOMAIN responses[c][1].infos /\ responses[c][1].infos[p].change >= n
          BY <2>1, <3>1, <3>3, <4>1, <4>3
        <5>2. responses[c][1] \in ResponseParts
          BY <1>3, <3>1, <4>3, ElementOfSeq
        <5>3. responses[c][1].infos[p].change \in 1..MaxVersion
          BY <5>1, <5>2, PartialsAre DEF ResponseParts, PlainPartials, Infos
        <5>4. data'[p].change \in 1..MaxVersion
          BY <1>2, <5>1 DEF Infos
        <5>5. Lookup(p, n)'
          BY <1>1, <5>1, <5>3, <5>4 DEF Lookup
        <5>6. QED
          BY <5>5 DEF Provided
      <4>4. CASE i # 1
        <5>1. i \in Nat /\ i - 1 \in 1..(Len(responses[c]) - 1) /\ (i - 1) + 1 = i
          BY <4>1, <4>4
        <5>2. i - 1 \in 1..Len(responses'[c]) /\ responses'[c][i - 1] = responses[c][i]
          BY <4>1, <4>2, <5>1
        <5>3. InResponse(c, p, n)'
          BY <3>1, <5>2 DEF InResponse
        <5>4. QED
          BY <5>3 DEF Provided
      <4>5. QED
        BY <4>3, <4>4
    <3>4. QED
      BY <3>2, <3>3
  <2>4. QED
    BY <1>4, <2>2, <2>3 DEF Provided
<1>8. ASSUME NEW r \in asked, AnswerPart(r)
      PROVE  Provided(c, p, n)'
  <2>1. PICK part \in SUBSET (r.packages \cap Packages) :
          /\ responses' = [responses EXCEPT ![r.client] = Append(@,
                [job |-> r.job,
                 infos |-> [q \in part |-> [change |-> version[q], apps |-> AppsOf[q][version[q]]]]])]
          /\ asked' = (asked \ {r}) \cup
                (IF part = r.packages THEN {} ELSE {[r EXCEPT !.packages = @ \ part]})
    BY <1>8 DEF AnswerPart
  <2> DEFINE reply == [job |-> r.job,
                       infos |-> [q \in part |-> [change |-> version[q], apps |-> AppsOf[q][version[q]]]]]
             longer == Append(responses[r.client], reply)
  <2>2. responses' = [responses EXCEPT ![r.client] = longer] /\ r.client \in Clients
    BY <2>1 DEF FlowInv
  <2>3. DOMAIN reply.infos = part /\ \A q \in part : reply.infos[q].change = version[q]
    OBVIOUS
  <2>4. responses'[r.client] = longer
    BY <1>3, <2>2
  <2>5. reply \in ResponseParts
    BY ReplyFacts
  <2> HIDE DEF reply
  <2>6. /\ Len(longer) = Len(responses[r.client]) + 1 /\ Len(responses[r.client]) \in Nat
        /\ longer[Len(responses[r.client]) + 1] = reply
        /\ \A i \in 1..Len(responses[r.client]) : longer[i] = responses[r.client][i]
    BY <1>3, <2>2, <2>5, AppendFacts
  <2> HIDE DEF longer
  <2>7. ASSUME InResponse(c, p, n)
        PROVE  InResponse(c, p, n)'
    <3>1. PICK i \in 1..Len(responses[c]) :
             p \in DOMAIN responses[c][i].infos /\ responses[c][i].infos[p].change >= n
      BY <2>7 DEF InResponse
    <3>2. i \in 1..Len(responses'[c]) /\ responses'[c][i] = responses[c][i]
      <4>1. CASE r.client = c
        BY <2>4, <2>6, <4>1
      <4>2. CASE r.client # c
        BY <1>3, <2>2, <4>2
      <4>3. QED
        BY <4>1, <4>2
    <3>3. QED
      BY <3>1, <3>2 DEF InResponse
  <2>8. ASSUME InRequest(c, p)
        PROVE  InRequest(c, p)' \/ InResponse(c, p, n)'
    <3>1. PICK s \in asked : s.client = c /\ p \in s.packages
      BY <2>8 DEF InRequest
    <3>2. CASE s # r
      <4>1. s \in asked'
        BY <2>1, <3>2
      <4>2. QED
        BY <3>1, <4>1 DEF InRequest
    <3>3. CASE s = r /\ p \in part
      <4>1. Len(responses[c]) + 1 \in 1..Len(responses'[c])
            /\ responses'[c][Len(responses[c]) + 1] = reply
        BY <2>4, <2>6, <3>1, <3>3
      <4>2. p \in DOMAIN reply.infos /\ reply.infos[p].change >= n
        <5>1. version[p] \in 1..MaxVersion
          BY DEF FlowInv
        <5>2. QED
          BY <1>1, <2>3, <3>3, <5>1
      <4>3. QED
        BY <4>1, <4>2 DEF InResponse
    <3>4. CASE s = r /\ p \notin part
      <4> DEFINE remaining == [r EXCEPT !.packages = @ \ part]
      <4>1. r = [client |-> r.client, job |-> r.job, packages |-> r.packages]
        BY DEF FlowInv
      <4>2. remaining.client = c /\ p \in remaining.packages
        BY <3>1, <3>4, <4>1
      <4>3. part # r.packages
        BY <3>1, <3>4
      <4>4. remaining \in asked'
        BY <2>1, <4>3
      <4>5. QED
        BY <4>2, <4>4 DEF InRequest
    <3>5. QED
      BY <3>2, <3>3, <3>4
  <2>9. QED
    BY <1>4, <2>7, <2>8 DEF Provided
<1>9. \/ UNCHANGED <<asked, responses>>
      \/ \E d \in Clients : HandleLicenses(d) \/ SaveStore(d)
      \/ \E r \in asked : AnswerPart(r)
  BY DEF FlowNext, ClientStep, flowVars, SendLicenses, HandleLicenseList, TakeResponse,
         StorePackage, AppInfoUpdated, ResponsesDone, PackageChanges, listServer
<1>10. QED
  BY <1>5, <1>6, <1>7, <1>8, <1>9

(* A list, a wakeup, an answer and the end of the apps' turn.              *)
LEMMA SettledStep ==
  ASSUME FlowAssumption, FlowInv, StoringInv, ListsInv, SettledInv, [FlowNext]_flowVars
  PROVE  SettledInv'
<1>1. \A p \in Packages : version[p] \in Nat /\ version'[p] \in Nat /\ version[p] <= version'[p]
  BY VersionsGrow
<1>2. ASSUME NEW c \in Clients, OfServer(licenses'[c])
      PROVE  OfServer(licenses[c])'
  BY <1>1, <1>2 DEF OfServer
<1>3. ASSUME NEW c \in Clients, NEW l, OfServer(l), latestLicenses'[c] = l,
             \A p \in DOMAIN l.map \cap NamedOnce : Provided(c, p, l.map[p].change)'
      PROVE  (/\ OfServer(latestLicenses[c])
              /\ \A p \in DOMAIN latestLicenses[c].map \cap NamedOnce :
                   Provided(c, p, latestLicenses[c].map[p].change))'
  <2>1. OfServer(latestLicenses[c])'
    BY <1>1, <1>3 DEF OfServer
  <2>2. (\A p \in DOMAIN latestLicenses[c].map \cap NamedOnce :
                   Provided(c, p, latestLicenses[c].map[p].change))'
    BY <1>3 DEF Provided, Lookup, InRequest, InResponse
  <2>3. QED
    BY <2>1, <2>2
<1>a. ASSUME NEW c \in Clients, Settled(c), latestLicenses'[c] = latestLicenses[c]
      PROVE  (/\ OfServer(latestLicenses[c])
              /\ \A p \in DOMAIN latestLicenses[c].map \cap NamedOnce :
                   Provided(c, p, latestLicenses[c].map[p].change))'
  <2>1. PICK l : l = latestLicenses[c]
    OBVIOUS
  <2>2. OfServer(l) /\ latestLicenses'[c] = l
    BY <1>a, <2>1 DEF Settled
  <2>3. ASSUME NEW p \in DOMAIN l.map \cap NamedOnce
        PROVE  Provided(c, p, l.map[p].change)'
    <3>1. PICK n : n = l.map[p].change
      OBVIOUS
    <3>2. p \in Packages /\ n \in Nat /\ n <= version[p] /\ Provided(c, p, n)
      BY <1>a, <2>1, <2>2, <3>1 DEF Settled, OfServer
    <3>3. Provided(c, p, n)'
      BY <3>2, ProvidedStays
    <3>4. QED
      BY <3>1, <3>3
  <2>4. QED
    BY <1>3, <2>2, <2>3
<1>4. \A c \in Clients : licenses[c].id \in Nat /\ latestLicenses[c].id \in Nat /\ packageData[c] \in Nat
  BY DEF SettledInv, Settled, OfServer
<1>5. ASSUME NEW c \in Clients, licenses'[c] = licenses[c], latestLicenses'[c] = latestLicenses[c],
             packageData'[c] = packageData[c]
      PROVE  Settled(c)'
  <2>1. Settled(c)
    BY DEF SettledInv
  <2>2. OfServer(licenses'[c])
    BY <1>5, <2>1 DEF Settled
  <2>3. QED
    BY <1>2, <1>a, <1>5, <2>1, <2>2 DEF Settled
<1>6. ASSUME NEW c \in Clients, HandleLicenseList(c)
      PROVE  SettledInv'
  <2>1. /\ lists[c] # <<>> /\ latestLicenses' = latestLicenses /\ packageData' = packageData
        /\ licenses' = [licenses EXCEPT ![c] =
             [id |-> Head(lists[c]).id, map |-> ReadList(DOMAIN licenses[c].map, Head(lists[c])).map]]
    BY <1>6 DEF HandleLicenseList
  <2> DEFINE message == Head(lists[c])
             r == ReadList(DOMAIN licenses[c].map, message)
             new == [id |-> message.id, map |-> r.map]
  <2>2. message \in ListMessages /\ message = lists[c][1] /\ 1 \in 1..Len(lists[c])
    <3>1. lists[c] \in Seq(ListMessages)
      BY DEF ListsInv
    <3>2. Head(lists[c]) = lists[c][1] /\ Len(lists[c]) \in Nat \ {0}
      BY <2>1, <3>1, TailFacts
    <3>3. lists[c][1] \in ListMessages
      BY <3>1, <3>2, ElementOfSeq
    <3>4. QED
      BY <3>2, <3>3
  <2>3. licenses[c].id < message.id /\ \A p \in Packages : message.numbers[p] <= version[p]
    BY <2>2 DEF ListsInv, ListsOf
  <2> HIDE DEF message
  <2>4. message.list \in Lists /\ message.numbers \in [Packages -> 1..MaxVersion] /\ message.id \in Nat
    BY <2>2 DEF ListMessages
  <2>5. LicensesRead(r, message, Len(message.list))
    BY <2>4, ReadAll
  <2> HIDE DEF r
  <2>6. DOMAIN r.map \subseteq Packages
    <3>1. message.list \in Seq([pkg : Packages, family : BOOLEAN])
      BY <2>4 DEF FlowAssumption
    <3>2. \A j \in 1..Len(message.list) : message.list[j].pkg \in Packages
      BY <3>1, LicenseItems
    <3>3. QED
      BY <2>5, <3>2 DEF LicensesRead
  <2>7. \A p \in DOMAIN r.map : r.map[p].change = message.numbers[p]
    BY <2>5 DEF LicensesRead
  <2>8. OfServer(new)
    <3>1. new.id = message.id /\ new.map = r.map
      OBVIOUS
    <3> HIDE DEF new
    <3>2. ASSUME NEW p \in DOMAIN r.map
          PROVE  r.map[p].change \in Nat /\ r.map[p].change <= version[p]
      <4>1. p \in Packages /\ message.numbers[p] \in 1..MaxVersion /\ MaxVersion \in Nat
        BY <2>4, <2>6 DEF FlowAssumption
      <4>2. QED
        BY <2>3, <2>7, <4>1
    <3>3. QED
      BY <2>4, <2>6, <3>1, <3>2 DEF OfServer
  <2>9. licenses'[c] = new /\ \A d \in Clients \ {c} : licenses'[d] = licenses[d]
    BY <2>1 DEF ListsInv, new, r, message
  <2>10. licenses[c].id < new.id /\ new.id \in Nat
    BY <2>3, <2>4
  <2> HIDE DEF new
  <2>11. Settled(c)'
    <3>1. /\ OfServer(latestLicenses[c]) /\ packageData[c] <= latestLicenses[c].id
          /\ latestLicenses[c].id <= licenses[c].id
          /\ \A p \in DOMAIN latestLicenses[c].map \cap NamedOnce :
               Provided(c, p, latestLicenses[c].map[p].change)
      BY DEF SettledInv, Settled
    <3>2. (/\ OfServer(latestLicenses[c])
           /\ \A p \in DOMAIN latestLicenses[c].map \cap NamedOnce :
                   Provided(c, p, latestLicenses[c].map[p].change))'
      BY <1>a, <2>1 DEF SettledInv
    <3>3. OfServer(licenses[c])'
      BY <1>2, <2>8, <2>9
    <3>4. latestLicenses'[c].id <= licenses'[c].id /\ latestLicenses'[c].id # licenses'[c].id
      BY <1>4, <2>1, <2>9, <2>10, <3>1
    <3>5. packageData'[c] <= latestLicenses'[c].id
      BY <2>1, <3>1
    <3>6. QED
      BY <3>2, <3>3, <3>4, <3>5 DEF Settled
  <2>12. ASSUME NEW d \in Clients PROVE Settled(d)'
    <3>1. CASE d = c
      BY <2>11, <3>1
    <3>2. CASE d # c
      BY <1>5, <2>1, <2>9, <3>2
    <3>3. QED
      BY <3>1, <3>2
  <2>13. QED
    BY <2>1, <2>12 DEF SettledInv
<1>7. ASSUME NEW c \in Clients, HandleLicenses(c)
      PROVE  SettledInv'
  <2> DEFINE missing == CheckForUpdates(licenses[c].map)
  <2>1. /\ latestLicenses' = [latestLicenses EXCEPT ![c] = licenses[c]]
        /\ licenses' = licenses /\ data' = data
        /\ \/ /\ asked' = asked \cup {[client |-> c, job |-> jobs + 1, packages |-> missing]}
              /\ packageData' = packageData
           \/ /\ missing = {} /\ packageData' = [packageData EXCEPT ![c] = licenses[c].id]
    BY <1>7 DEF HandleLicenses, store
  <2>2. OfServer(licenses[c]) /\ packageData[c] <= latestLicenses[c].id
        /\ latestLicenses[c].id <= licenses[c].id
    BY DEF SettledInv, Settled
  <2>3. ASSUME NEW p \in DOMAIN licenses[c].map, NEW n, n = licenses[c].map[p].change
        PROVE  Provided(c, p, n)'
    <3>1. CASE p \in missing
      <4>1. [client |-> c, job |-> jobs + 1, packages |-> missing] \in asked'
        BY <2>1, <3>1
      <4> HIDE DEF missing
      <4>2. InRequest(c, p)'
        BY <3>1, <4>1 DEF InRequest
      <4>3. QED
        BY <4>2 DEF Provided
    <3>2. CASE p \notin missing
      <4>1. p \in DOMAIN data /\ data[p].change = n
        BY <2>3, <3>2 DEF CheckForUpdates
      <4>2. n \in Nat
        BY <2>2, <2>3 DEF OfServer
      <4>3. Lookup(p, n)'
        BY <2>1, <4>1, <4>2 DEF Lookup
      <4>4. QED
        BY <4>3 DEF Provided
    <3>3. QED
      BY <3>1, <3>2
  <2>4. DOMAIN latestLicenses' = Clients /\ latestLicenses'[c] = licenses[c]
        /\ \A d \in Clients \ {c} : latestLicenses'[d] = latestLicenses[d]
    BY <2>1 DEF SettledInv
  <2>5. /\ packageData' \in [Clients -> Nat]
        /\ packageData'[c] = packageData[c] \/ packageData'[c] = licenses[c].id
        /\ \A d \in Clients \ {c} : packageData'[d] = packageData[d]
    BY <1>4, <2>1 DEF SettledInv
  <2>6. Settled(c)'
    <3>1. packageData'[c] <= licenses[c].id
      BY <1>4, <2>2, <2>5
    <3>2. (/\ OfServer(latestLicenses[c])
           /\ \A p \in DOMAIN latestLicenses[c].map \cap NamedOnce :
                   Provided(c, p, latestLicenses[c].map[p].change))'
      <4>1. PICK l : l = licenses[c]
        OBVIOUS
      <4>2. OfServer(l) /\ latestLicenses'[c] = l
        BY <2>2, <2>4, <4>1
      <4>3. \A p \in DOMAIN l.map \cap NamedOnce : Provided(c, p, l.map[p].change)'
        BY <2>3, <4>1
      <4>4. QED
        BY <1>3, <4>2, <4>3
    <3>3. OfServer(licenses[c])'
      BY <1>2, <2>1, <2>2
    <3>4. latestLicenses'[c] = licenses'[c] /\ licenses'[c].id <= licenses'[c].id
      BY <1>4, <2>1, <2>4
    <3>5. QED
      BY <2>1, <3>1, <3>2, <3>3, <3>4 DEF Settled
  <2>7. ASSUME NEW d \in Clients PROVE Settled(d)'
    <3>1. CASE d = c
      BY <2>6, <3>1
    <3>2. CASE d # c
      BY <1>5, <2>1, <2>4, <2>5, <3>2
    <3>3. QED
      BY <3>1, <3>2
  <2>8. QED
    BY <2>4, <2>5, <2>7 DEF SettledInv
<1>8. ASSUME NEW c \in Clients, AppInfoUpdated(c)
      PROVE  SettledInv'
  <2>1. packageData' = [packageData EXCEPT ![c] = latestLicenses[c].id]
        /\ licenses' = licenses /\ latestLicenses' = latestLicenses
    BY <1>8 DEF AppInfoUpdated
  <2>2. packageData' \in [Clients -> Nat] /\ packageData'[c] = latestLicenses[c].id
        /\ \A d \in Clients \ {c} : packageData'[d] = packageData[d]
    BY <1>4, <2>1 DEF SettledInv
  <2>3. Settled(c)'
    <3>1. /\ OfServer(licenses[c]) /\ OfServer(latestLicenses[c]) /\ latestLicenses[c].id <= licenses[c].id
          /\ latestLicenses[c].id = licenses[c].id => latestLicenses[c] = licenses[c]
          /\ \A p \in DOMAIN latestLicenses[c].map \cap NamedOnce :
               Provided(c, p, latestLicenses[c].map[p].change)
      BY DEF SettledInv, Settled
    <3>2. (/\ OfServer(latestLicenses[c])
           /\ \A p \in DOMAIN latestLicenses[c].map \cap NamedOnce :
                   Provided(c, p, latestLicenses[c].map[p].change))'
      BY <1>a, <2>1 DEF SettledInv
    <3>3. OfServer(licenses[c])'
      BY <1>2, <2>1, <3>1
    <3>4. packageData'[c] <= latestLicenses'[c].id
      BY <1>4, <2>1, <2>2
    <3>5. QED
      BY <2>1, <3>1, <3>2, <3>3, <3>4 DEF Settled
  <2>4. ASSUME NEW d \in Clients PROVE Settled(d)'
    <3>1. CASE d = c
      BY <2>3, <3>1
    <3>2. CASE d # c
      BY <1>5, <2>1, <2>2, <3>2
    <3>3. QED
      BY <3>1, <3>2
  <2>5. QED
    BY <2>1, <2>2, <2>4 DEF SettledInv
<1>9. CASE UNCHANGED <<licenses, latestLicenses, packageData>>
  <2>1. ASSUME NEW c \in Clients PROVE Settled(c)'
    <3>1. licenses'[c] = licenses[c] /\ latestLicenses'[c] = latestLicenses[c]
          /\ packageData'[c] = packageData[c]
      BY <1>9, ZenonT(30)
    <3>2. QED
      BY <1>5, <3>1, ZenonT(30)
  <2>2. QED
    BY <1>9, <2>1 DEF SettledInv
<1>10. \/ UNCHANGED <<licenses, latestLicenses, packageData>>
       \/ \E c \in Clients : HandleLicenseList(c) \/ HandleLicenses(c) \/ AppInfoUpdated(c)
  BY DEF FlowNext, ClientStep, flowVars, SendLicenses, TakeResponse, StorePackage, SaveStore,
         ResponsesDone, PackageChanges, AnswerPart, board, module
<1>11. QED
  BY <1>6, <1>7, <1>8, <1>9, <1>10

(* Nobody has a list, and nothing is on its way.                           *)
LEMMA SettledStarts ==
  ASSUME FlowAssumption, FlowInit
  PROVE  ListsInv /\ SettledInv
<1>1. NoLicenses.id = 0 /\ DOMAIN NoLicenses.map = {}
  BY DEF NoLicenses
<1>2. OfServer(NoLicenses)
  BY <1>1 DEF OfServer
<1>3. /\ lists = [c \in Clients |-> <<>>] /\ listsSent = 0
      /\ licenses = [c \in Clients |-> NoLicenses] /\ latestLicenses = [c \in Clients |-> NoLicenses]
      /\ packageData = [c \in Clients |-> 0]
  BY DEF FlowInit
<1>4. lists \in [Clients -> Seq(ListMessages)] /\ \A c \in Clients : Len(lists[c]) = 0
  BY <1>3
<1>5. ListsInv
  BY <1>1, <1>3, <1>4 DEF ListsInv, ListsOf
<1>6. QED
  BY <1>1, <1>2, <1>3, <1>5 DEF SettledInv, Settled

(* The four invariants hold together always.                               *)
LEMMA FlowInvAlways ==
  ASSUME FlowAssumption
  PROVE  FlowSpec => [](FlowInv /\ StoringInv /\ ListsInv /\ SettledInv)
<1>1. ASSUME FlowInit
      PROVE  FlowInv /\ StoringInv /\ ListsInv /\ SettledInv
  BY <1>1, FlowStarts, SettledStarts
<1>2. ASSUME FlowInv, StoringInv, ListsInv, SettledInv, [FlowNext]_flowVars
      PROVE  FlowInv' /\ StoringInv' /\ ListsInv' /\ SettledInv'
  BY <1>2, FlowStep, StoringStep, ListsStep, SettledStep
<1>3. QED
  BY <1>1, <1>2, PTL DEF FlowSpec

(* For all packages, apps, clients and lists the server may send: what a   *)
(* client reads of a list is right in whatever order the licenses come     *)
(* (LicenseList.cpp:207-268), and once PackageData has gone to the         *)
(* whiteboard and nothing is on its way, every license has data that is    *)
(* not older, unless its list of apps has one twice                        *)
(* (PackageData.cpp:388-446).                                              *)
THEOREM LicensesAreSettled ==
  ASSUME FlowAssumption
  PROVE  FlowSpec => [](ListReadRight /\ PackagesSettled)
<1>1. ASSUME ListsInv
      PROVE  ListReadRight
  <2>1. ASSUME NEW c \in Clients, NEW i \in DOMAIN lists[c]
        PROVE  LET m == lists[c][i]
                   r == ReadList({}, m)
               IN /\ r.ok
                  /\ DOMAIN r.map = {m.list[j].pkg : j \in DOMAIN m.list}
                  /\ \A p \in DOMAIN r.map :
                       r.map[p].family = (\A j \in {k \in DOMAIN m.list : m.list[k].pkg = p} : m.list[j].family)
                  /\ r.family = Cardinality({p \in DOMAIN r.map : r.map[p].family})
    <3> DEFINE m == lists[c][i]
               r == ReadList({}, m)
    <3>1. lists[c] \in Seq(ListMessages)
      BY <1>1 DEF ListsInv
    <3>2. m \in ListMessages
      <4>1. i \in 1..Len(lists[c])
        BY <3>1
      <4>2. QED
        BY <3>1, <4>1, ElementOfSeq
    <3> HIDE DEF m
    <3>3. m.list \in Lists /\ m.list \in Seq([pkg : Packages, family : BOOLEAN])
      BY <3>2 DEF ListMessages, FlowAssumption
    <3>4. DOMAIN m.list = 1..Len(m.list)
      BY <3>3
    <3>5. LicensesRead(r, m, Len(m.list))
      BY <3>3, ReadAll
    <3> HIDE DEF r
    <3>6. ASSUME NEW p \in DOMAIN r.map
          PROVE  r.map[p].family = (\A j \in {k \in DOMAIN m.list : m.list[k].pkg = p} : m.list[j].family)
      <4>1. r.map[p].family \in BOOLEAN
            /\ (r.map[p].family <=> \A j \in 1..Len(m.list) : m.list[j].pkg = p => m.list[j].family)
        BY <3>5 DEF LicensesRead
      <4>2. r.map[p].family <=> \A j \in {k \in DOMAIN m.list : m.list[k].pkg = p} : m.list[j].family
        BY <3>4, <4>1
      <4>3. QED
        BY <4>1, <4>2
    <3>7. QED
      BY <3>4, <3>5, <3>6 DEF LicensesRead, m, r
  <2>2. QED
    BY <2>1 DEF ListReadRight
<1>2. ASSUME SettledInv
      PROVE  PackagesSettled
  <2>1. SUFFICES ASSUME NEW c \in Clients, IsCurrent(c), ~Waiting(c),
                        NEW p \in DOMAIN licenses[c].map \cap NamedOnce
                 PROVE  Lookup(p, licenses[c].map[p].change)
    BY DEF PackagesSettled
  <2>2. Settled(c) /\ packageData[c] \in Nat /\ packageData[c] = licenses[c].id
    BY <1>2, <2>1 DEF SettledInv, IsCurrent
  <2>3. latestLicenses[c] = licenses[c]
    BY <2>2 DEF Settled, OfServer
  <2>4. Provided(c, p, licenses[c].map[p].change)
    BY <2>2, <2>3 DEF Settled
  <2>5. responses[c] = <<>> /\ \A r \in asked : r.client # c
    BY <2>1 DEF Waiting
  <2>6. ~InRequest(c, p) /\ ~InResponse(c, p, licenses[c].map[p].change)
    BY <2>5 DEF InRequest, InResponse
  <2>7. QED
    BY <2>4, <2>6 DEF Provided
<1>3. QED
  BY <1>1, <1>2, FlowInvAlways, PTL

(* For all clients, packages and apps, the index by app and the packages   *)
(* agree, for all that name an app once (PackageData.cpp:117-152); what    *)
(* the file does not have yet is marked, and what a client was told is     *)
(* current is in the file, unless another client is just storing an answer *)
(* (PackageData.cpp:156-175, 388-446); and the data of a package never     *)
(* gets older.                                                             *)
THEOREM PackageDataIsKept ==
  ASSUME FlowAssumption
  PROVE  FlowSpec => [](IndexMatches /\ FileHasStore) /\ NeverOlder
<1>1. ASSUME FlowInv
      PROVE  IndexMatches
  <2>1. ASSUME NEW a \in Apps, NEW p \in NamedOnce
        PROVE  /\ p \in appData[a] <=> p \in DOMAIN data /\ a \in Range(data[p].apps)
               /\ p \in LookupApp(a) <=> p \in DOMAIN data /\ a \in Range(data[p].apps)
    BY <1>1 DEF FlowInv, Linked, LookupApp
  <2>2. QED
    BY <2>1 DEF IndexMatches
<1>2. ASSUME FlowInv, StoringInv, PackagesSettled
      PROVE  FileHasStore
  <2>1. ASSUME NEW c \in Clients, IsCurrent(c), ~Waiting(c), \A d \in Clients \ {c} : pc[d] # "store",
               NEW p \in DOMAIN licenses[c].map \cap NamedOnce
        PROVE  p \in DOMAIN file /\ file[p].change >= licenses[c].map[p].change
    <3>1. responses[c] = <<>>
      BY <2>1 DEF Waiting
    <3>2. pc[c] # "store"
      BY <1>2, <3>1 DEF StoringInv, StoringOf
    <3>3. file = data
      BY <1>2, <2>1, <3>2 DEF FlowInv, StoringInv
    <3>4. Lookup(p, licenses[c].map[p].change)
      BY <1>2, <2>1 DEF PackagesSettled
    <3>5. QED
      BY <3>3, <3>4 DEF Lookup
  <2>2. wasUpdated \/ file = data
    BY <1>2 DEF FlowInv
  <2>3. QED
    BY <2>1, <2>2 DEF FileHasStore
<1>3. ASSUME FlowInv, StoringInv, [FlowNext]_flowVars
      PROVE  [\A p \in DOMAIN data : p \in DOMAIN data' /\ data'[p].change >= data[p].change]_data
  BY <1>3, FlowStep
<1>4. FlowSpec => [][FlowNext]_flowVars
  BY DEF FlowSpec
<1>5. QED
  BY <1>1, <1>2, <1>3, <1>4, FlowInvAlways, LicensesAreSettled, PTL DEF NeverOlder

-----------------------------------------------------------------------------
(* AppInfoCache                                                            *)

(* Whoever works on the store holds the mutex; the file lacks what is in   *)
(* memory only while it is being written, or after a write that failed.    *)
StoreInv ==
    /\ step \in [Members -> Steps] /\ cacheChanged \in BOOLEAN
    /\ \A m \in Members : step[m] \in {"apps", "dlcs", "writing", "renaming"} => mutex = m
    /\ updates # {} => cacheChanged
    /\ truncated \subseteq {"file", "temp"}
    /\ "file" \in truncated => disk = {}
    /\ "temp" \in truncated => tempFile = {}
    /\ (\A m \in Members : step[m] # "renaming") => json = disk \/ "file" \in truncated
    /\ \A m \in Members : step[m] = "renaming" =>
          /\ updates = {} /\ disk \subseteq json
          /\ tempFile = json \/ "temp" \in truncated

(* The file holds what it held, or a write has failed.                     *)
FileGrows == disk \subseteq disk' \/ "file" \in truncated'

(* The steps of the cache of app infos, one disjunct for each.             *)
LEMMA CacheCases ==
  ASSUME [CacheNext]_cacheVars
  PROVE  \/ UNCHANGED cacheVars
         \/ \E m \in Members : \/ BeginUpdate(m) \/ Lock(m) \/ Write(m) \/ Rename(m)
                               \/ CancelUpdate(m)
                               \/ \E found \in SUBSET AppIds, pending \in BOOLEAN :
                                     Answer(m, found, pending)
         \/ Crash
BY DEF CacheNext

(* The file is replaced by one that holds more, or lacks its end.          *)
LEMMA StoreStep ==
  ASSUME CacheAssumption, StoreInv, [CacheNext]_cacheVars
  PROVE  StoreInv' /\ FileGrows
<1> USE DEF StoreInv, Steps, FileGrows
<1>0. NoMember \notin Members
  BY DEF CacheAssumption
<1>1. CASE UNCHANGED cacheVars
  BY <1>1 DEF cacheVars
<1>2. ASSUME NEW m \in Members, BeginUpdate(m)
      PROVE  StoreInv' /\ FileGrows
  BY <1>2 DEF BeginUpdate, memory, cacheFiles
<1>3. ASSUME NEW m \in Members, Lock(m)
      PROVE  StoreInv' /\ FileGrows
  <2>1. /\ step[m] = "blocked" /\ mutex = NoMember /\ mutex' = m
        /\ \/ step' = step
           \/ \E s \in {"writing", "dlcs", "apps"} : step' = [step EXCEPT ![m] = s]
        /\ UNCHANGED <<disk, tempFile, truncated, json, updates, cacheChanged>>
    BY <1>3 DEF Lock, DlcRound, memory, cacheFiles
  <2>2. QED
    BY <1>0, <2>1
<1>4. ASSUME NEW m \in Members, NEW found, NEW pending \in BOOLEAN, Answer(m, found, pending)
      PROVE  StoreInv' /\ FileGrows
  <2>1. /\ step[m] \in {"apps", "dlcs"} /\ mutex' = mutex
        /\ \/ step' = step
           \/ \E s \in {"writing", "dlcs"} : step' = [step EXCEPT ![m] = s]
        /\ updates' = updates \cup found /\ cacheChanged' = (cacheChanged \/ found # {})
        /\ UNCHANGED <<disk, tempFile, truncated, json>>
    BY <1>4 DEF Answer, DlcRound, cacheFiles
  <2>2. \A k \in Members : step[k] # "renaming"
    BY <2>1
  <2>3. \A k \in Members : step'[k] # "renaming"
    BY <2>1, <2>2
  <2>4. step' \in [Members -> Steps]
        /\ \A k \in Members : step'[k] \in {"apps", "dlcs", "writing", "renaming"} => mutex' = k
    BY <2>1
  <2>5. cacheChanged' \in BOOLEAN /\ (updates' # {} => cacheChanged')
    BY <2>1
  <2>6. QED
    BY <2>1, <2>2, <2>3, <2>4, <2>5
<1>5. ASSUME NEW m \in Members, Write(m)
      PROVE  StoreInv' /\ FileGrows
  <2>1. CASE cacheChanged
    <3>1. /\ step[m] = "writing" /\ step' = [step EXCEPT ![m] = "renaming"]
          /\ json' = json \cup updates /\ updates' = {}
          /\ \/ tempFile' = json' /\ truncated' = truncated \ {"temp"}
             \/ tempFile' = {} /\ truncated' = truncated \cup {"temp"}
          /\ UNCHANGED <<disk, cacheChanged, mutex>>
      BY <1>5, <2>1 DEF Write
    <3>2. \A k \in Members : step[k] # "renaming"
      BY <3>1
    <3>3. QED
      BY <3>1, <3>2
  <2>2. CASE ~cacheChanged
    <3>1. /\ step[m] = "writing" /\ mutex' = NoMember /\ step' = [step EXCEPT ![m] = "idle"]
          /\ UNCHANGED <<json, updates, cacheChanged, tempFile, truncated, disk>>
      BY <1>5, <2>2 DEF Write, Release
    <3>2. QED
      BY <1>0, <3>1
  <2>3. QED
    BY <2>1, <2>2
<1>6. ASSUME NEW m \in Members, Rename(m)
      PROVE  StoreInv' /\ FileGrows
  <2>1. /\ step[m] = "renaming" /\ disk' = tempFile /\ cacheChanged' = FALSE
        /\ truncated' = IF "temp" \in truncated THEN {"file"} ELSE {}
        /\ mutex' = NoMember /\ step' = [step EXCEPT ![m] = "idle"]
        /\ UNCHANGED <<tempFile, json, updates>>
    BY <1>6 DEF Rename, Release
  <2>2. QED
    BY <1>0, <2>1
<1>7. ASSUME NEW m \in Members, CancelUpdate(m)
      PROVE  StoreInv' /\ FileGrows
  <2>1. /\ step[m] \in {"apps", "dlcs"} /\ mutex' = NoMember /\ step' = [step EXCEPT ![m] = "idle"]
        /\ UNCHANGED <<disk, tempFile, truncated, json, updates, cacheChanged>>
    BY <1>7 DEF CancelUpdate, Release, memory, cacheFiles
  <2>2. QED
    BY <1>0, <2>1
<1>8. CASE Crash
  <2>1. /\ json' = disk /\ updates' = {} /\ cacheChanged' = FALSE /\ mutex' = NoMember
        /\ step' = [m \in Members |-> "idle"] /\ UNCHANGED <<disk, tempFile, truncated>>
    BY <1>8 DEF Crash, Fresh, cacheFiles
  <2>2. QED
    BY <1>0, <2>1
<1>9. QED
  BY <1>1, <1>2, <1>3, <1>4, <1>5, <1>6, <1>7, <1>8, CacheCases

(* The file is empty when nothing has been learnt.                         *)
LEMMA StoreInit ==
  ASSUME CacheAssumption, CacheInit
  PROVE  StoreInv
BY DEF CacheAssumption, CacheInit, StoreInv, Steps

(* For all apps and members of them that are updated: what is known and    *)
(* not yet in the file is marked as changed, and the file never loses an   *)
(* info, a crash between the write and the rename included. Only a write   *)
(* that fails, and is renamed all the same, breaks this: it is named in    *)
(* both properties (CacheFile.cpp:54-69, DataFile.cpp:117-133).            *)
THEOREM SavedInfosStay ==
  ASSUME CacheAssumption
  PROVE  CacheSpec => []UnsavedIsMarked /\ FileOnlyGrows
<1>1. ASSUME CacheInit
      PROVE  StoreInv
  BY <1>1, StoreInit
<1>2. ASSUME StoreInv, [CacheNext]_cacheVars
      PROVE  StoreInv' /\ [FileGrows]_cacheVars
  BY <1>2, StoreStep
<1>3. StoreInv => UnsavedIsMarked
  BY DEF StoreInv, UnsavedIsMarked, Steps, CacheAssumption
<1>4. QED
  BY <1>1, <1>2, <1>3, PTL DEF CacheSpec, FileOnlyGrows, FileGrows

-----------------------------------------------------------------------------
(* PackageNames                                                            *)

(* The mutex is held exactly while its holder asks, and somebody is at     *)
(* work as long as a name is not saved.                                    *)
HolderInv ==
  /\ holder \in Owners \cup {"nobody"}
  /\ nameAt \in [Owners -> {"wait", "messages", "packages", "apps"}]
  /\ OneAsks
  /\ unsaved \in BOOLEAN
  /\ unsaved => \E c \in Owners : nameAt[c] # "wait"
  /\ ~unsaved => nameFile = infos

(* The mutex is taken before the page is asked for, and released after the *)
(* answer is saved if its minute has passed. What is not saved then is when *)
(* a client has taken its last message.                                    *)
LEMMA HolderStep ==
  ASSUME NamesAssumption, HolderInv, [NamesNext]_nameVars
  PROVE  HolderInv'
<1> USE DEF HolderInv, OneAsks
<1>1. ASSUME NEW c \in Owners, NamesWake(c)
      PROVE  HolderInv'
  <2>1. /\ nameAt[c] = "wait" /\ UNCHANGED <<unsaved, nameFile, infos, holder>>
        /\ nameAt' = [nameAt EXCEPT ![c] = "messages"] \/ nameAt' = nameAt
    BY <1>1 DEF NamesWake, nameStore
  <2>2. QED
    BY <2>1
<1>2. ASSUME NEW c \in Owners, TakeMessage(c)
      PROVE  HolderInv'
  <2>1. /\ nameAt[c] = "messages" /\ holder' = holder
        /\ \/ /\ nameAt' = [nameAt EXCEPT ![c] = "packages"]
              /\ UNCHANGED <<unsaved, nameFile, infos>>
           \/ /\ nameAt' = [nameAt EXCEPT ![c] = "wait"]
              /\ nameFile' = (IF unsaved THEN infos ELSE nameFile)
              /\ ~unsaved' /\ unsaved' \in BOOLEAN /\ infos' = infos
    BY <1>2 DEF TakeMessage, Save, nameStore
  <2>2. QED
    BY <2>1
<1>3. ASSUME NEW c \in Owners, MessageDone(c)
      PROVE  HolderInv'
  <2>1. /\ nameAt' = [nameAt EXCEPT ![c] = "messages"] /\ nameAt[c] = "packages"
        /\ UNCHANGED <<unsaved, nameFile, infos, holder>>
    BY <1>3 DEF MessageDone, nameStore
  <2>2. QED
    BY <2>1
<1>4. ASSUME NEW c \in Owners, TakePackage(c)
      PROVE  HolderInv'
  <2>1. /\ nameAt[c] = "packages" /\ holder = "nobody"
        /\ \/ UNCHANGED <<nameAt, holder>>
           \/ nameAt' = [nameAt EXCEPT ![c] = "apps"] /\ holder' = c
        /\ UNCHANGED <<unsaved, nameFile, infos>>
    BY <1>4 DEF TakePackage, nameStore
  <2>2. QED
    BY <2>1 DEF NamesAssumption
<1>5. ASSUME NEW c \in Owners, PackageDone(c)
      PROVE  HolderInv'
  <2>1. /\ nameAt[c] = "apps" /\ holder' = "nobody" /\ nameAt' = [nameAt EXCEPT ![c] = "packages"]
        /\ infos' = infos /\ unsaved' \in BOOLEAN
        /\ unsaved' => unsaved
        /\ nameFile' = IF unsaved /\ ~unsaved' THEN infos ELSE nameFile
    BY <1>5 DEF PackageDone, Save
  <2>2. QED
    BY <2>1 DEF NamesAssumption
<1>6. ASSUME NEW c \in Owners, UpdateLicenseInfo(c) \/ PageFails(c)
      PROVE  HolderInv'
  <2>1. /\ nameAt[c] = "apps" /\ UNCHANGED <<nameAt, holder, nameFile>>
        /\ \/ UNCHANGED <<infos, unsaved>>
           \/ unsaved' = TRUE
    BY <1>6 DEF UpdateLicenseInfo, PageFails, nameStore
  <2>2. QED
    BY <2>1
<1>7. ASSUME NEW c \in Owners, NewLicensesArrive(c) \/ PackageDataArrives(c)
      PROVE  HolderInv'
  BY <1>7 DEF NewLicensesArrive, PackageDataArrives, nameStore
<1>8. CASE MinutePasses
  BY <1>8 DEF MinutePasses
<1>9. CASE UNCHANGED nameVars
  BY <1>9 DEF nameVars
<1>10. QED
  BY <1>1, <1>2, <1>3, <1>4, <1>5, <1>6, <1>7, <1>8, <1>9 DEF NamesNext, ModuleStep

(* For every set of clients, one of them asks for the names of packages at *)
(* a time, and when all have done so the file has every name, although a   *)
(* save may do nothing within a minute (PackageInfo.cpp:146-185, 1139-1206). *)
THEOREM OneClientAsks ==
  ASSUME NamesAssumption
  PROVE  NamesSpec => [](OneAsks /\ AllSaved)
<1>1. ASSUME NamesInit
      PROVE  HolderInv
  BY <1>1 DEF NamesInit, HolderInv, OneAsks, NamesAssumption
<1>2. HolderInv => OneAsks /\ AllSaved
  BY DEF HolderInv, AllSaved
<1>3. QED
  BY <1>1, <1>2, HolderStep, PTL DEF NamesSpec

(* What is kept of a sequence without repetitions has none either.         *)
AllDiffer(s) == \A i, j \in 1..Len(s) : s[i] = s[j] => i = j

(* An element that is new does not repeat one.                             *)
LEMMA OnceAppend ==
  ASSUME NEW T, NEW s \in Seq(T), NEW x \in T
  PROVE  AllDiffer(Append(s, x)) <=> AllDiffer(s) /\ x \notin Range(s)
<1> DEFINE t == Append(s, x)
<1>1. /\ t \in Seq(T) /\ Len(s) \in Nat /\ Len(t) = Len(s) + 1 /\ t[Len(s) + 1] = x
      /\ \A i \in 1..Len(s) : t[i] = s[i]
  BY AppendFacts
<1> HIDE DEF t
<1>2. /\ \A i \in 1..Len(s) : i \in 1..Len(t) /\ i # Len(s) + 1
      /\ Len(s) + 1 \in 1..Len(t)
      /\ \A i \in 1..Len(t) : i # Len(s) + 1 => i \in 1..Len(s)
  BY <1>1
<1>3. x \in Range(s) <=> \E i \in 1..Len(s) : s[i] = x
  BY RangeIs
<1>4. ASSUME AllDiffer(t)
      PROVE  AllDiffer(s) /\ x \notin Range(s)
  BY <1>1, <1>2, <1>3, <1>4 DEF AllDiffer
<1>5. ASSUME AllDiffer(s), x \notin Range(s)
      PROVE  AllDiffer(t)
  <2>1. SUFFICES ASSUME NEW i \in 1..Len(t), NEW j \in 1..Len(t), t[i] = t[j]
                 PROVE  i = j
    BY DEF AllDiffer
  <2>2. CASE i \in 1..Len(s) /\ j \in 1..Len(s)
    BY <2>1, <2>2, <1>1, <1>5 DEF AllDiffer
  <2>3. CASE i = Len(s) + 1 /\ j \in 1..Len(s)
    BY <2>1, <2>3, <1>1, <1>3, <1>5
  <2>4. CASE j = Len(s) + 1 /\ i \in 1..Len(s)
    BY <2>1, <2>4, <1>1, <1>3, <1>5
  <2>5. QED
    BY <2>2, <2>3, <2>4, <1>2
<1>6. QED
  BY <1>4, <1>5 DEF t

(* What is kept does not repeat an element either.                         *)
LEMMA KeptDistinct ==
  ASSUME NEW T, NEW s \in Seq(T), AllDiffer(s), NEW S
  PROVE  AllDiffer(Kept(s, S))
<1> DEFINE A == {r \in Seq(T) : AllDiffer(r) => AllDiffer(Kept(r, S))}
<1>1. <<>> \in A
  <2>1. <<>> \in Seq(T)
    OBVIOUS
  <2>2. AllDiffer(<<>>)
    BY DEF AllDiffer
  <2>3. Kept(<<>>, S) = <<>>
    BY KeptEmpty
  <2>4. QED
    BY <2>1, <2>2, <2>3
<1>2. ASSUME NEW r \in Seq(T), NEW y \in T, r \in A
      PROVE  Append(r, y) \in A
  <2>1. AllDiffer(Append(r, y)) <=> AllDiffer(r) /\ y \notin Range(r)
    BY OnceAppend
  <2>2. Kept(r, S) \in Seq(T) /\ Range(Kept(r, S)) = Range(r) \cap S
    BY KeptRange
  <2>3. Kept(Append(r, y), S) = IF y \in S THEN Append(Kept(r, S), y) ELSE Kept(r, S)
    BY KeptAppend
  <2>4. AllDiffer(Append(Kept(r, S), y)) <=> AllDiffer(Kept(r, S)) /\ y \notin Range(Kept(r, S))
    BY <2>2, OnceAppend
  <2>5. Append(r, y) \in Seq(T)
    BY AppendFacts
  <2>6. QED
    BY <2>1, <2>2, <2>3, <2>4, <2>5, <1>2
<1>3. s \in A
  <2> HIDE DEF A
  <2>1. QED
    BY <1>1, <1>2, GrowingSeqs
<1>4. QED
  BY <1>3

(* The positions that are others of n without those of Done.                 *)
LeftOf(n, Done) == Kept([i \in 1..n |-> i], (1..n) \ Done)

(* They are the others, in their order.                                    *)
LEMMA LeftIs ==
  ASSUME NEW n \in Nat, NEW Done
  PROVE  /\ LeftOf(n, Done) \in Seq((1..n) \ Done) /\ Range(LeftOf(n, Done)) = (1..n) \ Done
         /\ AllDiffer(LeftOf(n, Done))
         /\ Done = {} /\ n # 0 => LeftOf(n, Done) # <<>>
<1>1. PICK s : s = [i \in 1..n |-> i]
  OBVIOUS
<1>2. s \in Seq(1..n) /\ Len(s) = n /\ \A i \in 1..n : s[i] = i
  BY <1>1
<1>3. Range(s) = 1..n
  BY <1>2, RangeIs
<1>4. AllDiffer(s)
  BY <1>2 DEF AllDiffer
<1>5. PICK D : D = (1..n) \ Done
  OBVIOUS
<1>6. PICK k : k = Kept(s, D)
  OBVIOUS
<1>7. k \in Seq(1..n) /\ Range(k) = Range(s) \cap D
  BY <1>2, <1>6, KeptRange
<1>8. AllDiffer(k)
  BY <1>2, <1>4, <1>6, KeptDistinct
<1>9. Range(k) = D
  BY <1>3, <1>5, <1>7
<1>10. Len(k) \in Nat /\ \A i \in 1..Len(k) : k[i] \in D
  BY <1>7, <1>9, RangeIs
<1>11. k \in Seq(D)
  <2>1. k = [i \in 1..Len(k) |-> k[i]]
    BY <1>7
  <2>2. QED
    BY <2>1, <1>10
<1>12. ASSUME Done = {}, n # 0
       PROVE  k # <<>>
  <2>1. 1 \in D
    BY <1>5, <1>12
  <2>2. k # <<>>
    <3>1. SUFFICES ASSUME k = <<>>
                   PROVE  FALSE
      OBVIOUS
    <3>2. Len(k) = 0
      BY <3>1
    <3>3. \E i \in 1..Len(k) : k[i] = 1
      BY <2>1, <1>7, <1>9, RangeIs
    <3>4. QED
      BY <3>2, <3>3
  <2>3. QED
    BY <2>2
<1>13. k = LeftOf(n, Done)
  BY <1>1, <1>5, <1>6 DEF LeftOf
<1>14. QED
  BY <1>5, <1>8, <1>9, <1>11, <1>12, <1>13

-----------------------------------------------------------------------------
(* What the parser makes of a page                                         *)

(* Names are those of their packages; no package is there twice; what is   *)
(* others of the lines is about what is others of the buttons.                 *)
RowsMatch(r) ==
  Len(r.rows) = Len(r.ids) => \A i \in 1..Len(r.ids) : r.ids[i] # Dummy => r.rows[i].pkg = r.ids[i]

IdsOnce(r) ==
  /\ \A i, j \in 1..Len(r.ids) : r.ids[i] = r.ids[j] /\ r.ids[i] # Dummy => i = j
  /\ \A i \in 1..Len(r.ids) : r.ids[i] \notin DOMAIN r.names

NamesOwn(r) ==
  /\ DOMAIN r.names \subseteq NamedPackages
  /\ \A p \in DOMAIN r.names : r.names[p] = p

(* Without a name every package is others.                                   *)
NoneNamed(r) ==
  DOMAIN r.names = {} => r.ids # <<>> /\ \A i \in 1..Len(r.ids) : r.ids[i] # Dummy

NamesAnswer(r, R) ==
  /\ DOMAIN r = {"names", "ids", "rows", "details", "ok"}
  /\ r.ids \in Seq(NamedPackages \cup {Dummy}) /\ r.rows \in Seq(R)
  /\ r.ok = TRUE
  /\ RowsMatch(r) /\ IdsOnce(r) /\ NamesOwn(r) /\ NoneNamed(r)

(* Lines are resolved and taken out.                                       *)
LEMMA ResolveKeeps ==
  ASSUME NamesAssumption, NEW R, NEW r, NamesAnswer(r, R), Aligned(r),
         NEW Done \in SUBSET DOMAIN r.ids
  PROVE  /\ NamesAnswer(Without(WithNames(r, Done), Done), R)
         /\ Without(WithNames(r, Done), Done).details = r.details
         /\ Range(Without(WithNames(r, Done), Done).ids) \subseteq Range(r.ids)
<1>1. PICK n \in Nat : n = Len(r.ids)
  BY DEF NamesAnswer
<1>2. /\ Len(r.rows) = n /\ DOMAIN r.ids = 1..n /\ DOMAIN r.rows = 1..n
      /\ \A i \in 1..n : r.ids[i] \in NamedPackages \cup {Dummy} /\ r.rows[i] \in R
  BY <1>1 DEF NamesAnswer, Aligned
<1>3. \A i \in 1..n : r.ids[i] # Dummy => r.rows[i].pkg = r.ids[i]
  BY <1>1, <1>2 DEF NamesAnswer, RowsMatch
<1>4. /\ \A i, j \in 1..n : r.ids[i] = r.ids[j] /\ r.ids[i] # Dummy => i = j
      /\ \A i \in 1..n : r.ids[i] \notin DOMAIN r.names
  BY <1>1 DEF NamesAnswer, IdsOnce
<1>5. PICK Ids : Ids = {r.ids[i] : i \in Done} \ {Dummy}
  OBVIOUS
<1>6. /\ Ids \subseteq NamedPackages /\ Ids \cap DOMAIN r.names = {}
      /\ \A p \in Ids : \E i \in Done : r.ids[i] = p
      /\ \A i \in Done : r.ids[i] \in Ids \/ r.ids[i] = Dummy
  BY <1>2, <1>4, <1>5
<1>7. PICK At : At = [p \in Ids |-> CHOOSE i \in Done : r.ids[i] = p]
  OBVIOUS
<1>8. \A p \in Ids : At[p] \in Done /\ r.ids[At[p]] = p
  BY <1>6, <1>7
<1>9. \A p \in Ids : r.rows[At[p]].pkg = p
  BY <1>2, <1>3, <1>5, <1>8
<1>10. PICK names : names = [p \in DOMAIN r.names \cup Ids |->
                               IF p \in DOMAIN r.names THEN r.names[p] ELSE r.rows[At[p]].pkg]
  OBVIOUS
<1>11. DOMAIN names = DOMAIN r.names \cup Ids /\ \A p \in DOMAIN names : names[p] = p
  BY <1>9, <1>10 DEF NamesAnswer, NamesOwn
<1>12. PICK w : w = WithNames(r, Done)
  OBVIOUS
<1>13. /\ DOMAIN w = {"names", "ids", "rows", "details", "ok"}
       /\ w.ids = r.ids /\ w.rows = r.rows /\ w.details = r.details
       /\ w.names = names /\ w.ok = TRUE
  <2>1. PICK v : v = [p \in DOMAIN r.names \cup Ids |->
                        IF p \in DOMAIN r.names THEN r.names[p]
                          ELSE r.rows[CHOOSE i \in Done : r.ids[i] = p].pkg]
    OBVIOUS
  <2>2. v = names
    BY <2>1, <1>7, <1>10
  <2>3. PICK ok : ok = (/\ r.ok /\ Ids \cap DOMAIN r.names = {}
                        /\ \A i, j \in Done :
                             r.ids[i] = r.ids[j] /\ r.ids[i] # Dummy => i = j)
    OBVIOUS
  <2>4. ok = TRUE
    BY <2>3, <1>2, <1>4, <1>6 DEF NamesAnswer
  <2>5. w = [r EXCEPT !.names = v, !.ok = ok]
    BY <2>1, <2>3, <1>5, <1>12 DEF WithNames
  <2>6. DOMAIN r = {"names", "ids", "rows", "details", "ok"}
    BY DEF NamesAnswer
  <2>7. QED
    BY <2>2, <2>4, <2>5, <2>6
<1>14. PICK others : others = LeftOf(n, Done)
  OBVIOUS
<1>15. others \in Seq((1..n) \ Done) /\ Range(others) = (1..n) \ Done /\ AllDiffer(others)
       /\ (Done = {} /\ n # 0 => others # <<>>)
  BY <1>14, LeftIs
<1>16. Len(others) \in Nat /\ DOMAIN others = 1..Len(others)
       /\ \A k \in 1..Len(others) : others[k] \in (1..n) \ Done /\ others[k] \in 1..n
  BY <1>15
<1>17. PICK ids, rows : /\ ids = [k \in 1..Len(others) |-> r.ids[others[k]]]
                        /\ rows = [k \in 1..Len(others) |-> r.rows[others[k]]]
  OBVIOUS
<1>18. /\ ids \in Seq(NamedPackages \cup {Dummy}) /\ Len(ids) = Len(others)
       /\ rows \in Seq(R) /\ Len(rows) = Len(others)
       /\ \A k \in 1..Len(others) : ids[k] = r.ids[others[k]] /\ rows[k] = r.rows[others[k]]
  <2>1. /\ \A k \in 1..Len(others) : r.ids[others[k]] \in NamedPackages \cup {Dummy}
        /\ \A k \in 1..Len(others) : r.rows[others[k]] \in R
    BY <1>2, <1>16
  <2>2. ids \in Seq(NamedPackages \cup {Dummy}) /\ Len(ids) = Len(others)
    BY <2>1, <1>16, <1>17
  <2>3. rows \in Seq(R) /\ Len(rows) = Len(others)
    BY <2>1, <1>16, <1>17
  <2>4. QED
    BY <2>2, <2>3, <1>17
<1>19. PICK u : u = Without(w, Done)
  OBVIOUS
<1>20. /\ DOMAIN u = {"names", "ids", "rows", "details", "ok"}
       /\ u.ids = ids /\ u.rows = rows /\ u.details = r.details
       /\ u.names = names /\ u.ok = TRUE
  <2>1. /\ Kept([i \in 1..n |-> i], (1..n) \ Done) = others
        /\ DOMAIN r.ids = 1..n /\ DOMAIN r.rows = 1..n /\ DOMAIN others = 1..Len(others)
    BY <1>2, <1>14, <1>16 DEF LeftOf
  <2>2. u = [w EXCEPT !.ids = ids, !.rows = rows]
    BY <2>1, <1>13, <1>17, <1>19 DEF Without
  <2>3. QED
    BY <2>2, <1>13
<1>21. RowsMatch(u)
  BY <1>3, <1>16, <1>18, <1>20 DEF RowsMatch
<1>22. IdsOnce(u)
  <2>1. ASSUME NEW i \in 1..Len(others), NEW j \in 1..Len(others), ids[i] = ids[j], ids[i] # Dummy
        PROVE  i = j
    <3>1. others[i] = others[j]
      BY <2>1, <1>4, <1>16, <1>18
    <3>2. QED
      BY <3>1, <1>15 DEF AllDiffer
  <2>2. ASSUME NEW i \in 1..Len(others)
        PROVE  ids[i] \notin DOMAIN names
    <3>1. SUFFICES ASSUME ids[i] \in Ids
                   PROVE  FALSE
      BY <1>4, <1>11, <1>16, <1>18
    <3>2. PICK j \in Done : r.ids[j] = ids[i]
      BY <3>1, <1>6
    <3>3. r.ids[j] = r.ids[others[i]] /\ j \in 1..n /\ r.ids[j] # Dummy
      BY <3>1, <3>2, <1>2, <1>5, <1>18
    <3>4. j = others[i]
      BY <3>3, <1>4, <1>16
    <3>5. QED
      BY <3>4, <1>16
  <2>3. QED
    BY <2>1, <2>2, <1>18, <1>20 DEF IdsOnce
<1>23. NamesOwn(u)
  BY <1>6, <1>11, <1>20 DEF NamesOwn, NamesAnswer
<1>24. NoneNamed(u)
  <2>1. SUFFICES ASSUME DOMAIN names = {}
                 PROVE  ids # <<>> /\ \A k \in 1..Len(ids) : ids[k] # Dummy
    BY <1>20 DEF NoneNamed
  <2>2. DOMAIN r.names = {} /\ Ids = {}
    BY <2>1, <1>11
  <2>3. r.ids # <<>> /\ \A i \in 1..n : r.ids[i] # Dummy
    BY <2>2, <1>1 DEF NoneNamed, NamesAnswer
  <2>4. Done = {}
    BY <2>2, <2>3, <1>2, <1>6
  <2>5. n # 0
    BY <2>3, <1>1, EmptySeq DEF NamesAnswer
  <2>6. others # <<>>
    BY <2>4, <2>5, <1>15
  <2>7. Len(others) # 0
    BY <2>6, <1>15, EmptySeq
  <2>8. QED
    BY <2>3, <2>7, <1>16, <1>18
<1>25. NamesAnswer(u, R)
  BY <1>18, <1>20, <1>21, <1>22, <1>23, <1>24 DEF NamesAnswer
<1>26. Range(u.ids) \subseteq Range(r.ids)
  <2>1. \A p \in Range(ids) : \E k \in 1..Len(ids) : ids[k] = p
    BY <1>18, RangeIs
  <2>2. \A i \in 1..n : r.ids[i] \in Range(r.ids)
    BY <1>1, RangeIs DEF NamesAnswer
  <2>3. QED
    BY <2>1, <2>2, <1>16, <1>18, <1>20
<1>27. QED
  BY <1>12, <1>19, <1>20, <1>25, <1>26

(* The name in the help text is the last one.                              *)
LEMMA DetailKeeps ==
  ASSUME NamesAssumption, NEW R, NEW r, NamesAnswer(r, R),
         Len(r.details) = 1 /\ Len(r.ids) = 1 => r.ids[1] = r.details[1] /\ r.ids[1] # Dummy
  PROVE  NamesAnswer(HandleDetailName(r), R)
<1>1. CASE ~(Len(r.details) = 1 /\ Len(r.ids) = 1)
  BY <1>1 DEF HandleDetailName
<1>2. CASE Len(r.details) = 1 /\ Len(r.ids) = 1
  <2>1. /\ DOMAIN r = {"names", "ids", "rows", "details", "ok"}
        /\ r.ids \in Seq(NamedPackages \cup {Dummy}) /\ r.rows \in Seq(R) /\ r.ok = TRUE
        /\ NamesOwn(r) /\ IdsOnce(r)
    BY DEF NamesAnswer
  <2>2. PICK p : p = r.ids[1]
    OBVIOUS
  <2>3. p = r.details[1] /\ p \in NamedPackages
    BY <2>1, <2>2, <1>2
  <2>4. p \notin DOMAIN r.names
    BY <2>1, <2>2, <1>2 DEF IdsOnce
  <2>5. PICK names : names = [q \in DOMAIN r.names \cup {p} |->
                                IF q \in DOMAIN r.names THEN r.names[q] ELSE r.details[1]]
    OBVIOUS
  <2>6. DOMAIN names = DOMAIN r.names \cup {p} /\ \A q \in DOMAIN names : names[q] = q
    BY <2>1, <2>3, <2>5 DEF NamesOwn
  <2>7. PICK w : w = [r EXCEPT !.names = names, !.ok = (r.ok /\ p \notin DOMAIN r.names)]
    OBVIOUS
  <2>8. /\ DOMAIN w = {"names", "ids", "rows", "details", "ok"}
        /\ w.ids = r.ids /\ w.rows = r.rows /\ w.names = names
    BY <2>1, <2>7
  <2>8a. w.ok = TRUE
    <3>1. (r.ok /\ p \notin DOMAIN r.names) = TRUE
      BY <2>1, <2>4
    <3>2. QED
      BY <3>1, <2>1, <2>7
  <2>9. PICK m \in Nat : m = Len(r.rows)
    BY <2>1
  <2>10. PICK i, k : i = LeftOf(1, {1}) /\ k = LeftOf(m, {1})
    OBVIOUS
  <2>11. i = <<>>
    <3>1. i \in Seq((1..1) \ {1}) /\ Range(i) = (1..1) \ {1}
      BY <2>10, LeftIs
    <3>2. \A j \in 1..Len(i) : i[j] \in (1..1) \ {1}
      BY <3>1
    <3>3. (1..1) \ {1} = {}
      OBVIOUS
    <3>4. ~(1 \in 1..Len(i))
      BY <3>2, <3>3
    <3>5. Len(i) \in Nat
      BY <3>1
    <3>6. Len(i) = 0
      BY <3>4, <3>5
    <3>7. QED
      BY <3>1, <3>6, EmptySeq
  <2>12. k \in Seq((1..m) \ {1})
    BY <2>9, <2>10, LeftIs
  <2>13. Len(k) \in Nat /\ DOMAIN k = 1..Len(k) /\ \A j \in 1..Len(k) : k[j] \in 1..m
    BY <2>12
  <2>14. PICK rows : rows = [j \in 1..Len(k) |-> r.rows[k[j]]]
    OBVIOUS
  <2>15. rows \in Seq(R)
    <3>1. \A j \in 1..Len(k) : r.rows[k[j]] \in R
      BY <2>1, <2>9, <2>13
    <3>2. QED
      BY <3>1, <2>13, <2>14
  <2>16. PICK u : u = Without(w, {1})
    OBVIOUS
  <2>17. /\ DOMAIN u = {"names", "ids", "rows", "details", "ok"}
         /\ u.ids = <<>> /\ u.rows = rows /\ u.names = names /\ u.ok = TRUE
    <3>1. DOMAIN r.ids = 1..1 /\ DOMAIN r.rows = 1..m
      BY <2>1, <2>9, <1>2
    <3>2. Kept([j \in 1..1 |-> j], (1..1) \ {1}) = i /\ Kept([j \in 1..m |-> j], (1..m) \ {1}) = k
      BY <2>10 DEF LeftOf
    <3>3. PICK ids : ids = [j \in DOMAIN i |-> r.ids[i[j]]]
      OBVIOUS
    <3>4. ids = <<>>
      BY <2>11, <3>3
    <3>5. u = [w EXCEPT !.ids = ids, !.rows = rows]
      BY <3>1, <3>2, <3>3, <2>8, <2>13, <2>14, <2>16 DEF Without
    <3>6. QED
      BY <3>4, <3>5, <2>8, <2>8a
  <2>18. u.ids \in Seq(NamedPackages \cup {Dummy}) /\ Len(u.ids) = 0
    BY <2>17
  <2>19. RowsMatch(u) /\ IdsOnce(u)
    BY <2>18 DEF RowsMatch, IdsOnce
  <2>20. NamesOwn(u)
    BY <2>1, <2>3, <2>6, <2>17 DEF NamesOwn
  <2>21. NoneNamed(u)
    BY <2>6, <2>17 DEF NoneNamed
  <2>22. NamesAnswer(u, R)
    BY <2>15, <2>17, <2>18, <2>19, <2>20, <2>21 DEF NamesAnswer
  <2>23. HandleDetailName(r) = u
    BY <2>2, <2>5, <2>7, <2>16, <1>2 DEF HandleDetailName
  <2>24. QED
    BY <2>22, <2>23
<1>3. QED
  BY <1>1, <1>2

(* What the parser makes of the lines and buttons, before anything is fetched.*)
LEMMA ParsedIs ==
  ASSUME NamesAssumption, NEW doc, PageIsSound(doc), NEW R, R = Range(doc.rows)
  PROVE  /\ NamesAnswer(Parsed(doc), R) /\ Parsed(doc).details = doc.details
         /\ Len(doc.details) = 1 =>
              \A p \in Range(Parsed(doc).ids) : p = doc.details[1] /\ p # Dummy
<1>1. PICK n \in Nat \ {0} : n = Len(doc.buttons)
  BY DEF PageIsSound
<1>2. DOMAIN doc.buttons = 1..n
  BY <1>1 DEF PageIsSound
<1>3. \A i \in 1..n : doc.buttons[i] \in Range(doc.buttons)
  BY <1>2 DEF Range
<1>4. \A i \in 1..n : doc.buttons[i].pkg \in NamedPackages /\ doc.buttons[i].pkg # Dummy
  BY <1>3 DEF PageIsSound, NamesAssumption
<1>5. \A i, j \in 1..n : doc.buttons[i].pkg = doc.buttons[j].pkg => i = j
  BY <1>2 DEF PageIsSound
<1>6. PICK ids : ids = PackageIds(doc)
  OBVIOUS
<1>7. /\ ids \in Seq(NamedPackages \cup {Dummy}) /\ Len(ids) = n
      /\ \A i \in 1..n : ids[i] = IF doc.buttons[i].kind = "named" THEN Dummy
                                  ELSE doc.buttons[i].pkg
  <2>1. ids = [i \in 1..n |-> IF doc.buttons[i].kind = "named" THEN Dummy
                              ELSE doc.buttons[i].pkg]
    BY <1>2, <1>6 DEF PackageIds, FormPackage
  <2>2. QED
    BY <2>1, <1>4
<1>8. PICK rows : rows = LineItemRows(doc)
  OBVIOUS
<1>9. rows \in Seq(R)
  <2>1. doc.rows \in Seq(R)
    <3>1. doc.rows = [i \in 1..Len(doc.rows) |-> doc.rows[i]] /\ Len(doc.rows) \in Nat
      BY DEF PageIsSound
    <3>2. \A i \in 1..Len(doc.rows) : doc.rows[i] \in R
      BY <3>1 DEF Range
    <3>3. QED
      BY <3>1, <3>2
  <2>2. QED
    BY <2>1, <1>8, KeptRange DEF LineItemRows
<1>10. PICK names : names = [p \in NamedButtons(doc) |-> p]
  OBVIOUS
<1>11. NamedButtons(doc) = {doc.buttons[i].pkg : i \in {j \in 1..n : doc.buttons[j].kind = "named"}}
  BY <1>2 DEF NamedButtons
<1>12. PICK r : r = Parsed(doc)
  OBVIOUS
<1>13. /\ DOMAIN r = {"names", "ids", "rows", "details", "ok"}
       /\ r.ids = ids /\ r.rows = rows /\ r.details = doc.details /\ r.names = names
       /\ r.ok = TRUE
  BY <1>6, <1>8, <1>10, <1>12 DEF Parsed, HelpDetails
<1>14. RowsMatch(r)
  <2>1. Len(rows) = n => \A i \in 1..n : rows[i].pkg = doc.buttons[i].pkg
    BY <1>1, <1>8 DEF PageIsSound
  <2>2. QED
    BY <2>1, <1>7, <1>13 DEF RowsMatch
<1>15. IdsOnce(r)
  <2>1. \A i, j \in 1..n : ids[i] = ids[j] /\ ids[i] # Dummy => i = j
    BY <1>5, <1>7
  <2>2. \A i \in 1..n : ids[i] \notin DOMAIN names
    <3>1. TAKE i \in 1..n
    <3>2. CASE doc.buttons[i].kind = "named"
      BY <3>2, <1>4, <1>7, <1>10, <1>11
    <3>3. CASE doc.buttons[i].kind # "named"
      BY <3>3, <1>5, <1>7, <1>10, <1>11
    <3>4. QED
      BY <3>2, <3>3
  <2>3. QED
    BY <2>1, <2>2, <1>7, <1>13 DEF IdsOnce
<1>16. NamesOwn(r)
  BY <1>4, <1>10, <1>11, <1>13 DEF NamesOwn
<1>17. NoneNamed(r)
  <2>1. SUFFICES ASSUME DOMAIN names = {}
                 PROVE  ids # <<>> /\ \A i \in 1..n : ids[i] # Dummy
    BY <1>7, <1>13 DEF NoneNamed
  <2>2. \A i \in 1..n : doc.buttons[i].kind # "named"
    BY <2>1, <1>10, <1>11
  <2>3. ids # <<>>
    BY <1>7
  <2>4. QED
    BY <2>2, <2>3, <1>4, <1>7
<1>18. NamesAnswer(r, R)
  BY <1>7, <1>9, <1>13, <1>14, <1>15, <1>16, <1>17 DEF NamesAnswer
<1>19. ASSUME Len(doc.details) = 1, NEW p \in Range(ids)
       PROVE  p = doc.details[1] /\ p # Dummy
  <2>1. PICK i \in 1..n : ids[i] = p
    BY <1>7, RangeIs
  <2>2. doc.buttons[i].kind = "form" /\ doc.buttons[i].pkg = doc.details[1]
    BY <1>3, <1>19 DEF PageIsSound
  <2>3. QED
    BY <2>1, <2>2, <1>4, <1>7
<1>20. QED
  BY <1>12, <1>13, <1>18, <1>19

(* A doc gives the packages it names their own names, or it is about a    *)
(* package without a name.                                                 *)
LEMMA PageResultIs ==
  ASSUME NamesAssumption, NEW doc, PageIsSound(doc), NEW Asked
  PROVE  LET r == PageResult(doc, Asked)
         IN /\ r.ok = TRUE /\ DOMAIN r.names \subseteq NamedPackages
            /\ \A p \in DOMAIN r.names : r.names[p] = p
            /\ DOMAIN r.names = {} => r.ids[1] \in NamedPackages
<1>1. PICK R : R = Range(doc.rows)
  OBVIOUS
<1>2. PICK r : r = Parsed(doc)
  OBVIOUS
<1>3. NamesAnswer(r, R) /\ r.details = doc.details
      /\ (Len(doc.details) = 1 => \A p \in Range(r.ids) : p = doc.details[1] /\ p # Dummy)
  BY <1>1, <1>2, ParsedIs
<1>4. PICK s : s = HandlePackageNames(r)
  OBVIOUS
<1>5. NamesAnswer(s, R) /\ s.details = doc.details /\ Range(s.ids) \subseteq Range(r.ids)
  <2>1. PICK Done : Done = {i \in DOMAIN r.ids :
                    r.ids[i] = Dummy \/ r.rows[i].kind \in {"activation", "purchase"}}
    OBVIOUS
  <2>2. Done \in SUBSET DOMAIN r.ids
    BY <2>1
  <2>3. s = IF Aligned(r) THEN Without(WithNames(r, Done), Done) ELSE r
    BY <2>1, <1>4 DEF HandlePackageNames
  <2>4. QED
    BY <2>2, <2>3, <1>3, ResolveKeeps
<1>6. Len(s.details) = 1 /\ Len(s.ids) = 1 => s.ids[1] = s.details[1] /\ s.ids[1] # Dummy
  <2>1. Len(s.ids) = 1 => s.ids[1] \in Range(s.ids)
    BY <1>5, RangeIs DEF NamesAnswer
  <2>2. QED
    BY <2>1, <1>3, <1>5
<1>7. PICK t : t = HandleDetailName(s)
  OBVIOUS
<1>8. NamesAnswer(t, R)
  BY <1>5, <1>6, <1>7, DetailKeeps
<1>9. PICK u : u = GetReceipts(t, Asked)
  OBVIOUS
<1>10. NamesAnswer(u, R)
  <2>1. PICK Done : Done = {i \in DOMAIN t.ids :
                              t.rows[i].kind = "receipt" /\ t.ids[i] \in Asked}
    OBVIOUS
  <2>2. Done \in SUBSET DOMAIN t.ids
    BY <2>1
  <2>3. u = IF Aligned(t) THEN Without(WithNames(t, Done), Done) ELSE t
    BY <2>1, <1>9 DEF GetReceipts
  <2>4. QED
    BY <2>2, <2>3, <1>8, ResolveKeeps
<1>11. u = PageResult(doc, Asked)
  BY <1>2, <1>4, <1>7, <1>9 DEF PageResult
<1>12. DOMAIN u.names = {} => u.ids[1] \in NamedPackages
  <2>1. SUFFICES ASSUME DOMAIN u.names = {}
                 PROVE  u.ids[1] \in NamedPackages
    OBVIOUS
  <2>2. /\ u.ids # <<>> /\ u.ids \in Seq(NamedPackages \cup {Dummy})
        /\ \A i \in 1..Len(u.ids) : u.ids[i] # Dummy
    BY <2>1, <1>10 DEF NamesAnswer, NoneNamed
  <2>3. 1 \in 1..Len(u.ids)
    BY <2>2, EmptySeq
  <2>4. QED
    BY <2>2, <2>3
<1>13. QED
  BY <1>10, <1>11, <1>12 DEF NamesAnswer, NamesOwn

-----------------------------------------------------------------------------
(* What the clients keep                                                   *)

NamesTyped ==
  /\ HolderInv
  /\ nameInbox \in [Owners -> Seq(SUBSET NamedPackages)]
  /\ nameMessages \in [Owners -> Seq(SUBSET NamedPackages)]
  /\ todo \in [Owners -> SUBSET NamedPackages]
  /\ appsLeft \in [Owners -> SUBSET NamedApps]

NamesRight ==
  /\ DOMAIN infos \subseteq NamedPackages /\ DOMAIN nameFile \subseteq NamedPackages
  /\ NamesMatch

(* What is learned of a page are the names of its packages.                *)
LEMMA NamesLearn ==
  ASSUME NamesAssumption, NamesRight, NEW a \in NamedGames, NEW doc \in Pages[a], NEW Asked,
         infos' = Learn(PageResult(doc, Asked)), nameFile' = nameFile
  PROVE  NamesRight'
<1>1. PICK r : r = PageResult(doc, Asked)
  OBVIOUS
<1>2. PageIsSound(doc)
  BY DEF NamesAssumption
<1>3. /\ DOMAIN r.names \subseteq NamedPackages
      /\ \A p \in DOMAIN r.names : r.names[p] = p
      /\ DOMAIN r.names = {} => r.ids[1] \in NamedPackages
  BY <1>1, <1>2, PageResultIs
<1>4. CASE DOMAIN r.names # {}
  <2>1. infos' = [p \in DOMAIN infos \cup DOMAIN r.names |->
                    IF p \in DOMAIN r.names THEN r.names[p] ELSE infos[p]]
    BY <1>1, <1>4 DEF Learn
  <2>2. QED
    BY <2>1, <1>3 DEF NamesRight, NamesMatch
<1>5. CASE DOMAIN r.names = {}
  <2>1. infos' = [p \in DOMAIN infos \cup {r.ids[1]} |-> IF p = r.ids[1] THEN "" ELSE infos[p]]
    BY <1>1, <1>5 DEF Learn
  <2>2. QED
    BY <2>1, <1>3, <1>5 DEF NamesRight, NamesMatch
<1>6. QED
  BY <1>4, <1>5

(* Every step keeps the names right.                                       *)
LEMMA NamesRightStep ==
  ASSUME NamesAssumption, NamesRight, [NamesNext]_nameVars
  PROVE  NamesRight'
<1>1. CASE UNCHANGED <<infos, nameFile>>
  BY <1>1 DEF NamesRight, NamesMatch
<1>2. ASSUME NEW c \in Owners, TakeMessage(c) \/ PackageDone(c)
      PROVE  NamesRight'
  <2>1. UNCHANGED <<infos, nameFile>> \/ (infos' = infos /\ nameFile' = infos)
    BY <1>2 DEF TakeMessage, PackageDone, Save, nameStore
  <2>2. QED
    BY <2>1 DEF NamesRight, NamesMatch
<1>3. ASSUME NEW c \in Owners, UpdateLicenseInfo(c)
      PROVE  NamesRight'
  <2>1. nameFile' = nameFile
    BY <1>3 DEF UpdateLicenseInfo
  <2>2. \/ infos' = infos
        \/ \E a \in NamedGames : \E doc \in Pages[a] :
             \E Asked \in SUBSET {doc.rows[i].pkg : i \in DOMAIN doc.rows} :
                infos' = Learn(PageResult(doc, Asked))
    BY <1>3 DEF UpdateLicenseInfo
  <2>3. QED
    BY <2>1, <2>2, <1>1, NamesLearn
<1>4. ASSUME NEW c \in Owners,
             NamesWake(c) \/ MessageDone(c) \/ TakePackage(c) \/ PageFails(c)
               \/ NewLicensesArrive(c) \/ PackageDataArrives(c)
      PROVE  UNCHANGED <<infos, nameFile>>
  BY <1>4 DEF NamesWake, MessageDone, TakePackage, PageFails, NewLicensesArrive,
     PackageDataArrives, nameStore
<1>5. CASE MinutePasses
  BY <1>1, <1>5 DEF MinutePasses
<1>6. CASE UNCHANGED nameVars
  BY <1>1, <1>6 DEF nameVars
<1>7. QED
  BY <1>1, <1>2, <1>3, <1>4, <1>5, <1>6 DEF NamesNext, ModuleStep

(* Every step keeps the types.                                             *)
LEMMA NamesTypedStep ==
  ASSUME NamesAssumption, NamesTyped, [NamesNext]_nameVars
  PROVE  NamesTyped'
<1>0. HolderInv'
  BY HolderStep DEF NamesTyped
<1>1. PICK S : S = SUBSET NamedPackages
  OBVIOUS
<1>2. /\ nameInbox \in [Owners -> Seq(S)] /\ nameMessages \in [Owners -> Seq(S)]
      /\ todo \in [Owners -> S] /\ appsLeft \in [Owners -> SUBSET NamedApps]
  BY <1>1 DEF NamesTyped
<1>3. SUFFICES /\ nameInbox' \in [Owners -> Seq(S)] /\ nameMessages' \in [Owners -> Seq(S)]
               /\ todo' \in [Owners -> S] /\ appsLeft' \in [Owners -> SUBSET NamedApps]
  BY <1>0, <1>1 DEF NamesTyped
<1>4. CASE UNCHANGED <<nameInbox, nameMessages, todo, appsLeft>>
  BY <1>2, <1>4
<1>5. ASSUME NEW c \in Owners, NamesWake(c)
      PROVE  <1>3!1
  <2>1. nameMessages[c] \o nameInbox[c] \in Seq(S) /\ <<>> \in Seq(S)
    BY <1>2, ConcatProperties
  <2>2. PICK m \in Seq(S) : m = nameMessages[c] \o nameInbox[c]
    BY <2>1
  <2>3. PICK e \in Seq(S) : e = <<>>
    BY <2>1
  <2>4. /\ nameMessages' = [nameMessages EXCEPT ![c] = m]
        /\ nameInbox' = [nameInbox EXCEPT ![c] = e]
        /\ UNCHANGED <<todo, appsLeft>>
    BY <2>2, <2>3, <1>5 DEF NamesWake, loop
  <2>5. QED
    BY <2>4, <1>2
<1>6. ASSUME NEW c \in Owners, TakeMessage(c)
      PROVE  <1>3!1
  <2>1. UNCHANGED <<nameInbox, appsLeft>>
    BY <1>6 DEF TakeMessage
  <2>2. CASE nameMessages[c] # <<>>
    <3>1. Last(nameMessages[c]) \in S /\ Front(nameMessages[c]) \in Seq(S)
      <4>1. PICK s \in Seq(S) : s = nameMessages[c]
        BY <1>2
      <4>2. PICK n \in Nat : n = Len(s)
        OBVIOUS
      <4>3. n # 0
        BY <4>1, <4>2, <2>2, EmptySeq
      <4>4. n - 1 \in Nat /\ n - 1 <= n /\ n \in 1..n
        BY <4>3
      <4>5. SubSeq(s, 1, n - 1) \in Seq(S) /\ s[n] \in S
        BY <4>2, <4>4
      <4>6. QED
        BY <4>1, <4>2, <4>5 DEF Last, Front
    <3>2. /\ todo' = [todo EXCEPT ![c] = Last(nameMessages[c])]
          /\ nameMessages' = [nameMessages EXCEPT ![c] = Front(nameMessages[c])]
      BY <2>2, <1>6 DEF TakeMessage
    <3>3. QED
      BY <3>1, <3>2, <2>1, <1>2
  <2>3. CASE nameMessages[c] = <<>>
    BY <2>1, <2>3, <1>2, <1>6 DEF TakeMessage
  <2>4. QED
    BY <2>2, <2>3
<1>7. ASSUME NEW c \in Owners, TakePackage(c)
      PROVE  <1>3!1
  <2>1. UNCHANGED <<nameInbox, nameMessages>>
    BY <1>7 DEF TakePackage
  <2>2. PICK p \in todo[c] : /\ todo' = [todo EXCEPT ![c] = todo[c] \ {p}]
                             /\ appsLeft' = appsLeft \/ appsLeft' = [appsLeft EXCEPT ![c] = AppsIn[p]]
    BY <1>7 DEF TakePackage
  <2>3. todo[c] \ {p} \in S /\ AppsIn[p] \in SUBSET NamedApps
    BY <1>1, <1>2 DEF NamesAssumption
  <2>4. QED
    BY <2>1, <2>2, <2>3, <1>2
<1>8. ASSUME NEW c \in Owners, UpdateLicenseInfo(c)
      PROVE  <1>3!1
  <2>1. UNCHANGED <<nameInbox, nameMessages, todo>>
    BY <1>8 DEF UpdateLicenseInfo
  <2>2. \E a \in appsLeft[c] : appsLeft' = [appsLeft EXCEPT ![c] = appsLeft[c] \ {a}]
    BY <1>8 DEF UpdateLicenseInfo
  <2>3. QED
    BY <2>1, <2>2, <1>2
<1>9. ASSUME NEW c \in Owners, NewLicensesArrive(c)
      PROVE  <1>3!1
  <2>1. PICK new \in S : nameInbox' = [nameInbox EXCEPT ![c] = Append(nameInbox[c], new)]
    BY <1>1, <1>9 DEF NewLicensesArrive
  <2>2. Append(nameInbox[c], new) \in Seq(S)
    BY <1>2, AppendFacts
  <2>3. UNCHANGED <<nameMessages, todo, appsLeft>>
    BY <1>9 DEF NewLicensesArrive, loop
  <2>4. QED
    BY <2>1, <2>2, <2>3, <1>2
<1>10. ASSUME NEW c \in Owners, MessageDone(c) \/ PackageDone(c) \/ PageFails(c)
                                 \/ PackageDataArrives(c)
       PROVE  UNCHANGED <<nameInbox, nameMessages, todo, appsLeft>>
  BY <1>10 DEF MessageDone, PackageDone, PageFails, PackageDataArrives, loop
<1>11. CASE MinutePasses
  BY <1>4, <1>11 DEF MinutePasses, loop
<1>12. CASE UNCHANGED nameVars
  BY <1>4, <1>12 DEF nameVars
<1>13. QED
  BY <1>4, <1>5, <1>6, <1>7, <1>8, <1>9, <1>10, <1>11, <1>12 DEF NamesNext, ModuleStep

(* No package is given the name of another, and no name is given twice,    *)
(* whatever mixture of lines, buttons and forms a doc has, as long as its *)
(* lines and buttons come in one order (PackageInfo.cpp:824-945).          *)
THEOREM NamesAreOwn ==
  ASSUME NamesAssumption
  PROVE  NamesSpec => [](NamesTypeOK /\ NamesMatch /\ PageAssertions)
<1>1. ASSUME NamesInit
      PROVE  NamesTyped /\ NamesRight
  <2>1. HolderInv
    BY <1>1 DEF NamesInit, HolderInv, OneAsks, NamesAssumption
  <2>2. PICK S : S = SUBSET NamedPackages
    OBVIOUS
  <2>3. <<>> \in Seq(S) /\ {} \in S
    BY <2>2
  <2>4. /\ nameInbox = [c \in Owners |-> << >>] /\ nameMessages = [c \in Owners |-> << >>]
        /\ todo = [c \in Owners |-> {}] /\ appsLeft = [c \in Owners |-> {}]
        /\ infos = << >> /\ nameFile = << >>
    BY <1>1 DEF NamesInit
  <2>5. NamesTyped
    BY <2>1, <2>2, <2>3, <2>4 DEF NamesTyped
  <2>6. DOMAIN infos = {} /\ DOMAIN nameFile = {}
    BY <2>4
  <2>7. QED
    BY <2>5, <2>6 DEF NamesRight, NamesMatch
<1>2. PageAssertions
  BY PageResultIs DEF PageAssertions, NamesAssumption
<1>3. NamesTyped /\ NamesRight => NamesTypeOK /\ NamesMatch
  BY DEF NamesTyped, NamesRight, NamesTypeOK, HolderInv
<1>4. QED
  BY <1>1, <1>2, <1>3, NamesTypedStep, NamesRightStep, PTL DEF NamesSpec

-----------------------------------------------------------------------------
(* InventoryFlow                                                           *)

(* What load() has gathered, and whom it has gathered it for.              *)
InventoryLoadInv ==
  /\ nextPage \in 0..LastPage
  /\ itemAsked \in Items \cup {NotAsked}
  /\ gathered \subseteq Items /\ inventory.items \subseteq Items /\ owned \subseteq Items
  /\ nextPage = 0 /\ inventory.there /\ ~newer => owned \ itemAnnounced \subseteq inventory.items
  /\ nextPage # 0 /\ ~newerLoad =>
       \A i \in owned \ itemAnnounced : PageOf[i] < nextPage => i \in gathered
  /\ sending = "offer" => nextPage = 0

(* Where the descriptions are that somebody counts on.                     *)
DescriptionsInv ==
  /\ \A i \in itemInfos : KeyOf[i] \in known
  /\ sending = "offer" => \A i \in offered : KeyOf[i] \in known
  /\ fetched \subseteq known /\ fetchKeys \subseteq Keys
  /\ Alive => \A k \in fetchKeys : k \in known \/ AppOfKey[k] \in chunks

InventoryInv == InventoryLoadInv /\ DescriptionsInv /\ OffersFit

(* The inventory, what load() has gathered, and the descriptions.          *)
LEMMA InventoryStep ==
  ASSUME InventoryAssumption, InventoryInv, [InventoryNext]_inventoryVars
  PROVE  InventoryInv'
<1>1. /\ nextPage \in 0..LastPage /\ LastPage \in Nat \ {0} /\ PageOf \in [Items -> 1..LastPage]
      /\ itemAsked \in Items \cup {NotAsked} /\ ItemsPerTrade \in Nat
      /\ gathered \subseteq Items /\ inventory.items \subseteq Items /\ owned \subseteq Items
  BY DEF InventoryAssumption, InventoryInv, InventoryLoadInv
<1> USE DEF InventoryInv
<1>2. ASSUME NEW i \in Items, ItemArrives(i)
      PROVE  InventoryInv'
  BY <1>1, <1>2 DEF ItemArrives, cached, assets, sender, InventoryLoadInv, DescriptionsInv, OffersFit
<1>3. ASSUME NEW i \in Items, NEW b \in BOOLEAN,
             HandleAnnouncement(i) \/ HandleItemNotification(i, b)
      PROVE  InventoryInv'
  <2>1. /\ newer' = (newer \/ b) \/ newer' = (newer \/ TRUE)
        /\ owned' = owned /\ inventory' = inventory /\ nextPage' = nextPage
        /\ gathered' = gathered /\ itemAsked' = itemAsked /\ itemInfos' = itemInfos
        /\ known' = known /\ fetched' = fetched /\ fetchKeys' = fetchKeys /\ chunks' = chunks
        /\ sending' = sending /\ offered' = offered
        /\ \/ itemAnnounced' = itemAnnounced /\ (newer' <=> newer \/ b)
              /\ (newerLoad' <=> newerLoad \/ b)
           \/ newer' /\ newerLoad'
    BY <1>3 DEF HandleAnnouncement, HandleItemNotification, Notice, assets, watcher, sender
  <2>2. InventoryLoadInv'
    BY <1>1, <2>1 DEF InventoryLoadInv
  <2>2a. failed' = failed
    BY <1>3 DEF HandleAnnouncement, HandleItemNotification, Notice, assets
  <2>3. DescriptionsInv' /\ OffersFit'
    BY <2>1, <2>2a DEF DescriptionsInv, OffersFit, Alive
  <2>4. QED
    BY <2>2, <2>3
<1>4. ASSUME PageLoaded
      PROVE  InventoryInv'
  <2> DEFINE here == {i \in owned : PageOf[i] = nextPage}
  <2>1. /\ nextPage # 0 /\ known \subseteq known' /\ failed' = failed
        /\ owned' = owned /\ itemAnnounced' = itemAnnounced /\ itemAsked' = itemAsked
        /\ itemInfos' = itemInfos /\ fetched' = fetched /\ fetchKeys' = fetchKeys
        /\ chunks' = chunks /\ sending' = sending /\ offered' = offered
        /\ IF nextPage < LastPage
           THEN /\ nextPage' = nextPage + 1 /\ gathered' = gathered \cup here
                /\ inventory' = inventory /\ newer' = newer /\ newerLoad' = newerLoad
           ELSE /\ inventory' = [there |-> TRUE, items |-> gathered \cup here]
                /\ newer' = newerLoad /\ newerLoad' = FALSE
                /\ nextPage' = 0 /\ gathered' = {}
    BY <1>4 DEF PageLoaded, Stored, itemServer, watcher, sender
  <2>2. sending # "offer" /\ OffersFit'
    BY <2>1 DEF InventoryLoadInv, OffersFit
  <2>3. here \subseteq Items
    BY <1>1
  <2>3a. DescriptionsInv'
    BY <2>1 DEF DescriptionsInv, Alive
  <2>4. \A i \in owned : PageOf[i] \in 1..LastPage /\ (PageOf[i] = nextPage <=> i \in here)
    BY <1>1
  <2> HIDE DEF here
  <2>5. CASE nextPage < LastPage
    <3>1. /\ nextPage' = nextPage + 1 /\ gathered' = gathered \cup here
          /\ inventory' = inventory /\ newer' = newer /\ newerLoad' = newerLoad
      BY <2>1, <2>5
    <3>2. nextPage' \in 0..LastPage /\ nextPage' # 0
      BY <1>1, <2>1, <2>5, <3>1
    <3>3. \A i \in owned : PageOf[i] < nextPage' => PageOf[i] < nextPage \/ i \in here
      BY <1>1, <2>4, <3>1
    <3>4. InventoryLoadInv'
      BY <1>1, <2>1, <2>2, <2>3, <3>1, <3>2, <3>3 DEF InventoryLoadInv
    <3>5. QED
      BY <2>2, <2>3a, <3>4
  <2>6. CASE ~(nextPage < LastPage)
    <3>1. /\ inventory'.items = gathered \cup here
          /\ newer' = newerLoad /\ newerLoad' = FALSE /\ nextPage' = 0 /\ gathered' = {}
      BY <2>1, <2>6
    <3>2. \A i \in owned : PageOf[i] < nextPage \/ i \in here
      BY <1>1, <2>4, <2>6
    <3>3. InventoryLoadInv'
      BY <1>1, <2>1, <2>2, <2>3, <3>1, <3>2 DEF InventoryLoadInv
    <3>4. QED
      BY <2>2, <2>3a, <3>3
  <2>7. QED
    BY <2>5, <2>6
<1>5. ASSUME PageLoadFails
      PROVE  InventoryInv'
  <2>1. /\ inventory' = NoInventory /\ nextPage' = 0 /\ gathered' = {} /\ newerLoad' = FALSE
        /\ sending' = NotAsked /\ owned' = owned /\ itemAsked' = itemAsked
        /\ itemInfos' = itemInfos /\ known' = known /\ fetched' = fetched
        /\ fetchKeys' = fetchKeys /\ chunks' = chunks /\ failed' = failed
    BY <1>5 DEF PageLoadFails, itemServer, assets, watcher
  <2>2. ~inventory'.there /\ inventory'.items = {} /\ sending' # "offer"
    BY <2>1 DEF NoInventory, NotAsked
  <2>3. InventoryLoadInv'
    BY <1>1, <2>1, <2>2 DEF InventoryLoadInv
  <2>4. DescriptionsInv' /\ OffersFit'
    BY <2>1, <2>2 DEF DescriptionsInv, OffersFit, Alive
  <2>5. QED
    BY <2>3, <2>4
<1>6. ASSUME /\ owned' = owned /\ itemAnnounced' = itemAnnounced /\ inventory' = inventory
             /\ newer' = newer /\ nextPage' = nextPage /\ gathered' = gathered
             /\ newerLoad' = newerLoad /\ sending' = sending /\ offered' = offered
             /\ itemAsked' \in Items \cup {NotAsked} /\ DescriptionsInv'
      PROVE  InventoryInv'
  BY <1>1, <1>6 DEF InventoryLoadInv, OffersFit
<1>7. ASSUME BeginFetch
      PROVE  InventoryInv'
  <2>1. /\ fetchKeys' = OfferKeys \ known /\ chunks' = {AppOfKey[k] : k \in fetchKeys'}
        /\ known' = known /\ fetched' = fetched /\ itemInfos' = itemInfos
        /\ inventory' = inventory /\ gathered' = gathered
    BY <1>7 DEF BeginFetch, cached, watcher
  <2>1a. sending' = sending /\ offered' = offered /\ failed' = failed
    BY <1>7 DEF BeginFetch, sender
  <2>2. DescriptionsInv'
    BY <2>1, <2>1a DEF DescriptionsInv, InventoryAssumption
  <2>3. QED
    BY <1>1, <1>6, <1>7, <2>2 DEF BeginFetch, itemServer, cached, watcher, sender
<1>8. ASSUME FetchFails
      PROVE  InventoryInv'
  <2>1. DescriptionsInv'
    BY <1>8 DEF FetchFails, DescriptionsInv, cached, watcher, sender
  <2>2. QED
    BY <1>1, <1>6, <1>8, <2>1 DEF FetchFails, itemServer, cached, watcher, sender
<1>9. ASSUME NEW a, NEW some \in SUBSET Keys, ChunkArrives(a, some)
      PROVE  InventoryInv'
  <2> DEFINE keysLeft == fetchKeys \ {k \in Keys \ some : AppOfKey[k] = a}
  <2>1. /\ Alive /\ chunks' = chunks \ {a} /\ known \subseteq known'
        /\ (Alive' => some \subseteq known')
        /\ fetched' = (IF chunks' = {} /\ Alive' THEN keysLeft ELSE fetched)
        /\ fetchKeys' = (IF chunks' = {} THEN {} ELSE keysLeft)
        /\ itemInfos' = itemInfos /\ sending' = sending /\ offered' = offered
    BY <1>9 DEF ChunkArrives, Stored, watcher, sender, Alive
  <2>2. keysLeft \subseteq Keys /\ (Alive' => \A k \in keysLeft : k \in known' \/ AppOfKey[k] \in chunks')
    BY <2>1 DEF DescriptionsInv
  <2> HIDE DEF keysLeft
  <2>3. DescriptionsInv'
    BY <2>1, <2>2 DEF DescriptionsInv
  <2>4. QED
    BY <1>1, <1>6, <1>9, <2>3 DEF ChunkArrives, itemServer, cached, watcher, sender
<1>10. ASSUME NEW i \in Items, AskForItem(i)
       PROVE  InventoryInv'
  <2>1. DescriptionsInv'
    BY <1>10 DEF AskForItem, DescriptionsInv, cached, assets, sender, Alive
  <2>2. QED
    BY <1>1, <1>6, <1>10, <2>1 DEF AskForItem, itemServer, cached, sender
<1>11. ASSUME ItemDescribed
       PROVE  InventoryInv'
  <2>1. /\ known \subseteq known' /\ failed' = failed
        /\ \A i \in itemInfos' : i \in itemInfos \/ KeyOf[i] \in known'
        /\ inventory' = inventory /\ gathered' = gathered /\ fetched' = fetched
        /\ fetchKeys' = fetchKeys /\ chunks' = chunks /\ sending' = sending /\ offered' = offered
    BY <1>11 DEF ItemDescribed, Stored, cached, sender
  <2>2. DescriptionsInv'
    BY <2>1 DEF DescriptionsInv, Alive
  <2>3. QED
    BY <1>1, <1>6, <1>11, <2>2 DEF ItemDescribed, itemServer, cached, sender
<1>11a. ASSUME ItemAnswerIsWrong
        PROVE  InventoryInv'
  <2>1. DescriptionsInv'
    BY <1>11a DEF ItemAnswerIsWrong, DescriptionsInv, sender, Alive
  <2>2. QED
    BY <1>1, <1>6, <1>11a, <2>1 DEF ItemAnswerIsWrong, itemServer, cached, sender
<1>12. ASSUME BeginSend
       PROVE  InventoryInv'
  <2>1. /\ sending' = "inventory" /\ owned' = owned /\ itemAnnounced' = itemAnnounced
        /\ inventory' = inventory /\ itemAsked' = itemAsked
        /\ itemInfos' = itemInfos /\ known' = known /\ fetched' = fetched
        /\ fetchKeys' = fetchKeys /\ chunks' = chunks /\ failed' = failed
        /\ \/ nextPage' = 1 /\ gathered' = {}
           \/ newer' = newer /\ nextPage' = nextPage /\ gathered' = gathered /\ newerLoad' = newerLoad
    BY <1>12 DEF BeginSend, BeginLoad, cached, itemServer, assets, watcher
  <2>2. InventoryLoadInv'
    BY <1>1, <2>1 DEF InventoryLoadInv
  <2>3. DescriptionsInv' /\ OffersFit'
    BY <2>1 DEF DescriptionsInv, OffersFit, Alive
  <2>4. QED
    BY <2>2, <2>3
<1>13. ASSUME NEW some \in SUBSET Items, CollectItems(some)
       PROVE  InventoryInv'
  <2>1. /\ nextPage = 0 /\ some \subseteq Sendable /\ offered' = some /\ sending' = "offer"
        /\ Cardinality(some) = Min({ItemsPerTrade, Cardinality(Sendable)})
        /\ owned' = owned /\ itemAnnounced' = itemAnnounced /\ inventory' = inventory
        /\ newer' = newer /\ nextPage' = nextPage /\ gathered' = gathered
        /\ newerLoad' = newerLoad /\ itemAsked' = itemAsked /\ itemInfos' = itemInfos
        /\ known' = known /\ fetched' = fetched /\ fetchKeys' = fetchKeys /\ chunks' = chunks
        /\ failed' = failed
    BY <1>13 DEF CollectItems, itemServer, cached, assets, watcher
  <2>2. Sendable \subseteq inventory.items
        /\ \A i \in Sendable : KeyOf[i] \in Tradable /\ KeyOf[i] \in known
    BY DEF Sendable
  <2>3. Cardinality(Sendable) \in Nat
    BY <1>1, <2>2, FS_Subset, FS_CardinalityType DEF InventoryAssumption
  <2>4. \A a, b \in Nat : Min({a, b}) <= a
    <3> SUFFICES ASSUME NEW a \in Nat, NEW b \in Nat
                 PROVE  Min({a, b}) <= a
      OBVIOUS
    <3>1. \E x \in {a, b} : \A y \in {a, b} : x <= y
      OBVIOUS
    <3>2. QED
      BY <3>1 DEF Min
  <2>5. Cardinality(some) <= ItemsPerTrade
    BY <1>1, <2>1, <2>3, <2>4
  <2>6. OffersFit'
    BY <2>1, <2>2, <2>5 DEF OffersFit
  <2>7. InventoryLoadInv' /\ DescriptionsInv'
    BY <1>1, <2>1, <2>2 DEF InventoryLoadInv, DescriptionsInv, Alive
  <2>8. QED
    BY <2>6, <2>7
<1>14. ASSUME NEW b \in BOOLEAN, SendItems(b)
       PROVE  InventoryInv'
  <2>1. /\ sending' # "offer" /\ owned' \subseteq owned /\ itemAnnounced' = itemAnnounced
        /\ inventory' = inventory /\ newer' = newer /\ nextPage' = nextPage
        /\ gathered' = gathered /\ newerLoad' = newerLoad /\ itemAsked' = itemAsked
        /\ itemInfos' = itemInfos /\ known' = known /\ fetched' = fetched
        /\ fetchKeys' = fetchKeys /\ chunks' = chunks /\ failed' = failed
    BY <1>14 DEF SendItems, cached, assets, watcher, NotAsked
  <2>2. QED
    BY <1>1, <2>1 DEF InventoryLoadInv, DescriptionsInv, OffersFit, Alive
<1>15. ASSUME UNCHANGED inventoryVars
       PROVE  InventoryInv'
  BY <1>15 DEF inventoryVars, InventoryLoadInv, DescriptionsInv, OffersFit, Alive
<1>16. QED
  BY <1>2, <1>3, <1>4, <1>5, <1>7, <1>8, <1>9, <1>10, <1>11, <1>11a, <1>12,
     <1>13, <1>14, <1>15
     DEF InventoryNext

(* The inventory, what is loading and the descriptions agree always.       *)
LEMMA InventoryInvAlways ==
  ASSUME InventoryAssumption
  PROVE  InventorySpec => []InventoryInv
<1>1. InventoryInit => InventoryInv
  BY DEF InventoryInit, InventoryInv, InventoryLoadInv, DescriptionsInv, OffersFit,
         NoInventory, NotAsked, InventoryAssumption
<1>2. InventoryInv /\ [InventoryNext]_inventoryVars => InventoryInv'
  BY InventoryStep
<1>3. QED
  BY <1>1, <1>2, PTL DEF InventorySpec

(* The inventory that get() hands out has what the account has, unless a   *)
(* notification is still on its way; an offer is made of it; and the       *)
(* description is there of all that a fetch was answered for, that was     *)
(* offered or that a message was sent about, although load() ignores       *)
(* descriptions that it cannot read (Inventory.cpp:250-256, 297-360,       *)
(* AssetData.cpp:230-306).                                                 *)
THEOREM InventoryStaysCurrent ==
  ASSUME InventoryAssumption
  PROVE  InventorySpec => [](InventoryIsCurrent /\ OffersFit /\ DescriptionsStay)
<1>1. InventoryInv => InventoryIsCurrent /\ OffersFit /\ DescriptionsStay
  BY DEF InventoryInv, InventoryLoadInv, DescriptionsInv, InventoryIsCurrent, DescriptionsStay
<1>2. QED
  BY <1>1, InventoryInvAlways, PTL

-----------------------------------------------------------------------------
(* TradeOffers                                                             *)

(* TradeOffers will know of o: it was notified, or will be.                *)
Told(o) == \/ o \notin notesSeen /\ (pings \/ asking)
           \/ o \in offerInbox
           \/ newOffers # {}

OffersInv ==
    /\ pages \in Nat /\ offers \in 0..MaxPages /\ page \in [1..MaxPages -> SUBSET OfferIds]
    /\ loaded \subseteq OfferIds /\ open \subseteq OfferIds
    /\ open \subseteq notes /\ notesSeen \subseteq notes
    /\ loader = "nobody" => loading = "nothing"
    /\ loading # "nothing" => offers = 0 /\ pages < MaxPages
    /\ \A o \in open \ Escrowed : Told(o) \/ offers = 0 \/ o \in page[offers]
    /\ loading = "assets" => \A o \in open \ Escrowed : Told(o) \/ o \in loaded
    /\ AutoLoadFollows

(* getIncoming() starts a load, or has its caller wait for the one that    *)
(* runs.                                                                   *)
LEMMA LoadFacts ==
  ASSUME NEW who, GetIncoming(who)
  PROVE  \/ /\ loader = "nobody" /\ loading' = "page" /\ loader' = who /\ offers' = 0 /\ pages < MaxPages
            /\ UNCHANGED <<offerInbox, page, pages, loaded, serverPart, notePart, botItems, signal>>
         \/ UNCHANGED <<loader, loading, loaded, serverPart, notePart, listPart, acceptPart>>
<1>1. CASE Stale
  BY <1>1 DEF GetIncoming, Load
<1>2. CASE ~Stale
  BY <1>2 DEF GetIncoming
<1>3. QED
  BY <1>1, <1>2

(* A note, the load that it starts and the offers that are listed.         *)
LEMMA OffersStep ==
  ASSUME TradeAssumption, OffersInv, [TradeNext]_tradeVars
  PROVE  OffersInv'
<1>1. /\ MaxPages \in Nat
      /\ pages \in Nat /\ offers \in 0..MaxPages /\ page \in [1..MaxPages -> SUBSET OfferIds]
      /\ loaded \subseteq OfferIds /\ open \subseteq OfferIds
      /\ open \subseteq notes /\ notesSeen \subseteq notes
      /\ loader = "nobody" => loading = "nothing"
      /\ loading # "nothing" => offers = 0 /\ pages < MaxPages
      /\ \A o \in open \ Escrowed : Told(o) \/ offers = 0 \/ o \in page[offers]
      /\ loading = "assets" => \A o \in open \ Escrowed : Told(o) \/ o \in loaded
  BY DEF OffersInv, TradeAssumption
<1>2. ~signal => (enabled <=> botItems # "None")
  BY DEF OffersInv, AutoLoadFollows
<1> DEFINE Follows == UNCHANGED <<signal, enabled, botItems>>
<1>3. Follows => AutoLoadFollows'
  BY <1>2 DEF AutoLoadFollows
<1>4. ASSUME UNCHANGED <<open, notes, pings, asking, notesSeen, offerInbox, newOffers, offers, page, pages,
                         loader, loading, loaded>>,
             AutoLoadFollows'
      PROVE  OffersInv'
  BY <1>1, <1>4 DEF OffersInv, Told
<1>5. ASSUME NEW who, GetIncoming(who), who # "nobody", UNCHANGED enabled
      PROVE  OffersInv'
  <2>1. CASE /\ loading' = "page" /\ loader' = who /\ offers' = 0 /\ pages < MaxPages
             /\ UNCHANGED <<offerInbox, page, pages, loaded, serverPart, notePart, botItems, signal>>
    <3>1. UNCHANGED <<open, notes, notesSeen, page, pages, loaded, botItems, signal>>
      BY <2>1 DEF serverPart, notePart
    <3>2. AutoLoadFollows'
      BY <1>2, <1>5, <3>1 DEF AutoLoadFollows
    <3>3. offers' = 0 /\ loading' = "page" /\ loader' # "nobody" /\ pages < MaxPages
      BY <1>5, <2>1
    <3>4. QED
      BY <1>1, <3>1, <3>2, <3>3 DEF OffersInv
  <2>2. CASE UNCHANGED <<loader, loading, loaded, serverPart, notePart, listPart, acceptPart>>
    <3>1. /\ UNCHANGED <<open, notes, pings, asking, notesSeen, offerInbox, newOffers, offers, page, pages>>
          /\ UNCHANGED <<loader, loading, loaded, botItems, signal>>
      BY <2>2 DEF serverPart, notePart, listPart, acceptPart
    <3>2. AutoLoadFollows'
      BY <1>2, <1>5, <3>1 DEF AutoLoadFollows
    <3>3. QED
      BY <1>4, <3>1, <3>2
  <2>3. QED
    BY <1>5, <2>1, <2>2, LoadFacts
<1>6. ASSUME NEW who, EnqueueLoad(who), UNCHANGED enabled
      PROVE  OffersInv'
  <2>1. /\ UNCHANGED <<open, notes, pings, asking, notesSeen, offerInbox, newOffers, offers, page, pages>>
        /\ UNCHANGED <<loader, loading, loaded, botItems, signal>>
    BY <1>6 DEF EnqueueLoad, serverPart, notePart, listPart, acceptPart
  <2>2. AutoLoadFollows'
    BY <1>2, <1>6, <2>1 DEF AutoLoadFollows
  <2>3. QED
    BY <1>4, <2>1, <2>2
<1>7. CASE CallerGets \/ AutoLoads \/ AutoLoadGoesOn
  BY <1>5, <1>6, <1>7 DEF CallerGets, AutoLoads, AutoLoadGoesOn
<1>8. ASSUME NEW o \in OfferIds, OfferMade(o)
      PROVE  OffersInv'
  <2>1. /\ o \notin open \cup notes /\ open' = open \cup {o} /\ notes' = notes \cup {o} /\ pings' = TRUE
        /\ UNCHANGED <<asking, notesSeen, offerInbox, newOffers, offers, page, pages, loader, loading, loaded>>
        /\ Follows
    BY <1>8 DEF OfferMade, listPart, loadPart, autoPart, acceptPart
  <2>2. \A x \in open' : (x \in open /\ (Told(x) => Told(x)')) \/ Told(x)'
    BY <1>1, <2>1 DEF Told
  <2>3. QED
    BY <1>1, <1>3, <2>1, <2>2 DEF OffersInv
<1>9. CASE AskNotifications
  <2>1. /\ pings' = FALSE /\ asking' = TRUE
        /\ UNCHANGED <<open, notes, notesSeen, offerInbox, newOffers, offers, page, pages, loader, loading, loaded>>
        /\ Follows
    BY <1>9 DEF AskNotifications, serverPart, listPart, loadPart, autoPart, acceptPart
  <2>2. \A x : Told(x) => Told(x)'
    BY <2>1 DEF Told
  <2>3. QED
    BY <1>1, <1>3, <2>1, <2>2 DEF OffersInv
<1>10. CASE GetNotifications
  <2>1. /\ offerInbox' = offerInbox \cup (notes \ notesSeen) /\ notesSeen' = notes
        /\ UNCHANGED <<open, notes, pings, newOffers, offers, page, pages, loader, loading, loaded>>
        /\ Follows
    BY <1>10 DEF GetNotifications, serverPart, loadPart, autoPart, acceptPart
  <2>2. \A x \in open : Told(x) => Told(x)'
    BY <1>1, <2>1 DEF Told
  <2>3. QED
    BY <1>1, <1>3, <2>1, <2>2 DEF OffersInv
<1>11. ASSUME NEW o \in OfferIds, HandleNotification(o)
       PROVE  OffersInv'
  <2>1. /\ offerInbox' = offerInbox \ {o}
        /\ newOffers' = IF ~(offers # 0 /\ o \in page[offers]) /\ o \notin newOffers
                        THEN newOffers \cup {o} ELSE newOffers
        /\ UNCHANGED <<open, notes, pings, asking, notesSeen, offers, page, pages, loader, loading, loaded>>
        /\ Follows
    BY <1>11 DEF HandleNotification, serverPart, notePart, loadPart, acceptPart
  <2>2. \A x : Told(x) => Told(x)' \/ (x = o /\ offers # 0 /\ o \in page[offers])
    BY <2>1 DEF Told
  <2>3. QED
    BY <1>1, <1>3, <2>1, <2>2 DEF OffersInv
<1>12. CASE PageArrives
  <2>1. /\ loading = "page" /\ loading' = "assets" /\ loaded' = open \ Escrowed
        /\ UNCHANGED <<open, notes, pings, asking, notesSeen, offerInbox, newOffers, offers, page, pages, loader>>
        /\ Follows
    BY <1>12 DEF PageArrives, serverPart, notePart, listPart, autoPart, acceptPart
  <2>2. QED
    BY <1>1, <1>3, <2>1 DEF OffersInv, Told
<1>13. CASE AssetsArrive
  <2>1. /\ loading = "assets" /\ loading' = "nothing" /\ loader' = "nobody" /\ loaded' = {}
        /\ pages' = pages + 1 /\ page' = [page EXCEPT ![pages + 1] = loaded] /\ offers' = pages + 1
        /\ UNCHANGED <<open, notes, pings, asking, notesSeen, offerInbox, newOffers>>
        /\ Follows
    BY <1>13 DEF AssetsArrive, serverPart, notePart, autoPart
  <2>2. pages + 1 \in 1..MaxPages
    BY <1>1, <2>1
  <2>3. page'[offers'] = loaded /\ page' \in [1..MaxPages -> SUBSET OfferIds]
    BY <1>1, <2>1, <2>2
  <2>4. \A x : Told(x) => Told(x)'
    BY <2>1 DEF Told
  <2>5. \A x \in open' \ Escrowed : Told(x)' \/ x \in page'[offers']
    BY <1>1, <2>1, <2>3, <2>4
  <2>6. QED
    BY <1>1, <1>3, <2>1, <2>2, <2>3, <2>5 DEF OffersInv
<1>14. CASE LoadFails
  <2>1. /\ loading # "nothing" /\ loading' = "nothing" /\ loader' = "nobody" /\ loaded' = {}
        /\ UNCHANGED <<open, notes, pings, asking, notesSeen, offerInbox, newOffers, offers, page, pages>>
        /\ Follows
    BY <1>14 DEF LoadFails, serverPart, notePart, listPart, autoPart, acceptPart
  <2>2. QED
    BY <1>1, <1>3, <2>1 DEF OffersInv
<1>15. CASE AutoLoadWakes
  <2>1. /\ UNCHANGED <<open, notes, pings, asking, notesSeen, offerInbox, newOffers, offers, page, pages>>
        /\ UNCHANGED <<loader, loading, loaded>> /\ Follows
    BY <1>15 DEF AutoLoadWakes, serverPart, notePart, listPart, loadPart, acceptPart
  <2>2. QED
    BY <1>3, <1>4, <2>1
<1>16. ASSUME NEW m \in Modes, EnableBots(m)
       PROVE  OffersInv'
  <2>1. /\ UNCHANGED <<open, notes, pings, asking, notesSeen, offerInbox, newOffers, offers, page, pages>>
        /\ UNCHANGED <<loader, loading, loaded>> /\ signal' = TRUE
    BY <1>16 DEF EnableBots, serverPart, notePart, listPart, loadPart
  <2>2. QED
    BY <1>4, <2>1 DEF AutoLoadFollows
<1>17. CASE AutoAcceptWakes
  <2>1. /\ UNCHANGED <<open, notes, pings, asking, notesSeen, offerInbox, newOffers, offers, page, pages>>
        /\ UNCHANGED <<loader, loading, loaded>> /\ botItems' = botItems
        /\ enabled' = IF signal THEN botItems # "None" ELSE enabled
    BY <1>17 DEF AutoAcceptWakes, serverPart, notePart, listPart, loadPart
  <2>2. AutoLoadFollows'
    <3>1. CASE signal
      BY <2>1, <3>1 DEF AutoLoadFollows
    <3>2. CASE ~signal
      BY <1>2, <2>1, <3>2 DEF AutoLoadFollows
    <3>3. QED
      BY <3>1, <3>2
  <2>3. QED
    BY <1>4, <2>1, <2>2
<1>18. ASSUME NEW o \in OfferIds, NEW succeeds \in BOOLEAN, AcceptOffer(o, succeeds)
       PROVE  OffersInv'
  <2>1. /\ UNCHANGED <<notes, pings, asking, notesSeen, offerInbox, newOffers, offers, page, pages>>
        /\ UNCHANGED <<loader, loading, loaded>> /\ Follows /\ open' \subseteq open
    BY <1>18 DEF AcceptOffer, notePart, listPart, loadPart, autoPart
  <2>2. \A x : Told(x) => Told(x)'
    BY <2>1 DEF Told
  <2>3. QED
    BY <1>1, <1>3, <2>1, <2>2 DEF OffersInv
<1>19. ASSUME NEW o \in OfferIds, IgnoreOffer(o) \/ OffersHandled
       PROVE  OffersInv'
  <2>1. /\ UNCHANGED <<open, notes, pings, asking, notesSeen, offerInbox, newOffers, offers, page, pages>>
        /\ UNCHANGED <<loader, loading, loaded>> /\ Follows
    BY <1>19 DEF IgnoreOffer, OffersHandled, serverPart, notePart, listPart, loadPart, autoPart
  <2>2. QED
    BY <1>3, <1>4, <2>1
<1>20. CASE OffersHandled \/ UNCHANGED tradeVars
  <2>1. /\ UNCHANGED <<open, notes, pings, asking, notesSeen, offerInbox, newOffers, offers, page, pages>>
        /\ UNCHANGED <<loader, loading, loaded>> /\ Follows
    BY <1>20 DEF OffersHandled, serverPart, notePart, listPart, loadPart, autoPart, tradeVars
  <2>2. QED
    BY <1>3, <1>4, <2>1
<1> HIDE DEF Follows
<1>21. QED
  BY <1>7, <1>8, <1>9, <1>10, <1>11, <1>12, <1>13, <1>14, <1>15, <1>16, <1>17, <1>18, <1>19, <1>20
     DEF TradeNext

(* The offers, the lists and whoever loads them agree always.              *)
LEMMA OffersInvAlways ==
  ASSUME TradeAssumption
  PROVE  TradeSpec => []OffersInv
<1>1. TradeInit => OffersInv
  <2> SUFFICES ASSUME TradeInit PROVE OffersInv
    OBVIOUS
  <2>1. MaxPages \in Nat
    BY DEF TradeAssumption
  <2>2. AutoLoadFollows
    BY DEF TradeInit, AutoLoadFollows
  <2>3. QED
    BY <2>1, <2>2 DEF TradeInit, OffersInv
<1>2. OffersInv /\ [TradeNext]_tradeVars => OffersInv'
  BY OffersStep
<1>3. QED
  BY <1>1, <1>2, PTL DEF TradeSpec

(* For every set of offers: unless its notification is on the way or a     *)
(* load is under way, an open offer is in the list, or the list will be    *)
(* loaded again before it is used; and offers are loaded as long as they   *)
(* may be accepted (TradeOffers.cpp:224-318).                              *)
THEOREM OffersAreNoticed ==
  ASSUME TradeAssumption
  PROVE  TradeSpec => [](NoOfferLost /\ AutoLoadFollows)
<1>1. OffersInv => NoOfferLost /\ AutoLoadFollows
  BY DEF OffersInv, NoOfferLost, Told, Stale
<1>2. QED
  BY <1>1, OffersInvAlways, PTL

-----------------------------------------------------------------------------
(* TradePages                                                              *)

PageClasses == {"primary", "secondary", "other"}
PageElements == {"offer", "item"} \cup PageClasses

\* Where the parser is, and what its pointers point into there.
PointersInv ==
    /\ openElements \in Seq(PageElements) /\ Len(openElements) <= 3
    /\ Len(openElements) >= 2 => openElements[2] \in PageClasses
    /\ Len(openElements) = 0 => pageOffer = {}
    /\ Len(openElements) < 2 => offerItems = {}
    /\ Len(openElements) < 3 => tradeItem = {}
    /\ Len(openElements) >= 2 /\ pageOffer # {} =>
          /\ openElements[2] # "other"
          /\ offerItems = {[no |-> offerNo, side |-> SideOf(openElements[2])]}
    /\ pageOffer # {} => tradeItem \subseteq {offerNo}

(* The steps of the parser, one disjunct for each.                         *)
LEMMA PageCasesOf ==
  ASSUME [PageNext]_pageParserVars
  PROVE  \/ UNCHANGED pageParserVars
         \/ \E id \in PageOfferIds \cup {"bad"} : OfferStarts(id)
         \/ OfferEnds \/ Banner \/ ItemsEnd \/ ItemEnds
         \/ \E p \in Partners \cup {"bad", "me"} : Avatar(p)
         \/ \E class \in PageClasses : ItemsStart(class)
         \/ \E item \in TradeItems \cup {"bad"} : ItemStarts(item)
BY DEF PageNext, PageClasses

\* The elements that are opened and closed.
LEMMA OpenFacts ==
  /\ <<>> \in Seq(PageElements) /\ Len(<<>>) = 0
  /\ <<"offer">> \in Seq(PageElements) /\ Len(<<"offer">>) = 1
  /\ \A c \in PageClasses : /\ <<"offer", c>> \in Seq(PageElements) /\ Len(<<"offer", c>>) = 2
                            /\ <<"offer", c>>[2] = c
  /\ \A s \in Seq(PageElements) : Len(s) = 2 =>
        /\ Append(s, "item") \in Seq(PageElements) /\ Len(Append(s, "item")) = 3
        /\ Append(s, "item")[2] = s[2]
  /\ \A s \in Seq(PageElements) : Len(s) = 3 =>
        /\ Front(s) \in Seq(PageElements) /\ Len(Front(s)) = 2 /\ Front(s)[2] = s[2]
<1>1. "offer" \in PageElements /\ "item" \in PageElements /\ PageClasses \subseteq PageElements
  BY DEF PageElements
<1>2. ASSUME NEW s \in Seq(PageElements), Len(s) = 2
      PROVE  /\ Append(s, "item") \in Seq(PageElements) /\ Len(Append(s, "item")) = 3
             /\ Append(s, "item")[2] = s[2]
  <2>1. "item" \in PageElements
    BY <1>1
  <2> DEFINE t == Append(s, "item")
  <2>2. t \in Seq(PageElements) /\ Len(t) = Len(s) + 1 /\ \A i \in 1..Len(s) : t[i] = s[i]
    BY <2>1, AppendFacts
  <2> HIDE DEF t
  <2>3. t \in Seq(PageElements) /\ Len(t) = 3 /\ t[2] = s[2]
    BY <1>2, <2>2
  <2>4. QED
    BY <2>3 DEF t
<1>3. ASSUME NEW s \in Seq(PageElements), Len(s) = 3
      PROVE  /\ Front(s) \in Seq(PageElements) /\ Len(Front(s)) = 2 /\ Front(s)[2] = s[2]
  <2>1. Front(s) = SubSeq(s, 1, 2)
    BY <1>3 DEF Front
  <2>2. QED
    BY <1>3, <2>1, SMTT(30)
<1>4. QED
  BY <1>1, <1>2, <1>3

(* A pointer into the offers is set with the element it is for, and reset  *)
(* with it.                                                                *)
LEMMA PointersStep ==
  ASSUME PointersInv, [PageNext]_pageParserVars
  PROVE  PointersInv'
<1> USE DEF PointersInv
<1>1. CASE UNCHANGED pageParserVars
  BY <1>1 DEF pageParserVars, SideOf
<1>2. ASSUME NEW id, OfferStarts(id)
      PROVE  PointersInv'
  <2>1. /\ openElements = <<>> /\ openElements' = <<"offer">>
        /\ UNCHANGED <<offerItems, tradeItem>>
    BY <1>2 DEF OfferStarts, Within
  <2>2. QED
    BY <2>1, OpenFacts
<1>3. CASE OfferEnds
  <2>1. /\ openElements = <<"offer">> /\ openElements' = <<>> /\ pageOffer' = {}
        /\ UNCHANGED <<offerItems, tradeItem>>
    BY <1>3 DEF OfferEnds, Within
  <2>2. QED
    BY <2>1, OpenFacts
<1>4. CASE Banner
  BY <1>4 DEF Banner
<1>5. ASSUME NEW p, Avatar(p)
      PROVE  PointersInv'
  <2>1. /\ pageOffer = {} => pageOffer' = {}
        /\ UNCHANGED <<direction, openElements, offerNo, offerItems, tradeItem>>
    BY <1>5 DEF Avatar, SetPartner
  <2>2. QED
    BY <2>1 DEF SideOf
<1>6. ASSUME NEW class \in PageClasses, ItemsStart(class)
      PROVE  PointersInv'
  <2>1. /\ openElements = <<"offer">> /\ openElements' = <<"offer", class>>
        /\ UNCHANGED <<direction, offerNo, tradeItem>>
    BY <1>6 DEF ItemsStart, Within
  <2>2. /\ Len(openElements) = 1 /\ openElements' \in Seq(PageElements)
        /\ Len(openElements') = 2 /\ openElements'[2] = class
    BY <2>1, OpenFacts
  <2>3. CASE class = "other"
    <3>1. pageOffer' = {}
      BY <1>6, <2>3 DEF ItemsStart
    <3>2. QED
      BY <2>1, <2>2, <3>1
  <2>4. CASE class # "other"
    <3>1. /\ offerItems' = {[no |-> offerNo, side |-> SideOf(class)] : o \in pageOffer}
          /\ UNCHANGED pageOffer
      BY <1>6, <2>4 DEF ItemsStart
    <3>2. pageOffer' # {} => offerItems' = {[no |-> offerNo', side |-> SideOf(class)']}
      BY <2>1, <3>1 DEF SideOf
    <3>3. SideOf(openElements[2])' = SideOf(class)'
      BY <2>2 DEF SideOf
    <3>4. QED
      BY <2>1, <2>2, <2>4, <3>2, <3>3
  <2>5. QED
    BY <2>3, <2>4
<1>7. CASE ItemsEnd
  <2>1. /\ Len(openElements) = 2 /\ openElements' = <<"offer">> /\ offerItems' = {}
        /\ UNCHANGED <<pageOffer, offerNo, tradeItem>>
    BY <1>7 DEF ItemsEnd
  <2>2. QED
    BY <2>1, OpenFacts
<1>8. ASSUME NEW item, ItemStarts(item)
      PROVE  PointersInv'
  <2>1. /\ Len(openElements) = 2 /\ openElements' = Append(openElements, "item")
        /\ UNCHANGED <<direction, offerNo, offerItems>>
    BY <1>8 DEF ItemStarts
  <2>2. /\ openElements' \in Seq(PageElements) /\ Len(openElements') = 3
        /\ openElements'[2] = openElements[2]
    BY <2>1, OpenFacts
  <2>3. /\ pageOffer = {} => pageOffer' = {}
        /\ pageOffer' # {} => tradeItem' \subseteq {offerNo}
    BY <1>8 DEF ItemStarts
  <2>4. SideOf(openElements[2])' = SideOf(openElements[2])
    BY <2>1, <2>2 DEF SideOf
  <2>5. QED
    BY <2>1, <2>2, <2>3, <2>4
<1>9. CASE ItemEnds
  <2>1. /\ Len(openElements) = 3 /\ openElements' = Front(openElements) /\ tradeItem' = {}
        /\ UNCHANGED <<direction, offerNo, pageOffer, offerItems>>
    BY <1>9 DEF ItemEnds
  <2>2. /\ openElements' \in Seq(PageElements) /\ Len(openElements') = 2
        /\ openElements'[2] = openElements[2]
    BY <2>1, OpenFacts
  <2>3. SideOf(openElements[2])' = SideOf(openElements[2])
    BY <2>1, <2>2 DEF SideOf
  <2>4. QED
    BY <2>1, <2>2, <2>3
<1>10. QED
  BY <1>1, <1>2, <1>3, <1>4, <1>5, <1>6, <1>7, <1>8, <1>9, PageCasesOf

(* Whatever elements the page has, the pointers of the parser lead to the  *)
(* offer and the item it is in, and to nothing outside of them             *)
(* (TradeOffersParser.cpp:33-144).                                         *)
THEOREM PointersOfParserAreCurrent ==
  PageSpec => []PointersAreCurrent
<1>1. ASSUME PageInit
      PROVE  PointersInv
  BY <1>1, OpenFacts DEF PageInit, PointersInv
<1>2. PointersInv => PointersAreCurrent
  BY DEF PointersInv, PointersAreCurrent
<1>3. QED
  BY <1>1, <1>2, PointersStep, PTL DEF PageSpec

PageIds == PageOfferIds \cup {"bad"}
PagePartners == Partners \cup {"none"}

(* What Steam has written so far is the current offer, unless it cannot be *)
(* used; and the offers that are kept are those that could be.             *)
WrittenInv ==
    /\ direction \in {"Incoming", "Outgoing"}
    /\ pageWritten \in [id : PageIds, partner : PagePartners, myItems : Seq(TradeItems),
                        theirItems : Seq(TradeItems), flawed : BOOLEAN]
    /\ openElements # <<>> /\ ~pageWritten.flawed => pageWritten.id \in PageOfferIds
    /\ openElements # <<>> =>
           pageOffer = IF pageWritten.flawed THEN {} ELSE {Plain(pageWritten)}
    /\ pageOffers = good
    /\ \A o \in good : o.id \in PageOfferIds /\ o.partner \in PagePartners

(* An item that is put on a side.                                          *)
WithItem(o, side, item) == [o EXCEPT ![side] = Append(@, item)]

(* An item is put on the same side of the record and of what is kept.      *)
LEMMA ItemOnSide ==
  ASSUME NEW o, NEW x, NEW side \in {"myItems", "theirItems"},
         o = [id |-> o.id, partner |-> o.partner, myItems |-> o.myItems,
              theirItems |-> o.theirItems, flawed |-> o.flawed]
  PROVE  Plain(WithItem(o, side, x)) = WithItem(Plain(o), side, x)
<1> USE DEF WithItem
<1>0. PICK i, p, m, t, f :
          o = [id |-> i, partner |-> p, myItems |-> m, theirItems |-> t, flawed |-> f]
  OBVIOUS
<1>1. Plain(o) = [id |-> i, partner |-> p, myItems |-> m, theirItems |-> t]
  BY <1>0 DEF Plain
<1>2. CASE side = "myItems"
  <2>1. [o EXCEPT ![side] = Append(@, x)]
          = [id |-> i, partner |-> p, myItems |-> Append(m, x), theirItems |-> t, flawed |-> f]
    BY <1>0, <1>2
  <2>2. Plain([o EXCEPT ![side] = Append(@, x)])
          = [id |-> i, partner |-> p, myItems |-> Append(m, x), theirItems |-> t]
    BY <2>1 DEF Plain
  <2>3. [Plain(o) EXCEPT ![side] = Append(@, x)]
          = [id |-> i, partner |-> p, myItems |-> Append(m, x), theirItems |-> t]
    <3>0. PICK y : y = Append(m, x)
      OBVIOUS
    <3>1. PICK q : q = [id |-> i, partner |-> p, myItems |-> m, theirItems |-> t]
      OBVIOUS
    <3>2. [q EXCEPT !.myItems = y] = [id |-> i, partner |-> p, myItems |-> y, theirItems |-> t]
      BY <3>1
    <3>3. [q EXCEPT ![side] = Append(@, x)] = [q EXCEPT !.myItems = y]
      BY <1>2, <3>0, <3>1
    <3>4. QED
      BY <1>1, <3>0, <3>1, <3>2, <3>3
  <2>4. QED
    BY <2>2, <2>3
<1>3. CASE side = "theirItems"
  <2>1. [o EXCEPT ![side] = Append(@, x)]
          = [id |-> i, partner |-> p, myItems |-> m, theirItems |-> Append(t, x), flawed |-> f]
    BY <1>0, <1>3
  <2>2. Plain([o EXCEPT ![side] = Append(@, x)])
          = [id |-> i, partner |-> p, myItems |-> m, theirItems |-> Append(t, x)]
    BY <2>1 DEF Plain
  <2>3. [Plain(o) EXCEPT ![side] = Append(@, x)]
          = [id |-> i, partner |-> p, myItems |-> m, theirItems |-> Append(t, x)]
    <3>0. PICK y : y = Append(t, x)
      OBVIOUS
    <3>1. PICK q : q = [id |-> i, partner |-> p, myItems |-> m, theirItems |-> t]
      OBVIOUS
    <3>2. [q EXCEPT !.theirItems = y] = [id |-> i, partner |-> p, myItems |-> m, theirItems |-> y]
      BY <3>1
    <3>3. [q EXCEPT ![side] = Append(@, x)] = [q EXCEPT !.theirItems = y]
      BY <1>3, <3>0, <3>1
    <3>4. QED
      BY <1>1, <3>0, <3>1, <3>2, <3>3
  <2>4. QED
    BY <2>2, <2>3
<1>4. QED
  BY <1>2, <1>3

(* Elements of some number are open.                                       *)
LEMMA SomeAreOpen ==
  ASSUME PointersInv, Len(openElements) > 0
  PROVE  openElements # <<>>
BY EmptySeq

(* The flaw of an offer is all that is different between what was written  *)
(* and what is kept.                                                       *)
LEMMA WrittenStep ==
  ASSUME PageAssumption, PointersInv, WrittenInv, [PageNext]_pageParserVars
  PROVE  WrittenInv'
<1> USE DEF PageIds, PagePartners
<1> DEFINE R == [id : PageIds, partner : PagePartners, myItems : Seq(TradeItems),
                 theirItems : Seq(TradeItems), flawed : BOOLEAN]
<1>0. \A o \in R : Plain(o) = [id |-> o.id, partner |-> o.partner, myItems |-> o.myItems,
                               theirItems |-> o.theirItems]
  BY DEF Plain
<1>1. CASE UNCHANGED pageParserVars
  BY <1>1 DEF pageParserVars, Plain, WrittenInv
<1>2. ASSUME NEW id \in PageIds, OfferStarts(id)
      PROVE  WrittenInv'
  <2>1. /\ openElements' = <<"offer">>
        /\ pageWritten' = [NoOffer EXCEPT !.id = id, !.flawed = (id = "bad")]
        /\ pageOffer' = IF id = "bad" THEN {} ELSE {Plain([NoOffer EXCEPT !.id = id])}
        /\ UNCHANGED <<direction, pageOffers, good>>
    BY <1>2 DEF OfferStarts
  <2> DEFINE e == <<>>
  <2>2. /\ NoOffer = [id |-> "bad", partner |-> "none", myItems |-> e, theirItems |-> e,
                      flawed |-> FALSE]
        /\ e \in Seq(TradeItems) /\ <<"offer">> # e
    BY DEF NoOffer, WrittenInv
  <2> HIDE DEF e
  <2>3. PICK b \in BOOLEAN : b = (id = "bad")
    OBVIOUS
  <2>6. PICK r : r = [NoOffer EXCEPT !.id = id]
    OBVIOUS
  <2>7. /\ r = [id |-> id, partner |-> "none", myItems |-> e, theirItems |-> e, flawed |-> FALSE]
        /\ [NoOffer EXCEPT !.id = id, !.flawed = b] = [r EXCEPT !.flawed = b]
    <3>1. NoOffer = [id |-> "bad", partner |-> "none", myItems |-> e, theirItems |-> e,
                     flawed |-> FALSE]
      BY <2>2
    <3>2. r = [id |-> id, partner |-> "none", myItems |-> e, theirItems |-> e, flawed |-> FALSE]
      BY <2>6, <3>1
    <3>3. [NoOffer EXCEPT !.id = id, !.flawed = b] = [r EXCEPT !.flawed = b]
      BY <2>6, <3>1
    <3>4. QED
      BY <3>2, <3>3
  <2>8. pageWritten' = [id |-> id, partner |-> "none", myItems |-> e, theirItems |-> e, flawed |-> b]
    <3>1. [r EXCEPT !.flawed = b]
            = [id |-> id, partner |-> "none", myItems |-> e, theirItems |-> e, flawed |-> b]
      BY <2>7
    <3>2. pageWritten' = [NoOffer EXCEPT !.id = id, !.flawed = b]
      BY <2>1, <2>3
    <3>3. QED
      BY <2>7, <3>1, <3>2
  <2>4. /\ pageWritten' \in R
        /\ Plain(pageWritten)' = Plain([NoOffer EXCEPT !.id = id])
        /\ pageWritten.flawed' = b /\ pageWritten.id' = id
    BY <2>2, <2>6, <2>7, <2>8 DEF Plain
  <2>5. QED
    BY <2>1, <2>2, <2>3, <2>4 DEF WrittenInv
<1>3. CASE OfferEnds
  <2>1. /\ openElements = <<"offer">> /\ openElements' = <<>>
        /\ pageOffers' = pageOffers \cup
               {o \in pageOffer : o.partner # "none" /\ (o.myItems # <<>> \/ o.theirItems # <<>>)}
        /\ good' = IF pageWritten.flawed \/ pageWritten.partner = "none"
                      \/ (pageWritten.myItems = <<>> /\ pageWritten.theirItems = <<>>)
                   THEN good ELSE good \cup {Plain(pageWritten)}
        /\ pageWritten' = NoOffer /\ UNCHANGED direction
    BY <1>3 DEF OfferEnds, Within, WrittenInv
  <2>2. pageWritten' \in R
    <3> DEFINE e == <<>>
    <3>1. pageWritten' = [id |-> "bad", partner |-> "none", myItems |-> e, theirItems |-> e,
                          flawed |-> FALSE] /\ e \in Seq(TradeItems)
      BY <2>1 DEF NoOffer, WrittenInv
    <3> HIDE DEF e
    <3>2. QED
      BY <3>1 DEF WrittenInv
  <2> DEFINE o == Plain(pageWritten)
  <2>3. /\ o.id = pageWritten.id /\ o.partner = pageWritten.partner
        /\ o.myItems = pageWritten.myItems /\ o.theirItems = pageWritten.theirItems
    BY <1>0 DEF WrittenInv
  <2>4. openElements # <<>>
    BY <2>1 DEF WrittenInv
  <2>5. CASE pageWritten.flawed
    <3>1. pageOffers' = pageOffers /\ good' = good
      BY <2>1, <2>4, <2>5 DEF WrittenInv
    <3>2. QED
      BY <2>1, <2>2, <3>1 DEF WrittenInv
  <2>6. CASE ~pageWritten.flawed
    <3>1. pageOffer = {o} /\ pageWritten.id \in PageOfferIds
      BY <2>4, <2>6 DEF WrittenInv
    <3> HIDE DEF o
    <3>2. /\ pageOffers' = good'
          /\ good' \subseteq good \cup {o}
      BY <2>1, <2>3, <2>6, <3>1 DEF o, WrittenInv
    <3>3. \A x \in good' : x.id \in PageOfferIds /\ x.partner \in PagePartners
      BY <2>3, <3>1, <3>2 DEF WrittenInv
    <3>4. QED
      BY <2>1, <2>2, <3>2, <3>3 DEF WrittenInv
  <2>7. QED
    BY <2>5, <2>6 DEF WrittenInv
<1>4. CASE Banner
  BY <1>4 DEF Banner, WrittenInv
<1>5. ASSUME NEW p \in Partners \cup {"bad", "me"}, Avatar(p)
      PROVE  WrittenInv'
  <2> DEFINE partners == direction = "Incoming" \/ Last(openElements) = "secondary"
  <2> DEFINE seen == direction = "Incoming"
                     \/ offerItems = {[no |-> offerNo, side |-> "theirItems"]}
  <2>1. /\ partners => p # "me"
        /\ IF seen THEN SetPartner(p) ELSE UNCHANGED pageOffer
        /\ pageWritten' = IF ~partners THEN pageWritten
                          ELSE IF p = "bad" THEN [pageWritten EXCEPT !.flawed = TRUE]
                                            ELSE [pageWritten EXCEPT !.partner = p]
        /\ UNCHANGED <<direction, openElements, pageOffers, good>>
    BY <1>5 DEF Avatar, WrittenInv
  <2>2. openElements # <<>>
    <3>1. openElements = <<"offer">> \/ \E c \in PageClasses : openElements = <<"offer", c>>
      BY <1>5 DEF Avatar, Within, PageClasses, WrittenInv
    <3>2. Len(openElements) > 0
      BY <3>1, OpenFacts
    <3>3. QED
      BY <3>2, SomeAreOpen
  <2>3. pageOffer # {} => (seen <=> partners)
    <3> HAVE pageOffer # {}
    <3>1. CASE direction = "Incoming"
      BY <3>1 DEF WrittenInv
    <3>2. CASE direction # "Incoming"
      <4>1. PICK c \in {"primary", "secondary"} : direction = "Outgoing" /\ openElements = <<"offer", c>>
        BY <1>5, <3>2 DEF Avatar, WrittenInv
      <4>2. c \in PageClasses
        BY DEF PageClasses, WrittenInv
      <4>3. Last(openElements) = c /\ Len(openElements) = 2 /\ openElements[2] = c
        BY <4>1, <4>2, OpenFacts DEF Last
      <4>4. offerItems = {[no |-> offerNo, side |-> SideOf(c)]}
        BY <4>3 DEF PointersInv
      <4>5. SideOf(c) = (IF c = "primary" THEN "myItems" ELSE "theirItems")
        BY <4>1 DEF SideOf, WrittenInv
      <4>6. \A n, x, y : {[no |-> n, side |-> x]} = {[no |-> n, side |-> y]} => x = y
        <5> SUFFICES ASSUME NEW n, NEW x, NEW y, {[no |-> n, side |-> x]} = {[no |-> n, side |-> y]}
                     PROVE  x = y
          OBVIOUS
        <5>1. [no |-> n, side |-> x] = [no |-> n, side |-> y]
          OBVIOUS
        <5>2. QED
          BY <5>1 DEF WrittenInv
      <4>7. QED
        BY <3>2, <4>1, <4>3, <4>4, <4>5, <4>6 DEF WrittenInv
    <3>3. QED
      BY <3>1, <3>2 DEF WrittenInv
  <2>4. CASE pageOffer = {}
    <3>1. pageOffer' = {}
      BY <2>1, <2>4 DEF SetPartner, WrittenInv
    <3>2. pageWritten.flawed
      BY <2>2, <2>4 DEF WrittenInv
    <3>3. pageWritten' \in R /\ pageWritten'.flawed
      BY <2>1, <3>2 DEF WrittenInv
    <3>4. QED
      BY <2>1, <3>1, <3>3 DEF WrittenInv
  <2>5. CASE pageOffer # {} /\ ~partners
    <3>1. UNCHANGED <<pageOffer, pageWritten>>
      BY <2>1, <2>3, <2>5 DEF WrittenInv
    <3>2. QED
      BY <2>1, <3>1 DEF Plain, WrittenInv
  <2>6. CASE pageOffer # {} /\ partners
    <3>1. /\ pageOffer = {Plain(pageWritten)} /\ ~pageWritten.flawed
          /\ pageWritten.id \in PageOfferIds /\ SetPartner(p) /\ p # "me"
      BY <2>1, <2>2, <2>3, <2>6 DEF WrittenInv
    <3>2. CASE p = "bad"
      <4>1. pageOffer' = {} /\ pageWritten' = [pageWritten EXCEPT !.flawed = TRUE]
        BY <2>1, <2>6, <3>1, <3>2 DEF SetPartner, WrittenInv
      <4>2. pageWritten' \in R /\ pageWritten'.flawed
        BY <4>1 DEF WrittenInv
      <4>3. QED
        BY <2>1, <4>1, <4>2 DEF WrittenInv
    <3>3. CASE p # "bad"
      <4>1. /\ pageWritten' = [pageWritten EXCEPT !.partner = p]
            /\ pageOffer' = {[o EXCEPT !.partner = p] : o \in pageOffer}
        BY <2>1, <2>6, <3>1, <3>3 DEF SetPartner, WrittenInv
      <4>2. pageOffer' = {[Plain(pageWritten) EXCEPT !.partner = p]}
        BY <3>1, <4>1 DEF WrittenInv
      <4>3. /\ pageWritten' \in R /\ pageWritten'.flawed = FALSE
            /\ pageWritten'.id \in PageOfferIds
        BY <3>1, <3>3, <4>1 DEF WrittenInv
      <4>4. Plain(pageWritten)' = [Plain(pageWritten) EXCEPT !.partner = p]
        BY <4>1 DEF Plain, WrittenInv
      <4>5. QED
        BY <2>1, <4>2, <4>3, <4>4 DEF WrittenInv
    <3>4. QED
      BY <3>2, <3>3 DEF WrittenInv
  <2>7. QED
    BY <2>4, <2>5, <2>6 DEF WrittenInv
<1>6. ASSUME NEW class \in PageClasses, ItemsStart(class)
      PROVE  WrittenInv'
  <2>1. /\ openElements = <<"offer">>
        /\ \/ pageOffer' = {} /\ pageWritten' = [pageWritten EXCEPT !.flawed = TRUE]
           \/ UNCHANGED <<pageOffer, pageWritten>>
        /\ UNCHANGED <<direction, pageOffers, good>>
    BY <1>6 DEF ItemsStart, Within, WrittenInv
  <2>2. openElements # <<>>
    BY <2>1 DEF WrittenInv
  <2>3. CASE pageOffer' = {} /\ pageWritten' = [pageWritten EXCEPT !.flawed = TRUE]
    BY <2>1, <2>3 DEF WrittenInv
  <2>4. CASE UNCHANGED <<pageOffer, pageWritten>>
    BY <2>1, <2>2, <2>4 DEF Plain, WrittenInv
  <2>5. QED
    BY <2>1, <2>3, <2>4 DEF WrittenInv
<1>7. CASE ItemsEnd
  <2>1. Len(openElements) = 2 /\ UNCHANGED <<direction, pageOffer, pageOffers, pageWritten, good>>
    BY <1>7 DEF ItemsEnd, WrittenInv
  <2>2. openElements # <<>>
    <3>1. Len(openElements) > 0
      BY <2>1 DEF WrittenInv
    <3>2. QED
      BY <3>1, SomeAreOpen
  <2>3. QED
    BY <2>1, <2>2 DEF Plain, WrittenInv
<1>8. ASSUME NEW item \in TradeItems \cup {"bad"}, ItemStarts(item)
      PROVE  WrittenInv'
  <2> DEFINE side == IF Last(openElements) = "other" THEN "myItems" ELSE SideOf(Last(openElements))
  <2>1. /\ Len(openElements) = 2
        /\ pageWritten' = IF item = "bad" THEN [pageWritten EXCEPT !.flawed = TRUE]
                          ELSE [pageWritten EXCEPT ![side] = Append(@, item)]
        /\ IF item = "bad" THEN pageOffer' = {}
           ELSE pageOffer' = {[o EXCEPT ![(CHOOSE p \in offerItems : TRUE).side] = Append(@, item)]
                                  : o \in pageOffer}
        /\ UNCHANGED <<direction, pageOffers, good>>
    BY <1>8 DEF ItemStarts, WrittenInv
  <2>2. openElements # <<>> /\ Last(openElements) = openElements[2] /\ openElements[2] \in PageClasses
    BY <2>1, OpenFacts DEF PointersInv, Last
  <2>3. side \in {"myItems", "theirItems"}
    BY <2>2 DEF SideOf, PageClasses, WrittenInv
  <2>4. pageOffer # {} => (CHOOSE p \in offerItems : TRUE).side = side
    <3> HAVE pageOffer # {}
    <3>1. PICK x : x = [no |-> offerNo, side |-> SideOf(openElements[2])]
      OBVIOUS
    <3>2. offerItems = {x} /\ openElements[2] # "other"
      BY <2>1, <3>1 DEF PointersInv
    <3>3. (CHOOSE p \in offerItems : TRUE) = x
      BY <3>2 DEF WrittenInv
    <3>4. x.side = side
      BY <2>2, <3>1, <3>2 DEF WrittenInv
    <3>5. QED
      BY <3>3, <3>4 DEF WrittenInv
  <2> HIDE DEF side
  <2>5. CASE item = "bad"
    <3>1. pageOffer' = {} /\ pageWritten' = [pageWritten EXCEPT !.flawed = TRUE]
      BY <2>1, <2>5 DEF WrittenInv
    <3>2. QED
      BY <2>1, <3>1 DEF WrittenInv
  <2>6. CASE item # "bad"
    <3>1. item \in TradeItems
      BY <2>6 DEF WrittenInv
    <3>2. pageWritten' = [pageWritten EXCEPT ![side] = Append(@, item)]
      BY <2>1, <2>6 DEF WrittenInv
    <3>3. \A s \in Seq(TradeItems) : Append(s, item) \in Seq(TradeItems)
      BY <3>1 DEF WrittenInv
    <3>4. /\ pageWritten' \in R /\ pageWritten'.flawed = pageWritten.flawed
          /\ pageWritten'.id = pageWritten.id
      BY <2>3, <3>2, <3>3 DEF WrittenInv
    <3>5. Plain(pageWritten)' = [Plain(pageWritten) EXCEPT ![side] = Append(@, item)]
      <4>1. pageWritten = [id |-> pageWritten.id, partner |-> pageWritten.partner,
                           myItems |-> pageWritten.myItems, theirItems |-> pageWritten.theirItems,
                           flawed |-> pageWritten.flawed]
        BY DEF WrittenInv
      <4>2. Plain(WithItem(pageWritten, side, item)) = WithItem(Plain(pageWritten), side, item)
        BY <2>3, <4>1, ItemOnSide
      <4>3. Plain(pageWritten)' = Plain(WithItem(pageWritten, side, item))
        BY <3>2 DEF Plain, WithItem
      <4>4. QED
        BY <4>2, <4>3 DEF WithItem
    <3>6. CASE pageWritten.flawed
      <4>1. pageOffer' = {}
        BY <2>1, <2>2, <2>6, <3>6 DEF WrittenInv
      <4>2. QED
        BY <2>1, <3>4, <3>6, <4>1 DEF WrittenInv
    <3>7. CASE ~pageWritten.flawed
      <4>1. pageOffer = {Plain(pageWritten)} /\ pageWritten.id \in PageOfferIds
        BY <2>2, <3>7 DEF WrittenInv
      <4>2. pageOffer' = {[o EXCEPT ![side] = Append(@, item)] : o \in pageOffer}
        BY <2>1, <2>4, <2>6, <4>1 DEF WrittenInv
      <4>3. pageOffer' = {Plain(pageWritten)'}
        BY <3>5, <4>1, <4>2 DEF WrittenInv
      <4>4. QED
        BY <2>1, <3>4, <3>7, <4>1, <4>3 DEF WrittenInv
    <3>8. QED
      BY <3>6, <3>7 DEF WrittenInv
  <2>7. QED
    BY <2>5, <2>6 DEF WrittenInv
<1>9. CASE ItemEnds
  <2>1. Len(openElements) = 3 /\ UNCHANGED <<direction, pageOffer, pageOffers, pageWritten, good>>
    BY <1>9 DEF ItemEnds, WrittenInv
  <2>2. openElements # <<>>
    <3>1. Len(openElements) > 0
      BY <2>1 DEF WrittenInv
    <3>2. QED
      BY <3>1, SomeAreOpen
  <2>3. QED
    BY <2>1, <2>2 DEF Plain, WrittenInv
<1>10. QED
  BY <1>1, <1>2, <1>3, <1>4, <1>5, <1>6, <1>7, <1>8, <1>9 DEF PageNext, PageClasses

(* Whatever a page has, for any numbers, partners and items: the offers    *)
(* that are kept are those that can be used, as they were written          *)
(* (TradeOffersParser.cpp:33-266).                                         *)
THEOREM OffersAreKeptAsWritten ==
  ASSUME PageAssumption
  PROVE  PageSpec => [](PageTypeOK /\ OffersAreAsWritten)
<1> DEFINE Inv == PointersInv /\ WrittenInv
<1>1. ASSUME PageInit
      PROVE  Inv
  <2>1. PointersInv
    BY <1>1, OpenFacts DEF PageInit, PointersInv
  <2> DEFINE e == <<>>
  <2>2. /\ pageWritten = [id |-> "bad", partner |-> "none", myItems |-> e, theirItems |-> e,
                          flawed |-> FALSE]
        /\ e \in Seq(TradeItems) /\ openElements = e
    BY <1>1 DEF PageInit, NoOffer
  <2>3. /\ direction \in {"Incoming", "Outgoing"} /\ pageOffers = {} /\ good = {}
    BY <1>1 DEF PageInit
  <2>4. openElements = <<>>
    BY <2>2
  <2> HIDE DEF e
  <2>5. WrittenInv
    BY <2>2, <2>3, <2>4 DEF WrittenInv, PageIds, PagePartners
  <2>6. QED
    BY <2>1, <2>5
<1>2. ASSUME Inv, [PageNext]_pageParserVars
      PROVE  Inv'
  BY <1>2, PointersStep, WrittenStep
<1>3. Inv => PageTypeOK /\ OffersAreAsWritten
  <2> SUFFICES ASSUME Inv PROVE PageTypeOK /\ OffersAreAsWritten
    OBVIOUS
  <2>1. ASSUME NEW o \in pageOffer
        PROVE  o.id \in PageOfferIds /\ o.partner \in PagePartners
    <3>1. openElements # <<>>
      BY <2>1 DEF PointersInv
    <3>2. o = Plain(pageWritten) /\ ~pageWritten.flawed
      BY <2>1, <3>1 DEF WrittenInv
    <3>3. o.id = pageWritten.id /\ o.partner = pageWritten.partner
      BY <3>2 DEF Plain
    <3>4. QED
      BY <3>1, <3>2, <3>3 DEF WrittenInv
  <2>2. QED
    BY <2>1 DEF PageTypeOK, OffersAreAsWritten, WrittenInv, PointersInv, PagePartners
<1> HIDE DEF Inv
<1>4. QED
  BY <1>1, <1>2, <1>3, PTL DEF PageSpec

=============================================================================
