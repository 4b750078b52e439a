----------------------------- MODULE CookieJars -----------------------------
(***************************************************************************)
(* A CookieJar and the queries that use it (Web/CookieJar.cpp,             *)
(* Asio/BasicQuery.cpp): set-cookie headers are parsed and stored in the   *)
(* order they come in, the cookies of a host go with the next query, and a *)
(* redirection performs the same request again, for another url.           *)
(*                                                                         *)
(* A domain or host is the sequence of its labels, in lower case. A header *)
(* is a sequence of items with a key and a value; an item without '=' has  *)
(* the key ""; a value is a sequence too, so that <<>> is the empty one.   *)
(***************************************************************************)
EXTENDS Naturals, Sequences, SequencesExt, Selection

CONSTANTS Hosts,        \* hosts that are names
          Addresses,    \* hosts that are IP addresses
          SetCookies,   \* set-cookie headers
          MaxSets,      \* bound: headers that arrive
          MaxRedirects  \* bound: redirections of a query

JarAssumption ==
    /\ \A header \in SetCookies : header # <<>>
    /\ MaxSets \in Nat /\ MaxRedirects \in Nat

VARIABLES
    cookies,     \* CookieJar::cookies
    latest,      \* history: the last value given to a name and domain
    sets,        \* headers that have arrived
    queryHost,   \* the host of query->url, <<>> without a query
    queryPc,     \* "none", "connect", "read" or "done"
    carried,     \* the Cookie header of query->request
    redirected   \* redirections of the query

jarVars == <<cookies, latest, sets, queryHost, queryPc, carried, redirected>>

JarInit ==
    /\ cookies = <<>> /\ latest = << >> /\ sets = 0
    /\ queryHost = <<>> /\ queryPc = "none" /\ carried = <<>> /\ redirected = 0

----------------------------------------------------------------------------
\* findItem(): the value of the first item with that key, empty if there is none.
FindItem(items, key) ==
    LET k == SelectInSeq(items, LAMBDA i : i.key = key)
    IN IF k = 0 THEN <<>> ELSE items[k].value

\* setDomain(): the header's, else that of a url with a name, else the cookie is invalid.
\* The leading dot is part of what a domain means here.
DomainOf(items, host) ==
    LET given == FindItem(items, "Domain")
    IN IF given # <<>> THEN {given} ELSE IF host \in Hosts THEN {host} ELSE {}

\* setContent(): the first item; without a "=" it is a value without a name.
Content(item) == [name |-> item.key, value |-> item.value]

\* Cookie::Cookie(header, url): none if it throws InvalidCookieException.
ParseCookie(header, host) ==
    {[domain |-> d] @@ Content(Head(header)) : d \in DomainOf(Tail(header), host)}

Match(c, d) == c.name = d.name /\ c.domain = d.domain

\* A mutant: a cookie with a value is added beside the one it should replace.
StoreBeside(jar, c) ==
    LET k == SelectInSeq(jar, LAMBDA d : Match(c, d))
    IN IF k # 0 /\ c.value = <<>> THEN RemoveAt(jar, k) ELSE Append(jar, c)

\* store(): the first cookie that matches is erased by an empty value and replaced by any
\* other; a cookie that matches none is added even if its value is empty.
StoreCookie(jar, c) ==
    LET k == SelectInSeq(jar, LAMBDA d : Match(c, d))
    IN IF k = 0 THEN Append(jar, c)
       ELSE IF c.value = <<>> THEN RemoveAt(jar, k) ELSE ReplaceAt(jar, k, c)

\* checkDomain() for a url whose host is a name; what get(url) returns.
CheckCookieDomain(host, domain) == host \in Hosts /\ domain # <<>> /\ IsSuffix(domain, host)
GetCookies(host) == Kept(cookies, {c \in Range(cookies) : CheckCookieDomain(host, c.domain)})

\* update(), with a cookie or with what was parsed from a header.
UpdateJar(cs) ==
    /\ cookies' = FoldLeft(StoreCookie, cookies, SetToSeq(cs))
    /\ latest' = [k \in DOMAIN latest \cup {<<c.name, c.domain>> : c \in cs} |->
                     IF \E c \in cs : k = <<c.name, c.domain>>
                     THEN (CHOOSE c \in cs : k = <<c.name, c.domain>>).value ELSE latest[k]]

----------------------------------------------------------------------------
\* The client sets a cookie itself, for which it gives a domain.
ClientSets(header) ==
    /\ queryPc \in {"none", "done"} /\ sets < MaxSets /\ FindItem(Tail(header), "Domain") # <<>>
    /\ UpdateJar(ParseCookie(header, <<>>)) /\ sets' = sets + 1
    /\ UNCHANGED <<queryHost, queryPc, carried, redirected>>

StartQuery(host) ==
    /\ queryPc \in {"none", "done"}
    /\ queryHost' = host /\ queryPc' = "connect" /\ carried' = <<>> /\ redirected' = 0
    /\ UNCHANGED <<cookies, latest, sets>>

\* handshake_completed(): the jar's cookies are appended to what the request has.
HandshakeCompleted ==
    /\ queryPc = "connect" /\ queryPc' = "read"
    /\ carried' = carried \o GetCookies(queryHost)
    /\ UNCHANGED <<cookies, latest, sets, queryHost, redirected>>

\* read_completed(): a header of the response; the invalid ones are ignored.
SetCookieHeader(header) ==
    /\ queryPc = "read" /\ sets < MaxSets
    /\ UpdateJar(ParseCookie(header, queryHost)) /\ sets' = sets + 1
    /\ UNCHANGED <<queryHost, queryPc, carried, redirected>>

\* checkRedirect(): another url, which may be one of the same host; performWithRedirect()
\* performs the same query again.
Redirected(host) ==
    /\ queryPc = "read" /\ redirected < MaxRedirects
    /\ queryHost' = host /\ queryPc' = "connect" /\ redirected' = redirected + 1
    /\ UNCHANGED <<cookies, latest, sets, carried>>

\* complete(), with the response or an error.
QueryCompleted ==
    /\ queryPc \in {"connect", "read"} /\ queryPc' = "done"
    /\ UNCHANGED <<cookies, latest, sets, queryHost, carried, redirected>>

JarNext ==
    \/ \E header \in SetCookies : ClientSets(header) \/ SetCookieHeader(header)
    \/ \E host \in Hosts \cup Addresses : StartQuery(host) \/ Redirected(host)
    \/ HandshakeCompleted \/ QueryCompleted

JarSpec == JarInit /\ [][JarNext]_jarVars

----------------------------------------------------------------------------
\* Type invariant.
JarTypeOK ==
    /\ \A k \in 1..Len(cookies) : <<cookies[k].name, cookies[k].domain>> \in DOMAIN latest
    /\ queryPc \in {"none", "connect", "read", "done"} /\ queryHost \in Hosts \cup Addresses \cup {<<>>}
    /\ sets \in 0..MaxSets /\ redirected \in 0..MaxRedirects

\* The jar is a map: after any headers in any order it has each name and domain at most
\* once, with the value given last, and none is lost; one that was removed is only there
\* again with an empty value (CookieJar.cpp:173-222, 285-342).
JarIsLatest ==
    /\ \A j, k \in 1..Len(cookies) : j # k => ~Match(cookies[j], cookies[k])
    /\ \A c \in Range(cookies) : c.value = latest[c.name, c.domain]
    /\ \A k \in DOMAIN latest :
           latest[k] # <<>> => \E c \in Range(cookies) : <<c.name, c.domain>> = k

\* The cookies of a query: each once, and of its own host.
OwnCookies == /\ \A c \in Range(carried) : CheckCookieDomain(queryHost, c.domain)
              /\ \A j, k \in 1..Len(carried) : j # k => ~Match(carried[j], carried[k])

\* A query that was not redirected carries each cookie once, and none of another host,
\* whatever headers have come in what order (BasicQuery.cpp:244-257).
FirstUrlGetsOwnCookies == queryPc = "read" /\ redirected = 0 => OwnCookies

\* A query carries no cookie twice and none that belongs to another host. TLC finds this
\* violated: the request keeps its Cookie header when it is redirected, and what the jar
\* has for the new url is appended to it (BasicQuery.cpp:250-255).
OnlyOwnCookies == queryPc = "read" => OwnCookies

=============================================================================
