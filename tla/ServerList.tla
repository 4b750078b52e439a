----------------------------- MODULE ServerList -----------------------------
(***************************************************************************)
(* The list of connection servers: GetCMList keeps one list per cell for   *)
(* half an hour, and callbacks of the callers it cannot serve yet. All of  *)
(* it runs on the Asio thread; a fiber of any thread may block in the old  *)
(* get(), which posts to that thread and waits for its callback.           *)
(*                                                                         *)
(* A list is the number of the request it came with.                       *)
(***************************************************************************)
EXTENDS Naturals, FiniteSets, Sequences, SequencesExt

CONSTANTS
    Cells,      \* cell ids
    Askers,     \* callers, each with one call at a time
    Blocking,   \* the askers that use the old, blocking get()
    MaxQueries  \* bound on the WebAPI queries

ListAssumption == Blocking \subseteq Askers /\ MaxQueries \in Nat

VARIABLES
    tasks,     \* functions posted to the io_context, in order
    cache,     \* cache[c]: the list, 0 if there is none
    aged,      \* cells whose list is older than cacheLifetime
    callbacks, \* callbacks[c]: askers whose callback waits for the list of c
    querying,  \* querying[c]: the queries to the WebAPI that are under way
    queries,   \* queries made so far
    asks,      \* asks[a]: {the cell a wants}, or {} when it wants nothing
    got,       \* got[a]: the list a was given last, 0 if none
    atAsk,     \* atAsk[a]: queries made when a asked, and lists that were fresh
    dead       \* the assertion that every query succeeds has failed

listVars == <<tasks, cache, aged, callbacks, querying, queries, asks, got, atAsk, dead>>

ListInit ==
    /\ tasks = <<>> /\ cache = [c \in Cells |-> 0] /\ aged = {}
    /\ callbacks = [c \in Cells |-> {}] /\ querying = [c \in Cells |-> {}] /\ queries = 0
    /\ asks = [a \in Askers |-> {}] /\ got = [a \in Askers |-> 0]
    /\ atAsk = [a \in Askers |-> {}] /\ dead = FALSE

----------------------------------------------------------------------------
\* A list a caller may be given: one that is fresh when it asks, or comes later.
Acceptable(c) == (IF cache[c] # 0 /\ c \notin aged THEN {cache[c]} ELSE {})
                 \cup (queries + 1)..MaxQueries \cup querying[c]

\* GetCMList::get() is entered: on the Asio thread, or posted there by the old get().
Ask(a, c) ==
    /\ asks[a] = {} /\ ~dead
    /\ asks' = [asks EXCEPT ![a] = {c}] /\ got' = [got EXCEPT ![a] = 0]
    /\ atAsk' = [atAsk EXCEPT ![a] = IF a \in Blocking THEN {} ELSE Acceptable(c)]
    /\ tasks' = Append(tasks, [kind |-> "get", asker |-> a, cell |-> c, list |-> 0])
    /\ UNCHANGED <<cache, aged, callbacks, querying, queries, dead>>

\* CMList::get(): the cached list is posted to the callback; one that is too old is
\* dropped. Without a list the callback is kept, and the first one sends a query.
\* getCacheData() is not asked while callbacks wait.
Get(t) ==
    LET c == t.cell
        a == t.asker
        noCallbacks == callbacks[c] = {}
        fresh == noCallbacks /\ cache[c] # 0 /\ c \notin aged
    IN /\ cache' = IF noCallbacks /\ c \in aged THEN [cache EXCEPT ![c] = 0] ELSE cache
       /\ aged' = IF noCallbacks THEN aged \ {c} ELSE aged
       /\ atAsk' = IF a \in Blocking THEN [atAsk EXCEPT ![a] = Acceptable(c)] ELSE atAsk
       /\ IF fresh
          THEN /\ tasks' = Append(Tail(tasks), [t EXCEPT !.kind = "callback", !.list = cache[c]])
               /\ UNCHANGED <<callbacks, querying, queries>>
          ELSE /\ callbacks' = [callbacks EXCEPT ![c] = @ \cup {a}]
               /\ tasks' = Tail(tasks)
               /\ IF noCallbacks
                  THEN /\ queries < MaxQueries /\ queries' = queries + 1
                       /\ querying' = [querying EXCEPT ![c] = @ \cup {queries'}]
                  ELSE UNCHANGED <<querying, queries>>
       /\ UNCHANGED <<asks, got>>

\* A callback runs; the one of the old get() wakes its fiber.
Callback(t) ==
    /\ tasks' = Tail(tasks)
    /\ got' = [got EXCEPT ![t.asker] = t.list]
    /\ asks' = [asks EXCEPT ![t.asker] = {}]
    /\ UNCHANGED <<cache, aged, callbacks, querying, queries, atAsk>>

RunTask ==
    /\ tasks # <<>> /\ ~dead /\ UNCHANGED dead
    /\ \/ Head(tasks).kind = "get" /\ Get(Head(tasks))
       \/ Head(tasks).kind = "callback" /\ Callback(Head(tasks))

\* receivedData(), called by the completer of the query: the list enters the cache,
\* which has none, and every callback of the cell is posted.
ReceivedData(c, n, ok) ==
    /\ n \in querying[c] /\ ~dead
    /\ querying' = [querying EXCEPT ![c] = @ \ {n}]
    /\ IF ~ok \/ cache[c] # 0 THEN dead' = TRUE /\ UNCHANGED <<cache, callbacks, tasks>>
       ELSE /\ cache' = [cache EXCEPT ![c] = n]
            /\ callbacks' = [callbacks EXCEPT ![c] = {}]
            /\ \E order \in SetToSeqs(callbacks[c]) :
                  tasks' = tasks \o [i \in 1..Len(order) |->
                      [kind |-> "callback", asker |-> order[i], cell |-> c, list |-> n]]
            /\ UNCHANGED dead
    /\ UNCHANGED <<aged, queries, asks, got, atAsk>>

\* Half an hour passes for a cached list.
CacheAges(c) ==
    /\ cache[c] # 0 /\ c \notin aged /\ ~dead /\ aged' = aged \cup {c}
    /\ UNCHANGED <<tasks, cache, callbacks, querying, queries, asks, got, atAsk, dead>>

ListNext ==
    \/ \E a \in Askers, c \in Cells : Ask(a, c)
    \/ RunTask
    \/ \E c \in Cells, n \in 1..MaxQueries, ok \in BOOLEAN : ReceivedData(c, n, ok)
    \/ \E c \in Cells : CacheAges(c)

ListSpec == ListInit /\ [][ListNext]_listVars

----------------------------------------------------------------------------
\* Type invariant.
ListTypeOK ==
    /\ cache \in [Cells -> 0..MaxQueries] /\ aged \subseteq Cells
    /\ callbacks \in [Cells -> SUBSET Askers] /\ querying \in [Cells -> SUBSET (1..MaxQueries)]
    /\ asks \in [Askers -> SUBSET Cells] /\ got \in [Askers -> 0..MaxQueries]

\* One query per cell at a time, and exactly while callbacks wait for it; the cache has
\* no list for the cell then, so the assertion of receivedData() holds
\* (GetCMList.cpp:133-156, 213-243).
OneQueryPerCell ==
    \A c \in Cells :
        /\ Cardinality(querying[c]) <= 1
        /\ ~dead => (querying[c] # {} <=> callbacks[c] # {})
        /\ querying[c] # {} => cache[c] = 0

\* Every caller that waits is known: its call is posted, its callback is kept or posted,
\* once (GetCMList.cpp:124-129, 228-242, 271-285).
AskersAreKnown ==
    ~dead => \A a \in Askers : asks[a] # {} =>
        Cardinality({i \in 1..Len(tasks) : tasks[i].asker = a})
            + Cardinality({c \in Cells : a \in callbacks[c]}) = 1

\* Nobody is given a list that was too old when CMList::get() looked at it.
ListsAreFresh == \A a \in Askers : got[a] # 0 => got[a] \in atAsk[a]

=============================================================================
