# TLA+ models of the Christians-Steam-Framework

The framework runs Steam accounts ("clients") without the Steam client. Every
account has a thread of its own on which all fibers of its modules run
cooperatively; an Asio thread does the network I/O and a UI thread talks to the
user. This directory holds TLA+ models of its core, the TLC configurations that
check them and proofs of their main invariants.

## 1. Inventory

State, operations, interaction and hard behaviour of each part, and what makes
it correct. `PROJECT.json` lists the files of each and its status.

| part | state | operations | interacts with | what is hard | what makes it correct |
|---|---|---|---|---|---|
| Waiter | items, cancelled flag, condition variable | wait, timed wait, cancel, createWaiter | Whiteboard, Messageboard, Signal, ResultWaiter, Connection items; Client::cancel | setters on other threads; a predicate that blocks | no wakeup and no cancel is lost; wait() returns for a reason only |
| Executor module | queue, cancelled, status of each function | execute, cancel, run | any thread; Client::cancel | cancel or an exception while callers queue | execute() answers truthfully and always |
| Client lifecycle | active, client, quitMode, fibers, thread counter | launch, quit, restart, quitAll, waitAll | signal thread, Executor, every fiber | quit races with start and with restart | one session per account; quitting ends; restarting comes back |
| Registry and settings | ClientInfo list, account files, a mutex each | create, find, examine, update, settings | every client thread | two kinds of mutex, nested both ways | no thread waits for itself in a circle; settings are what the file says |
| Whiteboard, Messageboard | values and messages by type, waiter items | set, clear, get; send, fetch; handlers | every module | changes between a look and a wait; expired items | no change or message missed; nobody listed after its end |
| Fiber primitives | Execute queue, Condition, Mutex, Signal | enqueue, wait, complete, cancel | modules that call each other's fibers | waiting for a fiber that has been cancelled | every call is completed |
| Asio fiber scheduler | ready queue, timer | service loop, suspend_until, notify | Boost's dispatcher, asio's timer, client threads | a blocking handler; the timer is shared without a lock | while the thread sleeps, some wakeup is due for whoever is to run |
| Asio connections | status, queued packets, endpoints | connect, readPacket, writePacket, disconnect | Asio thread and client thread | one mutex shared by two threads, retry, errors | packets in order; the status reaches the client |
| Transport | encryption state and engine, header read | connect, handshake, read, write | Connections above, TCP below | one object for all attempts; an eof in the middle | both ends agree on the key; what is read was written |
| Connection module | connection, messages | read, write, dispatch | Messageboard, MultiPacket, Heartbeat | a barrier per message holds back reading | a message is handled by all its recipients before the next |
| HTTP client, rate limiter, cookies | queue, timer, cookie jar | perform, redirect, complete | Asio thread, WebSession | completion and timer callbacks; a request used twice | one query at a time, FIFO, spaced, each completed once, with its own cookies |
| Web session | cookies, access token, requests | makeQuery, getAccessToken | HTTP client, Login | several fibers want a token; the request for one fails; 403 and retry | each request is answered; one token is fetched at a time |
| Unified messages | job ids, waiting calls | execute, handle, notifications | Connection module | Busy, retries, quit while waiting | each answer reaches its call |
| Login | session state, tokens, Steam guard | start, poll, logon | UI, unified messages, connection | user input against polling and cancel | one logon; input is withdrawn; refused secrets are not sent again |
| UI thread | queue of texts, prompts and functions | enqueue, cancel, quit | every client, the application's UI | a cancelled prompt in the queue; functions jump it | texts in order, each prompt answered or cancelled |
| Presence | heartbeat time, records of logins | beat, go online, record login, trade token | Connection module, data file | quit between login and record | never silent for longer than allowed; the last login is recorded |
| Licences and packages | licence list, shared package store, names | list, get info, merge, names | AppInfo, caches, web session | answers older than the store; two clients, one store | data is never older than what was; index matches the data |
| App infos, assets, inventory | shared stores, announcements | update, dump, load, send items | caches, trade offers | the store is locked across a wait | what is known is kept; the list is current |
| Trade offers | list, notifications, loaded pages | load, accept, decline, parse | ClientNotification, settings | notifications while a page is on its way | no open offer is forgotten |
| Games | badges, playtimes, games played | play, stop, farm | OwnedGames, GetBadgeData, whiteboard | stopping against reporting; settings that change | what is reported is what is played and what the rules choose |
| Sales, streams | results, locks, Execute queue | clear, claim, start, stop | web session | several callers, errors, quit | one worker; the others get its outcome |
| Booster eligibility | timer, chosen account | schedule, log in, quit | lifecycle, LoginTracking | a chain through three threads | no account becomes overdue |
| Data and cache files | JSON and the file | examine, update, save | every client thread | crash between write and rename | a reader sees a whole file |
| Server list | list per cell, callbacks | get, query | Asio thread, every client | answers to many askers | one query per cell; every asker called back |
| Codecs and helpers: messages, key values, ciphers, ids, tables, HTML, JSON paths | none | parse, print | | boundary values, cut-off input | round trips |

How the parts fit together: a client's modules talk to each other through the
whiteboard (latest values) and the messageboard (queues), and wait for both with
a `Waiter`. The connection module turns packets into messages on the board; the
login module logs on; everything after that is unified messages (request and
answer by job id) and web requests (a rate-limited queue of HTTP queries on the
Asio thread). Other threads enter a client only through `Executor::execute`, or
meet it at the process-wide stores (account registry, package data, package
names, app infos, asset data, server list). Quitting is `Client::cancel`, which
makes every registered wait throw; the client is over when its last fiber has
ended.

## 2. Plan

Done, most basic first:

1. the primitives everything rests on: `Waiter` with `WaitPort`, `Executor`,
   `ClientLifecycle`;
2. the network: `AsioFibers`, `HttpQueue`, `SteamConnection`, `Transport`, and what
   goes over it (`Messages`, `Ciphers`, `CookieJars`);
3. the login with the threads it involves: `Login`, `UserInterface`, `Accounts`;
4. requests: `Boards`, `UnifiedMessages`, `WebSession`, `ServerList`;
5. the modules above them: `LicenseFlow`, `PackageNames`, `AppInfoCache`,
   `InventoryFlow`, `TradeOffers`, `CardFarming`, `Sales`, `Streams`,
   `FreeLicenses`, `Presence`, `Eligibility`, `Cloud`;
6. parsers and codecs with a round trip: `KeyValues`, `TradePages`,
   `Identifiers`, `Parsing`;
7. the proofs (see 6): the invariants of `Waiter`, `Executor`, `SteamConnection`
   with the order of the wire, `Login`, `HttpQueue` and `ClientLifecycle`; and of
   all 27 parts of `FrameworkMC`, so that `FrameworkTypeOK`, `OneAtATime`,
   `CallersAreAnswered`, `NothingIsMissed`, `CachesAreCurrent`, `RecordsAreRight`,
   `PlaysWhatIsFarmed` and `NothingGoesBack` are theorems of its `Spec`. Every safety
   property that a run checks and that holds is a theorem.

Left, in order of worth:

- `Login` with a connection that breaks and with clients ended by others, and its
  composition with `ClientLifecycle` (a prompt answered during quitAll());
- a refinement of `Boards` to one queue per waiter;
- `Boards` under the modules that use it, in place of the sets and queues they
  have now.

## 3. The modules

All modules follow the same order: constants with their assumption, variables
named after the members they stand for, actions, one per step of the code, `Next`,
`Spec`, then the properties. Operators named `Mut...` and those that a comment
introduces as a mutation are variants of the definition below them with a
plausible bug; they are used to test the properties. A step is what runs without
another thread or fiber getting in between: up to the next lock, wait or callback.

The first six modules have a run each. The others are the parts of `FrameworkMC`
(see 4). A part names its `Init`, `Next`, `Spec` and constants after itself
(`BoardInit`, `MaxSets`, ...), as do `ClientLifecycle`, `HttpQueue` and `Login`, so
that one module can extend several: the proofs are about the very definitions that
are checked.

`Selection` is a helper: `Kept(s, S)` is what is left of a sequence when the
elements that are not in a set are taken out, `Count` how many those are. `Cloud`,
`Streams` and `FreeLicenses` use it in place of `SelectSeq`, which the prover
cannot unfold.

### WaitPort, Waiter

`Waiter` is one `Waiter` object with its items and its owning fiber. `wait()` is
cut where the fiber can be suspended: the predicate asks the items one by one
(`AskItem`), an item whose `isWoken()` locks a fiber mutex can suspend it
(`GotMutex`), then the fiber joins the condition variable's queue (`Enqueue`) or
leaves. Fibers of one thread do not preempt each other, so `LocalSignal` and
`Cancel` need `OthersMayRun`; another thread's `RemoteSet` and `RemoteWakeup`
happen at any point. Items come in three kinds: set by a fiber of the same thread
(whiteboard, messageboard, signal), set by another thread through an atomic flag
(`ResultWaiter`), and set by another thread under a mutex that `isWoken()` takes
(`Connections::Connection`).

`WaitPort` is what wait() promises: it returns for a triggered item or a passed
deadline, throws only when cancelled, and changes nothing else. `Waiter`
implements it under the mapping `Port` (the points inside wait() become "waiting"
or "timed").

### Executor

Threads that call `execute()` (`Call` to `AwaitStatus`), the executor fiber
(`Register`, `AwaitWork`, `RunFunction`, `FunctionReturns` or `FunctionThrows`,
`Catch`, `DrainOne`, `DrainEnd`), and `cancel()` in its two steps. The two
condition variables are explicit, so a lost `notify_one()` would show. A function
that throws throws an `OperationCancelledException`; any other exception leaves
the fiber uncaught and ends the program, so there is nothing to check after it.

### ClientLifecycle

Accounts with their numbered sessions. `ThreadStep` is `Launcher::launch` from
the creation of the thread to its end or the relaunch; `FiberStep` and
`LaunchLate`, `FiberReturns`, `FiberQuit` are the life of a fiber; `QuitterStep`
is quitAll() and waitAll(). A call of `execute()` is one step, justified by
`Executor`. The history variables `missed` and `escapees` record the cases in
which the code does not reach a client (a fiber that registers after the quit; an
account in its restart window), so that the liveness properties can exclude
exactly those.

### HttpQueue

One `RateLimitQueue` on the Asio thread. One handler is one step (`Enqueue`,
`TimerHandler`, `Performed`, `ResolveCompleted` to `ReadCompleted`); what the
network and the timer do in between is up to them. `Complete` is the callback
chain of a completed query: redirection, or the answer, re-arming the timer, and
`StartQuery`. `fired` counts timer handlers that are already queued when the
timer is cancelled. Time is ticks since the last completion, up to `Schedule`.

### SteamConnection, SteamConnectionMC

The reader and the writer fiber of the Asio thread, the fibers of the connection
module, of MultiPacket and of the login module as far as it takes the logon
response, and Steam, which sends the packets of `Wire`. A packet is a sequence of
messages; a `CMsgMulti` is one of a length other than 1. The connection module's
loop is cut at every locked section (`ConnWrites`, `ConnReads`, `ConnLooks`). The
barrier is the state "barrier" of whichever fiber has posted a message that must
be handled first. The waiter is the port of `WaitPort`: the lost wakeup that
`waiter_remote` shows is outside this module. A connect error that is not eof
leaves the reader's fiber and ends the program; no step follows it. Which
endpoint is tried is left out. The logon response arrives only after something
was sent.

### Login

Each account's client with its login module (`ModuleStep`: one action per way on
from each wait or request), the session thread (`Communicate` is its comm fiber,
the rest its main fiber) and the UI thread (`ShowPrompt`, `Answer`). The public
key request and BeginAuthSession are one request; the server answers each as it
likes or not at all. `creds` holds the secrets of the account's
`CredentialsSession`, which outlives its clients; `file` is the refresh token in
the data file, which outlives them as well. `refusedSecrets` (what the server
refused and nobody replaced) and `ignored` (the session thread launched a client that was
still active) are history variables. Whether `emplace_back()` grows the vector
depends on its capacity and is a choice. `UiCancels` says whether the
application's UI gives its prompts a cancel function (`WaiterBase::setCancel`,
offered by Headers/UI/UI.hpp; no UI in the repository sets one).

Left out: connections that break, clients that are quit by others, LoggedOff
messages (which the code discards), and an application that launches an account
the user is being asked about.

### Boards

The whiteboard (an item per type, whose waiter items carry a changed flag) and
the messageboard (a queue per waiter item). `SetValue`, `Send` and their kin go
through the list of items, drop the expired ones and wake the others; a fiber
looks, fetches and sleeps, and may end with its items still listed. Fibers take
their items when they start and let go of them when they end, as the `shared_ptr`s
in the code do.

### UnifiedMessages, WebSession, ServerList

`UnifiedMessages`: a call puts itself on `messageList`, sends, waits, and is
answered, told Busy (it sleeps ten seconds and sends again under the same job id)
or cancelled; the connection's fiber decodes a response when it arrives with the
help of the call it finds. Notifications and `BlockingQuery` share the dispatch.

`WebSession`: makeQuery() queues a `Request`; the module performs one at a time
with the cookies of its jar; getAccessToken() serves it and other fibers under a
mutex. The server forbids exactly the queries whose cookie carries an expired
token, so a 403, the new token and the second attempt are steps of their own. The
request for a token may fail, or its answer lack one: another fiber leaves the token to
the next that wants it, but nothing catches an exception in the module's run(). Like a
failed assertion it ends the process (Client.cpp:258-277).

`ServerList`: `GetCMList` on the Asio thread, with the tasks posted to it, the
cache per cell, its age, and the callbacks that wait; a fiber may block in the old
get().

### LicenseFlow, PackageNames, AppInfoCache

`LicenseFlow` follows a licence list from the server over `LicenseList` (the
licences on the whiteboard, the `NewLicenses` message) to `PackageData`'s
requests, the store all clients share with its index by app, and its file. A
package's data is its change number and its apps. The mutex of the store is taken for
each package of an answer and once more to save, so each of these is a step, with those
of the other client in between. A list of apps that has an app twice is in the instance:
storeNew_noLock() returns before it has stored such a package.

`PackageNames` is `PackageInfo`: which packages it asks about, whose turn it is,
the support pages it reads row by row, what it makes of rows, buttons and forms,
the store of names and the file it writes at most once a minute. `PageIsSound` is
what Steam's support pages look like: a page has a button or a form, and one for a
package, and where lines and buttons are equally many they come in one order. The
code reads the first package id of a page without looking whether there is one.

`AppInfoCache` is the store of app infos: updates under a mutex held across the
wait for the answers, the entries that are not merged yet, and `DataFile` with its
temporary file, so that a crash can fall between any two steps of a save. A write may
fail without notice and is renamed all the same; the next process cannot read the file.
The assertions on answers, and on DLCs that two apps list, end the process.

### TradeOffers, TradePages, InventoryFlow

`TradeOffers` composes the fibers of `ClientNotification`, `TradeOffers`,
`AutoLoadTradeoffers`, `AutoAccept` and a caller of getIncoming(). The server
opens and withdraws offers meanwhile.

`TradePages` is the parser that reads the offers of a page, with the pointers it
keeps into the offer it is building; elements may be malformed anywhere.

`InventoryFlow` composes `Inventory`, `InventoryNotification`, the store of asset
descriptions and sendInventory(). A description may be missing or unreadable wherever
one is stored: load() ignores that, requestData() asserts that it does not happen.

### CardFarming

`OwnedGames`, `GetBadgeData`, `CardFarmer` and `PlayGames` with the messages
between them and what they put on the whiteboard. Playtime is one of four classes
(the thresholds the farmer compares with), a badge the number of cards received. The
instance has three games with a card each, one of which can be refunded, so that the
rules for several games at a time and for one decide.

### Sales, Streams, FreeLicenses

`Sales`: `SaleQueue`, `DiscoveryQueue` and `SaleSticker` with their fiber
mutexes, their errors and a quit; a status other than ok is tried again, an exception
ends the round. `Streams`: `ViewStream`'s Execute queue, the
heartbeats, and the url a function points to in its caller's frame.
`FreeLicenses`: `AddFreeLicense` and how what it asked for is recognised in the
licence list, which the module looks at whenever it has woken and has no message left.

### Presence, Eligibility, Cloud

`Presence`: `Heartbeat` against the messages others send, `PersonaState`,
`ClientAppList`, `LoginTracking`, `TradeToken`, with a clock. `Eligibility`: the
chain of timer, polling and fiber of `MaintainBPE`, over days. `Cloud`: the loop
over chunks of files that change meanwhile, and the table of apps.

### Accounts

The registry of `ClientInfo` and each account's file with their mutexes; finding,
showing, loading and setting the three kinds of settings. The look-ups are those by
name, by Steam id (find()), of all display names (findDisplay()) and of another account's
(displayName()); a thread without a client makes them too. The steps that take a mutex
while another one is held are separate.

### UserInterface

`UI::Thread`: enqueue, texts, prompts with their validation, `WaiterBase`
completed by the UI or cancelled by the client, functions at the front of the
queue, quit() and wait(). What the UI of the application does with a prompt is
external.

### Transport, Messages, Ciphers, CookieJars, KeyValues, Identifiers

`Transport`: one `TCP` and one `Encrypted` object over several attempts against a
server that answers, sends what is not expected, or closes. `Messages`: a message
class is made, serialized, peeked at and deserialized, with packets of Steam that
are longer or shorter. `Ciphers`: `AESCryptoBase` and its two classes on texts of
boundary sizes and damaged packets. `CookieJars`: set-cookie headers, the jar, the
cookies of a query and of its redirection. `KeyValues`: a tree is built, written
and read in each of the three forms, possibly cut off. `Identifiers`: `BitField`
with its classes and the job ids.

### AsioFibers, Parsing

`AsioFibers`: the contexts of the Asio thread (main in the service lambda of
`round_robin`, the dispatcher, the fibers), which of them is ready, and the timer
that suspend_until() and another thread's notify() share; each of the two is cut
between its calls of the timer, and expires_at() once more between its halves.
What Boost's scheduler and timer do is external. `Parsing`: the class list and
the texts of an HTML element, the strings of trade items with the numbers in
them, and createItem() and eraseItem() on a JSON document.

### FrameworkMC

The 27 modules since `Boards`, side by side, all of them extended: their constants
are its own and have their values in the configuration, and the theorems on the
parts are about its variables. `part` says which one a behaviour is of: `Only(p)` lets it take its steps and leaves the
variables of all others as they are. One run and one property per concern checks
them all: the parts have the same few promises (listed in 4), and no variable in
common.

## 4. The runs

| run | states | checks |
|---|---|---|
| `waiter` | 50,680 | `WaiterTypeOK`, `NoLostLocalWakeup`, `NoLostCancel`, `CancelEndsTheFiber`, `ImplementsPort` with one item of each kind |
| `waiter_remote` | | `WakeupIsThreadsafe` is violated: finding 1 |
| `executor` | 25,569 | true answers, no call forgotten, no notification lost, calls return; three calls, one of which may throw |
| `lifecycle` | 15,083 | sessions, fibers, waitAll, quitAll, restart; one account, two sessions, two module fibers and a late one |
| `lifecycle_quit` | | `QuitEndsTheClient` is violated: finding 2 |
| `http` | 310,694 | the queue never idles, spacing, no false success, answers; three queries, two URLs, a schedule of one tick |
| `connection` | 333,092 | order of the wire, the logon response holds back, no packet stranded, the end is reached; a CMsgMulti of two and a single message, two messages sent, two attempts |
| `connection_close` | | `LogonBeforeClose` is violated: finding 3 |
| `connection_quit` | | `CancelEndsConnection` is violated: finding 4 |
| `login` | 768,809 | assertions, nothing refused is sent again, no session forgotten, who asks is launched again; two accounts |
| `login_prompts` | | `RunRestartsTheClient` is violated with a UI that withdraws prompts: finding 5 |
| `framework` | 1,634,252 | 27 parts, seven invariants and an action property, below |

All state spaces are finite and searched completely. Deadlock is not checked:
every system here may stop (the client has ended, the queries are answered, the
user does not answer, the program is terminated). What must not stop is stated by
the liveness properties instead.

What the properties of `framework` say of which part (the names in the modules):

| property | parts |
|---|---|
| `FrameworkTypeOK` | the types of every part |
| `NothingIsMissed` | `Boards` (`NoChangeMissed`, `NoMessageMissed`, `NoItemLeftListed`), `TradeOffers` (`NoOfferLost`, `AutoLoadFollows`), `FreeLicenses` (`NoRequestLost`, `ReportedIsHere`, `ReportedAtOnce`), `Cloud` (`FilesAreComplete`, `AppsAreTheRows`), `UserInterface` (`TextsInOrder`), `Presence` (`LoginIsRecorded`, `NeverSilent`), `Eligibility` (`TimerIsInTime`), `AsioFibers` (`WakeupsArrive`, `SleepersAreTimed`) |
| `CallersAreAnswered` | `WebSession` (`QueriesAreServed`, `EndsForATokenOnly`), `UnifiedMessages` (`EveryCallIsAnswered`, `FirstAnswerHasContent`, `ListMatchesCalls`), `Streams` (`CallersHaveFunctions`, `OnlyLiveStreamsBeat`), `ServerList` (`AskersAreKnown`), `UserInterface` (`PromptsAreServed`, `EndsWhenTold`), `Sales` (`WaitersGetFreshResults`) |
| `OneAtATime` | `WebSession` (`OneTokenAtATime`), `ServerList` (`OneQueryPerCell`), `Sales` (`OneWorkerEach`), `PackageNames` (`OneAsks`), `Streams` (`UrlPointersAreValid`), `TradePages` (`PointersAreCurrent`), `Accounts` (`OnlyBotNamesBlock`) |
| `CachesAreCurrent` | `InventoryFlow` (`InventoryIsCurrent`, `DescriptionsStay`, `OffersFit`), `LicenseFlow` (`PackagesSettled`, `IndexMatches`, `FileHasStore`, `ListReadRight`), `AppInfoCache` (`UnsavedIsMarked`), `PackageNames` (`AllSaved`), `ServerList` (`ListsAreFresh`), `Accounts` (`SettingsAreTheFiles`), `Transport` (`KeysAgree`, `EngineFollowsState`) |
| `RecordsAreRight` | `PackageNames` (`NamesMatch`), `TradePages` (`OffersAreAsWritten`), `CookieJars` (`JarIsLatest`, `FirstUrlGetsOwnCookies`), `Messages`, `KeyValues`, `Ciphers`, `Identifiers`, `Parsing` (what is read is what was written) |
| `PlaysWhatIsFarmed` | `CardFarming` (`ChosenGamesArePlayed`, `PlayingIsShown`, `FarmsByTheRules`) |
| `NothingGoesBack` | `AppInfoCache` (the file only grows, across crashes, unless a write that failed replaces it), `LicenseFlow` (a package's data is never replaced by older data) |

Each of these was tested against a mutation of every part it is about; the
mutations listed in `PROJECT.json` are one for each property.

Why the bounds are enough:

- `waiter`: items interact only through the one cancelled/woken predicate and the
  one condition variable; with one item of each kind every pair of "being asked"
  and "being set" occurs. The safety part is proved for any sets of items.
- `executor`: three calls give a queue of two behind a running function, and a
  caller in every phase of execute() during cancel and drain. The safety part is
  proved for any number.
- `lifecycle`: accounts meet only in quitAll(), which visits them one after the
  other, and in the thread counter; one account with two sessions has every race
  of quit, restart and relaunch with the visit. Later sessions repeat the second.
- `http`: three queries are one in progress, one queued and one arriving; a third
  URL adds nothing to "the same or another". A longer schedule only adds ticks.
- `connection`: the next packet after a CMsgMulti, and the logon response inside
  it, before it and after it. Two sends are a packet being written and one queued.
  Two attempts are a failure and a success or a failure of both.
- `login`: two accounts are enough for a prompt behind a prompt, a vector that
  grows or is erased from while another session waits, and a queue written while
  the thread decides to end. The safety part is proved for any number.

- `framework`, whose constants have their values in `FrameworkMC.cfg`; its eight
  properties are proved for any:
  - fibers, clients or callers are two wherever they meet (`Boards`, `Sales`,
    `Streams`, `ServerList`, `PackageNames`, `AppInfoCache`, `Accounts`,
    `UserInterface`, `UnifiedMessages`), three requests in `WebSession` (one being
    retried, one queued and one arriving) with a fourth fiber that wants a token;
    `Accounts` has two accounts and a thread without a client, `LicenseFlow` two clients
    with two lists between them;
  - `MaxLists` = 2, `MaxVersion` = 2: a list, and one that changes what the first
    brought, with data that is older, the same or newer; the lists hold a package
    twice, one of them lent by the family, and one package comes to name an app twice;
  - `MaxRestarts` = 1 (`AppInfoCache`): a crash at any point and a life after it;
  - `MaxRetries` = 1 (10 in the code): a Busy that is retried and one that is not;
  - `MaxTokens` = 3: the token that has expired, the one that replaces it, and one
    that expires again;
  - `MaxAttempts` = 3, `MaxData` = 2 (`Transport`): an attempt cut off in every
    state, one that suffers from it and one after that; proved for any number;
  - `Interval` = 2, `MaxClock` = 5 (`Presence`): two heartbeats, with a message of
    another module before, at and after the time of each;
  - `Games` = {x, y, z}, `MaxGames` = 2, `MaxEvents` = 2 (`CardFarming`): two games that
    collect playtime together and a third, with two of the things that happen outside
    (a card, playtime, a purchase, the setting) in any order; proved for any number;
  - `MaxPause` = 2, `LastDay` = 5 (`Eligibility`): both accounts become due, in
    either order, twice;
  - `MaxPages` = 2, `MaxStreams` = 3, `MaxQueries` = 3, `MaxRounds` = 2,
    `MaxAdds` = 3, `MaxValues` = `MaxBoardMessages` = 2: one request under way, one that
    arrives meanwhile and, where it differs, one after both;
  - `MaxItems` = 4, `MaxDepth` = 3 (`KeyValues`): every shape of tree with a node
    inside the root, before and after another item;
  - one fiber, one other thread, `MaxTime` = 1 and `MaxHandlers` = 2 (`AsioFibers`):
    a sleep that main, the fiber and notify() meet in every order, with one wait of
    the timer that joins another; two fibers, or two threads, were checked with
    `MaxHandlers` = 1 on their own;
  - the class strings, items and paths of `Parsing` are all words over two or three
    characters up to the length at which each rule applies twice;
  - the sizes of `Ciphers` lie around one and two AES blocks; `Numbers` of
    `Identifiers` are empty, sparse and wider than any of the fields but the widest,
    and its job ids pass the 20 bits of their sequence.

Bounds that stand for a number in the code are `Attempts` (100), `Schedule` (a
number of seconds), `MaxRetries` (10), `MaxErrors`, `MaxGames`, `Interval`,
`MaxPause` and `ItemsPerTrade`. The other `Max...` constants bound the models; the
code has no such limit.

## 5. Fairness

Only what a scheduler or the code's own loop provides is assumed, as weak
fairness:

- a fiber or thread that can run does run (`FiberStep`, `ThreadStep`,
  `CallerStep`, `Reader`, `ConnFiber`, `SessionThread` ...); boost's schedulers
  are round robin and the system's threads are fair;
- handlers queued on the Asio thread run, timers fire, and time passes;
- network operations of an HTTP query and `connect()` end one way or the other
  (the OS reports a timeout at last); nothing is assumed of the steady Steam
  connection's reads and writes;
- a thread inside wakeup() finishes it, and a locked mutex is freed.

Nobody has to launch, quit, send, call execute() or answer a prompt. Where a
promise depends on that, the property says so as a premise: `AskedIsRestarted`
takes a user who answers the prompt that is shown, `AnswersArrive` servers that
do not redirect for ever, `CallsReturn` functions that do not throw,
`QuitAllEnds` and `RestartComesBack` that no fiber was missed.

The parts of `FrameworkMC` are checked for safety only and assume no fairness.
`CallersAreAnswered` therefore says that whoever waits still has somebody who can
answer, not that the answer comes.

## 6. What is proved

The theorems hold for every value of the constants that satisfies the named
assumptions of their module (`ItemsAssumption`, `CallsAssumption`,
`LifecycleAssumption`, `ConnectionAssumption`, `LoginAssumption`,
`FlowAssumption`, ...: the kinds of items are disjoint, `None` is no call, the
messages on the wire differ, an account that is looked for in vain is no account,
the lists of licences and of files are sequences of such, a support page looks as in
`PageIsSound`, and so on). Bounds are natural numbers large enough for one round:
`MaxClock` is not 0, `MaxPause` does not lie behind `LastDay`. The run of a
module checks that its instance satisfies them. Sets are finite by assumption only
where a proof counts: the fibers of `AsioFibers`, the games of `CardFarming`, the
items of `InventoryFlow`.

### The core

- `FiberProofs`, about `Waiter`: `WaiterTypeCorrect`, `LocalWakeupsArrive`,
  `CancelArrives`, `WaiterImplementsPort`. That no local wakeup is lost is not
  inductive: a fiber about to enqueue must already know its items untriggered.
  `EvaluationInv` says what the predicate has established at each point as long as
  it was not suspended; `ReasonInv` why a wait that leaves may do so, which is what
  the refinement needs.
- `FiberProofs`, about `Executor`: `TypeCorrect`, `AnswersAreTrue`, `CallsAreOwned`,
  `QueueEndsEmpty`, `NoLostNotification`. `QueueInv` (the queued functions are
  distinct, untouched and owned by waiting callers), `FiberInv` (what the fiber
  holds where) and `CallInv` (what a status means) carry the others.
- `ConnectionProofs`, about `SteamConnection`: `TypeCorrect`, `LogonsHoldBack`, `PacketsAreWritten`,
  `OrderIsKept`. `ReaderInv`, `WriterInv` and `ModuleInv` are the types with what
  relates them (messages are counted once; the whiteboard says Connected only after
  the connection did). `BarrierInv` says that at most one CMsgMulti and one logon
  response are under way and that whoever posted them is in the barrier.
  `OrderIsKept` is `InWireOrder`: `PacketsInv` and `PostedInv` say that what has been
  posted, what is inside a CMsgMulti and what is still on the wire are, one behind the
  other, the messages of `Wire`; it rests on an induction over the packets of `Wire`.
- `ConnectionProofs`, about `Login`: `LoginIsTyped`, `RefusedStaysRefused`, `AssertionsAlwaysHold`,
  `SessionsAreKept`. `SecretsInv` relates what is refused to every place it could
  be taken from again (session, file, the token the client has read); `PlaceInv`
  says the queues and the vector hold each account at most once, and `AskedInv`
  that an account that is asked about has no running login module. The latter is
  what makes the assertions of the session thread hold: nobody changes the
  session meanwhile. The lemmas about sequences (`AppendNew`, `ConcatDisjoint`,
  `HeadTaken`, `EraseOne`) are general.
- `ConnectionProofs`, about `HttpQueue`: `QueueIsTyped`, `QueueNeverIdles`, `QueriesAreSpaced`,
  `SuccessIsAnswered`. Three handlers may start a query, so spacing rests on
  `ExpiryInv`: the timer's remaining time and the time since the last completion
  add up to the schedule, also when a handler of a cancelled timer comes late.
  `QueuePlaceInv` says that a query is posted, queued or in progress at most once and
  never after its completion; that an answer belongs to the query in progress
  follows.
- `FiberProofs`, about `ClientLifecycle`: `LifecycleTypeCorrect`, `OneSession`,
  `ClientIsThere`, `RestartsAreCovered`. Everything is stated of the thread of an account's latest
  session (`Latest`): only that session can be live and the flag says whether it is
  (`SessionInv`), the client is there exactly from setClient() on until it is taken
  away (`ClientInv`), fibers only run while the thread runs them (`FiberInv`), and a
  restart leaves the thread, or the next one, with a handle (`RestartInv`).

Each proof has one lemma that names the steps (`...Cases`), and one step per action
(or group of actions with the same effect on the conjunct).

### The parts of FrameworkMC

`FrameworkProofs` shows that a behaviour of `Spec` is one of every part, in turn or
idle (`WebPart`, `CallPart`, ...), takes the assumptions on the constants from
`InstancesAreSound`, and combines the theorems of the modules below:
`FrameworkIsTyped` (`FrameworkTypeOK`), `WorkIsDoneOnce` (`OneAtATime`), `CallersAreServed` (`CallersAreAnswered`),
`AnnouncementsAreSeen` (`NothingIsMissed`), `FarmIsPlayed` (`PlaysWhatIsFarmed`),
`CachesAreKeptCurrent` (`CachesAreCurrent`), `RecordsAreRead` (`RecordsAreRight`),
`RecordsOnlyGrow` (`NothingGoesBack`).

`StateProofs` has what clients do in the course of days:

- `CardFarming` (`FarmerIsObeyed`): `GamesInv`, `RulesInv`, `PlaytimesInv` (no playtime
  the farmer knows is ahead of the real one, nor is that of a game worth farming ahead of
  what was last read), and `PlayInv`: applying the messages under way to what is played
  `Leads` to what was chosen.
- `Eligibility` (`TimerIsForTheOldest`): `RecordsInv`. `Presence`
  (`ClientsStayPresent`): `BeatInv`.

and the types of the parts whose invariants do not say all of them (`SalesAreTyped`,
`NetIsTyped`, `InventoryIsTyped`, ...). Where values pass through several hands the
types are inductive only with an invariant that follows them: the lists of servers
are those of the queries made, in the cache, with the callers and in posted tasks
(`ListBounds`), no account was logged off after the last day (`DaysInv`), and a choice
of the card farmer is two messages at most (`ChoiceLength`).

`WaitingProofs` has lemmas about sequences and the parts in which fibers and
threads wait for each other, or ask and read:

- `Boards` (`AnnouncementsArrive`): `ItemsInv` is `NoChangeMissed` with the types of
  the items and whose they are (a board lists exactly the items that are alive);
  `QueuesInv` says that what a queue was sent is handled or still in it, in order.
- `UserInterface` (`UserIsAskedAndTold`): `PromptsInv` has where a speaker's prompt
  can be in each of its states, and which answer it then has. `TextsInv` says that of each speaker the texts up to
  some number are shown and the rest is in the queue, `EndInv` that only a quit() puts
  the item into the queue that ends the thread.
- `AsioFibers` (`SleepHasAnEnd`): `ContextsInv` (who runs, who is ready, who
  sleeps), `TimesInv`, `RemoteInv` (where another thread's notify() stands) and
  `TimerInv`: at each point of main, of the dispatcher and of notify(), the earliest
  sleeper is `Covered` by the timer or somebody is still to set it, unless a handler
  has blocked or notify() met the sleeper (`lapses`).
- `Sales` (`ClearsAreDoneOnce`): `LocksInv` and `FreshResults`.
- `ServerList` (`CallersGetFreshLists`): `QueryingInv` (a query is under way for a
  cell exactly while callbacks wait for its list), `KnownInv` (every asker is in a list of callbacks or a posted
  task) and `FreshInv`.
- `Streams` (`CallersOfStreamsAreServed`): `CallingInv` (the function of each caller)
  and `BeatingInv` (the streams that have had a heartbeat are in the list).
- `Accounts` (`OneDeadlockOnly`, `SettingsAreRead`): two threads wait for each other
  only if one loads a bot name and the other, with the registry locked, has that account's
  file still to read, for whichever look-up. `HoldersInv` says
  who can hold which mutex in the middle of which operation, `SearchInv` where a search
  stands, `SettingsInv` what a client has made of its file.
- `FreeLicenses` (`RequestsAreMadeOnce`): `FreeInv` has the types; that a
  package which was added is in exactly one of the lists is inductive as it stands,
  given what `Count` makes of the splits and joins of these lists. A package that has
  its licence leaves its list when the module looks, whether or not the list is new.
- `Cloud` (`CloudIsRead`): `FilesInv` says that a file which stayed is listed once if
  it lies before the index of the next chunk and not if behind, whatever comes and
  goes; `RowsInv` that the table is open while all rows were as expected.

`Kept` and `Count` are folds. What they do with an element, with two sequences and
with themselves (`KeptAppend`, `KeptConcat`, `KeptTwice`, `CountKept`, ...) is proved
by induction over sequences that grow at their end (`GrowingSeqs`), which goes back to
the least element of a set of numbers (the library's `WFMin`): the induction
theorems that take an operator cannot be used, one that takes a set can. In the same
way a fold, which is a recursive function, is unfolded along a sequence
(`FoldsStepwise`, `FoldingBy`), so that what a loop over a sequence computes is proved
for any sequence.

`ModuleProofs` has the modules above the connection and the transport below it:

- `WebSession` (`TokensAreAskedForOnce`): `TokenInv` (who holds the token's mutex and
  who waits for it),
  `SentInv` (the cookies of a query), `ForbiddenInv` (the request that was refused
  is the first) and `ServedInv` (where the request of a waiting caller is). What `CallersAreServed`
  says of it ends with the process.
- `UnifiedMessages` (`CallsAreAnswered`): `CallsInv`, by the phase of each call.
- `Transport` (`EngineIsThere`, `KeysDoAgree`): the difficulty is an object that
  outlives its socket. `WireInv` says what can be on the wire and known to the server
  in each state of the handshake, whatever an earlier attempt has left behind,
  `DataInv` which key a packet was encrypted with.
- `LicenseFlow` (`PackageDataIsKept`, `LicensesAreSettled`): `FlowInv` has the store,
  its index, its file and the answers under way. That a list is read right in any
  order of its licences is an induction over the list (`LicensesRead`).
  `ListsInv` says that the lists on their way come after the one a client has, with
  change numbers the server has had, and `SettledInv` that for each licence of the list
  a client works on (`Settled`) the store has data that is not older, or a request or
  a response for it is under way (`Provided`), or just being stored. The file may lack
  what another client is storing. Packages that name an app twice are left out.
- `AppInfoCache` (`SavedInfosStay`): `StoreInv`, file, temporary file and store by the
  step of whoever holds the mutex. `PackageNames` (`OneClientAsks`): `HolderInv`.
- `PackageNames` (`NamesAreOwn`): whatever is asked for and in which order the rows
  come, a page that is sound gives each of its packages its own name (`NamesRight`).
- `InventoryFlow` (`InventoryStaysCurrent`): `InventoryLoadInv` (what a load has not
  gathered from the pages it has read was announced since) and `DescriptionsInv`, about
  the descriptions that were fetched, announced or offered.
- `TradeOffers` (`OffersAreNoticed`): `OffersInv`; an open offer is listed or its
  client is `Told` of it: by a notification, a page or a load to come.
- `TradePages` (`PointersOfParserAreCurrent`, `OffersAreKeptAsWritten`): `PointersInv`,
  and `WrittenInv`: what Steam has written so far is the offer being built, unless an
  element of it was malformed, and those that could be used are the ones kept.

`CodecProofs` and `ParsingProofs` have what is written and read. The invariants say
at each point of a reader what it has taken and what is still before it:

- `KeyValues` (`TreesAreReadBack`): `WriteInv` says that what has been written is the
  tree without its open ends, in an order in which no item comes before its parent,
  and `ReadInv` that the tokens left would, read from the node the reader stands in,
  give the rest of the tree, or a part of it if the data was cut off (`RestComes`).
- `Messages` (`MessagesAreReadBack`): `DataKept`, the bytes still to be read are those
  of the header and content not read yet, with what Steam may have left out or
  added; `FieldsKept`, what has been read of them. That fields are found again among
  the bytes of many (`StoredParses`) is an induction over the fields.
- `CookieJars` (`CookiesAreTheLatest`): `JarKept`, a jar has each name and domain once.
- `Ciphers` (`PacketsReadBack`): `PacketInv`, whose packet it is and what has become of
  it. `Identifiers` (`IdentifiersAreSound`): `FieldsInv`; `JobsInv`, the sequence
  numbers are in a row, so that those of 2^20 ids in succession differ.
- `Parsing` (`TextsAndDocumentsAreRight`): `ParsingKept`. The loops over the characters
  of a text are folds; each has a lemma that says what they have found after a prefix
  of the text. createItem() and eraseItem() keep the paths of a document closed
  under prefixes.

### Model-checked only

The liveness properties (`CancelEndsTheFiber`, `CallsReturn`, `QuitAllEnds`,
`RestartComesBack`, `AnswersArrive`, `EndIsReached`, `AskedIsRestarted`), which with
fairness and ENABLED are out of the prover's reach.

## 7. Findings

1. `waiter_remote`: `Waiter::wakeup()` notifies without the mutex although it may
   be called by another thread; a ResultWaiter completed between the predicate
   and the wait is not noticed (Waiter.cpp:141).
2. `lifecycle_quit`: a fiber that registers with `Client::cancel` after the quit
   is never cancelled, so the client never ends (Cancel.hpp:106).
3. `connection_close`: a logon response that arrives with the eof between the
   module's last read and its look at the status is dropped (Connection.cpp:175).
4. `connection_quit`: the barrier for a message's destruction is not cancellable;
   a quit that ends the recipient first leaves the client for ever
   (Connection.cpp:274).
5. `login_prompts`: copies of `SessionState` cancel the input of a session that is
   still waiting (Login-Session.cpp:68).

The parts of `FrameworkMC` state further formulas that do not hold of the code,
each next to the properties of its module with the lines that break it. Their
counterparts among the checked properties say how far the damage goes.
Three more gaps are in the exemptions of the checked properties themselves: a file whose
write failed is renamed over the good one (DataFile.cpp:127), a package that names an app
twice is never stored (PackageData.cpp:145), and want of a token ends the process
(WebSession.cpp:143).

| formula | module | what the code does |
|---|---|---|
| `EverySleeperIsTimed` | `AsioFibers` | notify() and suspend_until() share a timer; a sleeping fiber can be left without it until another handler runs (round_robin.hpp:152, 178) |
| `BlankIsWhite` | `Parsing` | isWhitespace() does not count a space (HTML.cpp:159) |
| `DlcsFollow` | `AppInfoCache` | DLCs of app infos that were just loaded are looked for in the file's JSON only, where they are not yet (AppInfo.cpp:229) |
| `PointerIsValid` | `TradeOffers` | a pointer into the whiteboard is kept across a wait (AutoAccept against Whiteboard.hpp:53) |
| `BadgesAreThere` | `CardFarming` | updateBadge() takes badge data from the whiteboard that need not be there yet (Whiteboard.hpp:327) |
| `ShownIsPlayed` | `CardFarming` | stopGames() reports the games that are left only if one it stops was not paused; others go on being shown, although PlayGames.hpp:85 calls the list that of the games played (PlayGames.cpp:279) |
| `AnswersHaveContent` | `UnifiedMessages` | the answer to a retry after Busy is not deserialized (UnifiedMessageClient.hpp:278) |
| `ForbiddenOnce` | `WebSession` | the retried request carries the cookie of the old token (WebSession.cpp:272) |
| `NobodyAsksAfterQuit` | `Sales` | catch(...) swallows the cancellation of a quit (SaleQueue.cpp:157, DiscoveryQueue.cpp:158) |
| `HandshakeCanEnd` | `Transport` | the state of a handshake that was cut off survives, and the next one waits for a result nobody owes it (Encrypted.cpp:263) |
| `NobodyBlocks` | `Accounts` | find(pred), findDisplay() and displayName() lock the registry and then account files, SettingBotName the other way round (ClientInfo.cpp:123-151, 372-376) |
| `ChainGoesOn`, `OnlyOverdueAreQuit` | `Eligibility` | a client that is quit before its login ends the chain; a client the user keeps logged in counts as overdue (MaintainBPE.cpp:125) |
| `EverythingIsShown`, `NobodyIsAskedInVain` | `UserInterface` | quit() goes in front of texts that wait; a cancelled prompt stays in the queue (UI.cpp:313, 116) |
| `FilesAreExact` | `Cloud` | a file that moves between two chunks is skipped or listed twice (Cloud/Files.cpp:154) |
| `OnlyOwnCookies` | `CookieJars` | a redirected request keeps the first host's cookies (BasicQuery.cpp:250) |
| `NestedTreesReadBack` | `KeyValues` | a node is closed twice when it is written (KeyValue_Serialize.cpp:112) |
| `ExtendedReadsBack` | `Messages` | the size of an extended header is neither written nor read (Message.hpp:309) |

Not modelled, but seen while reading: nobody restarts a client that has lost its
connection (Login-Auth.cpp:781). A failed SNI set-up completes with the wrong error
code (BasicQuery.cpp:306); `SuccessMeansAnswer` has to exempt it.

## 8. Not modelled

- `Dispatcher` and `Services` of an earlier design (nothing includes them), machine
  identity (I/O), the declarations of Steam's protocol, vendored headers.
- In `Login`: lost connections, LoggedOff messages, clients that are quit by others.
  A lost connection ends the connection module's fiber and nothing else (see 7);
  there is no handler whose steps a model could add.
- Which endpoint and which directory is tried; the destructor of a connection; file
  names.
- The scheduler of the clients' threads (`ExecuteFibers`, boost) and the registration
  of modules: fairness stands for the former. `AsioFibers` has the Asio thread's.
- RSA, random numbers and SHA1, which are handed to OpenSSL; URL encoding, the
  query string of the web API, number and time formatting: conversions without
  state. HTML, JSON and protobuf are parsed by libraries; models start from what the
  code reads of them.
- The application's side of prompts and pages, Steam and the web servers are
  external: they do whatever the code must cope with.

Inside the modelled parts, the abstractions are those named in section 3 and at the
head of each module.
