---------------------------- MODULE FrameworkMC ----------------------------
(***************************************************************************)
(* The modules above the connection, and the transport below it. A         *)
(* behaviour is one of one part, chosen in the initial state: the parts    *)
(* have no state in common, and all others stay as they are. The constants *)
(* of the parts are this module's, with the values of a small instance in  *)
(* the configuration.                                                      *)
(***************************************************************************)
EXTENDS
    Integers, Sequences, FiniteSets, TLC, LicenseFlow, PackageNames, AppInfoCache, TradeOffers,
    InventoryFlow, CardFarming, WebSession, UnifiedMessages, Boards, Sales, Streams, Transport,
    ServerList, Presence, FreeLicenses, Accounts, Eligibility, Cloud, TradePages, UserInterface,
    AsioFibers, KeyValues, Messages, CookieJars, Ciphers, Identifiers, Parsing

VARIABLE
    part    \* the part whose turn it is

-----------------------------------------------------------------------------
\* LicenseFlow: lists that bring another package, and one with an owned and a family
\* licence for the same package; one package loses an app, the other comes to name one twice.
License(p, family) == [pkg |-> p, family |-> family]
MCLists == {<<License("p", FALSE)>>, <<License("p", TRUE), License("q", TRUE), License("p", FALSE)>>}
MCAppsOf == ("p" :> << <<"x", "y">>, <<"y">> >>) @@ ("q" :> << <<"y">>, <<"x", "x">> >>)

\* PackageNames: pages with every kind of line and button, and a removal form.
Row(kind, p) == [kind |-> kind, pkg |-> p]
Page(rows, buttons, details) == [rows |-> rows, buttons |-> buttons, details |-> details]
MCAppsIn == ("p" :> {"x", "y"}) @@ ("q" :> {"x"})
MCPages ==
    ("x" :> {Page(<<Row("activation", "p"), Row("inventory", "q"), Row("receipt", "q")>>,
                  <<Row("named", "p"), Row("mute", "q")>>, << >>),
             Page(<<Row("revoked", "p"), Row("receipt", "p"), Row("purchase", "q")>>,
                  <<Row("mute", "p"), Row("mute", "q")>>, << >>),
             Page(<<Row("other", "p"), Row("activation", "p"), Row("activation", "q")>>,
                  <<Row("mute", "p"), Row("mute", "q")>>, << >>)})
    @@ ("y" :> {Page(<<Row("other", "p")>>, <<Row("form", "p")>>, <<"p">>)})

\* AppInfoCache: the game g has two DLCs, one of which lists the other, and the server
\* has nothing about h.
MCDlcs == [a \in {"g", "h", "d", "e"} |-> CASE a = "g" -> {"d", "e"} [] a = "e" -> {"d"} [] OTHER -> {}]
MCWanted == ("m1" :> {"g"}) @@ ("m2" :> {"g", "e", "h"})

\* WebSession: one request for a store page, the others for the community.
MCHostOf == [r \in {"r1", "r2", "r3"} |->
              IF r = "r1" THEN <<"store", "steampowered", "com">> ELSE <<"steamcommunity", "com">>]

\* InventoryFlow, CardFarming, Eligibility, Cloud: two pages of an inventory; games that
\* are farmed together until a card drops, and one that could be refunded; a file that
\* cannot be read.
MCKeyOf == [i \in {"i1", "i2"} |-> "k"]
MCAppOfKey == [k \in {"k"} |-> "x"]
MCPageOf == [i \in {"i1", "i2"} |-> IF i = "i1" THEN 1 ELSE 2]
MCEarned == [g \in {"x", "y", "z"} |-> 1]
MCStartPlaytime == [g \in {"x", "y", "z"} |-> 1]
MCNever == 0 - 1
MCCloudFiles == <<"f", "g", "h">>

\* KeyValues, Messages: two kinds of values, and a protobuf and a simple message.
MCLeaves == {[type |-> "String", value |-> "v"], [type |-> "Int32", value |-> "i"]}
MCHeaderOf == ("Hello" :> "ProtoBuf") @@ ("Off" :> "Simple")
MCContentOf == ("Hello" :> <<Sized("a", 2), Sized("b", 2)>>)
               @@ ("Off" :> <<Sized("result", 4), Sized("min", 4)>>)

\* CookieJars: cookies for the host of the url and for given domains, set and removed.
Steam == <<"steampowered", "com">>
Shop == <<"store", "steampowered", "com">>
Pair(k, v) == [key |-> k, value |-> v]
MCHosts == {Shop, Steam}
MCAddresses == {<<"address">>}
MCSetCookies ==
    {<<Pair("a", <<"1">>)>>, <<Pair("a", <<"2">>), Pair("Domain", Steam)>>,
     <<Pair("a", <<>>), Pair("Domain", <<>>)>>, <<Pair("a", <<>>), Pair("Domain", Steam)>>,
     <<Pair("", <<"1">>), Pair("Path", <<"/">>), Pair("Domain", Shop), Pair("Domain", Steam)>>}

\* Cloud: a good table, and one each with a bad heading, cell and number of cells.
Heading == [section |-> "thead", cells |-> <<"Game", "Number Of Files", "Total Size Of Files">>]
RowOf(cells) == [section |-> "tbody", cells |-> cells]
GoodRow == RowOf(<<"text", "number", "size", "link">>)
MCCloudPages ==
    {<<Heading, GoodRow, GoodRow>>, <<[Heading EXCEPT !.cells = Append(@, "text")], GoodRow>>,
     <<Heading, GoodRow, RowOf(<<"text", "text", "size", "link">>), GoodRow>>,
     <<GoodRow, RowOf(<<"text", "number", "size">>)>>}

\* UserInterface: one client says two things, each of them asks for something else.
MCAsks == ("f" :> "AccountPassword") @@ ("g" :> "SteamGuard_App")
MCMaxTexts == ("f" :> 2) @@ ("g" :> 0)

\* Identifiers: no bits, some, and more than fit into most fields; and a count of jobs that
\* is about to leave its 20 bits.
MCFieldValues == {{}, {0, 3}, 0..31}
MCSequences == {0, 2^20 - 2}

\* Parsing: all short elements with two texts, strings and documents.
UpTo(n, chars) == UNION {[1..k -> chars] : k \in 0..n}
MCElements == UpTo(3, {"a", "A", " ", "\n"}) \X UpTo(2, {"a", " ", "\n"})
MCLowerOf == "A" :> "a"
MCStrings == {<<c>> \o s : c \in {"1", "a"}, s \in UpTo(7, {"1", "/", "a"})}
MCClassNames == {<<"a">>, <<"a", "a">>}
MCPaths == {<<"x">>, <<"y">>, <<"x", "x">>, <<"x", "y">>, <<"x", "y", "z">>}

\* What each module assumes of its constants.
ASSUME InstancesAreSound ==
    /\ FlowAssumption /\ NamesAssumption /\ CacheAssumption /\ TradeAssumption
    /\ InventoryAssumption /\ FarmAssumption /\ WebAssumption /\ CallAssumption
    /\ BoardAssumption /\ SaleAssumption /\ StreamAssumption /\ TransportAssumption
    /\ ListAssumption /\ PresenceAssumption /\ FreeAssumption
    /\ KeyValueAssumption /\ MessageAssumption /\ JarAssumption /\ AccountAssumption
    /\ EligibilityAssumption /\ CloudAssumption /\ PageAssumption
    /\ UiAssumption /\ CipherAssumption /\ IdAssumption
    /\ FiberAssumption /\ ParsingAssumption

Parts == {"licences", "names", "appInfos", "offers", "inventory", "farming", "web", "calls",
           "boards", "sales", "streams", "transport", "servers", "presence", "free", "trees",
           "messages", "cookies", "accounts", "eligibility", "cloud", "pages", "ui", "ciphers",
           "ids", "fibers", "parsing"}

Init ==
    /\ part \in Parts
    \* the parts that have no turn have one initial state each
    /\ FlowInit
    /\ part # "licences" => file = << >> /\ version = [p \in Packages |-> 1]
    /\ NamesInit
    /\ CacheInit
    /\ TradeInit
    /\ InventoryInit
    /\ FarmInit
    /\ WebInit
    /\ CallInit
    /\ BoardInit
    /\ SaleInit
    /\ StreamInit
    /\ NetInit
    /\ ListInit
    /\ PresenceInit
    /\ part # "presence" => tradeToken = "none"
    /\ FreeInit
    /\ KvInit
    /\ part # "trees" => form = "own"
    /\ MsgInit
    /\ part # "messages" => ~loggedOn
    /\ JarInit
    /\ AccountInit
    /\ part # "accounts" => fileSettings = [a \in Accounts |-> [k \in Kinds |-> "b"]]
    /\ BpeInit
    /\ part # "eligibility" => logoff = [a \in BpeAccounts |-> 0]
    /\ CloudInit
    /\ PageInit
    /\ part # "pages" => direction = "Incoming"
    /\ UiInit
    /\ CipherInit
    /\ part # "ciphers" => plaintext.size = 0 /\ cipherOf.sender = "AES" /\ cipherOf.receiver = "AES"
    /\ IdInit
    /\ part # "ids" => idKind = "GlobalID" /\ jobSeq = 0
    /\ FiberInit
    /\ ParsingInit
    /\ part # "parsing" => question.kind = "none"

\* The parts that have no turn stay as they are.
Only(p) ==
    /\ part = p /\ part' = part
    /\ p # "licences" => UNCHANGED flowVars
    /\ p # "names" => UNCHANGED nameVars
    /\ p # "appInfos" => UNCHANGED cacheVars
    /\ p # "offers" => UNCHANGED tradeVars
    /\ p # "inventory" => UNCHANGED inventoryVars
    /\ p # "farming" => UNCHANGED farmVars
    /\ p # "web" => UNCHANGED webVars
    /\ p # "calls" => UNCHANGED callVars
    /\ p # "boards" => UNCHANGED boardVars
    /\ p # "sales" => UNCHANGED saleVars
    /\ p # "streams" => UNCHANGED streamVars
    /\ p # "transport" => UNCHANGED netVars
    /\ p # "servers" => UNCHANGED listVars
    /\ p # "presence" => UNCHANGED presenceVars
    /\ p # "free" => UNCHANGED freeVars
    /\ p # "trees" => UNCHANGED kvVars
    /\ p # "messages" => UNCHANGED msgVars
    /\ p # "cookies" => UNCHANGED jarVars
    /\ p # "accounts" => UNCHANGED accountVars
    /\ p # "eligibility" => UNCHANGED bpeVars
    /\ p # "cloud" => UNCHANGED cloudVars
    /\ p # "pages" => UNCHANGED pageParserVars
    /\ p # "ui" => UNCHANGED uiVars
    /\ p # "ciphers" => UNCHANGED cipherVars
    /\ p # "ids" => UNCHANGED idVars
    /\ p # "fibers" => UNCHANGED fiberVars
    /\ p # "parsing" => UNCHANGED parsingVars

Next ==
    \/ Only("licences") /\ FlowNext
    \/ Only("names") /\ NamesNext
    \/ Only("appInfos") /\ CacheNext
    \/ Only("offers") /\ TradeNext
    \/ Only("inventory") /\ InventoryNext
    \/ Only("farming") /\ FarmNext
    \/ Only("web") /\ WebNext
    \/ Only("calls") /\ CallNext
    \/ Only("boards") /\ BoardNext
    \/ Only("sales") /\ SaleNext
    \/ Only("streams") /\ StreamNext
    \/ Only("transport") /\ NetNext
    \/ Only("servers") /\ ListNext
    \/ Only("presence") /\ PresenceNext
    \/ Only("free") /\ FreeNext
    \/ Only("trees") /\ KvNext
    \/ Only("messages") /\ MsgNext
    \/ Only("cookies") /\ JarNext
    \/ Only("accounts") /\ AccountNext
    \/ Only("eligibility") /\ BpeNext
    \/ Only("cloud") /\ CloudNext
    \/ Only("pages") /\ PageNext
    \/ Only("ui") /\ UiNext
    \/ Only("ciphers") /\ CipherNext
    \/ Only("ids") /\ IdNext
    \/ Only("fibers") /\ FiberNext
    \/ Only("parsing") /\ ParsingNext

frameworkVars == <<part, flowVars, nameVars, cacheVars, tradeVars, inventoryVars, farmVars,
                   webVars, callVars, boardVars, saleVars, streamVars, netVars, listVars,
                   presenceVars, freeVars, kvVars, msgVars, jarVars, accountVars,
                   bpeVars, cloudVars, pageParserVars, uiVars, cipherVars, idVars, fiberVars,
                   parsingVars>>

Spec == Init /\ [][Next]_frameworkVars

-----------------------------------------------------------------------------
\* Type invariant.
FrameworkTypeOK ==
    /\ part = "licences" => FlowTypeOK
    /\ part = "names" => NamesTypeOK
    /\ part = "appInfos" => CacheTypeOK
    /\ part = "offers" => TradeTypeOK
    /\ part = "inventory" => InventoryTypeOK
    /\ part = "farming" => FarmTypeOK
    /\ part = "web" => WebTypeOK
    /\ part = "calls" => CallTypeOK
    /\ part = "boards" => BoardTypeOK
    /\ part = "sales" => SaleTypeOK
    /\ part = "streams" => StreamTypeOK
    /\ part = "transport" => NetTypeOK
    /\ part = "servers" => ListTypeOK
    /\ part = "presence" => PresenceTypeOK
    /\ part = "free" => FreeTypeOK
    /\ part = "trees" => KvTypeOK
    /\ part = "messages" => MsgTypeOK
    /\ part = "cookies" => JarTypeOK
    /\ part = "accounts" => AccountTypeOK
    /\ part = "eligibility" => BpeTypeOK
    /\ part = "cloud" => CloudTypeOK
    /\ part = "pages" => PageTypeOK
    /\ part = "ui" => UiTypeOK
    /\ part = "ciphers" => CipherTypeOK
    /\ part = "ids" => IdTypeOK
    /\ part = "fibers" => FiberTypeOK
    /\ part = "parsing" => ParsingTypeOK

\* What one fiber announces reaches every fiber that is meant to notice: board items,
\* messages and open trade offers, however the announcements fall between a fiber's
\* looks; every free license that was added is asked for, and reported if it is in the list
\* whenever the module looks; every file and app that a page of the cloud lists is found;
\* what is said to the user is shown in order; the login is recorded and Steam hears of the
\* client in every interval; no account is overdue while the timer that looks after them
\* runs; and while the Asio thread sleeps though another thread has woken one of its fibers,
\* a call of notify() is under way or some timer is armed, which may be for any time
\* (Whiteboard.hpp, Messageboard.hpp,
\* TradeOffers.cpp:224-318, AddFreeLicense.cpp:150-268, Cloud/Files.cpp:130-169,
\* Cloud/Apps.cpp, UI.cpp:193-239, LoginTracking.cpp, Heartbeat.cpp,
\* MaintainBPE.cpp:77-219, round_robin.hpp:70-182).
NothingIsMissed ==
    /\ part = "boards" => NoChangeMissed /\ NoMessageMissed /\ NoItemLeftListed
    /\ part = "offers" => NoOfferLost /\ AutoLoadFollows
    /\ part = "free" => NoRequestLost /\ ReportedIsHere /\ ReportedAtOnce
    /\ part = "cloud" => FilesAreComplete /\ AppsAreTheRows
    /\ part = "ui" => TextsInOrder
    /\ part = "presence" => LoginIsRecorded /\ NeverSilent
    /\ part = "eligibility" => TimerIsInTime
    /\ part = "fibers" => WakeupsArrive /\ SleepersAreTimed

\* Whoever waits for an answer can still get it, and gets his own: makeQuery(), calls of
\* Steam's services, start() and stop() of a stream, the list of servers, prompts, and
\* those who only wait for what another fiber does; and nothing goes out for a stream that
\* its caller has stopped. That is as long as the process runs: WebSession ends it when
\* there is no token to be had, or in an assertion if it sends the cookie of an expired one
\* (WebSession.cpp, UnifiedMessageClient.cpp, ViewStream.cpp,
\* GetCMList.cpp, UI.cpp, SaleQueue.cpp, DiscoveryQueue.cpp).
CallersAreAnswered ==
    /\ part = "web" => QueriesAreServed /\ EndsForATokenOnly
    /\ part = "calls" => EveryCallIsAnswered /\ FirstAnswerHasContent /\ ListMatchesCalls
    /\ part = "streams" => CallersHaveFunctions /\ OnlyLiveStreamsBeat
    /\ part = "servers" => AskersAreKnown
    /\ part = "ui" => PromptsAreServed /\ EndsWhenTold
    /\ part = "sales" => WaitersGetFreshResults

\* What must be done by one fiber at a time is: fetching an access token, clearing a
\* queue, asking for a server list or for package names; a url that a caller lends and the
\* offer a parser points into are only used while they are there; and the mutexes of the
\* accounts are waited for in a circle only by a client that loads a bot name and a thread
\* that looks through the accounts' files (WebSession.cpp:121-145,
\* GetCMList.cpp:133-243, PackageInfo.cpp:1139-1206, ViewStream.cpp:417-466,
\* TradeOffersParser.cpp:33-144, ClientInfo.cpp:123-151, 307-376).
OneAtATime ==
    /\ part = "web" => OneTokenAtATime
    /\ part = "servers" => OneQueryPerCell
    /\ part = "sales" => OneWorkerEach
    /\ part = "names" => OneAsks
    /\ part = "streams" => UrlPointersAreValid
    /\ part = "pages" => PointersAreCurrent
    /\ part = "accounts" => OnlyBotNamesBlock

\* What is kept for later use is still right when it is used, and gets to its file: the
\* inventory, the descriptions that were fetched, the licences as they were read, the
\* package data they need and its index, app infos, package names, the server list, the
\* settings, and the keys the two ends of a connection have. Known gaps are exempt: a
\* package that names an app twice, a file whose write has failed, a bot name whose bot
\* came later (Inventory.cpp, AssetData.cpp,
\* LicenseList.cpp:207-286, PackageData.cpp:239-465, CacheFile.cpp:54-69,
\* PackageInfo.cpp:146-193, 824-945, GetCMList.cpp:213-243, Settings.cpp,
\* Encrypted.cpp:137-302).
CachesAreCurrent ==
    /\ part = "inventory" => InventoryIsCurrent /\ DescriptionsStay /\ OffersFit
    /\ part = "licences" => IndexMatches /\ FileHasStore /\ ListReadRight /\ PackagesSettled
    /\ part = "appInfos" => UnsavedIsMarked
    /\ part = "names" => AllSaved
    /\ part = "servers" => ListsAreFresh
    /\ part = "accounts" => SettingsAreTheFiles
    /\ part = "transport" => KeysAgree /\ EngineFollowsState

\* What is read, be it a message, an encrypted packet, a field of an id, a tree of key
\* values, cookies, a page of offers, an element, an item or a JSON document, is what was
\* written, and no package is given the name of another (PackageInfo.cpp:824-945,
\* Message.cpp, AESBase.cpp, AESHMAC.cpp, BitField.hpp, KeyValue_*.cpp, CookieJar.cpp,
\* BasicQuery.cpp:244-257, TradeOffersParser.cpp, HTML.cpp, AssetKey.cpp, JSON.hpp).
RecordsAreRight ==
    /\ part = "names" => NamesMatch /\ PageAssertions
    /\ part = "messages" => MessagesReadBack
    /\ part = "trees" => TreesReadBack
    /\ part = "cookies" => JarIsLatest /\ FirstUrlGetsOwnCookies
    /\ part = "pages" => OffersAreAsWritten
    /\ part = "ciphers" => TextsReadBack /\ BuffersSuffice
    /\ part = "ids" => FieldsAreApart /\ JobsDiffer
    /\ part = "parsing" => TextsAreRight /\ ItemsAreAsWritten /\ DocumentsAreRight

\* Steam is told of the games that PlayGames has and has not paused, and when no message
\* is on its way these are the ones the card farmer has chosen by its rules: none while it
\* is disabled, none that could be refunded, and several only to collect playtime. All of
\* them are shown; games that are not played any more may be shown as well (ShownIsPlayed)
\* (CardFarmer.cpp:117-154, 217-476, PlayGames.cpp:188-341).
PlaysWhatIsFarmed ==
    /\ part = "farming" => ChosenGamesArePlayed /\ PlayingIsShown /\ FarmsByTheRules

\* No step makes a record older or smaller: what the file of app infos holds survives a
\* crash between any two steps, unless a write that failed was renamed over it, and package
\* data is never replaced by older data (DataFile.cpp:117-133, PackageData.cpp:432-445).
NothingGoesBack ==
    [][/\ disk \subseteq disk' \/ "file" \in truncated'
       /\ \A p \in DOMAIN data : p \in DOMAIN data' /\ data'[p].change >= data[p].change]_<<disk, data>>

=============================================================================
