-------------------------- MODULE FrameworkProofs ---------------------------
(***************************************************************************)
(* What holds of each part of FrameworkMC holds of the whole: for all      *)
(* values of the constants, a behaviour of Spec is one of every part, that *)
(* of a part without a turn being that it stays as it is. The parts are    *)
(* about the constants of FrameworkMC, so the theorems on them apply.      *)
(***************************************************************************)
EXTENDS FrameworkMC, StateProofs, CodecProofs, ParsingProofs

-----------------------------------------------------------------------------
(* The parts                                                               *)

(* Every behaviour is one of web sessions. The other parts leave its       *)
(* variables as they are.                                                  *)
LEMMA WebPart ==
  Spec => WebSpec
<1>1. Init => WebInit
  BY DEF Init
<1>2. ASSUME NEW p, Only(p), p # "web"
      PROVE  UNCHANGED webVars
  BY <1>2 DEF Only
<1>3. Next => WebNext \/ UNCHANGED webVars
  <2>1. Next => WebNext \/ \E p : Only(p) /\ p # "web"
    BY DEF Next
  <2>2. QED
    BY <1>2, <2>1
<1>4. [Next]_frameworkVars => [WebNext]_webVars
  <2>1. UNCHANGED frameworkVars => UNCHANGED webVars
    BY DEF frameworkVars
  <2>2. QED
    BY <1>3, <2>1
<1>5. QED
  BY <1>1, <1>4, PTL DEF Spec, WebSpec

(* Every behaviour is one of calls of services.                            *)
LEMMA CallPart ==
  Spec => CallSpec
<1>1. Init => CallInit
  BY DEF Init
<1>2. ASSUME NEW p, Only(p), p # "calls"
      PROVE  UNCHANGED callVars
  BY <1>2 DEF Only
<1>3. Next => CallNext \/ UNCHANGED callVars
  <2>1. Next => CallNext \/ \E p : Only(p) /\ p # "calls"
    BY DEF Next
  <2>2. QED
    BY <1>2, <2>1
<1>4. [Next]_frameworkVars => [CallNext]_callVars
  <2>1. UNCHANGED frameworkVars => UNCHANGED callVars
    BY DEF frameworkVars
  <2>2. QED
    BY <1>3, <2>1
<1>5. QED
  BY <1>1, <1>4, PTL DEF Spec, CallSpec

(* Every behaviour is one of the boards.                                   *)
LEMMA BoardPart ==
  Spec => BoardSpec
<1>1. Init => BoardInit
  BY DEF Init
<1>2. ASSUME NEW p, Only(p), p # "boards"
      PROVE  UNCHANGED boardVars
  BY <1>2 DEF Only
<1>3. Next => BoardNext \/ UNCHANGED boardVars
  <2>1. Next => BoardNext \/ \E p : Only(p) /\ p # "boards"
    BY DEF Next
  <2>2. QED
    BY <1>2, <2>1
<1>4. [Next]_frameworkVars => [BoardNext]_boardVars
  <2>1. UNCHANGED frameworkVars => UNCHANGED boardVars
    BY DEF frameworkVars
  <2>2. QED
    BY <1>3, <2>1
<1>5. QED
  BY <1>1, <1>4, PTL DEF Spec, BoardSpec

(* Every behaviour is one of the sale and discovery queues.                *)
LEMMA SalePart ==
  Spec => SaleSpec
<1>1. Init => SaleInit
  BY DEF Init
<1>2. ASSUME NEW p, Only(p), p # "sales"
      PROVE  UNCHANGED saleVars
  BY <1>2 DEF Only
<1>3. Next => SaleNext \/ UNCHANGED saleVars
  <2>1. Next => SaleNext \/ \E p : Only(p) /\ p # "sales"
    BY DEF Next
  <2>2. QED
    BY <1>2, <2>1
<1>4. [Next]_frameworkVars => [SaleNext]_saleVars
  <2>1. UNCHANGED frameworkVars => UNCHANGED saleVars
    BY DEF frameworkVars
  <2>2. QED
    BY <1>3, <2>1
<1>5. QED
  BY <1>1, <1>4, PTL DEF Spec, SaleSpec

(* Every behaviour is one of streams.                                      *)
LEMMA StreamPart ==
  Spec => StreamSpec
<1>1. Init => StreamInit
  BY DEF Init
<1>2. ASSUME NEW p, Only(p), p # "streams"
      PROVE  UNCHANGED streamVars
  BY <1>2 DEF Only
<1>3. Next => StreamNext \/ UNCHANGED streamVars
  <2>1. Next => StreamNext \/ \E p : Only(p) /\ p # "streams"
    BY DEF Next
  <2>2. QED
    BY <1>2, <2>1
<1>4. [Next]_frameworkVars => [StreamNext]_streamVars
  <2>1. UNCHANGED frameworkVars => UNCHANGED streamVars
    BY DEF frameworkVars
  <2>2. QED
    BY <1>3, <2>1
<1>5. QED
  BY <1>1, <1>4, PTL DEF Spec, StreamSpec

(* Every behaviour is one of the server lists.                             *)
LEMMA ListPart ==
  Spec => ListSpec
<1>1. Init => ListInit
  BY DEF Init
<1>2. ASSUME NEW p, Only(p), p # "servers"
      PROVE  UNCHANGED listVars
  BY <1>2 DEF Only
<1>3. Next => ListNext \/ UNCHANGED listVars
  <2>1. Next => ListNext \/ \E p : Only(p) /\ p # "servers"
    BY DEF Next
  <2>2. QED
    BY <1>2, <2>1
<1>4. [Next]_frameworkVars => [ListNext]_listVars
  <2>1. UNCHANGED frameworkVars => UNCHANGED listVars
    BY DEF frameworkVars
  <2>2. QED
    BY <1>3, <2>1
<1>5. QED
  BY <1>1, <1>4, PTL DEF Spec, ListSpec

(* Every behaviour is one of licences and package data.                    *)
LEMMA FlowPart ==
  Spec => FlowSpec
<1>1. Init => FlowInit
  BY DEF Init
<1>2. ASSUME NEW p, Only(p), p # "licences"
      PROVE  UNCHANGED flowVars
  BY <1>2 DEF Only
<1>3. Next => FlowNext \/ UNCHANGED flowVars
  <2>1. Next => FlowNext \/ \E p : Only(p) /\ p # "licences"
    BY DEF Next
  <2>2. QED
    BY <1>2, <2>1
<1>4. [Next]_frameworkVars => [FlowNext]_flowVars
  <2>1. UNCHANGED frameworkVars => UNCHANGED flowVars
    BY DEF frameworkVars
  <2>2. QED
    BY <1>3, <2>1
<1>5. QED
  BY <1>1, <1>4, PTL DEF Spec, FlowSpec

(* Every behaviour is one of app infos.                                    *)
LEMMA CachePart ==
  Spec => CacheSpec
<1>1. Init => CacheInit
  BY DEF Init
<1>2. ASSUME NEW p, Only(p), p # "appInfos"
      PROVE  UNCHANGED cacheVars
  BY <1>2 DEF Only
<1>3. Next => CacheNext \/ UNCHANGED cacheVars
  <2>1. Next => CacheNext \/ \E p : Only(p) /\ p # "appInfos"
    BY DEF Next
  <2>2. QED
    BY <1>2, <2>1
<1>4. [Next]_frameworkVars => [CacheNext]_cacheVars
  <2>1. UNCHANGED frameworkVars => UNCHANGED cacheVars
    BY DEF frameworkVars
  <2>2. QED
    BY <1>3, <2>1
<1>5. QED
  BY <1>1, <1>4, PTL DEF Spec, CacheSpec

(* Every behaviour is one of package names.                                *)
LEMMA NamesPart ==
  Spec => NamesSpec
<1>1. Init => NamesInit
  BY DEF Init
<1>2. ASSUME NEW p, Only(p), p # "names"
      PROVE  UNCHANGED nameVars
  BY <1>2 DEF Only
<1>3. Next => NamesNext \/ UNCHANGED nameVars
  <2>1. Next => NamesNext \/ \E p : Only(p) /\ p # "names"
    BY DEF Next
  <2>2. QED
    BY <1>2, <2>1
<1>4. [Next]_frameworkVars => [NamesNext]_nameVars
  <2>1. UNCHANGED frameworkVars => UNCHANGED nameVars
    BY DEF frameworkVars
  <2>2. QED
    BY <1>3, <2>1
<1>5. QED
  BY <1>1, <1>4, PTL DEF Spec, NamesSpec

(* Every behaviour is one of the inventory.                                *)
LEMMA InventoryPart ==
  Spec => InventorySpec
<1>1. Init => InventoryInit
  BY DEF Init
<1>2. ASSUME NEW p, Only(p), p # "inventory"
      PROVE  UNCHANGED inventoryVars
  BY <1>2 DEF Only
<1>3. Next => InventoryNext \/ UNCHANGED inventoryVars
  <2>1. Next => InventoryNext \/ \E p : Only(p) /\ p # "inventory"
    BY DEF Next
  <2>2. QED
    BY <1>2, <2>1
<1>4. [Next]_frameworkVars => [InventoryNext]_inventoryVars
  <2>1. UNCHANGED frameworkVars => UNCHANGED inventoryVars
    BY DEF frameworkVars
  <2>2. QED
    BY <1>3, <2>1
<1>5. QED
  BY <1>1, <1>4, PTL DEF Spec, InventorySpec

(* Every behaviour is one of trade offers.                                 *)
LEMMA TradePart ==
  Spec => TradeSpec
<1>1. Init => TradeInit
  BY DEF Init
<1>2. ASSUME NEW p, Only(p), p # "offers"
      PROVE  UNCHANGED tradeVars
  BY <1>2 DEF Only
<1>3. Next => TradeNext \/ UNCHANGED tradeVars
  <2>1. Next => TradeNext \/ \E p : Only(p) /\ p # "offers"
    BY DEF Next
  <2>2. QED
    BY <1>2, <2>1
<1>4. [Next]_frameworkVars => [TradeNext]_tradeVars
  <2>1. UNCHANGED frameworkVars => UNCHANGED tradeVars
    BY DEF frameworkVars
  <2>2. QED
    BY <1>3, <2>1
<1>5. QED
  BY <1>1, <1>4, PTL DEF Spec, TradeSpec

(* Every behaviour is one of the parser of trade offers.                   *)
LEMMA PagePart ==
  Spec => PageSpec
<1>1. Init => PageInit
  BY DEF Init
<1>2. ASSUME NEW p, Only(p), p # "pages"
      PROVE  UNCHANGED pageParserVars
  BY <1>2 DEF Only
<1>3. Next => PageNext \/ UNCHANGED pageParserVars
  <2>1. Next => PageNext \/ \E p : Only(p) /\ p # "pages"
    BY DEF Next
  <2>2. QED
    BY <1>2, <2>1
<1>4. [Next]_frameworkVars => [PageNext]_pageParserVars
  <2>1. UNCHANGED frameworkVars => UNCHANGED pageParserVars
    BY DEF frameworkVars
  <2>2. QED
    BY <1>3, <2>1
<1>5. QED
  BY <1>1, <1>4, PTL DEF Spec, PageSpec

(* Every behaviour is one of the games.                                    *)
LEMMA FarmPart ==
  Spec => FarmSpec
<1>1. Init => FarmInit
  BY DEF Init
<1>2. ASSUME NEW p, Only(p), p # "farming"
      PROVE  UNCHANGED farmVars
  BY <1>2 DEF Only
<1>3. Next => FarmNext \/ UNCHANGED farmVars
  <2>1. Next => FarmNext \/ \E p : Only(p) /\ p # "farming"
    BY DEF Next
  <2>2. QED
    BY <1>2, <2>1
<1>4. [Next]_frameworkVars => [FarmNext]_farmVars
  <2>1. UNCHANGED frameworkVars => UNCHANGED farmVars
    BY DEF frameworkVars
  <2>2. QED
    BY <1>3, <2>1
<1>5. QED
  BY <1>1, <1>4, PTL DEF Spec, FarmSpec

(* Every behaviour is one of the accounts.                                 *)
LEMMA AccountPart ==
  Spec => AccountSpec
<1>1. Init => AccountInit
  BY DEF Init
<1>2. ASSUME NEW p, Only(p), p # "accounts"
      PROVE  UNCHANGED accountVars
  BY <1>2 DEF Only
<1>3. Next => AccountNext \/ UNCHANGED accountVars
  <2>1. Next => AccountNext \/ \E p : Only(p) /\ p # "accounts"
    BY DEF Next
  <2>2. QED
    BY <1>2, <2>1
<1>4. [Next]_frameworkVars => [AccountNext]_accountVars
  <2>1. UNCHANGED frameworkVars => UNCHANGED accountVars
    BY DEF frameworkVars
  <2>2. QED
    BY <1>3, <2>1
<1>5. QED
  BY <1>1, <1>4, PTL DEF Spec, AccountSpec

(* Every behaviour is one of the accounts kept eligible for booster packs. *)
LEMMA BpePart ==
  Spec => BpeSpec
<1>1. Init => BpeInit
  BY DEF Init
<1>2. ASSUME NEW p, Only(p), p # "eligibility"
      PROVE  UNCHANGED bpeVars
  BY <1>2 DEF Only
<1>3. Next => BpeNext \/ UNCHANGED bpeVars
  <2>1. Next => BpeNext \/ \E p : Only(p) /\ p # "eligibility"
    BY DEF Next
  <2>2. QED
    BY <1>2, <2>1
<1>4. [Next]_frameworkVars => [BpeNext]_bpeVars
  <2>1. UNCHANGED frameworkVars => UNCHANGED bpeVars
    BY DEF frameworkVars
  <2>2. QED
    BY <1>3, <2>1
<1>5. QED
  BY <1>1, <1>4, PTL DEF Spec, BpeSpec

(* Every behaviour is one of the user interface.                           *)
LEMMA UiPart ==
  Spec => UiSpec
<1>1. Init => UiInit
  BY DEF Init
<1>2. ASSUME NEW p, Only(p), p # "ui"
      PROVE  UNCHANGED uiVars
  BY <1>2 DEF Only
<1>3. Next => UiNext \/ UNCHANGED uiVars
  <2>1. Next => UiNext \/ \E p : Only(p) /\ p # "ui"
    BY DEF Next
  <2>2. QED
    BY <1>2, <2>1
<1>4. [Next]_frameworkVars => [UiNext]_uiVars
  <2>1. UNCHANGED frameworkVars => UNCHANGED uiVars
    BY DEF frameworkVars
  <2>2. QED
    BY <1>3, <2>1
<1>5. QED
  BY <1>1, <1>4, PTL DEF Spec, UiSpec

(* Every behaviour is one of the fibers of the Asio thread.                *)
LEMMA FiberPart ==
  Spec => FiberSpec
<1>1. Init => FiberInit
  BY DEF Init
<1>2. ASSUME NEW p, Only(p), p # "fibers"
      PROVE  UNCHANGED fiberVars
  BY <1>2 DEF Only
<1>3. Next => FiberNext \/ UNCHANGED fiberVars
  <2>1. Next => FiberNext \/ \E p : Only(p) /\ p # "fibers"
    BY DEF Next
  <2>2. QED
    BY <1>2, <2>1
<1>4. [Next]_frameworkVars => [FiberNext]_fiberVars
  <2>1. UNCHANGED frameworkVars => UNCHANGED fiberVars
    BY DEF frameworkVars
  <2>2. QED
    BY <1>3, <2>1
<1>5. QED
  BY <1>1, <1>4, PTL DEF Spec, FiberSpec

(* Every behaviour is one of heartbeats and the login record.              *)
LEMMA PresencePart ==
  Spec => PresenceSpec
<1>1. Init => PresenceInit
  BY DEF Init
<1>2. ASSUME NEW p, Only(p), p # "presence"
      PROVE  UNCHANGED presenceVars
  BY <1>2 DEF Only
<1>3. Next => PresenceNext \/ UNCHANGED presenceVars
  <2>1. Next => PresenceNext \/ \E p : Only(p) /\ p # "presence"
    BY DEF Next
  <2>2. QED
    BY <1>2, <2>1
<1>4. [Next]_frameworkVars => [PresenceNext]_presenceVars
  <2>1. UNCHANGED frameworkVars => UNCHANGED presenceVars
    BY DEF frameworkVars
  <2>2. QED
    BY <1>3, <2>1
<1>5. QED
  BY <1>1, <1>4, PTL DEF Spec, PresenceSpec

(* Every behaviour is one of the transport.                                *)
LEMMA NetPart ==
  Spec => NetSpec
<1>1. Init => NetInit
  BY DEF Init
<1>2. ASSUME NEW p, Only(p), p # "transport"
      PROVE  UNCHANGED netVars
  BY <1>2 DEF Only
<1>3. Next => NetNext \/ UNCHANGED netVars
  <2>1. Next => NetNext \/ \E p : Only(p) /\ p # "transport"
    BY DEF Next
  <2>2. QED
    BY <1>2, <2>1
<1>4. [Next]_frameworkVars => [NetNext]_netVars
  <2>1. UNCHANGED frameworkVars => UNCHANGED netVars
    BY DEF frameworkVars
  <2>2. QED
    BY <1>3, <2>1
<1>5. QED
  BY <1>1, <1>4, PTL DEF Spec, NetSpec

(* Every behaviour is one of free licenses.                                *)
LEMMA FreePart ==
  Spec => FreeSpec
<1>1. Init => FreeInit
  BY DEF Init
<1>2. ASSUME NEW p, Only(p), p # "free"
      PROVE  UNCHANGED freeVars
  BY <1>2 DEF Only
<1>3. Next => FreeNext \/ UNCHANGED freeVars
  <2>1. Next => FreeNext \/ \E p : Only(p) /\ p # "free"
    BY DEF Next
  <2>2. QED
    BY <1>2, <2>1
<1>4. [Next]_frameworkVars => [FreeNext]_freeVars
  <2>1. UNCHANGED frameworkVars => UNCHANGED freeVars
    BY DEF frameworkVars
  <2>2. QED
    BY <1>3, <2>1
<1>5. QED
  BY <1>1, <1>4, PTL DEF Spec, FreeSpec

(* Every behaviour is one of the files and apps in the cloud.              *)
LEMMA CloudPart ==
  Spec => CloudSpec
<1>1. Init => CloudInit
  BY DEF Init
<1>2. ASSUME NEW p, Only(p), p # "cloud"
      PROVE  UNCHANGED cloudVars
  BY <1>2 DEF Only
<1>3. Next => CloudNext \/ UNCHANGED cloudVars
  <2>1. Next => CloudNext \/ \E p : Only(p) /\ p # "cloud"
    BY DEF Next
  <2>2. QED
    BY <1>2, <2>1
<1>4. [Next]_frameworkVars => [CloudNext]_cloudVars
  <2>1. UNCHANGED frameworkVars => UNCHANGED cloudVars
    BY DEF frameworkVars
  <2>2. QED
    BY <1>3, <2>1
<1>5. QED
  BY <1>1, <1>4, PTL DEF Spec, CloudSpec

(* Every behaviour is one of trees of key values.                          *)
LEMMA KvPart ==
  Spec => KvSpec
<1>1. Init => KvInit
  BY DEF Init
<1>2. ASSUME NEW p, Only(p), p # "trees"
      PROVE  UNCHANGED kvVars
  BY <1>2 DEF Only
<1>3. Next => KvNext \/ UNCHANGED kvVars
  <2>1. Next => KvNext \/ \E p : Only(p) /\ p # "trees"
    BY DEF Next
  <2>2. QED
    BY <1>2, <2>1
<1>4. [Next]_frameworkVars => [KvNext]_kvVars
  <2>1. UNCHANGED frameworkVars => UNCHANGED kvVars
    BY DEF frameworkVars
  <2>2. QED
    BY <1>3, <2>1
<1>5. QED
  BY <1>1, <1>4, PTL DEF Spec, KvSpec

(* Every behaviour is one of messages.                                     *)
LEMMA MsgPart ==
  Spec => MsgSpec
<1>1. Init => MsgInit
  BY DEF Init
<1>2. ASSUME NEW p, Only(p), p # "messages"
      PROVE  UNCHANGED msgVars
  BY <1>2 DEF Only
<1>3. Next => MsgNext \/ UNCHANGED msgVars
  <2>1. Next => MsgNext \/ \E p : Only(p) /\ p # "messages"
    BY DEF Next
  <2>2. QED
    BY <1>2, <2>1
<1>4. [Next]_frameworkVars => [MsgNext]_msgVars
  <2>1. UNCHANGED frameworkVars => UNCHANGED msgVars
    BY DEF frameworkVars
  <2>2. QED
    BY <1>3, <2>1
<1>5. QED
  BY <1>1, <1>4, PTL DEF Spec, MsgSpec

(* Every behaviour is one of jars of cookies.                              *)
LEMMA JarPart ==
  Spec => JarSpec
<1>1. Init => JarInit
  BY DEF Init
<1>2. ASSUME NEW p, Only(p), p # "cookies"
      PROVE  UNCHANGED jarVars
  BY <1>2 DEF Only
<1>3. Next => JarNext \/ UNCHANGED jarVars
  <2>1. Next => JarNext \/ \E p : Only(p) /\ p # "cookies"
    BY DEF Next
  <2>2. QED
    BY <1>2, <2>1
<1>4. [Next]_frameworkVars => [JarNext]_jarVars
  <2>1. UNCHANGED frameworkVars => UNCHANGED jarVars
    BY DEF frameworkVars
  <2>2. QED
    BY <1>3, <2>1
<1>5. QED
  BY <1>1, <1>4, PTL DEF Spec, JarSpec

(* Every behaviour is one of encrypted packets.                            *)
LEMMA CipherPart ==
  Spec => CipherSpec
<1>1. Init => CipherInit
  BY DEF Init
<1>2. ASSUME NEW p, Only(p), p # "ciphers"
      PROVE  UNCHANGED cipherVars
  BY <1>2 DEF Only
<1>3. Next => CipherNext \/ UNCHANGED cipherVars
  <2>1. Next => CipherNext \/ \E p : Only(p) /\ p # "ciphers"
    BY DEF Next
  <2>2. QED
    BY <1>2, <2>1
<1>4. [Next]_frameworkVars => [CipherNext]_cipherVars
  <2>1. UNCHANGED frameworkVars => UNCHANGED cipherVars
    BY DEF frameworkVars
  <2>2. QED
    BY <1>3, <2>1
<1>5. QED
  BY <1>1, <1>4, PTL DEF Spec, CipherSpec

(* Every behaviour is one of identifiers.                                  *)
LEMMA IdPart ==
  Spec => IdSpec
<1>1. Init => IdInit
  BY DEF Init
<1>2. ASSUME NEW p, Only(p), p # "ids"
      PROVE  UNCHANGED idVars
  BY <1>2 DEF Only
<1>3. Next => IdNext \/ UNCHANGED idVars
  <2>1. Next => IdNext \/ \E p : Only(p) /\ p # "ids"
    BY DEF Next
  <2>2. QED
    BY <1>2, <2>1
<1>4. [Next]_frameworkVars => [IdNext]_idVars
  <2>1. UNCHANGED frameworkVars => UNCHANGED idVars
    BY DEF frameworkVars
  <2>2. QED
    BY <1>3, <2>1
<1>5. QED
  BY <1>1, <1>4, PTL DEF Spec, IdSpec

(* Every behaviour is one of texts and documents.                          *)
LEMMA ParsingPart ==
  Spec => ParsingSpec
<1>1. Init => ParsingInit
  BY DEF Init
<1>2. ASSUME NEW p, Only(p), p # "parsing"
      PROVE  UNCHANGED parsingVars
  BY <1>2 DEF Only
<1>3. Next => ParsingNext \/ UNCHANGED parsingVars
  <2>1. Next => ParsingNext \/ \E p : Only(p) /\ p # "parsing"
    BY DEF Next
  <2>2. QED
    BY <1>2, <2>1
<1>4. [Next]_frameworkVars => [ParsingNext]_parsingVars
  <2>1. UNCHANGED frameworkVars => UNCHANGED parsingVars
    BY DEF frameworkVars
  <2>2. QED
    BY <1>3, <2>1
<1>5. QED
  BY <1>1, <1>4, PTL DEF Spec, ParsingSpec

-----------------------------------------------------------------------------
(* The properties                                                          *)

(* What must be done by one fiber at a time is: access tokens, server      *)
(* lists, queues, package names; the pointers that are lent are used while *)
(* they are there; and the mutexes of the accounts are waited for in a     *)
(* circle only by a client that loads a bot name and a thread that looks   *)
(* through the accounts' files for a Steam id or display names.            *)
THEOREM WorkIsDoneOnce ==
  Spec => []OneAtATime
<1>1. /\ WebAssumption /\ ListAssumption /\ NamesAssumption /\ StreamAssumption
      /\ AccountAssumption
  BY InstancesAreSound
<1>2. Spec => [](OneTokenAtATime /\ QueriesAreServed /\ EndsForATokenOnly)
  BY <1>1, TokensAreAskedForOnce, WebPart, PTL
<1>3. Spec => [](OneQueryPerCell /\ AskersAreKnown /\ ListsAreFresh)
  BY <1>1, CallersGetFreshLists, ListPart, PTL
<1>4. Spec => [](OneWorkerEach /\ WaitersGetFreshResults)
  BY ClearsAreDoneOnce, SalePart, PTL
<1>5. Spec => [](OneAsks /\ AllSaved)
  BY <1>1, OneClientAsks, NamesPart, PTL
<1>6. Spec => [](CallersHaveFunctions /\ UrlPointersAreValid /\ OnlyLiveStreamsBeat)
  BY <1>1, CallersOfStreamsAreServed, StreamPart, PTL
<1>7. Spec => []PointersAreCurrent
  BY PointersOfParserAreCurrent, PagePart, PTL
<1>8. Spec => []OnlyBotNamesBlock
  BY <1>1, OneDeadlockOnly, AccountPart, PTL
<1>9. /\ OneTokenAtATime /\ QueriesAreServed /\ EndsForATokenOnly
      /\ OneQueryPerCell /\ AskersAreKnown /\ ListsAreFresh
      /\ OneWorkerEach /\ WaitersGetFreshResults
      /\ OneAsks /\ AllSaved
      /\ CallersHaveFunctions /\ UrlPointersAreValid /\ OnlyLiveStreamsBeat
      /\ PointersAreCurrent
      /\ OnlyBotNamesBlock
      => OneAtATime
  BY DEF OneAtATime
<1>10. QED
  BY <1>2, <1>3, <1>4, <1>5, <1>6, <1>7, <1>8, <1>9, PTL

(* As long as the process runs, whoever waits for an answer can still get  *)
(* it, and gets his own, in web sessions, calls of services, streams,      *)
(* server lists, prompts and queues; and a web session ends the process    *)
(* only when there is no token to be had, or with the cookie of an expired *)
(* one.                                                                    *)
THEOREM CallersAreServed ==
  Spec => []CallersAreAnswered
<1>1. /\ WebAssumption /\ CallAssumption /\ StreamAssumption /\ ListAssumption
      /\ UiAssumption
  BY InstancesAreSound
<1>2. Spec => [](OneTokenAtATime /\ QueriesAreServed /\ EndsForATokenOnly)
  BY <1>1, TokensAreAskedForOnce, WebPart, PTL
<1>3. Spec => [](EveryCallIsAnswered /\ FirstAnswerHasContent /\ ListMatchesCalls)
  BY <1>1, CallsAreAnswered, CallPart, PTL
<1>4. Spec => [](CallersHaveFunctions /\ UrlPointersAreValid /\ OnlyLiveStreamsBeat)
  BY <1>1, CallersOfStreamsAreServed, StreamPart, PTL
<1>5. Spec => [](OneQueryPerCell /\ AskersAreKnown /\ ListsAreFresh)
  BY <1>1, CallersGetFreshLists, ListPart, PTL
<1>6. Spec => [](PromptsAreServed /\ TextsInOrder /\ EndsWhenTold)
  BY <1>1, UserIsAskedAndTold, UiPart, PTL
<1>7. Spec => [](OneWorkerEach /\ WaitersGetFreshResults)
  BY ClearsAreDoneOnce, SalePart, PTL
<1>8. /\ OneTokenAtATime /\ QueriesAreServed /\ EndsForATokenOnly
      /\ EveryCallIsAnswered /\ FirstAnswerHasContent /\ ListMatchesCalls
      /\ CallersHaveFunctions /\ UrlPointersAreValid /\ OnlyLiveStreamsBeat
      /\ OneQueryPerCell /\ AskersAreKnown /\ ListsAreFresh
      /\ PromptsAreServed /\ TextsInOrder /\ EndsWhenTold
      /\ OneWorkerEach /\ WaitersGetFreshResults
      => CallersAreAnswered
  BY DEF CallersAreAnswered
<1>9. QED
  BY <1>2, <1>3, <1>4, <1>5, <1>6, <1>7, <1>8, PTL

(* What is announced is seen: items and messages of the boards, trade      *)
(* offers, licenses that are added or are in the list when the module      *)
(* looks, the files and apps on the pages of the cloud, texts, accounts    *)
(* that become overdue; Steam hears of the client in every interval; and   *)
(* for a fiber of the Asio thread that another thread has woken, notify()  *)
(* is under way or a timer is armed, at whatever time, while the thread    *)
(* sleeps.                                                                 *)
THEOREM AnnouncementsAreSeen ==
  Spec => []NothingIsMissed
<1>1. /\ BoardAssumption /\ TradeAssumption /\ UiAssumption /\ EligibilityAssumption
      /\ FiberAssumption /\ PresenceAssumption /\ FreeAssumption /\ CloudAssumption
  BY InstancesAreSound
<1>2. Spec => [](NoChangeMissed /\ NoMessageMissed /\ NoItemLeftListed)
  BY <1>1, AnnouncementsArrive, BoardPart, PTL
<1>3. Spec => [](NoOfferLost /\ AutoLoadFollows)
  BY <1>1, OffersAreNoticed, TradePart, PTL
<1>4. Spec => [](PromptsAreServed /\ TextsInOrder /\ EndsWhenTold)
  BY <1>1, UserIsAskedAndTold, UiPart, PTL
<1>5. Spec => []TimerIsInTime
  BY <1>1, TimerIsForTheOldest, BpePart, PTL
<1>6. Spec => [](WakeupsArrive /\ SleepersAreTimed)
  BY <1>1, SleepHasAnEnd, FiberPart, PTL
<1>7. Spec => [](NeverSilent /\ LoginIsRecorded)
  BY <1>1, ClientsStayPresent, PresencePart, PTL
<1>8. Spec => [](NoRequestLost /\ ReportedIsHere /\ ReportedAtOnce)
  BY <1>1, RequestsAreMadeOnce, FreePart, PTL
<1>9. Spec => [](FilesAreComplete /\ AppsAreTheRows)
  BY <1>1, CloudIsRead, CloudPart, PTL
<1>10. /\ NoChangeMissed /\ NoMessageMissed /\ NoItemLeftListed
       /\ NoOfferLost /\ AutoLoadFollows
       /\ PromptsAreServed /\ TextsInOrder /\ EndsWhenTold
       /\ TimerIsInTime
       /\ WakeupsArrive /\ SleepersAreTimed
       /\ NeverSilent /\ LoginIsRecorded
       /\ NoRequestLost /\ ReportedIsHere /\ ReportedAtOnce
       /\ FilesAreComplete /\ AppsAreTheRows
       => NothingIsMissed
  BY DEF NothingIsMissed
<1>11. QED
  BY <1>2, <1>3, <1>4, <1>5, <1>6, <1>7, <1>8, <1>9, <1>10, PTL

(* Steam is told of the games that PlayGames has and has not paused, which *)
(* are the ones the farmer has chosen by its rules when no message is on   *)
(* its way; all of them are shown, though games that are not played any    *)
(* more may be shown as well.                                              *)
THEOREM FarmIsPlayed ==
  Spec => []PlaysWhatIsFarmed
<1>1. FarmAssumption
  BY InstancesAreSound
<1>2. Spec => [](ChosenGamesArePlayed /\ PlayingIsShown /\ FarmsByTheRules)
  BY <1>1, FarmerIsObeyed, FarmPart, PTL
<1>3. ChosenGamesArePlayed /\ PlayingIsShown /\ FarmsByTheRules => PlaysWhatIsFarmed
  BY DEF PlaysWhatIsFarmed
<1>4. QED
  BY <1>2, <1>3, PTL

(* What is kept is right when it is used: the inventory, the descriptions  *)
(* that were fetched, the licences and the packages they need, unless they *)
(* name an app twice, app infos, unless a write failed, package names,     *)
(* server lists, settings and the keys of a connection.                    *)
THEOREM CachesAreKeptCurrent ==
  Spec => []CachesAreCurrent
<1>1. /\ InventoryAssumption /\ FlowAssumption /\ CacheAssumption /\ NamesAssumption
      /\ ListAssumption /\ AccountAssumption
  BY InstancesAreSound
<1>2. Spec => [](InventoryIsCurrent /\ OffersFit /\ DescriptionsStay)
  BY <1>1, InventoryStaysCurrent, InventoryPart, PTL
<1>3. Spec => [](IndexMatches /\ FileHasStore) /\ NeverOlder
  BY <1>1, PackageDataIsKept, FlowPart, PTL
<1>4. Spec => [](ListReadRight /\ PackagesSettled)
  BY <1>1, LicensesAreSettled, FlowPart, PTL
<1>5. Spec => []UnsavedIsMarked /\ FileOnlyGrows
  BY <1>1, SavedInfosStay, CachePart, PTL
<1>6. Spec => [](OneAsks /\ AllSaved)
  BY <1>1, OneClientAsks, NamesPart, PTL
<1>7. Spec => [](OneQueryPerCell /\ AskersAreKnown /\ ListsAreFresh)
  BY <1>1, CallersGetFreshLists, ListPart, PTL
<1>8. Spec => []SettingsAreTheFiles
  BY <1>1, SettingsAreRead, AccountPart, PTL
<1>9. Spec => []KeysAgree /\ []EngineFollowsState
  BY KeysDoAgree, EngineIsThere, NetPart, PTL
<1>10. /\ InventoryIsCurrent /\ OffersFit /\ DescriptionsStay
       /\ IndexMatches /\ FileHasStore /\ ListReadRight /\ PackagesSettled
       /\ UnsavedIsMarked
       /\ OneAsks /\ AllSaved
       /\ OneQueryPerCell /\ AskersAreKnown /\ ListsAreFresh
       /\ SettingsAreTheFiles
       /\ KeysAgree /\ EngineFollowsState
       => CachesAreCurrent
  BY DEF CachesAreCurrent
<1>11. QED
  BY <1>2, <1>3, <1>4, <1>5, <1>6, <1>7, <1>8, <1>9, <1>10, PTL

(* No step of any part makes the file of app infos smaller, a crash        *)
(* included, but for a write that failed; nor the data of a package older. *)
THEOREM RecordsOnlyGrow ==
  Spec => NothingGoesBack
<1>1. CacheAssumption /\ FlowAssumption
  BY InstancesAreSound
<1>2. Init => StoreInv /\ FlowInv /\ StoringInv
  BY <1>1, StoreInit, FlowStarts DEF Init
<1>3. ASSUME StoreInv, FlowInv, StoringInv, [CacheNext]_cacheVars, [FlowNext]_flowVars
      PROVE  /\ StoreInv' /\ FlowInv' /\ StoringInv' /\ FileGrows
             /\ \A p \in DOMAIN data : p \in DOMAIN data' /\ data'[p].change >= data[p].change
  BY <1>1, <1>3, StoreStep, FlowStep, StoringStep
<1>4. Spec => [][CacheNext]_cacheVars /\ [][FlowNext]_flowVars
  BY CachePart, FlowPart, PTL DEF CacheSpec, FlowSpec
<1>5. QED
  BY <1>2, <1>3, <1>4, PTL DEF Spec, NothingGoesBack, FileGrows

(* What is read is what was written, of whatever kind: names of packages,  *)
(* messages, trees, cookies, pages of offers, packets, ids, texts and      *)
(* documents.                                                              *)
THEOREM RecordsAreRead ==
  Spec => []RecordsAreRight
<1>1. /\ NamesAssumption /\ MessageAssumption /\ KeyValueAssumption /\ JarAssumption
      /\ PageAssumption /\ CipherAssumption /\ IdAssumption /\ ParsingAssumption
  BY InstancesAreSound
<1>2. Spec => [](NamesTypeOK /\ NamesMatch /\ PageAssertions)
  BY <1>1, NamesAreOwn, NamesPart, PTL
<1>3. Spec => [](MsgTypeOK /\ MessagesReadBack)
  BY <1>1, MessagesAreReadBack, MsgPart, PTL
<1>4. Spec => [](KvTypeOK /\ TreesReadBack)
  BY <1>1, TreesAreReadBack, KvPart, PTL
<1>5. Spec => [](JarTypeOK /\ JarIsLatest /\ FirstUrlGetsOwnCookies)
  BY <1>1, CookiesAreTheLatest, JarPart, PTL
<1>6. Spec => [](PageTypeOK /\ OffersAreAsWritten)
  BY <1>1, OffersAreKeptAsWritten, PagePart, PTL
<1>7. Spec => [](CipherTypeOK /\ TextsReadBack /\ BuffersSuffice)
  BY <1>1, PacketsReadBack, CipherPart, PTL
<1>8. Spec => [](IdTypeOK /\ FieldsAreApart /\ JobsDiffer)
  BY <1>1, IdentifiersAreSound, IdPart, PTL
<1>9. Spec => [](ParsingTypeOK /\ TextsAreRight /\ ItemsAreAsWritten /\ DocumentsAreRight)
  BY <1>1, TextsAndDocumentsAreRight, ParsingPart, PTL
<1>10. /\ NamesMatch /\ PageAssertions /\ MessagesReadBack /\ TreesReadBack
       /\ JarIsLatest /\ FirstUrlGetsOwnCookies /\ OffersAreAsWritten
       /\ TextsReadBack /\ BuffersSuffice /\ FieldsAreApart /\ JobsDiffer
       /\ TextsAreRight /\ ItemsAreAsWritten /\ DocumentsAreRight
       => RecordsAreRight
  BY DEF RecordsAreRight
<1>11. QED
  BY <1>2, <1>3, <1>4, <1>5, <1>6, <1>7, <1>8, <1>9, <1>10, PTL

(* The variables of every part are what the part declares them to be: the  *)
(* type invariant of FrameworkMC, put together from those of the parts.    *)
THEOREM FrameworkIsTyped ==
  Spec => []FrameworkTypeOK
<1>1. Spec => [](FlowTypeOK /\ NamesTypeOK /\ CacheTypeOK /\ TradeTypeOK
               /\ InventoryTypeOK /\ FarmTypeOK)
  <2>1. /\ FlowAssumption /\ NamesAssumption /\ CacheAssumption
        /\ TradeAssumption /\ InventoryAssumption /\ FarmAssumption
    BY InstancesAreSound
  <2>2. Spec => []FlowTypeOK
    BY <2>1, FlowIsTyped, FlowPart, PTL
  <2>3. Spec => [](NamesTypeOK /\ NamesMatch /\ PageAssertions)
    BY <2>1, NamesAreOwn, NamesPart, PTL
  <2>4. Spec => []CacheTypeOK
    BY <2>1, CacheIsTyped, CachePart, PTL
  <2>5. Spec => []TradeTypeOK
    BY <2>1, TradeIsTyped, TradePart, PTL
  <2>6. Spec => []InventoryTypeOK
    BY <2>1, InventoryIsTyped, InventoryPart, PTL
  <2>7. Spec => []FarmTypeOK
    BY <2>1, FarmIsTyped, FarmPart, PTL
  <2>8. QED
    BY <2>2, <2>3, <2>4, <2>5, <2>6, <2>7, PTL
<1>2. Spec => [](WebTypeOK /\ CallTypeOK /\ BoardTypeOK /\ SaleTypeOK
               /\ StreamTypeOK /\ NetTypeOK /\ ListTypeOK
               /\ PresenceTypeOK /\ FreeTypeOK)
  <2>1. /\ WebAssumption /\ CallAssumption /\ BoardAssumption
        /\ SaleAssumption /\ StreamAssumption /\ TransportAssumption
        /\ ListAssumption /\ PresenceAssumption /\ FreeAssumption
    BY InstancesAreSound
  <2>2. Spec => []WebTypeOK
    BY <2>1, WebIsTyped, WebPart, PTL
  <2>3. Spec => []CallTypeOK
    BY <2>1, CallsAreTyped, CallPart, PTL
  <2>4. Spec => []BoardTypeOK
    BY <2>1, BoardsAreTyped, BoardPart, PTL
  <2>5. Spec => []SaleTypeOK
    BY <2>1, SalesAreTyped, SalePart, PTL
  <2>6. Spec => []StreamTypeOK
    BY <2>1, StreamsAreTyped, StreamPart, PTL
  <2>7. Spec => []NetTypeOK
    BY <2>1, NetIsTyped, NetPart, PTL
  <2>8. Spec => []ListTypeOK
    BY <2>1, ListsAreTyped, ListPart, PTL
  <2>9. Spec => []PresenceTypeOK
    BY <2>1, PresenceIsTyped, PresencePart, PTL
  <2>10. Spec => []FreeTypeOK
    BY <2>1, RequestsAreTyped, FreePart, PTL
  <2>11. QED
    BY <2>2, <2>3, <2>4, <2>5, <2>6, <2>7, <2>8, <2>9, <2>10, PTL
<1>3. Spec => [](KvTypeOK /\ MsgTypeOK /\ JarTypeOK /\ AccountTypeOK
               /\ BpeTypeOK /\ CloudTypeOK /\ PageTypeOK /\ UiTypeOK
               /\ CipherTypeOK /\ IdTypeOK /\ FiberTypeOK /\ ParsingTypeOK)
  <2>1. /\ KeyValueAssumption /\ MessageAssumption /\ JarAssumption
        /\ AccountAssumption /\ EligibilityAssumption /\ CloudAssumption
        /\ PageAssumption /\ UiAssumption /\ CipherAssumption /\ IdAssumption
        /\ FiberAssumption /\ ParsingAssumption
    BY InstancesAreSound
  <2>2. Spec => [](KvTypeOK /\ TreesReadBack)
    BY <2>1, TreesAreReadBack, KvPart, PTL
  <2>3. Spec => [](MsgTypeOK /\ MessagesReadBack)
    BY <2>1, MessagesAreReadBack, MsgPart, PTL
  <2>4. Spec => [](JarTypeOK /\ JarIsLatest /\ FirstUrlGetsOwnCookies)
    BY <2>1, CookiesAreTheLatest, JarPart, PTL
  <2>5. Spec => []AccountTypeOK
    BY <2>1, AccountsAreTyped, AccountPart, PTL
  <2>6. Spec => []BpeTypeOK
    BY <2>1, EligibilityIsTyped, BpePart, PTL
  <2>7. Spec => []CloudTypeOK
    BY <2>1, CloudIsTyped, CloudPart, PTL
  <2>8. Spec => [](PageTypeOK /\ OffersAreAsWritten)
    BY <2>1, OffersAreKeptAsWritten, PagePart, PTL
  <2>9. Spec => []UiTypeOK
    BY <2>1, UiIsTyped, UiPart, PTL
  <2>10. Spec => [](CipherTypeOK /\ TextsReadBack /\ BuffersSuffice)
    BY <2>1, PacketsReadBack, CipherPart, PTL
  <2>11. Spec => [](IdTypeOK /\ FieldsAreApart /\ JobsDiffer)
    BY <2>1, IdentifiersAreSound, IdPart, PTL
  <2>12. Spec => []FiberTypeOK
    BY <2>1, FibersAreTyped, FiberPart, PTL
  <2>13. Spec => [](ParsingTypeOK /\ TextsAreRight /\ ItemsAreAsWritten /\ DocumentsAreRight)
    BY <2>1, TextsAndDocumentsAreRight, ParsingPart, PTL
  <2>14. QED
    BY <2>2, <2>3, <2>4, <2>5, <2>6, <2>7, <2>8, <2>9, <2>10, <2>11, <2>12, <2>13, PTL
<1>4. /\ FlowTypeOK /\ NamesTypeOK /\ CacheTypeOK /\ TradeTypeOK
      /\ InventoryTypeOK /\ FarmTypeOK /\ WebTypeOK /\ CallTypeOK
      /\ BoardTypeOK /\ SaleTypeOK /\ StreamTypeOK /\ NetTypeOK /\ ListTypeOK
      /\ PresenceTypeOK /\ FreeTypeOK /\ KvTypeOK /\ MsgTypeOK /\ JarTypeOK
      /\ AccountTypeOK /\ BpeTypeOK /\ CloudTypeOK /\ PageTypeOK /\ UiTypeOK
      /\ CipherTypeOK /\ IdTypeOK /\ FiberTypeOK /\ ParsingTypeOK
      => FrameworkTypeOK
  BY DEF FrameworkTypeOK
<1>5. QED
  BY <1>1, <1>2, <1>3, <1>4, PTL

=============================================================================
