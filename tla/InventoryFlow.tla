--------------------------- MODULE InventoryFlow ----------------------------
(***************************************************************************)
(* The inventory of one client and what is known of the items in it: the   *)
(* module Inventory loads pages and notices announcements, AssetData is    *)
(* the process-wide store of item descriptions, InventoryNotification      *)
(* turns the notification of a new item into a message with its            *)
(* description, and sendInventory() offers tradable items to another bot.  *)
(*                                                                         *)
(* An item is abstracted to its asset key (class and instance), its app    *)
(* and the page of the inventory it is on. Fibers switch only where the    *)
(* code waits for the network or for a mutex.                              *)
(***************************************************************************)
EXTENDS Naturals, FiniteSets, FiniteSetsExt

CONSTANTS
    Items,         \* items the account may get
    Keys,          \* asset keys
    KeyOf,         \* KeyOf[i]: the asset key of an item
    AppOfKey,      \* AppOfKey[k]: the app an asset key belongs to
    Tradable,      \* asset keys whose description says tradable
    PageOf,        \* PageOf[i]: the page of the inventory an item is on
    LastPage,      \* pages of an inventory
    ItemsPerTrade, \* itemsPerTrade
    OfferKeys      \* asset keys of the items in trade offers

InventoryAssumption ==
    /\ IsFiniteSet(Items) /\ KeyOf \in [Items -> Keys] /\ Tradable \subseteq Keys /\ OfferKeys \subseteq Keys
    /\ LastPage \in Nat \ {0} /\ PageOf \in [Items -> 1..LastPage]
    /\ ItemsPerTrade \in Nat \ {0}

NoInventory == [there |-> FALSE, items |-> {}]
NotAsked == "idle"

VARIABLES
    owned,     \* the server: items in the inventory
    itemsGone,      \* the server: items traded away; an asset id is never used again
    itemAnnounced, \* items with a CMsgClientItemAnnouncements on the way
    itemNotified,  \* items with a ClientNotification on the way to Inventory
    inventory, \* whiteboard: Inventory::Ptr
    newer,     \* lastUpdateNotification is later than the when of the inventory
    nextPage,  \* load(): the page asked for, 0 when nobody loads
    gathered,  \* load(): the items read so far
    newerLoad, \* lastUpdateNotification is later than the when of the one loading
    known,     \* AssetData::data
    chunks,    \* fetch(): apps still to be asked for, with the mutex held
    fetchKeys, \* fetch(): the missing keys, but for those Steam has not described
    fetched,   \* the last fetch() that returned: the keys it got descriptions for
    failed,    \* an assertion or an uncaught exception has ended the process
    itemInbox, \* InventoryNotification's waiter
    itemAsked, \* the item InventoryNotification has asked for, or NotAsked
    itemInfos, \* InventoryNotification messages sent, by item
    sending,   \* sendInventory(): NotAsked, "inventory" or "offer"
    offered    \* the items of the offer last sent

itemServer == <<owned, itemsGone, itemAnnounced, itemNotified>>
cached == <<inventory, newer, nextPage, gathered, newerLoad>>
assets == <<known, chunks, fetchKeys, fetched, failed>>
watcher == <<itemInbox, itemAsked, itemInfos>>
sender == <<sending, offered>>
inventoryVars == <<owned, itemsGone, itemAnnounced, itemNotified, inventory, newer, nextPage,
                   gathered, newerLoad,
                   known, chunks, fetchKeys, fetched, failed, itemInbox, itemAsked, itemInfos,
                   sending, offered>>

InventoryInit ==
    /\ owned = {} /\ itemsGone = {} /\ itemAnnounced = {} /\ itemNotified = {}
    /\ inventory = NoInventory /\ newer = FALSE /\ nextPage = 0 /\ gathered = {}
    /\ newerLoad = FALSE
    /\ known = {} /\ chunks = {} /\ fetchKeys = {} /\ fetched = {} /\ failed = FALSE
    /\ itemInbox = {} /\ itemAsked = NotAsked /\ itemInfos = {}
    /\ sending = NotAsked /\ offered = {}

\* The process goes on as long as no assertion has failed and no exception has left
\* the run() of a module.
Alive == ~failed

----------------------------------------------------------------------------
(* Inventory *)

\* An item reaches the account (external): it is announced, and notified to both
\* modules that wait for notifications.
ItemArrives(i) ==
    /\ Alive /\ i \notin owned \cup itemsGone
    /\ owned' = owned \cup {i}
    /\ itemAnnounced' = itemAnnounced \cup {i} /\ itemNotified' = itemNotified \cup {i}
    /\ itemInbox' = itemInbox \cup {i}
    /\ UNCHANGED <<itemsGone, cached, assets, itemAsked, itemInfos, sender>>

\* updateNotification(): the time is kept when it is later. It is compared with
\* the time the inventory on the whiteboard, or the one being loaded, was begun.
Notice(later) ==
    /\ newer' = (newer \/ later) /\ newerLoad' = (newerLoad \/ later)
    /\ UNCHANGED <<inventory, nextPage, gathered, assets, watcher, sender>>

\* handle(CMsgClientItemAnnouncements): the time is now.
HandleAnnouncement(i) ==
    /\ Alive /\ i \in itemAnnounced /\ itemAnnounced' = itemAnnounced \ {i}
    /\ Notice(TRUE) /\ UNCHANGED <<owned, itemsGone, itemNotified>>

\* handle(ClientNotification): the time is the server's, in seconds; it need not
\* be later than the inventory's.
HandleItemNotification(i, later) ==
    /\ Alive /\ i \in itemNotified /\ itemNotified' = itemNotified \ {i}
    /\ Notice(later) /\ UNCHANGED <<owned, itemsGone, itemAnnounced>>

\* InventoryModule::get(), when what is there is too old: load() forgets the time
\* of the last notification and asks for the first page.
BeginLoad ==
    /\ nextPage' = 1 /\ gathered' = {} /\ newer' = FALSE /\ newerLoad' = FALSE
    /\ UNCHANGED inventory

MustLoad == ~inventory.there \/ newer

\* AssetData::store(): a description that is known already is not stored again, and
\* keys has only those that AssetInfo can read.
Stored(keys) == known \cup keys

\* load(), one page: its items are appended, and those of their descriptions stored
\* that are in the page and can be read, without AssetData's mutex; nobody looks at
\* what store() returns.
PageLoaded ==
    /\ Alive /\ nextPage # 0
    /\ LET now == {i \in owned : PageOf[i] = nextPage} IN
       /\ \E readable \in SUBSET {KeyOf[i] : i \in now} : known' = Stored(readable)
       /\ IF nextPage < LastPage
          THEN /\ nextPage' = nextPage + 1 /\ gathered' = gathered \cup now
               /\ UNCHANGED <<inventory, newer, newerLoad>>
          ELSE /\ inventory' = [there |-> TRUE, items |-> gathered \cup now]
               /\ newer' = newerLoad /\ newerLoad' = FALSE
               /\ nextPage' = 0 /\ gathered' = {}
    /\ UNCHANGED <<chunks, fetchKeys, fetched, failed, itemServer, watcher, sender>>

\* load() fails on any page: the whiteboard has no inventory any more.
PageLoadFails ==
    /\ Alive /\ nextPage # 0
    /\ inventory' = NoInventory /\ nextPage' = 0 /\ gathered' = {} /\ newerLoad' = FALSE
    /\ sending' = NotAsked
    /\ UNCHANGED <<newer, offered, itemServer, assets, watcher>>

----------------------------------------------------------------------------
(* AssetData *)

\* fetch() for the items of trade offers takes the mutex and groups what is
\* missing by app; nothing is asked for when nothing is.
BeginFetch ==
    /\ Alive /\ chunks = {} /\ OfferKeys \ known # {}
    /\ fetchKeys' = OfferKeys \ known
    /\ chunks' = {AppOfKey[k] : k \in fetchKeys'}
    /\ UNCHANGED <<known, fetched, failed, itemServer, cached, watcher, sender>>

\* requestData(), the answer for one app describes some of what it was asked for.
\* Every description must be one that can be read and is not stored yet:
\* assert(info).
ChunkArrives(a, described) ==
    /\ Alive /\ a \in chunks
    /\ \A k \in described : k \in fetchKeys /\ AppOfKey[k] = a
    /\ \E new \in SUBSET (described \ known) :
          known' = Stored(new) /\ failed' = (new # described)
    /\ chunks' = chunks \ {a}
    /\ LET answered == fetchKeys \ {k \in Keys \ described : AppOfKey[k] = a} IN
       /\ fetched' = IF chunks' = {} /\ Alive' THEN answered ELSE fetched
       /\ fetchKeys' = IF chunks' = {} THEN {} ELSE answered
    /\ UNCHANGED <<itemServer, cached, watcher, sender>>

\* execute() throws: fetch() ends and TradeOffers goes without its offers.
FetchFails ==
    /\ Alive /\ chunks # {}
    /\ chunks' = {} /\ fetchKeys' = {}
    /\ UNCHANGED <<known, fetched, failed, itemServer, cached, watcher, sender>>

\* query() needs the mutex, which fetch() holds while it waits.
CanQuery == chunks = {}

----------------------------------------------------------------------------
(* InventoryNotification *)

\* handle(): an unread notification of an item asks for its description.
AskForItem(i) ==
    /\ Alive /\ i \in itemInbox /\ itemAsked = NotAsked
    /\ itemInbox' = itemInbox \ {i} /\ itemAsked' = i
    /\ UNCHANGED <<itemInfos, itemServer, cached, assets, sender>>

\* handle() with the answer: the description is stored unless it is known, and the
\* message sent if there is one now; nothing is sent for an item that is missing.
ItemDescribed ==
    /\ Alive /\ itemAsked # NotAsked /\ itemAsked' = NotAsked
    /\ \/ UNCHANGED <<known, itemInfos>>
       \/ /\ CanQuery
          /\ \E readable \in SUBSET {KeyOf[itemAsked]} : known' = Stored(readable)
          /\ itemInfos' = itemInfos \cup {i \in {itemAsked} : KeyOf[i] \in known'}
    /\ UNCHANGED <<itemInbox, chunks, fetchKeys, fetched, failed, itemServer, cached, sender>>

\* execute() throws, or the answer is not one item, or the key of its description
\* cannot be read: nobody catches what leaves run().
ItemAnswerIsWrong ==
    /\ Alive /\ itemAsked # NotAsked /\ failed' = TRUE
    /\ UNCHANGED <<itemInbox, itemAsked, itemInfos, known, chunks, fetchKeys, fetched,
                   itemServer, cached, sender>>

----------------------------------------------------------------------------
(* sendInventory() *)

\* SteamBot::Inventory::get() for a send.
BeginSend ==
    /\ Alive /\ sending = NotAsked /\ nextPage = 0
    /\ sending' = "inventory" /\ offered' = {}
    /\ IF MustLoad THEN BeginLoad ELSE UNCHANGED cached
    /\ UNCHANGED <<itemServer, assets, watcher>>

\* collectItems(): the first tradable items the store knows, at most
\* itemsPerTrade of them.
Sendable == {i \in inventory.items : KeyOf[i] \in known /\ KeyOf[i] \in Tradable}

CollectItems(chosen) ==
    /\ Alive /\ sending = "inventory" /\ nextPage = 0 /\ CanQuery
    /\ inventory.there
    /\ chosen \subseteq Sendable
    /\ Cardinality(chosen) = Min({ItemsPerTrade, Cardinality(Sendable)})
    /\ offered' = chosen /\ sending' = "offer"
    /\ UNCHANGED <<itemServer, cached, assets, watcher>>

\* SendTrade::send() and the other bot's acceptance: the items leave, and nothing
\* tells the module Inventory so. An offer with an item that is gone, or one
\* without a token or a SteamID for the partner, fails.
SendItems(accepted) ==
    /\ Alive /\ sending = "offer" /\ sending' = NotAsked
    /\ accepted => offered # {} /\ offered \subseteq owned
    /\ owned' = IF accepted THEN owned \ offered ELSE owned
    /\ itemsGone' = IF accepted THEN itemsGone \cup offered ELSE itemsGone
    /\ UNCHANGED <<itemAnnounced, itemNotified, offered, cached, assets, watcher>>

InventoryNext ==
    \/ \E i \in Items : ItemArrives(i) \/ HandleAnnouncement(i) \/ AskForItem(i)
    \/ \E i \in Items, b \in BOOLEAN : HandleItemNotification(i, b)
    \/ PageLoaded \/ PageLoadFails
    \/ BeginFetch \/ FetchFails
    \/ \E a \in {AppOfKey[k] : k \in Keys}, some \in SUBSET Keys : ChunkArrives(a, some)
    \/ ItemDescribed \/ ItemAnswerIsWrong \/ \E b \in BOOLEAN : SendItems(b)
    \/ BeginSend \/ \E chosen \in SUBSET Items : CollectItems(chosen)

InventorySpec == InventoryInit /\ [][InventoryNext]_inventoryVars

----------------------------------------------------------------------------
InventoryTypeOK ==
    /\ {owned, itemsGone, itemAnnounced, itemNotified, gathered, itemInbox, itemInfos,
        offered} \subseteq SUBSET Items
    /\ inventory \in [there : BOOLEAN, items : SUBSET Items]
    /\ {newer, newerLoad, failed} \subseteq BOOLEAN /\ nextPage \in 0..LastPage
    /\ {known, fetchKeys, fetched} \subseteq SUBSET Keys
    /\ chunks \subseteq {AppOfKey[k] : k \in Keys}
    /\ itemAsked \in Items \cup {NotAsked} /\ sending \in {NotAsked, "inventory", "offer"}

\* An inventory that get() would hand out without loading it again has every
\* item the account has, once the announcements have been handled.
InventoryIsCurrent ==
    inventory.there /\ ~newer /\ nextPage = 0 => owned \ itemAnnounced \subseteq inventory.items

\* What is offered was in the inventory, is tradable, and fits in one trade.
OffersFit ==
    sending = "offer" => /\ offered \subseteq inventory.items
                         /\ \A i \in offered : KeyOf[i] \in Tradable
                         /\ Cardinality(offered) <= ItemsPerTrade

\* Every description that a fetch() was answered with when it returns, that of every
\* item an InventoryNotification was sent for, and that of every item offered is there
\* for whoever queries it afterwards, although load() drops those it cannot read.
DescriptionsStay ==
    /\ fetched \subseteq known
    /\ \A i \in itemInfos : KeyOf[i] \in known
    /\ sending = "offer" => \A i \in offered : KeyOf[i] \in known

=============================================================================
