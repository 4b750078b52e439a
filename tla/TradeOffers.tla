---------------------------- MODULE TradeOffers -----------------------------
(***************************************************************************)
(* Incoming trade offers of one client: ClientNotification learns of them, *)
(* TradeOffers keeps the list that was loaded last, AutoLoadTradeoffers    *)
(* loads it some time after a notification, and AutoAccept accepts what    *)
(* the settings allow. Five fibers work on them: the run() of the four     *)
(* modules and a caller of TradeOffers::getIncoming() (a user interface).  *)
(*                                                                         *)
(* The items of an offer are abstracted to whether it takes any of ours.   *)
(* Pages that do not parse fail; offers in escrow are dropped by the       *)
(* parser. Fibers share a thread and switch only where the code waits.     *)
(***************************************************************************)
EXTENDS Naturals, FiniteSets

CONSTANTS
    OfferIds,   \* trade offer ids, in the role of notification ids too
    FromBot,    \* offers whose partner ClientInfo::find() knows
    Gifts,      \* offers with no myItems
    Escrowed,   \* offers the page shows with a tradeoffer_items_banner
    Modes,      \* AutoAccept::Items: a subset of {"None", "Gifts", "All"}
    MaxPages    \* bound on the pages loaded

TradeAssumption ==
    /\ FromBot \subseteq OfferIds /\ Gifts \subseteq OfferIds /\ Escrowed \subseteq OfferIds
    /\ {"None"} \subseteq Modes /\ Modes \subseteq {"None", "Gifts", "All"}
    /\ MaxPages \in Nat

VARIABLES
    open,      \* the server: offers that wait for our answer
    notes,     \* the server: notifications it lists
    pings,     \* NotificationsReceived that getNotifications() has not begun for
    asking,    \* ClientNotification waits for GetSteamNotifications
    notesSeen,      \* ClientNotificationModule::seen
    offerInbox,     \* TradeOffers' waiter: ClientNotification messages
    newOffers, \* newOffersNotifications
    last,      \* whiteboard: LastIncoming is there
    offers,    \* whiteboard: IncomingTradeOffers::Ptr, a page number, 0 for none
    page,      \* page[k]: offers of the k-th IncomingTradeOffers object made
    pages,     \* objects made so far
    loader,    \* who holds TradeOffersModule::mutex: "auto", "ui" or "nobody"
    queued,    \* callers that wait for the mutex
    loading,   \* what the holder waits for: "page", "assets" or "nothing"
    loaded,    \* the offers on the page that was read
    enabled,   \* AutoLoadTradeoffers: enabled > 0
    reload,    \* AutoLoadTradeoffers: reload is 15 seconds, not zero
    lastWoken, \* AutoLoadTradeoffers: incomingNotification is woken
    botItems,  \* AutoAccept: botItems
    signal,    \* AutoAccept: stateChangeSignal
    offersWoken, \* AutoAccept: incomingOffers is woken
    lastOffers,  \* AutoAccept: lastOffers, a page number
    reading,     \* AutoAccept: the object handleOffers() iterates over, 0 for none
    toDo         \* AutoAccept: offers of it that are still to be looked at

serverPart == <<open, notes>>
notePart == <<pings, asking, notesSeen>>
listPart == <<offerInbox, newOffers, last, offers, page, pages>>
loadPart == <<loader, queued, loading, loaded>>
autoPart == <<enabled, reload, lastWoken>>
acceptPart == <<botItems, signal, offersWoken, lastOffers, reading, toDo>>
tradeVars == <<open, notes, pings, asking, notesSeen, offerInbox, newOffers, last, offers, page,
               pages,
               loader, queued, loading, loaded, enabled, reload, lastWoken,
               botItems, signal, offersWoken, lastOffers, reading, toDo>>

TradeInit ==
    /\ open = {} /\ notes = {}
    /\ pings = FALSE /\ asking = FALSE /\ notesSeen = {}
    /\ offerInbox = {} /\ newOffers = {} /\ last = FALSE
    /\ offers = 0 /\ page = [k \in 1..MaxPages |-> {}] /\ pages = 0
    /\ loader = "nobody" /\ queued = {} /\ loading = "nothing" /\ loaded = {}
    /\ enabled = FALSE /\ reload = FALSE /\ lastWoken = FALSE
    /\ botItems = "None" /\ signal = FALSE /\ offersWoken = FALSE
    /\ lastOffers = 0 /\ reading = 0 /\ toDo = {}

----------------------------------------------------------------------------
\* Somebody sends us an offer (external): the server lists a notification.
OfferMade(o) ==
    /\ o \notin open \cup notes
    /\ open' = open \cup {o} /\ notes' = notes \cup {o} /\ pings' = TRUE
    /\ UNCHANGED <<asking, notesSeen, listPart, loadPart, autoPart, acceptPart>>

\* ClientNotificationModule::handle(): one request at a time. What arrives
\* meanwhile stays in the waiter and is handled after it.
AskNotifications ==
    /\ pings /\ ~asking
    /\ pings' = FALSE /\ asking' = TRUE
    /\ UNCHANGED <<notesSeen, serverPart, listPart, loadPart, autoPart, acceptPart>>

\* getNotifications() with the answer: what was not seen before is sent to the
\* messageboard, and notesSeen becomes exactly what the server lists now.
GetNotifications ==
    /\ asking /\ asking' = FALSE
    /\ offerInbox' = offerInbox \cup (notes \ notesSeen)
    /\ notesSeen' = notes
    /\ UNCHANGED <<pings, newOffers, last, offers, page, pages, serverPart, loadPart, autoPart,
                   acceptPart>>

\* TradeOffersModule::handle(ClientNotification): an offer that is in the list
\* is not news. LastIncoming is set each time the set grows.
HandleNotification(o) ==
    /\ o \in offerInbox /\ offerInbox' = offerInbox \ {o}
    /\ LET known == offers # 0 /\ o \in page[offers]
           news == ~known /\ o \notin newOffers
       IN /\ newOffers' = IF news THEN newOffers \cup {o} ELSE newOffers
          /\ last' = (last \/ news)
          /\ lastWoken' = (lastWoken \/ news)
    /\ UNCHANGED <<offers, page, pages, enabled, reload, serverPart, notePart, loadPart,
                   acceptPart>>

----------------------------------------------------------------------------
(* TradeOffersModule::getIncoming() *)

\* With the mutex: nothing to do when there is a list and no news; otherwise the
\* news, LastIncoming and the list are dropped before the page is asked for.
Stale == offers = 0 \/ newOffers # {}

Load(who) ==
    /\ loader' = who /\ loading' = "page"
    /\ newOffers' = {} /\ last' = FALSE /\ lastWoken' = TRUE
    /\ offers' = 0 /\ offersWoken' = TRUE
    /\ pages < MaxPages
    /\ UNCHANGED <<offerInbox, page, pages, loaded, serverPart, notePart, botItems, signal,
                   lastOffers, reading, toDo>>

\* A caller finds the mutex taken and waits for it.
EnqueueLoad(who) ==
    /\ loader # "nobody" /\ loader # who /\ who \notin queued
    /\ queued' = queued \cup {who}
    /\ UNCHANGED <<loader, loading, loaded, serverPart, notePart, listPart, acceptPart, lastWoken>>

GetIncoming(who) ==
    /\ loader = "nobody"
    /\ queued' = queued \ {who}
    /\ IF Stale THEN Load(who)
       ELSE UNCHANGED <<loader, loading, loaded, lastWoken, serverPart, notePart, listPart,
                        acceptPart>>

CallerGets == \/ EnqueueLoad("ui") /\ UNCHANGED <<enabled, reload>>
              \/ GetIncoming("ui") /\ UNCHANGED <<enabled, reload>>

\* getTradeOfferPage(): the page as the server has it when it answers, without
\* the offers the parser drops.
PageArrives ==
    /\ loading = "page" /\ loading' = "assets"
    /\ loaded' = open \ Escrowed
    /\ UNCHANGED <<loader, queued, serverPart, notePart, listPart, autoPart, acceptPart>>

\* loadOffers() has fetched the assets too: the list is published.
AssetsArrive ==
    /\ loading = "assets" /\ loading' = "nothing" /\ loader' = "nobody" /\ loaded' = {}
    /\ pages' = pages + 1
    /\ page' = [page EXCEPT ![pages + 1] = loaded]
    /\ offers' = pages + 1 /\ offersWoken' = TRUE
    /\ UNCHANGED <<queued, offerInbox, newOffers, last, serverPart, notePart, autoPart, botItems,
                   signal, lastOffers, reading, toDo>>

\* loadOffers() catches everything, a cancellation included, and returns false.
LoadFails ==
    /\ loading # "nothing" /\ loading' = "nothing" /\ loader' = "nobody" /\ loaded' = {}
    /\ UNCHANGED <<queued, serverPart, notePart, listPart, autoPart, acceptPart>>

----------------------------------------------------------------------------
(* AutoLoadTradeoffersModule::run() *)

AutoBusy == loader = "auto" \/ "auto" \in queued

\* The fiber wakes up: LastIncoming starts or stops the grace time.
AutoLoadWakes ==
    /\ ~AutoBusy /\ lastWoken
    /\ lastWoken' = FALSE /\ reload' = last
    /\ UNCHANGED <<enabled, serverPart, notePart, listPart, loadPart, acceptPart>>

\* The grace time has passed without a wakeup: reload becomes zero, whatever the
\* load brings.
AutoLoads ==
    /\ ~AutoBusy /\ enabled /\ reload /\ ~lastWoken
    /\ reload' = FALSE /\ UNCHANGED enabled
    /\ EnqueueLoad("auto") \/ GetIncoming("auto")

\* The mutex is free again for the module that waited for it.
AutoLoadGoesOn == "auto" \in queued /\ GetIncoming("auto") /\ UNCHANGED <<enabled, reload>>

----------------------------------------------------------------------------
(* AutoAcceptModule *)

\* enableBots(): another setting wakes the module.
EnableBots(m) ==
    /\ m # botItems
    /\ botItems' = m /\ signal' = TRUE
    /\ UNCHANGED <<offersWoken, lastOffers, reading, toDo, serverPart, notePart, listPart, loadPart,
                   autoPart>>

\* handleOffers(), one offer: the setting is read anew for each.
Accepts(o) == /\ o \in FromBot
              /\ \/ botItems = "All"
                 \/ botItems = "Gifts" /\ o \in Gifts

\* updateAutoLoad() and handleIncoming(): when the list is another one than the
\* one handled last, go through its offers. AutoLoadTradeoffers is enabled while
\* a setting is.
AutoAcceptWakes ==
    /\ reading = 0 /\ (signal \/ offersWoken)
    /\ signal' = FALSE /\ offersWoken' = FALSE
    /\ enabled' = IF signal THEN botItems # "None" ELSE enabled
    /\ LET new == offers # 0 /\ botItems # "None" /\ lastOffers # offers IN
       /\ reading' = IF new THEN offers ELSE 0
       /\ toDo' = IF new THEN page[offers] ELSE {}
    /\ UNCHANGED <<botItems, lastOffers, reload, lastWoken, serverPart, notePart, listPart,
                   loadPart>>

\* acceptTrade(): the offer is answered while the fiber waits; the server may
\* refuse.
AcceptOffer(o, succeeds) ==
    /\ reading # 0 /\ o \in toDo /\ Accepts(o)
    /\ toDo' = toDo \ {o}
    /\ open' = IF succeeds THEN open \ {o} ELSE open
    /\ UNCHANGED <<notes, notePart, listPart, loadPart, autoPart, botItems, signal, offersWoken,
                   lastOffers, reading>>

IgnoreOffer(o) ==
    /\ reading # 0 /\ o \in toDo /\ ~Accepts(o)
    /\ toDo' = toDo \ {o}
    /\ UNCHANGED <<serverPart, notePart, listPart, loadPart, autoPart, botItems, signal,
                   offersWoken, lastOffers, reading>>

\* handleIncoming() returns: lastOffers becomes what the pointer into the
\* whiteboard shows by now.
OffersHandled ==
    /\ reading # 0 /\ toDo = {}
    /\ reading' = 0 /\ lastOffers' = offers
    /\ UNCHANGED <<serverPart, notePart, listPart, loadPart, autoPart, botItems, signal,
                   offersWoken, toDo>>

TradeNext ==
    \/ \E o \in OfferIds : OfferMade(o) \/ HandleNotification(o) \/ IgnoreOffer(o)
    \/ \E o \in OfferIds, succeeds \in BOOLEAN : AcceptOffer(o, succeeds)
    \/ \E m \in Modes : EnableBots(m)
    \/ AskNotifications \/ GetNotifications
    \/ CallerGets \/ PageArrives \/ AssetsArrive \/ LoadFails
    \/ AutoLoadWakes \/ AutoLoads \/ AutoLoadGoesOn
    \/ AutoAcceptWakes \/ OffersHandled

TradeSpec == TradeInit /\ [][TradeNext]_tradeVars

----------------------------------------------------------------------------
TradeTypeOK ==
    /\ {open, notes, notesSeen, offerInbox, newOffers, loaded, toDo} \subseteq SUBSET OfferIds
    /\ {pings, asking, last, enabled, reload, lastWoken, signal, offersWoken} \subseteq BOOLEAN
    /\ {offers, lastOffers, reading, pages} \subseteq 0..MaxPages
    /\ page \in [1..MaxPages -> SUBSET OfferIds]
    /\ loader \in {"auto", "ui", "nobody"} /\ queued \subseteq {"auto", "ui"}
    /\ loading \in {"page", "assets", "nothing"} /\ botItems \in Modes

\* No offer the server told us of is lost: unless its notification is still on
\* the way or a load is under way, an open offer is in the list, or the next
\* getIncoming() will load the list again.
NoOfferLost ==
    \A o \in open \ Escrowed :
        \/ pings \/ asking \/ o \in offerInbox \/ loading # "nothing"
        \/ Stale \/ o \in page[offers]

\* AutoAccept has not been enabled behind AutoLoadTradeoffers' back: once the
\* signal is handled, the lists are loaded as long as offers may be accepted.
AutoLoadFollows == ~signal => (enabled <=> botItems # "None")

\* Whiteboard.hpp:53-54: "has<T> returns a pointer to the stored item, or
\* nullptr. This pointer is valid until a yield". handleIncoming() keeps it, and
\* the object it leads to, while handleOffers() waits for the server; the object
\* should still be the one on the whiteboard, which alone owns it.
PointerIsValid == reading # 0 => offers = reading

=============================================================================
