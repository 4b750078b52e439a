----------------------------- MODULE TradePages -----------------------------
(***************************************************************************)
(* The parser of the pages with trade offers (TradeOffersParser.cpp). The  *)
(* HTML parser calls it for the start and the end of every element; it     *)
(* keeps the offer it is in, and pointers into that offer which outlive it *)
(* when the offer is dropped in the middle of its element.                 *)
(*                                                                         *)
(* Steam (external) writes the elements in their nesting. In an offer, the *)
(* first ("primary") part is what its sender gives.                        *)
(***************************************************************************)
EXTENDS Naturals, Sequences, SequencesExt, FiniteSets

CONSTANTS PageOfferIds,   \* numbers of offers, each on a page once
          Partners,   \* account ids
          TradeItems,      \* items that can be parsed
          MaxTradeItems,   \* bound: items on one side of an offer
          MaxOffers   \* bound: elements that look like offers

PageAssumption ==
    /\ MaxTradeItems \in Nat /\ MaxOffers \in Nat
    /\ "bad" \notin PageOfferIds \cup Partners \cup TradeItems

VARIABLES
    direction,     \* of the page: "Incoming" or "Outgoing"
    openElements,  \* the open elements: of an offer, one of its two parts, an item
    offerNo,       \* offers so far; stands for the address of the last one
    pageOffer,       \* currentTradeOffer, {} when null
    offerItems,    \* tradeOfferItems: the offer and the side it points to, {} when null
    tradeItem,     \* tradeItem: the offer whose item it points to, {} when null
    pageOffers,        \* result.offers
    pageWritten,       \* the offer Steam writes, with "flawed" (history)
    good           \* the offers that can be used, as Steam has written them (history)

pageParserVars == <<direction, openElements, offerNo, pageOffer, offerItems, tradeItem,
                    pageOffers, pageWritten, good>>

NoOffer == [id |-> "bad", partner |-> "none", myItems |-> <<>>, theirItems |-> <<>>, flawed |-> FALSE]
Plain(offer) == [id |-> offer.id, partner |-> offer.partner,
                 myItems |-> offer.myItems, theirItems |-> offer.theirItems]

PageInit ==
    /\ direction \in {"Incoming", "Outgoing"} /\ openElements = <<>> /\ offerNo = 0
    /\ pageOffer = {} /\ offerItems = {} /\ tradeItem = {} /\ pageOffers = {}
    /\ pageWritten = NoOffer /\ good = {}

Within(elements) == openElements = elements

\* The side of an element with that class.
SideOf(class) ==
    CASE class = "primary" -> IF direction = "Incoming" THEN "theirItems" ELSE "myItems"
      [] class = "secondary" -> IF direction = "Incoming" THEN "myItems" ELSE "theirItems"

----------------------------------------------------------------------------
\* handleTradeOffer(): an element with an id that is a number is an offer.
OfferStarts(id) ==
    /\ Within(<<>>) /\ offerNo < MaxOffers /\ \A o \in good : o.id # id
    /\ openElements' = <<"offer">> /\ pageWritten' = [NoOffer EXCEPT !.id = id, !.flawed = (id = "bad")]
    /\ offerNo' = offerNo + 1
    /\ pageOffer' = IF id = "bad" THEN {} ELSE {Plain([NoOffer EXCEPT !.id = id])}
    /\ UNCHANGED <<direction, offerItems, tradeItem, pageOffers, good>>

\* Its end: it is kept if it has a partner and an item.
OfferEnds ==
    /\ Within(<<"offer">>) /\ openElements' = <<>>
    /\ pageOffers' = pageOffers \cup
                      {o \in pageOffer : o.partner # "none" /\ (o.myItems # <<>> \/ o.theirItems # <<>>)}
    /\ pageOffer' = {}
    /\ good' = IF pageWritten.flawed \/ pageWritten.partner = "none"
                  \/ (pageWritten.myItems = <<>> /\ pageWritten.theirItems = <<>>)
               THEN good ELSE good \cup {Plain(pageWritten)}
    /\ pageWritten' = NoOffer
    /\ UNCHANGED <<direction, offerNo, offerItems, tradeItem>>

\* setPartner(): a number that cannot be parsed drops the offer.
SetPartner(p) ==
    pageOffer' = IF p = "bad" THEN {} ELSE {[o EXCEPT !.partner = p] : o \in pageOffer}

\* handleTradePartner(): where the partner is depends on the direction. An avatar in any
\* other place is the own one.
Avatar(p) ==
    /\ \/ direction = "Incoming" /\ Within(<<"offer">>)
       \/ direction = "Outgoing" /\ openElements \in {<<"offer", "primary">>, <<"offer", "secondary">>}
    /\ LET partners == direction = "Incoming" \/ Last(openElements) = "secondary"
           seen == direction = "Incoming" \/ offerItems = {[no |-> offerNo, side |-> "theirItems"]}
       IN /\ partners => pageWritten.partner = "none" /\ p # "me"
          /\ ~partners => p = "me"
          /\ IF seen THEN SetPartner(p) ELSE UNCHANGED pageOffer
          /\ pageWritten' = IF ~partners THEN pageWritten
                        ELSE IF p = "bad" THEN [pageWritten EXCEPT !.flawed = TRUE]
                                          ELSE [pageWritten EXCEPT !.partner = p]
    /\ UNCHANGED <<direction, openElements, offerNo, offerItems, tradeItem, pageOffers, good>>

\* handleItemsBanner(): an offer in escrow, or one that has been answered, is ignored.
Banner ==
    /\ Within(<<"offer">>) /\ pageOffer' = {}
    /\ pageWritten' = [pageWritten EXCEPT !.flawed = TRUE]
    /\ UNCHANGED <<direction, openElements, offerNo, offerItems, tradeItem, pageOffers, good>>

\* handleTradeOfferItems(): the pointer is set while there is an offer; an unknown class
\* drops it.
ItemsStart(class) ==
    /\ Within(<<"offer">>)
    /\ class # "other" => pageWritten[SideOf(class)] = <<>>
    /\ openElements' = <<"offer", class>>
    /\ IF class = "other"
       THEN pageOffer' = {} /\ pageWritten' = [pageWritten EXCEPT !.flawed = TRUE] /\ UNCHANGED offerItems
       ELSE /\ offerItems' = {[no |-> offerNo, side |-> SideOf(class)] : o \in pageOffer}
            /\ UNCHANGED <<pageOffer, pageWritten>>
    /\ UNCHANGED <<direction, offerNo, tradeItem, pageOffers, good>>

\* The end of the element: only an element that has set the pointer clears it.
ItemsEnd ==
    /\ Len(openElements) = 2 /\ openElements' = <<"offer">>
    /\ offerItems' = {}
    /\ UNCHANGED <<direction, offerNo, pageOffer, tradeItem, pageOffers, pageWritten, good>>

\* handleTradeItem(): an item is appended to the side that is open; one that cannot be
\* parsed drops the offer.
ItemStarts(item) ==
    /\ Len(openElements) = 2
    /\ LET side == IF Last(openElements) = "other" THEN "myItems" ELSE SideOf(Last(openElements))
       IN /\ Len(pageWritten[side]) < MaxTradeItems
          /\ pageWritten' = IF item = "bad" THEN [pageWritten EXCEPT !.flawed = TRUE]
                        ELSE [pageWritten EXCEPT ![side] = Append(@, item)]
    /\ IF item = "bad" THEN pageOffer' = {} /\ UNCHANGED tradeItem
       ELSE /\ pageOffer' = {[o EXCEPT ![(CHOOSE p \in offerItems : TRUE).side] = Append(@, item)] : o \in pageOffer}
            /\ tradeItem' = {offerNo : o \in pageOffer}
    /\ openElements' = Append(openElements, "item")
    /\ UNCHANGED <<direction, offerNo, offerItems, pageOffers, good>>

\* handleCurrencyAmount() compares an amount in the item with the one in its key, and the
\* item ends.
ItemEnds ==
    /\ Len(openElements) = 3 /\ openElements' = Front(openElements)
    /\ tradeItem' = {}
    /\ UNCHANGED <<direction, offerNo, pageOffer, offerItems, pageOffers, pageWritten, good>>

PageNext ==
    \/ \E id \in PageOfferIds \cup {"bad"} : OfferStarts(id)
    \/ OfferEnds \/ Banner \/ ItemsEnd \/ ItemEnds
    \/ \E p \in Partners \cup {"bad", "me"} : Avatar(p)
    \/ \E class \in {"primary", "secondary", "other"} : ItemsStart(class)
    \/ \E item \in TradeItems \cup {"bad"} : ItemStarts(item)

PageSpec == PageInit /\ [][PageNext]_pageParserVars

----------------------------------------------------------------------------
\* Type invariant.
PageTypeOK ==
    /\ direction \in {"Incoming", "Outgoing"} /\ Len(openElements) <= 3
    /\ \A o \in pageOffer \cup pageOffers : o.id \in PageOfferIds /\ o.partner \in Partners \cup {"none"}

\* The offers that are kept are those that can be used, each with its own partner and the
\* items on the right sides; one that has an item, partner or part that cannot be read, or
\* a banner, is left out as a whole, and does not disturb the next one
\* (TradeOffersParser.cpp:33-266).
OffersAreAsWritten == Within(<<>>) => pageOffers = good

\* The pointers into an offer are only used while it is there: whenever there is a
\* current offer, both point into it or are null, and an item on its way is put where the
\* page has it (TradeOffersParser.cpp:41-42, 86-96, 116-121, 204).
PointersAreCurrent ==
    pageOffer # {} =>
        /\ \A p \in offerItems : p.no = offerNo
        /\ tradeItem \subseteq {offerNo}
        /\ Len(openElements) >= 2 => offerItems = {[no |-> offerNo, side |-> SideOf(openElements[2])]}
        /\ Len(openElements) < 3 => tradeItem = {}

=============================================================================
