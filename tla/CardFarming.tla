---------------------------- MODULE CardFarming -----------------------------
(***************************************************************************)
(* Playing games for their trading cards. The modules OwnedGames,          *)
(* GetBadgeData, CardFarmer and PlayGames of one client each run a fiber;  *)
(* they tell each other what changed with messages and the whiteboard.     *)
(*                                                                         *)
(* Playtime is abstracted to 0 (below multipleGamesTimeMin), 1 (below      *)
(* multipleGamesTimeMax), 2 (at most steamRefundPlayTime) and 3 (more). A  *)
(* message queue whose order nothing depends on is a set.                  *)
(***************************************************************************)
EXTENDS Naturals, Sequences, FiniteSets, FiniteSetsExt

CONSTANTS
    Games,      \* app ids
    Earned,     \* Earned[g]: the cards the account is entitled to
    Recent,     \* games known to have a paid license that is less than 15 days old
    MaxGames,   \* maxGames
    StartPlaytime, \* StartPlaytime[g]: playtime of g when the client starts
    FirstOwned, \* games owned when the client starts
    MaxEvents,   \* bound on what happens outside of the client, the user included
    MaxPlays,    \* bound on PlayGames messages not handled yet
    MaxUpdates   \* bound on UpdateGames messages not handled yet

FarmAssumption ==
    /\ IsFiniteSet(Games) /\ Games \cap {"wait", "overview", "messages", "nothing"} = {}
    /\ Earned \in [Games -> Nat] /\ Recent \subseteq Games /\ FirstOwned \subseteq Games
    /\ MaxGames \in Nat \ {0} /\ StartPlaytime \in [Games -> 0..3]
    /\ MaxEvents \in Nat /\ MaxPlays \in Nat \ {0} /\ MaxUpdates \in Nat \ {0}

VARIABLES
    library,     \* the server: games the account owns
    playtime,    \* the server: playtime of each game
    cardsReceived,    \* the server: cards dropped so far
    played,      \* the server: the last CMsgClientGamesPlayed
    licensesNew, \* OwnedGames' licenseList waiter is woken
    ownedGames,  \* whiteboard: OwnedGames, playtime by game; Nothing for none
    updateGames, \* OwnedGames' waiter: the lists of UpdateGames messages
    ownedAsk,    \* the games OwnedGames waits for: Everything, a list, or none
    enable,      \* whiteboard: card-farmer-enable
    switches,    \* its changes so far
    badges,      \* whiteboard: BadgeData, cards received by game; Nothing for none
    badgeStep,   \* GetBadgeData: "wait", "overview", "messages" or a game
    fullyLoaded, \* GetBadgeData: fullyLoaded
    badgeWoken,  \* GetBadgeData: ownedGamesWaiter or enableWaiter is woken
    updateBadge, \* its waiter: UpdateBadge messages
    cardNotes,   \* its waiter: InventoryNotification messages, cards only
    newGames,    \* its waiter: GameChanged messages with newGame
    existing,    \* updateBadge(): the data it will copy
    farmGames,   \* CardFarmer: games
    farmPlaying, \* CardFarmer: playing
    farmWoken,   \* CardFarmer: which of its waiters "badges", "enable" are woken
    changedGames, \* CardFarmer's waiter: GameChanged messages without newGame
    playMessages, \* PlayGames' waiter
    playGames,   \* PlayGames: games, a function to `paused'
    playingGames, \* whiteboard: PlayingGames
    assertFails  \* whiteboard.get() has found nothing

Nothing == [nothing |-> TRUE]  \* no such item on the whiteboard
Everything == {"everything"}   \* a request without a list of games
web == <<library, playtime, cardsReceived>>
ownedPart == <<licensesNew, ownedGames, updateGames, ownedAsk>>
badgePart == <<badges, badgeStep, fullyLoaded, badgeWoken, updateBadge, cardNotes, newGames,
               existing>>
farmPart == <<farmGames, farmPlaying, farmWoken, changedGames>>
playPart == <<playMessages, playGames, playingGames, played>>
setting == <<enable, switches>>
farmVars == <<library, playtime, cardsReceived, played, licensesNew, ownedGames, updateGames,
              ownedAsk,
              enable, switches, badges, badgeStep, fullyLoaded, badgeWoken, updateBadge,
              cardNotes, newGames, existing, farmGames, farmPlaying, farmWoken, changedGames,
              playMessages, playGames, playingGames, assertFails>>

FarmInit ==
    /\ library = FirstOwned /\ playtime = StartPlaytime /\ cardsReceived = [g \in Games |-> 0]
    /\ played = {} /\ licensesNew = TRUE /\ ownedGames = Nothing /\ updateGames = {}
    /\ ownedAsk = {}
    /\ enable = TRUE /\ switches = 0
    /\ badges = Nothing /\ badgeStep = "wait" /\ fullyLoaded = FALSE /\ badgeWoken = TRUE
    /\ updateBadge = {} /\ cardNotes = {} /\ newGames = {} /\ existing = Nothing
    /\ farmGames = << >> /\ farmPlaying = {} /\ farmWoken = {"enable"} /\ changedGames = {}
    /\ playMessages = << >> /\ playGames = << >> /\ playingGames = {}
    /\ assertFails = FALSE

----------------------------------------------------------------------------
(* The world: external *)

\* What has happened so far: purchases, time played, cards, changes of the setting.
Events ==
    Cardinality(library \ FirstOwned) + switches +
    MapThenSumSet(LAMBDA g : (playtime[g] - StartPlaytime[g]) + cardsReceived[g], Games)

Buy(g) ==
    /\ Events < MaxEvents
    /\ g \notin library /\ library' = library \cup {g} /\ licensesNew' = TRUE
    /\ UNCHANGED <<playtime, cardsReceived, ownedGames, updateGames, ownedAsk, setting, badgePart,
                   farmPart, playPart, assertFails>>

PlaytimeGrows(g) ==
    /\ Events < MaxEvents /\ g \in played /\ playtime[g] < 3
    /\ playtime' = [playtime EXCEPT ![g] = @ + 1]
    /\ UNCHANGED <<library, cardsReceived, ownedPart, setting, badgePart, farmPart, playPart,
                   assertFails>>

\* A card drops. Its notification may fail to come.
CardDrops(g, noticed) ==
    /\ Events < MaxEvents /\ g \in played /\ cardsReceived[g] < Earned[g]
    /\ cardsReceived' = [cardsReceived EXCEPT ![g] = @ + 1]
    /\ cardNotes' = IF noticed THEN cardNotes \cup {g} ELSE cardNotes
    /\ UNCHANGED <<library, playtime, ownedPart, setting, badges, badgeStep, fullyLoaded,
                   badgeWoken, updateBadge, newGames, existing, farmPart, playPart, assertFails>>

\* The user switches card-farmer-enable.
Switch ==
    /\ Events < MaxEvents /\ switches' = switches + 1 /\ enable' = ~enable
    /\ badgeWoken' = TRUE /\ farmWoken' = farmWoken \cup {"enable"}
    /\ UNCHANGED <<web, ownedPart, badges, badgeStep, fullyLoaded, updateBadge, cardNotes,
                   newGames, existing, farmGames, farmPlaying, changedGames, playPart, assertFails>>

----------------------------------------------------------------------------
(* OwnedGamesModule *)

\* run(): new licenses come before messages; an update with no games on the
\* whiteboard is dropped.
AskAllGames ==
    /\ ownedAsk = {} /\ licensesNew
    /\ licensesNew' = FALSE /\ ownedAsk' = Everything
    /\ UNCHANGED <<ownedGames, updateGames, web, setting, badgePart, farmPart, playPart,
                   assertFails>>

AskSomeGames(list) ==
    /\ ownedAsk = {} /\ ~licensesNew /\ list \in updateGames
    /\ updateGames' = updateGames \ {list}
    /\ ownedAsk' = IF ownedGames = Nothing THEN {} ELSE list
    /\ UNCHANGED <<licensesNew, ownedGames, web, setting, badgePart, farmPart, playPart,
                   assertFails>>

\* getGames_(): what the server knows of the games asked for, and which of them
\* are new or different from what the whiteboard has by now.
GotGames ==
    LET asked == IF ownedAsk = Everything THEN library ELSE ownedAsk \cap library
        before == IF ownedGames = Nothing THEN {} ELSE DOMAIN ownedGames
        new == IF ownedGames = Nothing THEN {} ELSE asked \ before
        changed == {g \in asked \cap before : ownedGames[g] # playtime[g]}
    IN /\ ownedAsk # {} /\ ownedAsk' = {}
       /\ ownedGames' = [g \in asked \cup (IF ownedAsk = Everything THEN {} ELSE before) |->
                            IF g \in asked THEN playtime[g] ELSE ownedGames[g]]
       /\ newGames' = newGames \cup new
       /\ changedGames' = changedGames \cup changed
       \* getOwnedGames() sets the whiteboard item and discards the messages
       /\ badgeWoken' = (badgeWoken \/ ownedAsk = Everything)
       /\ updateGames' = IF ownedAsk = Everything THEN {} ELSE updateGames
       /\ UNCHANGED <<licensesNew, web, setting, badges, badgeStep, fullyLoaded, updateBadge,
                      cardNotes, existing, farmGames, farmPlaying, farmWoken, playPart,
                      assertFails>>

----------------------------------------------------------------------------
(* GetBadgeDataModule *)

badgeQueues == <<updateBadge, cardNotes, newGames>>

\* run(): everything is dropped while the farmer is disabled; the overview is
\* loaded once there are games, until a load is complete.
BadgeWakes ==
    /\ badgeStep = "wait" /\ (badgeWoken \/ updateBadge \cup cardNotes \cup newGames # {})
    /\ badgeWoken' = FALSE
    /\ IF enable
       THEN /\ badgeStep' = IF ~fullyLoaded /\ ownedGames # Nothing THEN "overview" ELSE "messages"
            /\ UNCHANGED <<badges, fullyLoaded, badgeQueues, farmWoken>>
       ELSE /\ updateBadge' = {} /\ cardNotes' = {} /\ newGames' = {}
            /\ badges' = Nothing /\ fullyLoaded' = FALSE /\ farmWoken' = farmWoken \cup {"badges"}
            /\ UNCHANGED badgeStep
    /\ UNCHANGED <<existing, web, ownedPart, setting, farmGames, farmPlaying, changedGames,
                   playPart, assertFails>>

\* getOverviewPages(): stops with nothing when the setting is switched off
\* between two pages. A page that cannot be loaded counts as the last one.
OverviewLoaded(cut) ==
    /\ badgeStep = "overview" /\ badgeStep' = "messages"
    /\ IF enable
       THEN /\ badges' = [g \in library \ cut |-> cardsReceived[g]]
            /\ fullyLoaded' = TRUE /\ farmWoken' = farmWoken \cup {"badges"}
       ELSE cut = {} /\ UNCHANGED <<badges, fullyLoaded, farmWoken>>
    /\ UNCHANGED <<badgeWoken, badgeQueues, existing, web, ownedPart, setting, farmGames,
                   farmPlaying, changedGames, playPart, assertFails>>

\* updateBadge(): the whiteboard must have data; a copy of the pointer is kept
\* while the page is loaded.
UpdateBadge(g) ==
    /\ assertFails' = (badges = Nothing)
    /\ existing' = badges /\ badgeStep' = IF badges = Nothing THEN "wait" ELSE g
    /\ UNCHANGED <<badges, fullyLoaded, badgeWoken, web, ownedPart, setting, farmPart, playPart>>

\* handle(UpdateBadge), handle(InventoryNotification) and handle(GameChanged), in
\* this order. A notification is for a game that still has cards, and later than
\* the data.
HandleUpdateBadge(g) ==
    /\ badgeStep = "messages" /\ g \in updateBadge /\ updateBadge' = updateBadge \ {g}
    /\ UNCHANGED <<cardNotes, newGames>> /\ UpdateBadge(g)

HandleCardNote(g, later) ==
    /\ badgeStep = "messages" /\ updateBadge = {} /\ g \in cardNotes
    /\ cardNotes' = cardNotes \ {g} /\ UNCHANGED <<updateBadge, newGames>>
    /\ IF later /\ badges # Nothing /\ g \in DOMAIN badges /\ badges[g] < Earned[g]
       THEN UpdateBadge(g)
       ELSE UNCHANGED <<badges, fullyLoaded, badgeWoken, badgeStep, existing, web, ownedPart,
                        setting, farmPart, playPart, assertFails>>

HandleNewGame(g) ==
    /\ badgeStep = "messages" /\ updateBadge \cup cardNotes = {} /\ g \in newGames
    /\ newGames' = newGames \ {g} /\ UNCHANGED <<updateBadge, cardNotes>> /\ UpdateBadge(g)

BadgeMessagesDone ==
    /\ badgeStep = "messages" /\ updateBadge \cup cardNotes \cup newGames = {}
    /\ badgeStep' = "wait"
    /\ UNCHANGED <<badges, fullyLoaded, badgeWoken, badgeQueues, existing, web, ownedPart,
                   setting, farmPart, playPart, assertFails>>

\* updateBadge() with the page of a game, which may have no data.
BadgePage(found) ==
    /\ badgeStep \in Games /\ badgeStep' = "messages" /\ existing' = Nothing
    /\ IF found
       THEN /\ badges' = [g \in DOMAIN existing \cup {badgeStep} |->
                             IF g = badgeStep THEN cardsReceived[g] ELSE existing[g]]
            /\ farmWoken' = farmWoken \cup {"badges"}
       ELSE UNCHANGED <<badges, farmWoken>>
    /\ UNCHANGED <<fullyLoaded, badgeWoken, badgeQueues, web, ownedPart, setting, farmGames,
                   farmPlaying, changedGames, playPart, assertFails>>

----------------------------------------------------------------------------
(* CardFarmerModule *)

\* FarmInfo::isRefundable() and handleBadgeData(): the games worth farming.
Refundable(time, g) == time <= 2 /\ g \in Recent

ReadBadges ==
    LET worth == {g \in DOMAIN badges : badges[g] < Earned[g] /\ g \in DOMAIN ownedGames /\
                                        ~Refundable(ownedGames[g], g)}
    IN IF badges = Nothing \/ ownedGames = Nothing THEN << >>
       ELSE [g \in worth |-> [remaining |-> Earned[g] - badges[g], received |-> badges[g],
                              time |-> ownedGames[g]]]

\* handle(GameChanged): the playtime of a game that is farmed.
WithPlaytimes(games) ==
    [g \in DOMAIN games |->
        IF g \in changedGames /\ g \in DOMAIN ownedGames
        THEN [games[g] EXCEPT !.time = ownedGames[g]] ELSE games[g]]

\* FarmInfo::operator<
Before(x, y) == x.remaining < y.remaining \/ (x.remaining = y.remaining /\ x.time > y.time)

\* selectSingleGame(), selectMultipleGames(): candidates no other one is before.
Best(games, candidates) ==
    {{g} : g \in {h \in candidates : \A k \in candidates : ~Before(games[k], games[h])}}

Several(games, candidates) ==
    {set \in SUBSET candidates :
        /\ Cardinality(set) = IF Cardinality(candidates) < MaxGames
                              THEN Cardinality(candidates) ELSE MaxGames
        /\ \A g \in set, h \in candidates \ set : ~Before(games[h], games[g])}

\* selectFarmGames(): the sets of games it may choose.
SelectFarmGames(games) ==
    LET withCards == {g \in DOMAIN games : games[g].received > 0}
        long == {g \in DOMAIN games : games[g].time >= 2}
        short == {g \in DOMAIN games : games[g].time < 1}
    IN IF withCards # {} THEN Best(games, withCards)
       ELSE IF long # {} THEN Best(games, long)
       ELSE IF short # {} THEN Best(games, short)
       ELSE Several(games, DOMAIN games)

\* A mutant: what is no longer played is not stopped.
PlayMessagesNeverStop(now) ==
    IF now = farmPlaying THEN << >> ELSE <<[start |-> TRUE, games |-> now]>>

\* playGames(): stop what is no longer played, then start the new selection.
PlayMessages(now) ==
    (IF farmPlaying \subseteq now THEN << >>
     ELSE <<[start |-> FALSE, games |-> farmPlaying \ now]>>)
    \o (IF now = farmPlaying THEN << >> ELSE <<[start |-> TRUE, games |-> now]>>)

\* run(): woken, or after half an hour without news about the games played.
FarmerRuns(timeout) ==
    /\ Len(playMessages) < MaxPlays
    /\ IF timeout
       THEN /\ farmPlaying # {} /\ farmWoken = {} /\ changedGames = {}
            /\ ~farmPlaying \subseteq updateBadge
            /\ updateBadge' = updateBadge \cup farmPlaying
       ELSE /\ farmWoken # {} \/ changedGames # {}
            /\ UNCHANGED updateBadge
    /\ LET games == WithPlaytimes(IF "badges" \in farmWoken THEN ReadBadges ELSE farmGames)
       IN \E now \in IF enable THEN SelectFarmGames(games) ELSE {{}} :
            /\ farmGames' = games /\ farmPlaying' = now
            /\ playMessages' = playMessages \o PlayMessages(now)
    /\ farmWoken' = {} /\ changedGames' = {}
    /\ UNCHANGED <<badges, badgeStep, fullyLoaded, badgeWoken, cardNotes, newGames, existing, web,
                   ownedPart, setting, playGames, playingGames, played, assertFails>>

----------------------------------------------------------------------------
(* PlayGamesModule *)

\* sendGames(): what is not paused.
SendGames(games) == played' = {g \in DOMAIN games : ~games[g]}
RequestUpdates(list) == updateGames' = IF list = {} THEN updateGames ELSE updateGames \cup {list}

\* startGames(): games that are played already stay as they are.
StartGames(list) ==
    LET games == [g \in DOMAIN playGames \cup list |-> g \in DOMAIN playGames /\ playGames[g]]
    IN /\ playGames' = games
       /\ IF DOMAIN games = DOMAIN playGames THEN UNCHANGED <<played, playingGames>>
          ELSE SendGames(games) /\ playingGames' = DOMAIN games
       /\ UNCHANGED updateGames

\* stopGames(): nothing is sent or shown when all of them were paused.
StopGames(list) ==
    LET games == [g \in DOMAIN playGames \ list |-> playGames[g]]
        updates == {g \in DOMAIN playGames \cap list : ~playGames[g]}
    IN /\ playGames' = games /\ RequestUpdates(updates)
       /\ IF updates = {} THEN UNCHANGED <<played, playingGames>>
          ELSE SendGames(games) /\ playingGames' = DOMAIN games

HandlePlayGames ==
    /\ playMessages # << >> /\ playMessages' = Tail(playMessages)
    /\ LET message == Head(playMessages)
       IN IF message.start THEN StartGames(message.games) ELSE StopGames(message.games)
    /\ UNCHANGED <<licensesNew, ownedGames, ownedAsk, web, setting, badgePart, farmPart,
                   assertFails>>

\* handleUpdates(): the games whose time has come are paused, or played again.
HandleUpdates(due) ==
    /\ due # {} /\ due \subseteq DOMAIN playGames /\ Cardinality(updateGames) < MaxUpdates
    /\ playGames' = [g \in DOMAIN playGames |-> IF g \in due THEN ~playGames[g] ELSE playGames[g]]
    /\ SendGames(playGames') /\ RequestUpdates({g \in due : ~playGames[g]})
    /\ UNCHANGED <<playMessages, playingGames, licensesNew, ownedGames, ownedAsk, web, setting,
                   badgePart, farmPart, assertFails>>

FarmSteps ==
       \/ \E g \in Games : \/ Buy(g) \/ PlaytimeGrows(g) \/ HandleUpdateBadge(g)
                           \/ HandleNewGame(g)
       \/ \E g \in Games, b \in BOOLEAN : CardDrops(g, b) \/ HandleCardNote(g, b)
       \/ \E list \in SUBSET Games : AskSomeGames(list) \/ HandleUpdates(list)
       \/ \E cut \in {{}, library} : OverviewLoaded(cut)
       \/ \E b \in BOOLEAN : FarmerRuns(b) \/ BadgePage(b)
       \/ Switch \/ AskAllGames \/ GotGames \/ BadgeWakes \/ BadgeMessagesDone \/ HandlePlayGames

\* The process ends with the first assertion that fails.
FarmNext == ~assertFails /\ FarmSteps

FarmSpec == FarmInit /\ [][FarmNext]_farmVars

----------------------------------------------------------------------------
FarmTypeOK ==
    /\ {library, played, farmPlaying, playingGames, updateBadge, cardNotes, newGames,
        changedGames} \subseteq SUBSET Games
    /\ updateGames \subseteq SUBSET Games /\ playtime \in [Games -> 0..3]
    /\ DOMAIN playGames \subseteq Games /\ Len(playMessages) <= MaxPlays + 1
    /\ badgeStep \in {"wait", "overview", "messages"} \cup Games
    /\ {enable, licensesNew, fullyLoaded, badgeWoken, assertFails} \subseteq BOOLEAN
    /\ farmWoken \subseteq {"badges", "enable"}

\* What the server is told to be played is what PlayGames plays and has not
\* paused, and when PlayGames has no message left it plays what the farmer means
\* to play, whatever was started and stopped on the way.
ChosenGamesArePlayed ==
    /\ played = {g \in DOMAIN playGames : ~playGames[g]}
    /\ playMessages = << >> => DOMAIN playGames = farmPlaying

\* Everything that is played is shown to be played. More may be shown: see below.
PlayingIsShown == DOMAIN playGames \subseteq playingGames

\* PlayGames.hpp:85-86: the whiteboard item "provides the list of games that are currently
\* 'played' by our module". TLC finds this violated: stopGames() reports the games only if
\* one of those it stops was not paused (PlayGames.cpp:278-283).
ShownIsPlayed == playingGames = DOMAIN playGames

\* Once the farmer has noticed that it is disabled, it plays nothing; it never plays a
\* game that could still be refunded, for all it knows of its playtime, and never more
\* than one game besides those that only collect playtime.
FarmsByTheRules ==
    /\ ~enable /\ "enable" \notin farmWoken => farmPlaying = {}
    /\ Cardinality(farmPlaying) <= MaxGames
    /\ \A g \in farmPlaying : g \in DOMAIN farmGames /\ ~Refundable(farmGames[g].time, g)
    /\ farmWoken = {} /\ changedGames = {} /\ Cardinality(farmPlaying) > 1 =>
           \A g \in farmPlaying : farmGames[g].time = 1 /\ farmGames[g].received = 0

\* Whiteboard.hpp:327: assert(data!=nullptr) in whiteboard.get<T>(). updateBadge()
\* uses it without a default.
BadgesAreThere == ~assertFails

=============================================================================
