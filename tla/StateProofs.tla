---------------------------- MODULE StateProofs -----------------------------
(***************************************************************************)
(* Proofs about what clients do in the course of days: CardFarming,        *)
(* Eligibility and Presence, for any games, accounts and intervals. Then   *)
(* the fields of the parts of FrameworkMC keep their types: those that the *)
(* invariants of the other proofs do not mention are shown to do so here.  *)
(***************************************************************************)
EXTENDS ModuleProofs, CardFarming, Eligibility, Presence

-----------------------------------------------------------------------------
(* CardFarming                                                             *)

(* What the whiteboard and the farmer know of games.                       *)
FarmKnown(f, S) == f = Nothing \/ (DOMAIN f \subseteq Games /\ f \in [DOMAIN f -> S])
FarmInfos == [remaining : Int, received : Nat, time : 0..3]
GamesInv ==
    /\ library \subseteq Games /\ playtime \in [Games -> 0..3] /\ cardsReceived \in [Games -> Nat]
    /\ FarmKnown(ownedGames, 0..3) /\ FarmKnown(badges, Nat)
    /\ badgeStep \in Games => DOMAIN existing \subseteq Games /\ existing \in [DOMAIN existing -> Nat]
    /\ changedGames \subseteq Games
    /\ DOMAIN farmGames \subseteq Games /\ farmGames \in [DOMAIN farmGames -> FarmInfos]

(* The playtimes that are known, and those of the games worth farming, are *)
(* not ahead of the real ones, and none of these games can be refunded.    *)
PlaytimesInv ==
    /\ \A g \in Games : g \in DOMAIN ownedGames => ownedGames[g] <= playtime[g]
    /\ \A g \in DOMAIN farmGames :
          /\ farmGames[g].time <= playtime[g]
          /\ g \in DOMAIN ownedGames => farmGames[g].time <= ownedGames[g]
          /\ ~Refundable(farmGames[g].time, g)

(* What the farmer has chosen.                                             *)
RulesInv ==
    /\ farmPlaying \subseteq Games
    /\ enable \in BOOLEAN /\ farmWoken \subseteq {"badges", "enable"}
    /\ FarmsByTheRules

(* The messages on their way to PlayGames, each applied to the games it    *)
(* plays by then: they lead from a set A to a set B.                       *)
PlayMessage == [start : BOOLEAN, games : SUBSET Games]
Applied(m, A) == IF m.start THEN A \cup m.games ELSE A \ m.games
Leads(s, A, B) ==
    \E w \in [0..Len(s) -> SUBSET Games] :
        w[0] = A /\ w[Len(s)] = B /\ \A i \in 1..Len(s) : w[i] = Applied(s[i], w[i - 1])

PlayInv ==
    /\ DOMAIN playGames \subseteq Games /\ playGames \in [DOMAIN playGames -> BOOLEAN]
    /\ played = {g \in DOMAIN playGames : ~playGames[g]}
    /\ DOMAIN playGames \subseteq playingGames
    /\ playMessages \in Seq(PlayMessage) /\ Leads(playMessages, DOMAIN playGames, farmPlaying)

(* No messages lead from a set to itself only.                             *)
LEMMA LeadsEmpty ==
  ASSUME NEW A \in SUBSET Games, NEW B \in SUBSET Games
  PROVE  Leads(<<>>, A, B) <=> A = B
<1>1. Len(<<>>) = 0 /\ 0..0 = {0} /\ 1..0 = {}
  OBVIOUS
<1>2. ASSUME A = B
      PROVE  Leads(<<>>, A, B)
  <2> DEFINE w == [i \in 0..0 |-> A]
  <2>1. w \in [0..0 -> SUBSET Games] /\ w[0] = A
    OBVIOUS
  <2>2. QED
    BY <1>1, <1>2, <2>1 DEF Leads
<1>3. QED
  BY <1>1, <1>2 DEF Leads

(* A message more is applied to the end.                                   *)
LEMMA LeadsAppend ==
  ASSUME NEW s \in Seq(PlayMessage), NEW m \in PlayMessage,
         NEW A \in SUBSET Games, NEW B \in SUBSET Games, Leads(s, A, B)
  PROVE  Leads(Append(s, m), A, Applied(m, B))
<1> DEFINE n == Len(s)  t == Append(s, m)
<1>1. /\ n \in Nat /\ Len(t) = n + 1 /\ t[n + 1] = m
      /\ \A i \in 1..n : t[i] = s[i]
  BY AppendFacts
<1>2. PICK w \in [0..n -> SUBSET Games] :
         w[0] = A /\ w[n] = B /\ \A i \in 1..n : w[i] = Applied(s[i], w[i - 1])
  BY DEF Leads
<1>3. Applied(m, B) \in SUBSET Games
  BY DEF Applied, PlayMessage
<1> DEFINE v == [i \in 0..(n + 1) |-> IF i = n + 1 THEN Applied(m, B) ELSE w[i]]
<1> HIDE DEF n, t
<1>4. v \in [0..(n + 1) -> SUBSET Games]
  BY <1>1, <1>2, <1>3
<1>5. v[0] = A /\ v[n + 1] = Applied(m, B) /\ \A i \in 0..n : v[i] = w[i]
  BY <1>1, <1>2
<1> HIDE DEF v
<1>6. ASSUME NEW i \in 1..(n + 1)
      PROVE  v[i] = Applied(t[i], v[i - 1])
  <2>1. CASE i = n + 1
    <3>1. i - 1 = n /\ n \in 0..n
      BY <1>1, <2>1
    <3>2. QED
      BY <1>1, <1>2, <1>5, <2>1, <3>1
  <2>2. CASE i # n + 1
    <3>1. i \in 1..n /\ i \in 0..n /\ i - 1 \in 0..n
      BY <1>1, <2>2
    <3>2. v[i] = w[i] /\ v[i - 1] = w[i - 1] /\ t[i] = s[i] /\ w[i] = Applied(s[i], w[i - 1])
      BY <1>1, <1>2, <1>5, <3>1
    <3>3. QED
      BY <3>2
  <2>3. QED
    BY <2>1, <2>2
<1>7. QED
  BY <1>1, <1>4, <1>5, <1>6 DEF Leads, t

(* The first message is applied to the beginning.                          *)
LEMMA LeadsTail ==
  ASSUME NEW s \in Seq(PlayMessage), s # <<>>,
         NEW A \in SUBSET Games, NEW B \in SUBSET Games, Leads(s, A, B)
  PROVE  Leads(Tail(s), Applied(Head(s), A), B)
<1> DEFINE n == Len(s)  t == Tail(s)
<1>1. /\ Head(s) = s[1] /\ n \in Nat \ {0} /\ Len(t) = n - 1
      /\ \A i \in 1..(n - 1) : t[i] = s[i + 1]
  BY TailFacts
<1>2. PICK w \in [0..n -> SUBSET Games] :
         w[0] = A /\ w[n] = B /\ \A i \in 1..n : w[i] = Applied(s[i], w[i - 1])
  BY DEF Leads
<1> DEFINE v == [i \in 0..(n - 1) |-> w[i + 1]]
<1> HIDE DEF n, t
<1>3. \A i \in 0..(n - 1) : i + 1 \in 0..n
  BY <1>1
<1>4. v \in [0..(n - 1) -> SUBSET Games]
  BY <1>2, <1>3
<1>5. 0 \in 0..(n - 1) /\ n - 1 \in 0..(n - 1) /\ 1 \in 1..n
  BY <1>1
<1>6. v[0] = w[1] /\ v[n - 1] = w[n] /\ w[1] = Applied(s[1], w[0])
  <2>1. 0 + 1 = 1 /\ (n - 1) + 1 = n /\ 1 - 1 = 0
    BY <1>1
  <2>2. w[1] = Applied(s[1], w[1 - 1])
    BY <1>2, <1>5
  <2>3. v[0] = w[0 + 1] /\ v[n - 1] = w[(n - 1) + 1]
    BY <1>5
  <2>4. QED
    BY <2>1, <2>2, <2>3
<1>7. ASSUME NEW i \in 1..(n - 1)
      PROVE  v[i] = Applied(t[i], v[i - 1])
  <2>1. i \in 0..(n - 1) /\ i - 1 \in 0..(n - 1) /\ (i - 1) + 1 = i /\ i + 1 \in 1..n /\ (i + 1) - 1 = i
    BY <1>1
  <2>2. v[i] = w[i + 1] /\ v[i - 1] = w[(i - 1) + 1]
    BY <2>1
  <2>3. w[i + 1] = Applied(s[i + 1], w[(i + 1) - 1])
    BY <1>2, <2>1
  <2>4. t[i] = s[i + 1]
    BY <1>1
  <2>5. QED
    BY <2>1, <2>2, <2>3, <2>4
<1> HIDE DEF v
<1>8. QED
  BY <1>1, <1>2, <1>4, <1>6, <1>7 DEF Leads, t

(* The steps of the games, one disjunct for each.                          *)
LEMMA FarmCases ==
  ASSUME [FarmNext]_farmVars
  PROVE  \/ UNCHANGED farmVars
         \/ \E g \in Games : \/ Buy(g) \/ PlaytimeGrows(g) \/ HandleUpdateBadge(g)
                             \/ HandleNewGame(g)
                             \/ \E b \in BOOLEAN : CardDrops(g, b) \/ HandleCardNote(g, b)
         \/ \E list \in SUBSET Games : AskSomeGames(list) \/ HandleUpdates(list)
         \/ \E lost \in {{}, library} : OverviewLoaded(lost)
         \/ \E b \in BOOLEAN : FarmerRuns(b) \/ BadgePage(b)
         \/ Switch \/ AskAllGames \/ GotGames \/ BadgeWakes \/ BadgeMessagesDone
         \/ HandlePlayGames
BY DEF FarmNext, FarmSteps

\* What the farmer makes of the badges, and the playtimes.
LEMMA FarmInfoFacts ==
  ASSUME FarmAssumption, GamesInv, NEW games, games \in {ReadBadges, farmGames}
  PROVE  /\ DOMAIN WithPlaytimes(games) \subseteq Games
         /\ WithPlaytimes(games) \in [DOMAIN WithPlaytimes(games) -> FarmInfos]
<1>1. DOMAIN games \subseteq Games /\ games \in [DOMAIN games -> FarmInfos]
  <2>1. CASE games = farmGames
    BY <2>1 DEF GamesInv
  <2>2. CASE badges = Nothing \/ ownedGames = Nothing
    <3>1. ReadBadges = <<>>
      BY <2>2 DEF ReadBadges
    <3>2. DOMAIN <<>> = {} /\ <<>> \in [{} -> FarmInfos]
      OBVIOUS
    <3>3. QED
      BY <2>1, <3>1, <3>2
  <2>3. CASE ~(badges = Nothing \/ ownedGames = Nothing) /\ games = ReadBadges
    <3> DEFINE worth == {g \in DOMAIN badges : badges[g] < Earned[g] /\ g \in DOMAIN ownedGames /\
                                        ~Refundable(ownedGames[g], g)}
    <3>1. games = [g \in worth |-> [remaining |-> Earned[g] - badges[g], received |-> badges[g],
                                    time |-> ownedGames[g]]]
      BY <2>3, SMTT(30) DEF ReadBadges
    <3>2. \A g \in worth : g \in Games /\ badges[g] \in Nat /\ ownedGames[g] \in 0..3 /\ Earned[g] \in Nat
      BY <2>3 DEF GamesInv, FarmKnown, FarmAssumption
    <3> HIDE DEF worth
    <3>3. QED
      BY <3>1, <3>2 DEF FarmInfos
  <2>4. QED
    BY <2>1, <2>2, <2>3
<1>2. \A g \in changedGames : g \in DOMAIN ownedGames => ownedGames[g] \in 0..3
  <2>1. DOMAIN Nothing = {"nothing"}
    BY DEF Nothing
  <2>2. "nothing" \notin Games
    BY DEF FarmAssumption
  <2>3. QED
    BY <2>1, <2>2, SMTT(30) DEF GamesInv, FarmKnown
<1>3. QED
  BY <1>1, <1>2 DEF WithPlaytimes, FarmInfos

(* What is read about the games is about games of the library.             *)
LEMMA GamesStep ==
  ASSUME FarmAssumption, GamesInv, [FarmNext]_farmVars
  PROVE  GamesInv'
<1> USE DEF GamesInv, FarmKnown
<1>0. /\ "wait" \notin Games /\ "messages" \notin Games /\ "overview" \notin Games
      /\ "nothing" \notin Games
  BY DEF FarmAssumption
<1>1. CASE UNCHANGED farmVars
  BY <1>1 DEF farmVars
<1>2. ASSUME NEW g \in Games, Buy(g)
      PROVE  GamesInv'
  BY <1>2 DEF Buy, ownedPart, badgePart, farmPart
<1>3. ASSUME NEW g \in Games, PlaytimeGrows(g)
      PROVE  GamesInv'
  <2>1. playtime' \in [Games -> 0..3]
    BY <1>3 DEF PlaytimeGrows
  <2>2. QED
    BY <1>3, <2>1 DEF PlaytimeGrows, ownedPart, badgePart, farmPart
<1>4. ASSUME NEW g \in Games, NEW b \in BOOLEAN, CardDrops(g, b)
      PROVE  GamesInv'
  BY <1>4 DEF CardDrops, ownedPart, farmPart
<1>5. CASE Switch
  BY <1>5 DEF Switch, web, ownedPart
<1>6. CASE AskAllGames
  BY <1>6 DEF AskAllGames, web, badgePart, farmPart
<1>7. ASSUME NEW list, AskSomeGames(list)
      PROVE  GamesInv'
  BY <1>7 DEF AskSomeGames, web, badgePart, farmPart
<1>8. CASE GotGames
  <2> DEFINE askedNow == IF ownedAsk = Everything THEN library ELSE ownedAsk \cap library
             before == IF ownedGames = Nothing THEN {} ELSE DOMAIN ownedGames
             changed == {g \in askedNow \cap before : ownedGames[g] # playtime[g]}
             all == askedNow \cup (IF ownedAsk = Everything THEN {} ELSE before)
  <2>1. /\ ownedGames' = [g \in all |-> IF g \in askedNow THEN playtime[g] ELSE ownedGames[g]]
        /\ changedGames' = changedGames \cup changed
        /\ UNCHANGED <<web, badges, badgeStep, existing, farmGames>>
    BY <1>8 DEF GotGames
  <2>2. askedNow \subseteq Games /\ before \subseteq Games /\ \A g \in before : ownedGames[g] \in 0..3
    OBVIOUS
  <2>3. all \subseteq Games /\ changed \subseteq Games /\ all \subseteq askedNow \cup before
    BY <2>2
  <2> HIDE DEF all, askedNow, before, changed
  <2>4. DOMAIN ownedGames' \subseteq Games /\ ownedGames' \in [DOMAIN ownedGames' -> 0..3]
    BY <2>1, <2>2, <2>3
  <2>5. QED
    BY <2>1, <2>3, <2>4 DEF web
<1>9. CASE BadgeWakes
  <2>1. CASE enable
    BY <1>0, <1>9, <2>1 DEF BadgeWakes, web, ownedPart
  <2>2. CASE ~enable
    BY <1>0, <1>9, <2>2 DEF BadgeWakes, web, ownedPart
  <2>3. QED
    BY <2>1, <2>2
<1>10. ASSUME NEW lost, OverviewLoaded(lost)
       PROVE  GamesInv'
  <2>1. badgeStep' = "messages" /\ UNCHANGED <<existing, web, ownedPart, farmGames, changedGames>>
    BY <1>10 DEF OverviewLoaded
  <2>2. CASE badges' = [g \in library \ lost |-> cardsReceived[g]]
    <3>1. DOMAIN badges' \subseteq Games /\ badges' \in [DOMAIN badges' -> Nat]
      BY <2>2
    <3>2. QED
      BY <1>0, <2>1, <3>1 DEF web, ownedPart
  <2>3. CASE badges' = badges
    BY <1>0, <2>1, <2>3 DEF web, ownedPart
  <2>4. QED
    BY <1>10, <2>2, <2>3 DEF OverviewLoaded
<1>11. ASSUME NEW g \in Games, UpdateBadge(g)
       PROVE  GamesInv'
  BY <1>0, <1>11 DEF UpdateBadge, web, ownedPart, farmPart
<1>12. ASSUME NEW g \in Games, HandleUpdateBadge(g)
       PROVE  GamesInv'
  BY <1>11, <1>12 DEF HandleUpdateBadge
<1>13. ASSUME NEW g \in Games, NEW b \in BOOLEAN, HandleCardNote(g, b)
       PROVE  GamesInv'
  <2>1. UpdateBadge(g) \/ UNCHANGED <<badges, badgeStep, existing, web, ownedPart, farmPart>>
    BY <1>13 DEF HandleCardNote
  <2>2. QED
    BY <1>11, <2>1 DEF web, ownedPart, farmPart
<1>14. ASSUME NEW g \in Games, HandleNewGame(g)
       PROVE  GamesInv'
  BY <1>11, <1>14 DEF HandleNewGame
<1>15. CASE BadgeMessagesDone
  BY <1>0, <1>15 DEF BadgeMessagesDone, web, ownedPart, farmPart
<1>16. ASSUME NEW b \in BOOLEAN, BadgePage(b)
       PROVE  GamesInv'
  <2>1. badgeStep' = "messages" /\ UNCHANGED <<web, ownedPart, farmGames, changedGames>>
    BY <1>16 DEF BadgePage
  <2>2. CASE badges' = [g \in DOMAIN existing \cup {badgeStep} |->
                             IF g = badgeStep THEN cardsReceived[g] ELSE existing[g]]
    <3>1. DOMAIN badges' \subseteq Games /\ badges' \in [DOMAIN badges' -> Nat]
      BY <1>16, <2>2 DEF BadgePage
    <3>2. QED
      BY <1>0, <2>1, <3>1 DEF web, ownedPart
  <2>3. CASE badges' = badges
    BY <1>0, <2>1, <2>3 DEF web, ownedPart
  <2>4. QED
    BY <1>16, <2>2, <2>3 DEF BadgePage
<1>17. ASSUME NEW b \in BOOLEAN, FarmerRuns(b)
       PROVE  GamesInv'
  <2>1. PICK games \in {ReadBadges, farmGames} : farmGames' = WithPlaytimes(games)
    BY <1>17 DEF FarmerRuns
  <2>2. DOMAIN farmGames' \subseteq Games /\ farmGames' \in [DOMAIN farmGames' -> FarmInfos]
    BY <2>1, FarmInfoFacts
  <2>3. changedGames' = {} /\ UNCHANGED <<badges, badgeStep, existing, web, ownedPart>>
    BY <1>17 DEF FarmerRuns
  <2>4. QED
    BY <2>2, <2>3 DEF web, ownedPart
<1>18. CASE HandlePlayGames
  BY <1>18 DEF HandlePlayGames, web, badgePart, farmPart
<1>19. ASSUME NEW due, HandleUpdates(due)
       PROVE  GamesInv'
  BY <1>19 DEF HandleUpdates, web, badgePart, farmPart
<1>20. QED
  BY <1>1, <1>2, <1>3, <1>4, <1>5, <1>6, <1>7, <1>8, <1>9, <1>10, <1>12, <1>13, <1>14, <1>15,
     <1>16, <1>17, <1>18, <1>19, FarmCases


(* What the farmer makes of the badges and the playtimes can be refunded   *)
(* no more, because playtimes only grow.                                   *)
LEMMA FarmTimes ==
  ASSUME FarmAssumption, GamesInv, PlaytimesInv, NEW games, games \in {ReadBadges, farmGames},
         NEW g, g \in DOMAIN WithPlaytimes(games)
  PROVE  LET time == WithPlaytimes(games)[g].time
         IN /\ g \in Games /\ time \in 0..3 /\ time <= playtime[g] /\ ~Refundable(time, g)
            /\ g \in DOMAIN ownedGames => time <= ownedGames[g]
<1>0. g \in Games /\ WithPlaytimes(games)[g] \in FarmInfos /\ g \in DOMAIN games
  BY FarmInfoFacts DEF WithPlaytimes
<1>0a. /\ g # "nothing" /\ DOMAIN Nothing = {"nothing"} /\ playtime[g] \in 0..3
       /\ g \in DOMAIN ownedGames => ownedGames[g] \in 0..3
  BY <1>0 DEF FarmAssumption, Nothing, GamesInv, FarmKnown
<1>1. /\ games[g] \in FarmInfos /\ games[g].time <= playtime[g] /\ ~Refundable(games[g].time, g)
      /\ g \in DOMAIN ownedGames => games[g].time <= ownedGames[g]
  <2>1. CASE games = farmGames
    BY <1>0, <2>1 DEF GamesInv, PlaytimesInv
  <2>2. CASE games # farmGames /\ (badges = Nothing \/ ownedGames = Nothing)
    <3>1. games = <<>>
      BY <2>2 DEF ReadBadges
    <3>2. QED
      BY <1>0, <3>1
  <2>3. CASE games # farmGames /\ ~(badges = Nothing \/ ownedGames = Nothing)
    <3>1. /\ g \in DOMAIN badges /\ badges[g] < Earned[g] /\ g \in DOMAIN ownedGames
          /\ ~Refundable(ownedGames[g], g)
          /\ games[g] = [remaining |-> Earned[g] - badges[g], received |-> badges[g],
                         time |-> ownedGames[g]]
      BY <1>0, <2>3 DEF ReadBadges
    <3>2. badges[g] \in Nat /\ Earned[g] \in Nat
      BY <1>0, <2>3, <3>1 DEF GamesInv, FarmKnown, FarmAssumption
    <3>3. games[g].time = ownedGames[g] /\ games[g] \in FarmInfos
      BY <1>0a, <3>1, <3>2 DEF FarmInfos
    <3>4. ownedGames[g] <= playtime[g]
      BY <1>0, <3>1 DEF PlaytimesInv
    <3>5. QED
      BY <1>0a, <3>1, <3>3, <3>4
  <2>4. QED
    BY <2>1, <2>2, <2>3
<1>2. CASE WithPlaytimes(games)[g] = games[g]
  BY <1>0, <1>1, <1>2 DEF FarmInfos
<1>3. CASE WithPlaytimes(games)[g] # games[g]
  <2>1. g \in DOMAIN ownedGames /\ WithPlaytimes(games)[g] = [games[g] EXCEPT !.time = ownedGames[g]]
    BY <1>0, <1>3 DEF WithPlaytimes
  <2>2. WithPlaytimes(games)[g].time = ownedGames[g]
    BY <1>1, <2>1 DEF FarmInfos
  <2>3. ownedGames[g] <= playtime[g]
    BY <1>0, <2>1 DEF PlaytimesInv
  <2>4. games[g].time \in 0..3
    BY <1>1 DEF FarmInfos
  <2>5. ~Refundable(ownedGames[g], g)
    BY <1>0a, <1>1, <2>1, <2>4 DEF Refundable
  <2>6. QED
    BY <1>0, <1>0a, <2>1, <2>2, <2>3, <2>5
<1>4. QED
  BY <1>2, <1>3

(* Playtimes are known late and never shrink.                              *)
LEMMA PlaytimesStep ==
  ASSUME FarmAssumption, GamesInv, PlaytimesInv, [FarmNext]_farmVars
  PROVE  PlaytimesInv'
<1>1. CASE UNCHANGED <<playtime, ownedGames, farmGames>>
  BY <1>1 DEF PlaytimesInv
<1>2. ASSUME NEW g \in Games, PlaytimeGrows(g)
      PROVE  PlaytimesInv'
  <2>1. ownedGames' = ownedGames /\ farmGames' = farmGames
    BY <1>2 DEF PlaytimeGrows, ownedPart, farmPart
  <2>2. \A h \in Games : playtime[h] \in 0..3 /\ playtime'[h] \in 0..4 /\ playtime[h] <= playtime'[h]
    BY <1>2 DEF PlaytimeGrows, GamesInv
  <2>3. \A h \in Games : h \in DOMAIN ownedGames => ownedGames[h] \in 0..3
    BY DEF GamesInv, FarmKnown, FarmAssumption, Nothing
  <2>4. \A h \in DOMAIN farmGames : h \in Games /\ farmGames[h].time \in 0..3
    BY DEF GamesInv, FarmInfos
  <2>5. QED
    BY <2>1, <2>2, <2>3, <2>4 DEF PlaytimesInv
<1>3. CASE GotGames
  <2>1. /\ playtime' = playtime /\ farmGames' = farmGames
        /\ \A h \in DOMAIN ownedGames' :
              ownedGames'[h] = playtime[h] \/ (h \in DOMAIN ownedGames /\ ownedGames'[h] = ownedGames[h])
    BY <1>3 DEF GotGames, web
  <2>2. \A h \in Games : playtime[h] \in 0..3
    BY DEF GamesInv
  <2>3. DOMAIN farmGames \subseteq Games
    BY DEF GamesInv
  <2>4. QED
    BY <2>1, <2>2, <2>3 DEF PlaytimesInv
<1>4. ASSUME NEW b \in BOOLEAN, FarmerRuns(b)
      PROVE  PlaytimesInv'
  <2>1. PICK games \in {ReadBadges, farmGames} : farmGames' = WithPlaytimes(games)
    BY <1>4 DEF FarmerRuns
  <2>2. playtime' = playtime /\ ownedGames' = ownedGames
    BY <1>4 DEF FarmerRuns, web, ownedPart
  <2>3. \A g \in DOMAIN farmGames' :
           /\ farmGames'[g].time <= playtime[g] /\ ~Refundable(farmGames'[g].time, g)
           /\ g \in DOMAIN ownedGames => farmGames'[g].time <= ownedGames[g]
    BY <2>1, FarmTimes
  <2>4. QED
    BY <2>2, <2>3 DEF PlaytimesInv
<1>5. ASSUME ~(\E b \in BOOLEAN : FarmerRuns(b)), ~GotGames, ~(\E g \in Games : PlaytimeGrows(g))
      PROVE  UNCHANGED <<playtime, ownedGames, farmGames>>
  <2> USE DEF web, ownedPart, badgePart, farmPart, playPart, setting
  <2>1. CASE UNCHANGED farmVars
    BY <2>1 DEF farmVars
  <2>2. ASSUME NEW g \in Games, Buy(g)
        PROVE  UNCHANGED <<playtime, ownedGames, farmGames>>
    BY <2>2 DEF Buy
  <2>3. ASSUME NEW g \in Games, NEW b \in BOOLEAN, CardDrops(g, b)
        PROVE  UNCHANGED <<playtime, ownedGames, farmGames>>
    BY <2>3, SMTT(30) DEF CardDrops
  <2>4. ASSUME Switch \/ AskAllGames \/ (\E list : AskSomeGames(list)) \/ BadgeMessagesDone
               \/ BadgeWakes \/ HandlePlayGames \/ (\E due : HandleUpdates(due))
        PROVE  UNCHANGED <<playtime, ownedGames, farmGames>>
    BY <2>4 DEF Switch, AskAllGames, AskSomeGames, BadgeMessagesDone, BadgeWakes, HandlePlayGames,
                HandleUpdates
  <2>5. ASSUME NEW g \in Games, \/ HandleUpdateBadge(g) \/ HandleNewGame(g)
                                \/ \E b \in BOOLEAN : HandleCardNote(g, b)
        PROVE  UNCHANGED <<playtime, ownedGames, farmGames>>
    <3>1. UpdateBadge(g) \/ UNCHANGED <<playtime, ownedGames, farmGames>>
      BY <2>5 DEF HandleUpdateBadge, HandleNewGame, HandleCardNote
    <3>2. QED
      BY <3>1 DEF UpdateBadge
  <2>6. ASSUME NEW b, OverviewLoaded(b) \/ BadgePage(b)
        PROVE  UNCHANGED <<playtime, ownedGames, farmGames>>
    BY <2>6 DEF OverviewLoaded, BadgePage
  <2>7. QED
    BY <1>5, <2>1, <2>2, <2>3, <2>4, <2>5, <2>6, FarmCases
<1>6. QED
  BY <1>1, <1>2, <1>3, <1>4, <1>5

\* The farmer's choice obeys its rules.
LEMMA ChoiceFacts ==
  ASSUME FarmAssumption, NEW games, DOMAIN games \subseteq Games, games \in [DOMAIN games -> FarmInfos],
         NEW nowIs \in SelectFarmGames(games)
  PROVE  /\ nowIs \subseteq DOMAIN games /\ Cardinality(nowIs) <= MaxGames
         /\ Cardinality(nowIs) > 1 =>
               \A g \in nowIs : games[g].time = 1 /\ games[g].received = 0
<1>0. MaxGames \in Nat \ {0} /\ IsFiniteSet(Games)
  BY DEF FarmAssumption
<1>1. \A g \in DOMAIN games : games[g].received \in Nat /\ games[g].time \in 0..3
  BY DEF FarmInfos
<1>2. ASSUME NEW candidates \in SUBSET DOMAIN games, nowIs \in Best(games, candidates)
      PROVE  /\ nowIs \subseteq DOMAIN games /\ Cardinality(nowIs) <= MaxGames
             /\ ~(Cardinality(nowIs) > 1)
  <2>1. PICK g \in candidates : nowIs = {g}
    BY <1>2 DEF Best
  <2>2. Cardinality(nowIs) = 1
    BY <2>1, FS_Singleton
  <2>3. nowIs \subseteq DOMAIN games
    BY <2>1
  <2>4. QED
    BY <1>0, <2>2, <2>3
<1> DEFINE withCards == {g \in DOMAIN games : games[g].received > 0}
           long == {g \in DOMAIN games : games[g].time >= 2}
           short == {g \in DOMAIN games : games[g].time < 1}
<1>3. CASE withCards = {} /\ long = {} /\ short = {}
  <2>1. nowIs \in Several(games, DOMAIN games)
    BY <1>3 DEF SelectFarmGames
  <2>2. /\ nowIs \subseteq DOMAIN games
        /\ Cardinality(nowIs) = IF Cardinality(DOMAIN games) < MaxGames
                              THEN Cardinality(DOMAIN games) ELSE MaxGames
    BY <2>1 DEF Several
  <2>3. Cardinality(DOMAIN games) \in Nat
    BY <1>0, FS_Subset, FS_CardinalityType
  <2>4. \A g \in DOMAIN games : games[g].time = 1 /\ games[g].received = 0
    BY <1>1, <1>3
  <2>5. QED
    BY <1>0, <2>2, <2>3, <2>4
<1>4. CASE ~(withCards = {} /\ long = {} /\ short = {})
  <2>1. \E candidates \in SUBSET DOMAIN games : nowIs \in Best(games, candidates)
    BY <1>4 DEF SelectFarmGames
  <2>2. QED
    BY <1>2, <2>1
<1>5. QED
  BY <1>3, <1>4

(* The choice is made from what is known then, and stays until the next.   *)
LEMMA RulesStep ==
  ASSUME FarmAssumption, GamesInv, PlaytimesInv, RulesInv, [FarmNext]_farmVars
  PROVE  RulesInv'
<1>1. CASE /\ UNCHANGED <<farmGames, farmPlaying>> /\ enable' \in BOOLEAN
           /\ farmWoken \subseteq farmWoken' /\ farmWoken' \subseteq {"badges", "enable"}
           /\ changedGames \subseteq changedGames'
           /\ enable' = enable \/ "enable" \in farmWoken'
  BY <1>1 DEF RulesInv, FarmsByTheRules
<1>2. ASSUME NEW b \in BOOLEAN, FarmerRuns(b)
      PROVE  RulesInv'
  <2>1. PICK games \in {ReadBadges, farmGames} :
           /\ farmGames' = WithPlaytimes(games)
           /\ farmPlaying' \in IF enable THEN SelectFarmGames(WithPlaytimes(games)) ELSE {{}}
    BY <1>2 DEF FarmerRuns
  <2>2. farmWoken' = {} /\ changedGames' = {} /\ enable' = enable
    BY <1>2 DEF FarmerRuns, setting
  <2> DEFINE all == WithPlaytimes(games)
  <2>3. DOMAIN all \subseteq Games /\ all \in [DOMAIN all -> FarmInfos]
    BY <2>1, FarmInfoFacts
  <2> HIDE DEF all
  <2>4. CASE enable
    <3>1. farmPlaying' \in SelectFarmGames(all)
      BY <2>1, <2>4 DEF all
    <3>2. /\ farmPlaying' \subseteq DOMAIN all /\ Cardinality(farmPlaying') <= MaxGames
          /\ Cardinality(farmPlaying') > 1 =>
                \A g \in farmPlaying' : all[g].time = 1 /\ all[g].received = 0
      BY <2>3, <3>1, ChoiceFacts
    <3>3. farmGames' = all
      BY <2>1 DEF all
    <3>4. \A g \in DOMAIN farmGames' : ~Refundable(farmGames'[g].time, g)
      BY PlaytimesStep DEF PlaytimesInv
    <3>5. QED
      BY <2>2, <2>3, <2>4, <3>2, <3>3, <3>4 DEF RulesInv, FarmsByTheRules
  <2>5. CASE ~enable
    <3>1. farmPlaying' = {} /\ Cardinality(farmPlaying') = 0
      BY <2>1, <2>5, FS_EmptySet
    <3>2. QED
      BY <2>2, <3>1 DEF RulesInv, FarmsByTheRules, FarmAssumption
  <2>6. QED
    BY <2>4, <2>5 DEF RulesInv
<1>3. ASSUME ~(\E b \in BOOLEAN : FarmerRuns(b))
      PROVE  RulesInv'
  <2> SUFFICES /\ UNCHANGED <<farmGames, farmPlaying>> /\ enable' \in BOOLEAN
               /\ farmWoken \subseteq farmWoken' /\ farmWoken' \subseteq {"badges", "enable"}
               /\ changedGames \subseteq changedGames'
               /\ enable' = enable \/ "enable" \in farmWoken'
    BY <1>1
  <2> USE DEF RulesInv, web, ownedPart, badgePart, farmPart, playPart, setting
  <2>1. CASE UNCHANGED farmVars
    BY <2>1 DEF farmVars
  <2>2. ASSUME NEW g \in Games, Buy(g) \/ PlaytimeGrows(g)
        PROVE  UNCHANGED <<enable, farmGames, farmPlaying, farmWoken, changedGames>>
    BY <2>2, SMTT(30) DEF Buy, PlaytimeGrows
  <2>3. ASSUME NEW g \in Games, NEW b \in BOOLEAN, CardDrops(g, b)
        PROVE  UNCHANGED <<enable, farmGames, farmPlaying, farmWoken, changedGames>>
    BY <2>3, SMTT(30) DEF CardDrops
  <2>4. CASE Switch
    BY <2>4 DEF Switch
  <2>5. ASSUME AskAllGames \/ (\E list : AskSomeGames(list)) \/ BadgeMessagesDone
               \/ HandlePlayGames \/ \E due : HandleUpdates(due)
        PROVE  UNCHANGED <<enable, farmGames, farmPlaying, farmWoken, changedGames>>
    BY <2>5 DEF AskAllGames, AskSomeGames, BadgeMessagesDone, HandlePlayGames, HandleUpdates
  <2>6. CASE GotGames
    <3>1. changedGames \subseteq changedGames' /\ UNCHANGED <<enable, farmGames, farmPlaying, farmWoken>>
      BY <2>6 DEF GotGames
    <3>2. QED
      BY <3>1
  <2>7. CASE BadgeWakes
    <3>1. /\ farmWoken' \in {farmWoken, farmWoken \cup {"badges"}}
          /\ UNCHANGED <<enable, farmGames, farmPlaying, changedGames>>
      BY <2>7 DEF BadgeWakes
    <3>2. QED
      BY <3>1
  <2>8. ASSUME NEW g \in Games, UpdateBadge(g)
        PROVE  UNCHANGED <<enable, farmGames, farmPlaying, farmWoken, changedGames>>
    BY <2>8 DEF UpdateBadge
  <2>9. ASSUME NEW g \in Games, \/ HandleUpdateBadge(g) \/ HandleNewGame(g)
                                \/ \E b \in BOOLEAN : HandleCardNote(g, b)
        PROVE  UNCHANGED <<enable, farmGames, farmPlaying, farmWoken, changedGames>>
    <3>1. UpdateBadge(g) \/ UNCHANGED <<enable, farmGames, farmPlaying, farmWoken, changedGames>>
      BY <2>9 DEF HandleUpdateBadge, HandleNewGame, HandleCardNote
    <3>2. QED
      BY <2>8, <3>1
  <2>10. ASSUME NEW b, OverviewLoaded(b) \/ BadgePage(b)
         PROVE  /\ farmWoken' \in {farmWoken, farmWoken \cup {"badges"}}
                /\ UNCHANGED <<enable, farmGames, farmPlaying, changedGames>>
    BY <2>10 DEF OverviewLoaded, BadgePage
  <2>11. QED
    <3>1. \/ UNCHANGED farmVars
          \/ \E g \in Games : Buy(g) \/ PlaytimeGrows(g)
          \/ \E g \in Games : \E b \in BOOLEAN : CardDrops(g, b)
          \/ Switch \/ GotGames \/ BadgeWakes
          \/ AskAllGames \/ (\E list : AskSomeGames(list)) \/ BadgeMessagesDone
          \/ HandlePlayGames \/ (\E due : HandleUpdates(due))
          \/ (\E g \in Games : \/ HandleUpdateBadge(g) \/ HandleNewGame(g)
                               \/ \E b \in BOOLEAN : HandleCardNote(g, b))
          \/ \E b : OverviewLoaded(b) \/ BadgePage(b)
      BY <1>3, FarmCases
    <3>2. \/ UNCHANGED <<enable, farmGames, farmPlaying, farmWoken, changedGames>>
          \/ /\ farmWoken' \in {farmWoken, farmWoken \cup {"badges"}}
             /\ UNCHANGED <<enable, farmGames, farmPlaying, changedGames>>
          \/ Switch \/ GotGames \/ BadgeWakes \/ UNCHANGED farmVars
      BY <2>2, <2>3, <2>5, <2>9, <2>10, <3>1
    <3>3. CASE UNCHANGED <<enable, farmGames, farmPlaying, farmWoken, changedGames>>
      BY <3>3
    <3>4. CASE /\ farmWoken' \in {farmWoken, farmWoken \cup {"badges"}}
               /\ UNCHANGED <<enable, farmGames, farmPlaying, changedGames>>
      BY <3>4
    <3>5. QED
      BY <2>1, <2>4, <2>6, <2>7, <3>2, <3>3, <3>4
<1>4. QED
  BY <1>2, <1>3


(* What is played and shown after a message. *)
LEMMA StartFacts ==
  ASSUME PlayInv, NEW list \in SUBSET Games, StartGames(list)
  PROVE  /\ DOMAIN playGames' = DOMAIN playGames \cup list
         /\ playGames' \in [DOMAIN playGames' -> BOOLEAN]
         /\ played' = {g \in DOMAIN playGames' : ~playGames'[g]}
         /\ DOMAIN playGames' \subseteq playingGames'
<1>1. playGames' = [g \in DOMAIN playGames \cup list |-> g \in DOMAIN playGames /\ playGames[g]]
  BY DEF StartGames
<1>2. DOMAIN playGames' = DOMAIN playGames \cup list /\ playGames' \in [DOMAIN playGames' -> BOOLEAN]
  BY <1>1
<1>3. CASE DOMAIN playGames' = DOMAIN playGames
  <2>1. UNCHANGED <<played, playingGames>>
    BY <1>1, <1>3 DEF StartGames
  <2>2. \A g \in DOMAIN playGames : playGames'[g] = playGames[g]
    BY <1>1 DEF PlayInv
  <2>3. QED
    BY <1>2, <1>3, <2>1, <2>2 DEF PlayInv
<1>4. CASE DOMAIN playGames' # DOMAIN playGames
  <2>1. SendGames(playGames') /\ playingGames' = DOMAIN playGames'
    BY <1>1, <1>4 DEF StartGames
  <2>2. QED
    BY <1>2, <2>1 DEF SendGames
<1>5. QED
  BY <1>3, <1>4

(* What is played and shown after games have been stopped.                 *)
LEMMA StopFacts ==
  ASSUME PlayInv, NEW list \in SUBSET Games, StopGames(list)
  PROVE  /\ DOMAIN playGames' = DOMAIN playGames \ list
         /\ playGames' \in [DOMAIN playGames' -> BOOLEAN]
         /\ played' = {g \in DOMAIN playGames' : ~playGames'[g]}
         /\ DOMAIN playGames' \subseteq playingGames'
<1> DEFINE news == {g \in DOMAIN playGames \cap list : ~playGames[g]}
<1>1. playGames' = [g \in DOMAIN playGames \ list |-> playGames[g]]
  BY DEF StopGames
<1>2. /\ DOMAIN playGames' = DOMAIN playGames \ list
      /\ playGames' \in [DOMAIN playGames' -> BOOLEAN]
      /\ \A g \in DOMAIN playGames' : playGames'[g] = playGames[g]
  BY <1>1 DEF PlayInv
<1>3. CASE news = {}
  <2>1. UNCHANGED <<played, playingGames>>
    BY <1>3 DEF StopGames
  <2>2. \A g \in DOMAIN playGames : ~playGames[g] => g \notin list
    BY <1>3
  <2>3. QED
    BY <1>2, <2>1, <2>2 DEF PlayInv
<1>4. CASE news # {}
  <2>1. SendGames(playGames') /\ playingGames' = DOMAIN playGames'
    BY <1>1, <1>4 DEF StopGames
  <2>2. QED
    BY <1>2, <2>1 DEF SendGames
<1>5. QED
  BY <1>3, <1>4

\* The messages of a new choice lead to it from the old one.
LEMMA ChoiceLeads ==
  ASSUME NEW s \in Seq(PlayMessage), NEW A \in SUBSET Games, NEW nowIs \in SUBSET Games,
         farmPlaying \in SUBSET Games, Leads(s, A, farmPlaying)
  PROVE  s \o PlayMessages(nowIs) \in Seq(PlayMessage) /\ Leads(s \o PlayMessages(nowIs), A, nowIs)
<1> DEFINE stop == [start |-> FALSE, games |-> farmPlaying \ nowIs]
           start == [start |-> TRUE, games |-> nowIs]
<1>1. /\ stop \in PlayMessage /\ start \in PlayMessage
      /\ Applied(stop, farmPlaying) = farmPlaying \cap nowIs
      /\ \A B \in SUBSET nowIs : Applied(start, B) = nowIs
  BY DEF PlayMessage, Applied
<1> HIDE DEF stop, start
<1>2. CASE nowIs = farmPlaying
  <2>1. PlayMessages(nowIs) = <<>> \o <<>>
    BY <1>2 DEF PlayMessages
  <2>2. <<>> \o <<>> = <<>> /\ s \o <<>> = s
    OBVIOUS
  <2>3. s \o PlayMessages(nowIs) = s
    BY <2>1, <2>2
  <2>4. QED
    BY <1>2, <2>3
<1>3. CASE nowIs # farmPlaying /\ farmPlaying \subseteq nowIs
  <2>1. PlayMessages(nowIs) = <<>> \o <<start>>
    BY <1>3 DEF PlayMessages, start
  <2>2. <<>> \o <<start>> = <<start>> /\ s \o <<start>> = Append(s, start)
    BY <1>1
  <2>3. s \o PlayMessages(nowIs) = Append(s, start)
    BY <2>1, <2>2
  <2>4. Leads(Append(s, start), A, Applied(start, farmPlaying)) /\ Append(s, start) \in Seq(PlayMessage)
    BY <1>1, LeadsAppend, AppendFacts
  <2>5. QED
    BY <1>1, <1>3, <2>3, <2>4
<1>4. CASE ~(farmPlaying \subseteq nowIs)
  <2>1. PlayMessages(nowIs) = <<stop>> \o <<start>>
    <3>1. nowIs # farmPlaying
      BY <1>4
    <3>2. QED
      BY <1>4, <3>1 DEF PlayMessages, start, stop
  <2>2. s \o (<<stop>> \o <<start>>) = Append(Append(s, stop), start)
    BY <1>1, PairIs
  <2>3. s \o PlayMessages(nowIs) = Append(Append(s, stop), start)
    BY <2>1, <2>2
  <2>5. Append(s, stop) \in Seq(PlayMessage) /\ Leads(Append(s, stop), A, farmPlaying \cap nowIs)
    BY <1>1, LeadsAppend, AppendFacts
  <2>6. /\ Append(Append(s, stop), start) \in Seq(PlayMessage)
        /\ Leads(Append(Append(s, stop), start), A, Applied(start, farmPlaying \cap nowIs))
    <3>1. \A t \in Seq(PlayMessage) : \A B \in SUBSET Games :
             Leads(t, A, B) => Leads(Append(t, start), A, Applied(start, B))
      BY <1>1, LeadsAppend
    <3>2. \A t \in Seq(PlayMessage) : Append(t, start) \in Seq(PlayMessage)
      BY <1>1, AppendFacts
    <3>3. farmPlaying \cap nowIs \in SUBSET Games
      OBVIOUS
    <3>4. QED
      BY <2>5, <3>1, <3>2, <3>3
  <2>7. Applied(start, farmPlaying \cap nowIs) = nowIs
    BY <1>1
  <2>8. QED
    BY <2>3, <2>6, <2>7
<1>5. QED
  BY <1>2, <1>3, <1>4

(* The messages on their way lead from what is played to what was chosen.  *)
LEMMA PlayStep ==
  ASSUME FarmAssumption, GamesInv, PlaytimesInv, RulesInv, PlayInv, [FarmNext]_farmVars
  PROVE  PlayInv'
<1>1. CASE UNCHANGED <<playGames, played, playingGames, playMessages, farmPlaying>>
  BY <1>1 DEF PlayInv
<1>2. ASSUME NEW b \in BOOLEAN, FarmerRuns(b)
      PROVE  PlayInv'
  <2>1. /\ playMessages' = playMessages \o PlayMessages(farmPlaying')
        /\ UNCHANGED <<playGames, played, playingGames>>
    BY <1>2 DEF FarmerRuns
  <2>2. RulesInv'
    BY <1>2, RulesStep
  <2>3. farmPlaying' \in SUBSET Games
    BY <2>2 DEF RulesInv
  <2>4. \A nowIs \in SUBSET Games :
           /\ playMessages \o PlayMessages(nowIs) \in Seq(PlayMessage)
           /\ Leads(playMessages \o PlayMessages(nowIs), DOMAIN playGames, nowIs)
    BY ChoiceLeads DEF PlayInv, RulesInv
  <2>5. playMessages' \in Seq(PlayMessage) /\ Leads(playMessages', DOMAIN playGames, farmPlaying')
    BY <2>1, <2>3, <2>4
  <2>6. QED
    BY <2>1, <2>5 DEF PlayInv
<1>3. CASE HandlePlayGames
  <2> DEFINE first == Head(playMessages)
  <2>1. /\ playMessages # <<>> /\ playMessages' = Tail(playMessages) /\ farmPlaying' = farmPlaying
        /\ IF first.start THEN StartGames(first.games) ELSE StopGames(first.games)
    BY <1>3 DEF HandlePlayGames, farmPart
  <2>2. playMessages \in Seq(PlayMessage)
    BY DEF PlayInv
  <2>3. first \in PlayMessage /\ playMessages' \in Seq(PlayMessage)
    BY <2>1, <2>2, RangeTail
  <2>4. first.games \in SUBSET Games
    BY <2>3 DEF PlayMessage
  <2>5. Leads(playMessages', Applied(first, DOMAIN playGames), farmPlaying)
    BY <2>1, <2>2, LeadsTail DEF PlayInv, RulesInv
  <2> HIDE DEF first
  <2>6. /\ DOMAIN playGames' = Applied(first, DOMAIN playGames)
        /\ playGames' \in [DOMAIN playGames' -> BOOLEAN]
        /\ played' = {g \in DOMAIN playGames' : ~playGames'[g]}
        /\ DOMAIN playGames' \subseteq playingGames'
    <3>1. CASE first.start
      BY <2>1, <2>4, <3>1, StartFacts DEF Applied
    <3>2. CASE ~first.start
      BY <2>1, <2>4, <3>2, StopFacts DEF Applied
    <3>3. QED
      BY <3>1, <3>2
  <2>7. DOMAIN playGames' \subseteq Games
    BY <2>4, <2>6 DEF Applied, PlayInv
  <2>8. Leads(playMessages', DOMAIN playGames', farmPlaying')
    BY <2>1, <2>5, <2>6
  <2>9. QED
    BY <2>3, <2>6, <2>7, <2>8 DEF PlayInv
<1>4. ASSUME NEW due, HandleUpdates(due)
      PROVE  PlayInv'
  <2>1. /\ due \subseteq DOMAIN playGames
        /\ playGames' = [g \in DOMAIN playGames |-> IF g \in due THEN ~playGames[g] ELSE playGames[g]]
        /\ SendGames(playGames') /\ UNCHANGED <<playMessages, playingGames, farmPlaying>>
    BY <1>4 DEF HandleUpdates, farmPart
  <2>2. DOMAIN playGames' = DOMAIN playGames /\ playGames' \in [DOMAIN playGames -> BOOLEAN]
    BY <2>1 DEF PlayInv
  <2>3. Leads(playMessages', DOMAIN playGames', farmPlaying')
    BY <2>1, <2>2 DEF PlayInv
  <2>4. QED
    BY <2>1, <2>2, <2>3 DEF PlayInv, SendGames
<1>5. ASSUME ~(\E b \in BOOLEAN : FarmerRuns(b)), ~HandlePlayGames, ~(\E due : HandleUpdates(due))
      PROVE  UNCHANGED <<playGames, played, playingGames, playMessages, farmPlaying>>
  <2> USE DEF web, ownedPart, badgePart, farmPart, playPart, setting
  <2>1. CASE UNCHANGED farmVars
    BY <2>1 DEF farmVars
  <2>2. ASSUME NEW g \in Games, Buy(g) \/ PlaytimeGrows(g)
        PROVE  UNCHANGED <<playPart, farmPlaying>>
    BY <2>2 DEF Buy, PlaytimeGrows
  <2>3. ASSUME NEW g \in Games, NEW b \in BOOLEAN, CardDrops(g, b)
        PROVE  UNCHANGED <<playPart, farmPlaying>>
    BY <2>3, SMTT(30) DEF CardDrops
  <2>4. ASSUME Switch \/ AskAllGames \/ (\E list : AskSomeGames(list)) \/ BadgeMessagesDone
               \/ GotGames \/ BadgeWakes
        PROVE  UNCHANGED <<playPart, farmPlaying>>
    BY <2>4 DEF Switch, AskAllGames, AskSomeGames, BadgeMessagesDone, GotGames, BadgeWakes
  <2>5. ASSUME NEW g \in Games, \/ HandleUpdateBadge(g) \/ HandleNewGame(g)
                                \/ \E b \in BOOLEAN : HandleCardNote(g, b)
        PROVE  UNCHANGED <<playPart, farmPlaying>>
    <3>1. UpdateBadge(g) \/ UNCHANGED <<playPart, farmPlaying>>
      BY <2>5 DEF HandleUpdateBadge, HandleNewGame, HandleCardNote
    <3>2. QED
      BY <3>1 DEF UpdateBadge
  <2>6. ASSUME NEW b, OverviewLoaded(b) \/ BadgePage(b)
        PROVE  UNCHANGED <<playPart, farmPlaying>>
    BY <2>6 DEF OverviewLoaded, BadgePage
  <2>7. UNCHANGED <<playPart, farmPlaying>> \/ UNCHANGED farmVars
    BY <1>5, <2>2, <2>3, <2>4, <2>5, <2>6, FarmCases
  <2>8. QED
    BY <2>1, <2>7
<1>6. QED
  BY <1>1, <1>2, <1>3, <1>4, <1>5

(* The games, the rules and the messages in every reachable state.         *)
LEMMA FarmInvAlways ==
  ASSUME FarmAssumption
  PROVE  FarmSpec => [](GamesInv /\ PlaytimesInv /\ RulesInv /\ PlayInv)
<1> DEFINE Inv == GamesInv /\ PlaytimesInv /\ RulesInv /\ PlayInv
<1>1. ASSUME FarmInit
      PROVE  Inv
  <2>1. GamesInv
    BY <1>1 DEF FarmInit, FarmAssumption, GamesInv, FarmKnown, FarmInfos
  <2>2. Cardinality({}) = 0 /\ MaxGames \in Nat \ {0}
    BY FS_EmptySet DEF FarmAssumption
  <2>3. RulesInv
    BY <1>1, <2>2 DEF FarmInit, RulesInv, FarmsByTheRules
  <2>4. DOMAIN playGames = {} /\ farmPlaying = {} /\ playMessages = <<>> /\ playGames = <<>>
    BY <1>1 DEF FarmInit
  <2>5. Leads(playMessages, DOMAIN playGames, farmPlaying)
    BY <2>4, LeadsEmpty
  <2>6. playGames \in [{} -> BOOLEAN] /\ playMessages \in Seq(PlayMessage)
    BY <2>4
  <2>7. PlayInv
    BY <1>1, <2>4, <2>5, <2>6 DEF FarmInit, PlayInv
  <2>8. PlaytimesInv
    <3>1. ownedGames = Nothing /\ farmGames = <<>> /\ DOMAIN Nothing = {"nothing"} /\ "nothing" \notin Games
      BY <1>1 DEF FarmInit, Nothing, FarmAssumption
    <3>2. QED
      BY <3>1 DEF PlaytimesInv
  <2>9. QED
    BY <2>1, <2>3, <2>7, <2>8
<1>2. ASSUME Inv, [FarmNext]_farmVars
      PROVE  Inv'
  BY <1>2, GamesStep, PlaytimesStep, RulesStep, PlayStep
<1> HIDE DEF Inv
<1>3. FarmSpec => []Inv
  BY <1>1, <1>2, PTL DEF FarmSpec
<1>4. Inv <=> GamesInv /\ PlaytimesInv /\ RulesInv /\ PlayInv
  BY DEF Inv
<1>5. QED
  BY <1>3, <1>4, PTL

(* For every library, limit and rates: what Steam is told to be played is  *)
(* what PlayGames has and has not paused, and when no message is on its    *)
(* way, these are the games the farmer has chosen; all that it has is      *)
(* shown, though more may be; and the choice obeys the rules of the        *)
(* farmer: none when it is disabled, no game that could be refunded, not   *)
(* more than its limit (CardFarmer.cpp:117-154, 217-476,                   *)
(* PlayGames.cpp:188-341).                                                 *)
THEOREM FarmerIsObeyed ==
  ASSUME FarmAssumption
  PROVE  FarmSpec => [](ChosenGamesArePlayed /\ PlayingIsShown /\ FarmsByTheRules)
<1>1. GamesInv /\ RulesInv /\ PlayInv => ChosenGamesArePlayed /\ PlayingIsShown /\ FarmsByTheRules
  <2>1. RulesInv /\ PlayInv /\ playMessages = <<>> => DOMAIN playGames = farmPlaying
    BY LeadsEmpty, SMTT(30) DEF PlayInv, RulesInv
  <2>2. QED
    BY <2>1, SMTT(30) DEF PlayInv, RulesInv, ChosenGamesArePlayed, PlayingIsShown
<1>2. QED
  BY <1>1, FarmInvAlways, PTL

(* The fields of the farm that no other invariant is about: the queues of  *)
(* GetBadgeData, the requests for playtimes and the flags.                 *)
BadgeKinds ==
    /\ updateBadge \subseteq Games /\ cardNotes \subseteq Games /\ newGames \subseteq Games
    /\ badgeStep \in {"wait", "overview", "messages"} \cup Games
    /\ licensesNew \in BOOLEAN /\ fullyLoaded \in BOOLEAN /\ badgeWoken \in BOOLEAN
    /\ assertFails \in BOOLEAN
PlayKinds ==
    /\ playingGames \subseteq Games /\ updateGames \subseteq SUBSET Games
    /\ Len(playMessages) <= MaxPlays + 1

(* What waits for GetBadgeData is about games.                             *)
LEMMA BadgeKindsStep ==
  ASSUME FarmAssumption, GamesInv, RulesInv, BadgeKinds, [FarmNext]_farmVars
  PROVE  BadgeKinds'
<1> USE DEF BadgeKinds
<1>1. CASE UNCHANGED farmVars
  BY <1>1 DEF farmVars
<1>2. ASSUME NEW g \in Games, Buy(g) \/ PlaytimeGrows(g)
      PROVE  BadgeKinds'
  BY <1>2 DEF Buy, PlaytimeGrows, ownedPart, badgePart
<1>3. ASSUME NEW g \in Games, NEW b \in BOOLEAN, CardDrops(g, b)
      PROVE  BadgeKinds'
  <2>1. cardNotes' \in {cardNotes, cardNotes \cup {g}}
    BY <1>3 DEF CardDrops
  <2>2. UNCHANGED <<updateBadge, newGames, badgeStep, licensesNew, fullyLoaded, badgeWoken,
                    assertFails>>
    BY <1>3 DEF CardDrops, ownedPart
  <2>3. QED
    BY <2>1, <2>2
<1>4. CASE Switch \/ AskAllGames
  BY <1>4 DEF Switch, AskAllGames, ownedPart, badgePart
<1>5. ASSUME NEW list, AskSomeGames(list)
      PROVE  BadgeKinds'
  BY <1>5 DEF AskSomeGames, badgePart
<1>6. CASE GotGames
  <2>1. \E new \in SUBSET library : newGames' = newGames \cup new
    <3> DEFINE askedNow == IF ownedAsk = Everything THEN library ELSE ownedAsk \cap library
               before == IF ownedGames = Nothing THEN {} ELSE DOMAIN ownedGames
               new == IF ownedGames = Nothing THEN {} ELSE askedNow \ before
    <3>1. newGames' = newGames \cup new
      BY <1>6 DEF GotGames
    <3>2. new \in SUBSET library
      OBVIOUS
    <3> HIDE DEF new
    <3>3. QED
      BY <3>1, <3>2
  <2>2. newGames' \subseteq Games
    BY <2>1 DEF GamesInv
  <2>3. badgeWoken' \in BOOLEAN
    BY <1>6 DEF GotGames
  <2>4. UNCHANGED <<updateBadge, cardNotes, badgeStep, licensesNew, fullyLoaded, assertFails>>
    BY <1>6 DEF GotGames
  <2>5. QED
    BY <2>2, <2>3, <2>4
<1>7. CASE BadgeWakes
  <2>1. /\ badgeWoken' = FALSE /\ UNCHANGED <<licensesNew, assertFails>>
        /\ badgeStep' \in {"overview", "messages", badgeStep}
        /\ fullyLoaded' \in {FALSE, fullyLoaded}
        /\ updateBadge' \in {{}, updateBadge} /\ cardNotes' \in {{}, cardNotes}
        /\ newGames' \in {{}, newGames}
    BY <1>7 DEF BadgeWakes, badgeQueues, ownedPart
  <2>2. QED
    BY <2>1
<1>8. ASSUME NEW lost, OverviewLoaded(lost)
      PROVE  BadgeKinds'
  <2>1. /\ badgeStep' = "messages" /\ fullyLoaded' \in {TRUE, fullyLoaded}
        /\ UNCHANGED <<updateBadge, cardNotes, newGames, badgeWoken, licensesNew, assertFails>>
    BY <1>8 DEF OverviewLoaded, badgeQueues, ownedPart
  <2>2. QED
    BY <2>1
<1>9. ASSUME NEW g \in Games, UpdateBadge(g)
      PROVE  /\ badgeStep' \in {"wait", g} /\ assertFails' \in BOOLEAN
             /\ UNCHANGED <<fullyLoaded, badgeWoken, licensesNew>>
  BY <1>9 DEF UpdateBadge, ownedPart
<1>10. ASSUME NEW g \in Games, HandleUpdateBadge(g) \/ HandleNewGame(g)
       PROVE  BadgeKinds'
  <2>1. /\ updateBadge' \in {updateBadge, updateBadge \ {g}} /\ cardNotes' = cardNotes
        /\ newGames' \in {newGames, newGames \ {g}} /\ UpdateBadge(g)
    BY <1>10 DEF HandleUpdateBadge, HandleNewGame
  <2>2. QED
    BY <1>9, <2>1
<1>11. ASSUME NEW g \in Games, NEW b \in BOOLEAN, HandleCardNote(g, b)
       PROVE  BadgeKinds'
  <2>1. /\ cardNotes' = cardNotes \ {g} /\ UNCHANGED <<updateBadge, newGames>>
        /\ \/ UpdateBadge(g)
           \/ UNCHANGED <<fullyLoaded, badgeWoken, badgeStep, licensesNew, assertFails>>
    BY <1>11 DEF HandleCardNote, ownedPart
  <2>2. QED
    BY <1>9, <2>1
<1>12. CASE BadgeMessagesDone
  BY <1>12 DEF BadgeMessagesDone, badgeQueues, ownedPart
<1>13. ASSUME NEW b \in BOOLEAN, BadgePage(b)
       PROVE  BadgeKinds'
  <2>1. /\ badgeStep' = "messages"
        /\ UNCHANGED <<updateBadge, cardNotes, newGames, fullyLoaded, badgeWoken, licensesNew,
                       assertFails>>
    BY <1>13 DEF BadgePage, badgeQueues, ownedPart
  <2>2. QED
    BY <2>1
<1>14. ASSUME NEW b \in BOOLEAN, FarmerRuns(b)
       PROVE  BadgeKinds'
  <2>1. /\ updateBadge' \in {updateBadge, updateBadge \cup farmPlaying}
        /\ UNCHANGED <<cardNotes, newGames, badgeStep, fullyLoaded, badgeWoken, licensesNew,
                       assertFails>>
    BY <1>14 DEF FarmerRuns, ownedPart
  <2>2. farmPlaying \subseteq Games
    BY DEF RulesInv
  <2>3. QED
    BY <2>1, <2>2
<1>15. ASSUME NEW due, HandlePlayGames \/ HandleUpdates(due)
       PROVE  BadgeKinds'
  BY <1>15 DEF HandlePlayGames, HandleUpdates, badgePart
<1>16. QED
  BY <1>1, <1>2, <1>3, <1>4, <1>5, <1>6, <1>7, <1>8, <1>10, <1>11, <1>12, <1>13, <1>14, <1>15,
     FarmCases

(* One choice of the farmer is two messages at most.                       *)
LEMMA ChoiceLength ==
  ASSUME NEW s \in Seq(PlayMessage), NEW nowIs \in SUBSET Games, farmPlaying \in SUBSET Games
  PROVE  Len(s \o PlayMessages(nowIs)) <= Len(s) + 2
<1> DEFINE stops == IF farmPlaying \subseteq nowIs THEN <<>>
                    ELSE <<[start |-> FALSE, games |-> farmPlaying \ nowIs]>>
           starts == IF nowIs = farmPlaying THEN <<>> ELSE <<[start |-> TRUE, games |-> nowIs]>>
<1>1. /\ stops \in Seq(PlayMessage) /\ starts \in Seq(PlayMessage)
      /\ Len(stops) <= 1 /\ Len(starts) <= 1
  <2>1. ASSUME NEW m \in PlayMessage
        PROVE  <<m>> \in Seq(PlayMessage) /\ Len(<<m>>) = 1
    OBVIOUS
  <2>2. <<>> \in Seq(PlayMessage) /\ Len(<<>>) = 0
    OBVIOUS
  <2>3. /\ [start |-> FALSE, games |-> farmPlaying \ nowIs] \in PlayMessage
        /\ [start |-> TRUE, games |-> nowIs] \in PlayMessage
    BY DEF PlayMessage
  <2>4. stops \in Seq(PlayMessage) /\ Len(stops) <= 1
    BY <2>1, <2>2, <2>3
  <2>5. starts \in Seq(PlayMessage) /\ Len(starts) <= 1
    BY <2>1, <2>2, <2>3
  <2>6. QED
    BY <2>4, <2>5
<1>2. PlayMessages(nowIs) = stops \o starts
  BY DEF PlayMessages
<1> HIDE DEF stops, starts
<1>3. /\ stops \o starts \in Seq(PlayMessage) /\ Len(stops \o starts) = Len(stops) + Len(starts)
      /\ Len(s \o (stops \o starts)) = Len(s) + Len(stops \o starts)
  BY <1>1, ConcatFacts
<1>4. Len(s) \in Nat /\ Len(stops) \in Nat /\ Len(starts) \in Nat
  BY <1>1
<1>5. QED
  BY <1>1, <1>2, <1>3, <1>4

(* What is played is what somebody has chosen to play.                     *)
LEMMA PlayKindsStep ==
  ASSUME FarmAssumption, GamesInv, PlaytimesInv, RulesInv, PlayInv, PlayKinds, [FarmNext]_farmVars
  PROVE  PlayKinds'
<1>0. MaxPlays \in Nat /\ playMessages \in Seq(PlayMessage) /\ Len(playMessages) \in Nat
  BY DEF FarmAssumption, PlayInv
<1>1. CASE UNCHANGED <<playingGames, updateGames, playMessages>>
  BY <1>1 DEF PlayKinds
<1>2. ASSUME updateGames' \in {{}} \/ (\E list : updateGames' = updateGames \ {list}),
             UNCHANGED <<playingGames, playMessages>>
      PROVE  PlayKinds'
  BY <1>2 DEF PlayKinds
<1>3. ASSUME NEW list \in SUBSET Games, RequestUpdates(list) \/ UNCHANGED updateGames
      PROVE  updateGames' \subseteq SUBSET Games
  BY <1>3 DEF RequestUpdates, PlayKinds
<1>4. ASSUME NEW b \in BOOLEAN, FarmerRuns(b)
      PROVE  PlayKinds'
  <2>1. /\ playMessages' = playMessages \o PlayMessages(farmPlaying')
        /\ Len(playMessages) < MaxPlays /\ UNCHANGED <<playingGames, updateGames>>
    BY <1>4 DEF FarmerRuns, ownedPart
  <2>2. RulesInv'
    BY RulesStep
  <2>3. farmPlaying' \in SUBSET Games /\ farmPlaying \in SUBSET Games
    BY <2>2 DEF RulesInv
  <2>4. Len(playMessages') <= Len(playMessages) + 2
    BY <1>0, <2>1, <2>3, ChoiceLength
  <2>5. Len(playMessages') <= MaxPlays + 1
    <3>1. PlayInv'
      BY PlayStep
    <3>2. Len(playMessages') \in Nat
      BY <3>1 DEF PlayInv
    <3>3. QED
      BY <1>0, <2>1, <2>4, <3>2
  <2>6. QED
    BY <2>1, <2>5 DEF PlayKinds
<1>5. CASE HandlePlayGames
  <2> DEFINE first == Head(playMessages)
             gone == {g \in DOMAIN playGames \cap first.games : ~playGames[g]}
  <2>1. /\ playMessages # <<>> /\ playMessages' = Tail(playMessages)
        /\ StartGames(first.games) \/ StopGames(first.games)
    BY <1>5 DEF HandlePlayGames
  <2>2. first.games \in SUBSET Games /\ Len(playMessages') = Len(playMessages) - 1
    <3>1. first \in PlayMessage
      BY <1>0, <2>1, RangeTail
    <3>2. QED
      BY <1>0, <2>1, <3>1, TailFacts DEF PlayMessage
  <2>3. gone \in SUBSET Games /\ DOMAIN playGames \subseteq Games
    BY DEF PlayInv
  <2>4. RequestUpdates(gone) \/ UNCHANGED updateGames
    BY <2>1 DEF StartGames, StopGames
  <2>5. playingGames' = playingGames \/ playingGames' \subseteq DOMAIN playGames \cup first.games
    <3>1. CASE StartGames(first.games)
      BY <3>1 DEF StartGames
    <3>2. CASE StopGames(first.games)
      BY <3>2 DEF StopGames
    <3>3. QED
      BY <2>1, <3>1, <3>2
  <2> HIDE DEF gone, first
  <2>6. updateGames' \subseteq SUBSET Games
    BY <1>3, <2>3, <2>4
  <2>7. playingGames' \subseteq Games
    BY <2>2, <2>3, <2>5 DEF PlayKinds
  <2>8. Len(playMessages') <= MaxPlays + 1
    <3>1. Len(playMessages) <= MaxPlays + 1
      BY DEF PlayKinds
    <3>2. QED
      BY <1>0, <2>2, <3>1
  <2>9. QED
    BY <2>6, <2>7, <2>8 DEF PlayKinds
<1>6. ASSUME NEW due, HandleUpdates(due)
      PROVE  PlayKinds'
  <2> DEFINE gone == {g \in due : ~playGames[g]}
  <2>1. /\ RequestUpdates(gone) /\ due \subseteq DOMAIN playGames
        /\ UNCHANGED <<playMessages, playingGames>>
    BY <1>6 DEF HandleUpdates
  <2>2. gone \in SUBSET Games
    BY <2>1 DEF PlayInv
  <2> HIDE DEF gone
  <2>3. QED
    BY <1>3, <2>1, <2>2 DEF PlayKinds
<1>7. ASSUME NEW g \in Games, Buy(g) \/ PlaytimeGrows(g)
      PROVE  UNCHANGED <<playingGames, updateGames, playMessages>>
  BY <1>7 DEF Buy, PlaytimeGrows, ownedPart, playPart
<1>8. ASSUME NEW g \in Games, NEW b \in BOOLEAN, CardDrops(g, b)
      PROVE  UNCHANGED <<playingGames, updateGames, playMessages>>
  BY <1>8 DEF CardDrops, ownedPart, playPart
<1>9. ASSUME Switch \/ AskAllGames \/ BadgeWakes \/ BadgeMessagesDone
      PROVE  UNCHANGED <<playingGames, updateGames, playMessages>>
  BY <1>9 DEF Switch, AskAllGames, BadgeWakes, BadgeMessagesDone, ownedPart, playPart
<1>10. CASE GotGames
  <2>1. updateGames' \in {{}, updateGames} /\ UNCHANGED <<playingGames, playMessages>>
    BY <1>10 DEF GotGames, playPart
  <2>2. QED
    BY <1>1, <1>2, <2>1
<1>11. ASSUME NEW list, AskSomeGames(list)
       PROVE  PlayKinds'
  BY <1>2, <1>11 DEF AskSomeGames, playPart
<1>12. ASSUME NEW g \in Games, UpdateBadge(g)
       PROVE  UNCHANGED <<playingGames, updateGames, playMessages>>
  BY <1>12 DEF UpdateBadge, ownedPart, playPart
<1>13. ASSUME NEW g \in Games, HandleUpdateBadge(g) \/ HandleNewGame(g)
       PROVE  UNCHANGED <<playingGames, updateGames, playMessages>>
  BY <1>12, <1>13 DEF HandleUpdateBadge, HandleNewGame
<1>14. ASSUME NEW g \in Games, NEW b \in BOOLEAN, HandleCardNote(g, b)
       PROVE  UNCHANGED <<playingGames, updateGames, playMessages>>
  <2>1. UpdateBadge(g) \/ UNCHANGED <<playPart, ownedPart>>
    BY <1>14 DEF HandleCardNote
  <2>2. QED
    BY <1>12, <2>1 DEF ownedPart, playPart
<1>15. ASSUME NEW b, OverviewLoaded(b) \/ BadgePage(b)
       PROVE  UNCHANGED <<playingGames, updateGames, playMessages>>
  BY <1>15 DEF OverviewLoaded, BadgePage, ownedPart, playPart
<1>16. CASE UNCHANGED farmVars
  BY <1>1, <1>16 DEF farmVars
<1>17. QED
  BY <1>1, <1>4, <1>5, <1>6, <1>7, <1>8, <1>9, <1>10, <1>11, <1>13, <1>14, <1>15, <1>16, FarmCases

(* Games, playtimes, queues and flags have their types.                    *)
LEMMA FarmIsTyped ==
  ASSUME FarmAssumption
  PROVE  FarmSpec => []FarmTypeOK
<1>1. ASSUME FarmInit
      PROVE  BadgeKinds /\ PlayKinds
  <2>1. Len(<<>>) = 0 /\ 0 <= MaxPlays + 1
    BY DEF FarmAssumption
  <2>2. playMessages = <<>> /\ playingGames = {} /\ updateGames = {}
    BY <1>1 DEF FarmInit
  <2>3. PlayKinds
    BY <2>1, <2>2 DEF PlayKinds
  <2>4. BadgeKinds
    BY <1>1 DEF FarmInit, BadgeKinds
  <2>5. QED
    BY <2>3, <2>4
<1>2. ASSUME GamesInv, PlaytimesInv, RulesInv, PlayInv, BadgeKinds, PlayKinds,
             [FarmNext]_farmVars
      PROVE  BadgeKinds' /\ PlayKinds'
  BY <1>2, BadgeKindsStep, PlayKindsStep
<1>3. ASSUME GamesInv, RulesInv, PlayInv, BadgeKinds, PlayKinds
      PROVE  FarmTypeOK
  <2>1. {library, played, farmPlaying, playingGames, updateBadge, cardNotes, newGames,
         changedGames} \subseteq SUBSET Games
    BY <1>3 DEF GamesInv, RulesInv, PlayInv, BadgeKinds, PlayKinds
  <2>2. {enable, licensesNew, fullyLoaded, badgeWoken, assertFails} \subseteq BOOLEAN
    BY <1>3 DEF RulesInv, BadgeKinds
  <2>3. /\ updateGames \subseteq SUBSET Games /\ DOMAIN playGames \subseteq Games
        /\ Len(playMessages) <= MaxPlays + 1 /\ playtime \in [Games -> 0..3]
    BY <1>3 DEF GamesInv, PlayInv, PlayKinds
  <2>4. badgeStep \in {"wait", "overview", "messages"} \cup Games
        /\ farmWoken \subseteq {"badges", "enable"}
    BY <1>3 DEF RulesInv, BadgeKinds
  <2>5. QED
    BY <2>1, <2>2, <2>3, <2>4 DEF FarmTypeOK
<1>4. QED
  BY <1>1, <1>2, <1>3, FarmInvAlways, PTL DEF FarmSpec
-----------------------------------------------------------------------------
(* Eligibility                                                             *)

(* No record is of the future; the timer is set for the account that has   *)
(* been away for longest, and time does not pass it.                       *)
RecordsInv ==
    /\ day \in Nat /\ expiry \in Nat /\ logoff \in [BpeAccounts -> {Never} \cup Nat]
    /\ DOMAIN bpeRunning = BpeAccounts /\ target \subseteq BpeAccounts
    /\ \A a \in BpeAccounts : logoff[a] <= day
    /\ bpePc = "timer" => /\ day <= expiry /\ expiry <= day + MaxPause
                          /\ \A a \in Recorded : expiry <= logoff[a] + MaxPause

(* The timer is set again whenever the oldest record changes.              *)
LEMMA RecordsStep ==
  ASSUME EligibilityAssumption, RecordsInv, [BpeNext]_bpeVars
  PROVE  RecordsInv'
<1>1. /\ MaxPause \in Nat /\ Never \in Int /\ Never < 0
      /\ day \in Nat /\ expiry \in Nat /\ logoff \in [BpeAccounts -> {Never} \cup Nat]
      /\ DOMAIN bpeRunning = BpeAccounts /\ target \subseteq BpeAccounts
      /\ \A a \in BpeAccounts : logoff[a] <= day
      /\ bpePc = "timer" => /\ day <= expiry /\ expiry <= day + MaxPause
                            /\ \A a \in BpeAccounts : logoff[a] # Never => expiry <= logoff[a] + MaxPause
  BY DEF EligibilityAssumption, RecordsInv, Recorded
<1>2. ASSUME UNCHANGED <<day, logoff, expiry>>, bpePc' = "timer" => bpePc = "timer",
             DOMAIN bpeRunning' = BpeAccounts, target' \subseteq BpeAccounts
      PROVE  RecordsInv'
  BY <1>1, <1>2 DEF RecordsInv, Recorded
<1>3. ASSUME NEW b \in BpeAccounts, logoff' = [logoff EXCEPT ![b] = day],
             UNCHANGED <<day, expiry>>, bpePc' = "timer" => bpePc = "timer",
             DOMAIN bpeRunning' = BpeAccounts, target' \subseteq BpeAccounts
      PROVE  RecordsInv'
  <2>1. logoff' \in [BpeAccounts -> {Never} \cup Nat]
    BY <1>1, <1>3
  <2>2. \A a \in BpeAccounts : logoff'[a] = IF a = b THEN day ELSE logoff[a]
    BY <1>1, <1>3
  <2>3. \A a \in BpeAccounts : logoff'[a] <= day
    BY <1>1, <2>2
  <2>4. bpePc' = "timer" => \A a \in BpeAccounts : logoff'[a] # Never => expiry <= logoff'[a] + MaxPause
    BY <1>1, <1>3, <2>2
  <2>5. QED
    BY <1>1, <1>3, <2>1, <2>3, <2>4 DEF RecordsInv, Recorded
<1>4. CASE StartTimer
  <2>1. CASE Recorded = {}
    BY <1>1, <1>2, <1>4, <2>1 DEF StartTimer
  <2>2. CASE Recorded # {}
    <3>1. PICK a \in BpeAccounts :
            /\ Oldest(a)
            /\ IF logoff[a] + MaxPause > day
               THEN /\ expiry' = logoff[a] + MaxPause /\ bpePc' = "timer"
                    /\ target' = target /\ bpeRunning' = bpeRunning
               ELSE /\ target' = {a} /\ bpePc' = "poll"
                    /\ bpeRunning' = [bpeRunning EXCEPT ![a] = IF @ = "off" THEN "starting" ELSE @]
                    /\ expiry' = expiry
      BY <1>4, <2>2 DEF StartTimer
    <3>2. day' = day /\ logoff' = logoff
      BY <1>4 DEF StartTimer
    <3>3. CASE logoff[a] + MaxPause > day
      <4>1. logoff[a] \in Nat /\ logoff[a] <= day
        BY <1>1, <3>1 DEF Oldest, Recorded
      <4>2. \A b \in BpeAccounts : logoff[b] # Never => logoff[a] <= logoff[b]
        BY <3>1 DEF Oldest, Recorded
      <4>3. /\ expiry' \in Nat /\ day <= expiry' /\ expiry' <= day + MaxPause
        BY <1>1, <3>1, <3>3, <4>1
      <4>4. \A b \in BpeAccounts : logoff[b] # Never => expiry' <= logoff[b] + MaxPause
        BY <1>1, <3>1, <3>3, <4>1, <4>2
      <4>5. QED
        BY <1>1, <3>1, <3>2, <3>3, <4>3, <4>4 DEF RecordsInv, Recorded
    <3>4. CASE ~(logoff[a] + MaxPause > day)
      BY <1>1, <1>2, <3>1, <3>2, <3>4
    <3>5. QED
      BY <3>3, <3>4
  <2>3. QED
    BY <2>1, <2>2
<1>5. CASE BpeTimerFires \/ Poll \/ FiberSeesLogin
  BY <1>1, <1>2, <1>5 DEF BpeTimerFires, Poll, FiberSeesLogin
<1>6. ASSUME NEW a \in BpeAccounts, Gone(a), UNCHANGED <<day, expiry>>, bpePc' = "timer" => bpePc = "timer",
             target' \subseteq BpeAccounts
      PROVE  RecordsInv'
  <2>1. DOMAIN bpeRunning' = BpeAccounts
    BY <1>1, <1>6 DEF Gone
  <2>2. logoff' = logoff \/ logoff' = [logoff EXCEPT ![a] = day]
    BY <1>6 DEF Gone
  <2>3. QED
    BY <1>2, <1>3, <1>6, <2>1, <2>2
<1>7. CASE FiberQuitsClient
  BY <1>1, <1>6, <1>7 DEF FiberQuitsClient
<1>8. ASSUME NEW a \in BpeAccounts, UserQuits(a)
      PROVE  RecordsInv'
  BY <1>1, <1>6, <1>8 DEF UserQuits
<1>9. ASSUME NEW a \in BpeAccounts, UserLaunches(a)
      PROVE  RecordsInv'
  BY <1>1, <1>2, <1>9 DEF UserLaunches
<1>10. ASSUME NEW a \in BpeAccounts, LogsIn(a)
       PROVE  RecordsInv'
  BY <1>1, <1>3, <1>10 DEF LogsIn
<1>11. CASE NextDay
  <2>1. /\ day' = day + 1 /\ UNCHANGED <<logoff, bpeRunning, bpePc, expiry, target>>
        /\ bpePc = "timer" => day < expiry
    BY <1>11 DEF NextDay, PollsForever
  <2>2. \A a \in BpeAccounts : logoff[a] <= day + 1
    BY <1>1
  <2>3. QED
    BY <1>1, <2>1, <2>2 DEF RecordsInv, Recorded
<1>12. CASE UNCHANGED bpeVars
  BY <1>1, <1>2, <1>12 DEF bpeVars
<1>13. QED
  BY <1>4, <1>5, <1>7, <1>8, <1>9, <1>10, <1>11, <1>12 DEF BpeNext

(* The records and the timer in every reachable state.                     *)
LEMMA RecordsAlways ==
  ASSUME EligibilityAssumption
  PROVE  BpeSpec => []RecordsInv
<1>1. BpeInit => RecordsInv
  <2> SUFFICES ASSUME BpeInit PROVE RecordsInv
    OBVIOUS
  <2>1. /\ day = MaxPause /\ logoff \in [BpeAccounts -> {Never} \cup 0..MaxPause]
        /\ DOMAIN bpeRunning = BpeAccounts /\ bpePc = "restart" /\ expiry = 0 /\ target = {}
        /\ MaxPause \in Nat /\ Never \in Int /\ Never < 0
    BY DEF BpeInit, EligibilityAssumption
  <2>2. \A a \in BpeAccounts : logoff[a] <= day
    BY <2>1
  <2>3. logoff \in [BpeAccounts -> {Never} \cup Nat]
    BY <2>1
  <2>4. QED
    BY <2>1, <2>2, <2>3 DEF RecordsInv
<1>2. RecordsInv /\ [BpeNext]_bpeVars => RecordsInv'
  BY RecordsStep
<1>3. QED
  BY <1>1, <1>2, PTL DEF BpeSpec

(* For every set of accounts and every interval: while the timer runs, no  *)
(* account is overdue (MaintainBPE.cpp:77-219).                            *)
THEOREM TimerIsForTheOldest ==
  ASSUME EligibilityAssumption
  PROVE  BpeSpec => []TimerIsInTime
<1>1. RecordsInv => TimerIsInTime
  <2> SUFFICES ASSUME RecordsInv, bpePc = "timer", NEW a \in Recorded
               PROVE  day <= logoff[a] + MaxPause /\ expiry <= logoff[a] + MaxPause
    BY DEF TimerIsInTime
  <2>1. /\ day \in Nat /\ expiry \in Nat /\ day <= expiry /\ expiry <= logoff[a] + MaxPause
        /\ logoff[a] \in Nat /\ MaxPause \in Nat
    BY DEF RecordsInv, Recorded, EligibilityAssumption
  <2>2. QED
    BY <2>1
<1>2. QED
  BY <1>1, RecordsAlways, PTL

(* What the accounts and the chain are in, up to the last day.             *)
DaysInv ==
    /\ day <= LastDay /\ \A a \in BpeAccounts : logoff[a] \in {Never} \cup 0..LastDay
    /\ bpeRunning \in [BpeAccounts -> {"off", "starting", "on"}]
    /\ bpePc \in {"timer", "poll", "fiber", "pause", "restart", "nothing", "lost"}
    /\ \A a, b \in target : a = b

(* Clients start, log in and go; the chain is in one of its steps.         *)
LEMMA DaysStep ==
  ASSUME EligibilityAssumption, RecordsInv, DaysInv, [BpeNext]_bpeVars
  PROVE  DaysInv'
<1>0. /\ day \in Nat /\ LastDay \in Nat /\ day <= LastDay
      /\ logoff \in [BpeAccounts -> {Never} \cup Nat] /\ target \subseteq BpeAccounts
  BY DEF EligibilityAssumption, RecordsInv, DaysInv
<1>1. ASSUME NEW a \in BpeAccounts, logoff' = logoff \/ logoff' = [logoff EXCEPT ![a] = day]
      PROVE  \A b \in BpeAccounts : logoff'[b] \in {Never} \cup 0..LastDay
  BY <1>0, <1>1 DEF DaysInv
<1>2. ASSUME NEW a \in BpeAccounts, NEW x \in {"off", "starting", "on"},
             bpeRunning' = [bpeRunning EXCEPT ![a] = x]
      PROVE  bpeRunning' \in [BpeAccounts -> {"off", "starting", "on"}]
  BY <1>2 DEF DaysInv
<1>3. ASSUME NEW a \in BpeAccounts, Gone(a)
      PROVE  /\ \A b \in BpeAccounts : logoff'[b] \in {Never} \cup 0..LastDay
             /\ bpeRunning' \in [BpeAccounts -> {"off", "starting", "on"}]
  BY <1>1, <1>2, <1>3 DEF Gone
<1>4. CASE StartTimer
  <2>1. day' = day /\ logoff' = logoff
    BY <1>4 DEF StartTimer
  <2>2. CASE Recorded = {}
    BY <1>4, <2>1, <2>2 DEF StartTimer, DaysInv
  <2>3. CASE Recorded # {}
    <3>1. PICK a \in BpeAccounts :
             IF logoff[a] + MaxPause > day
             THEN /\ expiry' = logoff[a] + MaxPause /\ bpePc' = "timer"
                  /\ UNCHANGED <<target, bpeRunning>>
             ELSE /\ target' = {a} /\ bpePc' = "poll"
                  /\ bpeRunning' = [bpeRunning EXCEPT ![a] = IF @ = "off" THEN "starting" ELSE @]
      BY <1>4, <2>3 DEF StartTimer
    <3>2. bpeRunning' \in [BpeAccounts -> {"off", "starting", "on"}]
      BY <3>1 DEF DaysInv
    <3>3. bpePc' \in {"timer", "poll"} /\ (target' = target \/ target' = {a})
      BY <3>1
    <3>4. QED
      BY <2>1, <3>2, <3>3 DEF DaysInv
  <2>4. QED
    BY <2>2, <2>3
<1>5. CASE BpeTimerFires \/ Poll \/ FiberSeesLogin
  BY <1>5 DEF BpeTimerFires, Poll, FiberSeesLogin, DaysInv
<1>6. CASE FiberQuitsClient
  <2>1. PICK a \in target : Gone(a)
    BY <1>6 DEF FiberQuitsClient
  <2>2. day' = day /\ bpePc' = "restart" /\ target' = {}
    BY <1>6 DEF FiberQuitsClient
  <2>3. QED
    BY <1>0, <1>3, <2>1, <2>2 DEF DaysInv
<1>7. ASSUME NEW a \in BpeAccounts, UserQuits(a)
      PROVE  DaysInv'
  <2>1. Gone(a) /\ UNCHANGED <<day, target>> /\ bpePc' \in {"lost", bpePc}
    BY <1>7 DEF UserQuits
  <2>2. QED
    BY <1>3, <2>1 DEF DaysInv
<1>8. ASSUME NEW a \in BpeAccounts, UserLaunches(a) \/ LogsIn(a)
      PROVE  DaysInv'
  <2>1. /\ UNCHANGED <<day, bpePc, target>>
        /\ bpeRunning' = [bpeRunning EXCEPT ![a] = "starting"] \/ bpeRunning' = [bpeRunning EXCEPT ![a] = "on"]
        /\ logoff' = logoff \/ logoff' = [logoff EXCEPT ![a] = day]
    BY <1>8 DEF UserLaunches, LogsIn
  <2>2. QED
    BY <1>1, <1>2, <2>1 DEF DaysInv
<1>9. CASE NextDay
  <2>1. day < LastDay /\ day' = day + 1 /\ UNCHANGED <<logoff, bpeRunning, bpePc, target>>
    BY <1>9 DEF NextDay
  <2>2. day' <= LastDay
    BY <1>0, <2>1
  <2>3. QED
    BY <2>1, <2>2 DEF DaysInv
<1>10. CASE UNCHANGED bpeVars
  BY <1>10 DEF bpeVars, DaysInv
<1>11. QED
  BY <1>4, <1>5, <1>6, <1>7, <1>8, <1>9, <1>10 DEF BpeNext

(* Days, records and clients have their types.                             *)
LEMMA EligibilityIsTyped ==
  ASSUME EligibilityAssumption
  PROVE  BpeSpec => []BpeTypeOK
<1>1. ASSUME BpeInit
      PROVE  DaysInv
  <2>1. \A n \in 0..MaxPause : n \in 0..LastDay
    BY DEF EligibilityAssumption
  <2>2. \A a \in BpeAccounts : logoff[a] \in {Never} \cup 0..LastDay
    BY <1>1, <2>1 DEF BpeInit
  <2>3. day <= LastDay
    BY <1>1 DEF BpeInit, EligibilityAssumption
  <2>4. QED
    BY <1>1, <2>2, <2>3 DEF BpeInit, DaysInv
<1>2. ASSUME RecordsInv, DaysInv, [BpeNext]_bpeVars
      PROVE  DaysInv'
  BY <1>2, DaysStep
<1>3. RecordsInv /\ DaysInv => BpeTypeOK
  <2>1. ASSUME RecordsInv, DaysInv
        PROVE  Cardinality(target) <= 1
    BY <2>1, AtMostOne DEF DaysInv
  <2>2. RecordsInv /\ DaysInv => day \in 0..LastDay
    BY DEF RecordsInv, DaysInv, EligibilityAssumption
  <2>3. QED
    BY <2>1, <2>2 DEF RecordsInv, DaysInv, BpeTypeOK
<1>4. QED
  BY <1>1, <1>2, <1>3, RecordsAlways, PTL DEF BpeSpec
-----------------------------------------------------------------------------
(* Presence                                                                *)

(* What is sent.                                                           *)
SentKinds == {"Other", "HeartBeat", "ChangeStatus", "AppList"}

(* A heartbeat at d is in time for the last message, or for the start s.   *)
Covers(s, d) == \E t \in {s} \cup lastSent : t \in Nat /\ t >= s /\ d <= t + Interval

(* Once Heartbeat watches, its wait times out an interval after a message  *)
(* or earlier, unless one is on its way; and a message that was just sent  *)
(* has the time of the clock.                                              *)
BeatInv ==
  /\ clock \in Nat /\ outgoing \in Seq(SentKinds)
  /\ sentChanged => lastSent = {clock}
  /\ ~clientGone /\ "Heartbeat" \in present =>
       \E s, d \in Nat :
          /\ beatsSince = {s} /\ beatDue = {d} /\ s <= clock /\ clock <= d
          /\ outgoing = <<>> /\ ~sentChanged => Covers(s, d)
  /\ "Heartbeat" \notin present => beatsSince = {} /\ beatDue = {}

(* The clock stands still while a message waits or the heartbeat is due.   *)
LEMMA BeatStep ==
  ASSUME PresenceAssumption, BeatInv, [PresenceNext]_presenceVars
  PROVE  BeatInv'
<1>0. Interval \in Nat \ {0} /\ clock \in Nat
  BY DEF PresenceAssumption, BeatInv
<1>1. CASE \/ SetLoginStatus \/ TokenStored \/ TrackerWakes \/ UNCHANGED presenceVars
  <2>1. /\ UNCHANGED <<clock, clientGone, outgoing, beatVars>>
        /\ "Heartbeat" \in present' <=> "Heartbeat" \in present
    BY <1>1 DEF SetLoginStatus, TokenStored, TrackerWakes, presenceVars, beatVars
  <2>2. \A s, d : Covers(s, d)' <=> Covers(s, d)
    BY <2>1 DEF Covers, beatVars
  <2>3. QED
    BY <2>1, <2>2 DEF BeatInv, beatVars
<1>2. CASE \/ OtherMessage \/ AppListRequested \/ \E m \in {"PersonaState", "TradeToken"} : PastLogin(m)
  <2>1. /\ UNCHANGED <<clock, clientGone, beatVars>>
        /\ "Heartbeat" \in present' <=> "Heartbeat" \in present
        /\ \/ outgoing' = outgoing \/ outgoing' = Append(outgoing, "Other")
           \/ outgoing' = Append(outgoing, "AppList") \/ outgoing' = Append(outgoing, "ChangeStatus")
    BY <1>2 DEF OtherMessage, AppListRequested, PastLogin, WaitForLogin, beatVars
  <2>2. outgoing' \in Seq(SentKinds) /\ (outgoing' = <<>> => outgoing = <<>>)
    <3>1. outgoing \in Seq(SentKinds)
      BY DEF BeatInv
    <3>2. ASSUME NEW m \in SentKinds
          PROVE  Append(outgoing, m) \in Seq(SentKinds) /\ Append(outgoing, m) # <<>>
      BY <3>1, AppendFacts
    <3>3. "Other" \in SentKinds /\ "AppList" \in SentKinds /\ "ChangeStatus" \in SentKinds
      BY DEF SentKinds
    <3>4. QED
      BY <2>1, <3>1, <3>2, <3>3
  <2>3. \A s, d : Covers(s, d)' <=> Covers(s, d)
    BY <2>1 DEF Covers, beatVars
  <2>4. QED
    BY <2>1, <2>2, <2>3 DEF BeatInv, beatVars
<1>3. CASE PastLogin("Heartbeat")
  <2>1. /\ beatDue' = {clock + Interval} /\ beatsSince' = {clock} /\ "Heartbeat" \in present'
        /\ UNCHANGED <<clock, clientGone, outgoing, lastSent, sentChanged>>
    BY <1>3 DEF PastLogin, WaitForLogin
  <2>2. clock + Interval \in Nat /\ clock <= clock + Interval
    BY <1>0
  <2>3. Covers(clock, clock + Interval)'
    BY <1>0, <2>1 DEF Covers
  <2>4. QED
    BY <1>0, <2>1, <2>2, <2>3 DEF BeatInv
<1>4. CASE Tick
  <2>1. /\ outgoing = <<>> /\ ~sentChanged /\ \A t \in beatDue : clock < t
        /\ clock' = clock + 1
        /\ UNCHANGED <<clientGone, outgoing, beatVars, present>>
    BY <1>4 DEF Tick
  <2>2. \A s, d \in Nat : s <= clock /\ clock < d => s <= clock + 1 /\ clock + 1 <= d
    BY <1>0
  <2>3. \A s, d : Covers(s, d)' <=> Covers(s, d)
    BY <2>1 DEF Covers, beatVars
  <2>4. QED
    BY <1>0, <2>1, <2>2, <2>3 DEF BeatInv, beatVars
<1>5. CASE ConnectionSends
  <2>1. /\ lastSent' = {clock} /\ sentChanged' /\ outgoing # <<>> /\ outgoing' = Tail(outgoing)
        /\ UNCHANGED <<clock, clientGone, beatDue, beatsSince, present>>
    BY <1>5 DEF ConnectionSends
  <2>2. outgoing' \in Seq(SentKinds)
    BY <2>1 DEF BeatInv
  <2>3. QED
    BY <1>0, <2>1, <2>2 DEF BeatInv
<1>6. CASE HeartbeatWakes
  <2>1. /\ ~clientGone /\ beatDue # {} /\ ~sentChanged' /\ beatDue' = {clock + Interval}
        /\ outgoing' = IF ~sentChanged THEN Append(outgoing, "HeartBeat") ELSE outgoing
        /\ UNCHANGED <<clock, clientGone, lastSent, beatsSince, present>>
    BY <1>6 DEF HeartbeatWakes
  <2>2. outgoing' \in Seq(SentKinds) /\ (outgoing' = <<>> => sentChanged)
    <3>1. outgoing \in Seq(SentKinds) /\ "HeartBeat" \in SentKinds
      BY DEF BeatInv, SentKinds
    <3>2. Append(outgoing, "HeartBeat") \in Seq(SentKinds) /\ Append(outgoing, "HeartBeat") # <<>>
      BY <3>1, AppendFacts
    <3>3. QED
      BY <2>1, <3>1, <3>2
  <2>3. "Heartbeat" \in present /\ clock + Interval \in Nat /\ clock <= clock + Interval
    BY <1>0, <2>1 DEF BeatInv
  <2>4. PICK s \in Nat : beatsSince = {s} /\ s <= clock
    BY <2>1, <2>3 DEF BeatInv
  <2>5. outgoing' = <<>> /\ ~sentChanged' =>
          Covers(s, clock + Interval)'
    BY <1>0, <2>1, <2>2, <2>4 DEF BeatInv, Covers
  <2>6. QED
    BY <1>0, <2>1, <2>2, <2>3, <2>4, <2>5 DEF BeatInv
<1>7. CASE Cancelled
  <2>1. /\ clientGone' /\ beatDue' = {}
        /\ UNCHANGED <<clock, outgoing, lastSent, sentChanged, beatsSince, present>>
    BY <1>7 DEF Cancelled
  <2>2. QED
    BY <2>1 DEF BeatInv
<1>8. QED
  BY <1>1, <1>2, <1>3, <1>4, <1>5, <1>6, <1>7 DEF PresenceNext

(* Nothing happens after the last update.                                  *)
LEMMA RecordStep ==
  ASSUME LoginIsRecorded, [PresenceNext]_presenceVars
  PROVE  LoginIsRecorded'
<1>1. CASE Cancelled
  BY <1>1 DEF Cancelled, Update, LoginIsRecorded
<1>2. CASE UNCHANGED presenceVars
  BY <1>2 DEF presenceVars, LoginIsRecorded
<1>3. CASE PresenceNext /\ ~Cancelled
  <2>1. ~clientGone /\ clientGone' = clientGone
    BY <1>3 DEF PresenceNext, SetLoginStatus, Tick, OtherMessage, ConnectionSends, PastLogin,
                HeartbeatWakes, AppListRequested, TokenStored, TrackerWakes
  <2>2. ~clientGone'
    BY <2>1
  <2>3. QED
    BY <2>2, Zenon DEF LoginIsRecorded
<1>4. QED
  BY <1>1, <1>2, <1>3

(* For every interval: a logged-in client is never silent for longer, and  *)
(* when it is gone its file has the time of its login and how long it      *)
(* lasted (Heartbeat.cpp:44-74, LoginTracking.cpp:83-145).                 *)
THEOREM ClientsStayPresent ==
  ASSUME PresenceAssumption
  PROVE  PresenceSpec => [](NeverSilent /\ LoginIsRecorded)
<1>1. ASSUME PresenceInit
      PROVE  BeatInv /\ LoginIsRecorded
  BY <1>1 DEF PresenceInit, BeatInv, LoginIsRecorded
<1>2. ASSUME BeatInv
      PROVE  NeverSilent
  <2> SUFFICES ASSUME ~clientGone, outgoing = <<>>, NEW s \in beatsSince
               PROVE  \E t \in {s} \cup lastSent : t >= s /\ clock - t <= Interval
    BY DEF NeverSilent
  <2>1. "Heartbeat" \in present
    BY <1>2 DEF BeatInv
  <2>2. PICK d \in Nat :
          /\ s \in Nat /\ s <= clock /\ clock <= d
          /\ ~sentChanged => Covers(s, d)
    BY <1>2, <2>1 DEF BeatInv
  <2>3. clock \in Nat /\ Interval \in Nat /\ (sentChanged => lastSent = {clock})
    BY <1>2 DEF BeatInv, PresenceAssumption
  <2>4. QED
    BY <2>2, <2>3 DEF Covers
<1>3. QED
  BY <1>1, <1>2, BeatStep, RecordStep, PTL DEF PresenceSpec

(* The clock, the status and the times.                                    *)
ClockKinds ==
    /\ clock \in 1..MaxClock /\ loginState \in {"LoggedOut", "LoggingIn", "LoggedIn"}
    /\ lastSent \subseteq 1..MaxClock /\ loginTime \subseteq 1..MaxClock

(* The status is sent once, and no list is asked for before the last one   *)
(* has been answered.                                                      *)
SentOnceInv ==
    /\ \/ "PersonaState" \notin present /\ online = 0 /\ Lacks(outgoing, "ChangeStatus")
       \/ "PersonaState" \in present /\ online = 0 /\ HoldsOnce(outgoing, "ChangeStatus")
       \/ "PersonaState" \in present /\ online = 1 /\ Lacks(outgoing, "ChangeStatus")
    /\ \/ appLists = 0 /\ Lacks(outgoing, "AppList")
       \/ appLists = 1 /\ HoldsOnce(outgoing, "AppList")

(* Times are times of the clock.                                           *)
LEMMA ClockStep ==
  ASSUME PresenceAssumption, ClockKinds, [PresenceNext]_presenceVars
  PROVE  ClockKinds'
<1>0. MaxClock \in Nat \ {0}
  BY DEF PresenceAssumption
<1>1. CASE SetLoginStatus
  BY <1>1 DEF SetLoginStatus, beatVars, ClockKinds
<1>2. CASE Tick
  <2>1. /\ clock < MaxClock /\ clock' = clock + 1 /\ UNCHANGED <<loginState, lastSent, loginTime>>
    BY <1>2 DEF Tick, beatVars, trackVars
  <2>2. clock' \in 1..MaxClock
    BY <1>0, <2>1 DEF ClockKinds
  <2>3. QED
    BY <2>1, <2>2 DEF ClockKinds
<1>3. CASE ConnectionSends
  BY <1>3 DEF ConnectionSends, trackVars, ClockKinds
<1>4. CASE TrackerWakes
  <2>1. /\ loginTime' \in {{}, {clock}, loginTime} /\ UNCHANGED <<clock, loginState, lastSent>>
    <3>1. UNCHANGED <<clock, loginState, lastSent>>
      BY <1>4 DEF TrackerWakes, beatVars
    <3>2. CASE loginState = "LoggedOut"
      BY <1>4, <3>1, <3>2 DEF TrackerWakes
    <3>3. CASE loginState = "LoggingIn"
      BY <1>4, <3>1, <3>3 DEF TrackerWakes
    <3>4. CASE loginState = "LoggedIn"
      BY <1>4, <3>1, <3>4 DEF TrackerWakes
    <3>5. QED
      BY <3>1, <3>2, <3>3, <3>4 DEF ClockKinds
  <2>2. QED
    BY <2>1 DEF ClockKinds
<1>5. ASSUME OtherMessage \/ AppListRequested \/ TokenStored \/ (\E m : PastLogin(m))
      PROVE  UNCHANGED <<clock, loginState, lastSent, loginTime>>
  BY <1>5 DEF OtherMessage, AppListRequested, TokenStored, PastLogin, beatVars, trackVars
<1>6. ASSUME HeartbeatWakes \/ Cancelled \/ UNCHANGED presenceVars
      PROVE  UNCHANGED <<clock, loginState, lastSent, loginTime>>
  BY <1>6 DEF HeartbeatWakes, Cancelled, presenceVars, trackVars
<1>7. CASE UNCHANGED <<clock, loginState, lastSent, loginTime>>
  BY <1>7 DEF ClockKinds
<1>8. QED
  BY <1>1, <1>2, <1>3, <1>4, <1>5, <1>6, <1>7 DEF PresenceNext

(* One message more, or the first one sent.                                *)
LEMMA SentOnceStep ==
  ASSUME BeatInv, SentOnceInv, [PresenceNext]_presenceVars
  PROVE  SentOnceInv'
<1>0. /\ outgoing \in Seq(SentKinds)
      /\ SentKinds = {"Other", "HeartBeat", "ChangeStatus", "AppList"}
  BY DEF BeatInv, SentKinds
<1>1. ASSUME NEW m \in SentKinds, outgoing' = Append(outgoing, m)
      PROVE  \A k \in SentKinds :
               /\ m # k /\ Lacks(outgoing, k) => Lacks(outgoing', k)
               /\ m = k /\ Lacks(outgoing, k) => HoldsOnce(outgoing', k)
               /\ m # k /\ HoldsOnce(outgoing, k) => HoldsOnce(outgoing', k)
  BY <1>0, <1>1, AppendOnce
<1>2. CASE ConnectionSends
  <2>1. /\ outgoing # <<>> /\ outgoing' = Tail(outgoing) /\ present' = present
        /\ online' = IF Head(outgoing) = "ChangeStatus" THEN online + 1 ELSE online
        /\ appLists' = IF Head(outgoing) = "AppList" THEN appLists - 1 ELSE appLists
    BY <1>2 DEF ConnectionSends
  <2>2. \A k \in SentKinds :
           /\ Lacks(outgoing, k) => Lacks(outgoing', k) /\ Head(outgoing) # k
           /\ HoldsOnce(outgoing, k) => \/ Head(outgoing) = k /\ Lacks(outgoing', k)
                                        \/ Head(outgoing) # k /\ HoldsOnce(outgoing', k)
    BY <1>0, <2>1, TailOnce
  <2>3. "ChangeStatus" \in SentKinds /\ "AppList" \in SentKinds
    BY <1>0
  <2>4. \/ "PersonaState" \notin present /\ online' = 0 /\ Lacks(outgoing', "ChangeStatus")
        \/ "PersonaState" \in present /\ online' = 0 /\ HoldsOnce(outgoing', "ChangeStatus")
        \/ "PersonaState" \in present /\ online' = 1 /\ Lacks(outgoing', "ChangeStatus")
    BY <2>1, <2>2, <2>3 DEF SentOnceInv
  <2>5. \/ appLists' = 0 /\ Lacks(outgoing', "AppList")
        \/ appLists' = 1 /\ HoldsOnce(outgoing', "AppList")
    BY <2>1, <2>2, <2>3 DEF SentOnceInv
  <2>6. QED
    BY <2>1, <2>4, <2>5 DEF SentOnceInv
<1>3. CASE OtherMessage
  BY <1>0, <1>1, <1>3 DEF OtherMessage, SentOnceInv
<1>4. CASE AppListRequested
  BY <1>0, <1>1, <1>4 DEF AppListRequested, SentOnceInv
<1>5. CASE HeartbeatWakes
  <2>1. /\ UNCHANGED <<present, online, appLists>>
        /\ outgoing' = outgoing \/ outgoing' = Append(outgoing, "HeartBeat")
    BY <1>5 DEF HeartbeatWakes
  <2>2. QED
    BY <1>0, <1>1, <2>1 DEF SentOnceInv
<1>6. ASSUME NEW m \in {"Heartbeat", "PersonaState", "TradeToken"}, PastLogin(m)
      PROVE  SentOnceInv'
  <2>1. CASE m = "PersonaState"
    <3>1. /\ "PersonaState" \notin present /\ "PersonaState" \in present'
          /\ outgoing' = Append(outgoing, "ChangeStatus") /\ UNCHANGED <<online, appLists>>
      BY <1>6, <2>1 DEF PastLogin, WaitForLogin
    <3>2. QED
      BY <1>0, <1>1, <3>1 DEF SentOnceInv
  <2>2. CASE m # "PersonaState"
    <3>1. /\ "PersonaState" \in present' <=> "PersonaState" \in present
          /\ UNCHANGED <<outgoing, online, appLists>>
      BY <1>6, <2>2 DEF PastLogin, WaitForLogin
    <3>2. QED
      BY <3>1 DEF SentOnceInv
  <2>3. QED
    BY <2>1, <2>2
<1>7. CASE SetLoginStatus \/ Tick \/ TokenStored \/ TrackerWakes \/ Cancelled \/ UNCHANGED presenceVars
  BY <1>7 DEF SetLoginStatus, Tick, TokenStored, TrackerWakes, Cancelled, presenceVars, SentOnceInv
<1>8. QED
  BY <1>2, <1>3, <1>4, <1>5, <1>6, <1>7 DEF PresenceNext

(* Times, and what has been sent and asked for, have their types.          *)
LEMMA PresenceIsTyped ==
  ASSUME PresenceAssumption
  PROVE  PresenceSpec => []PresenceTypeOK
<1>1. ASSUME PresenceInit
      PROVE  BeatInv /\ ClockKinds /\ SentOnceInv
  <2>1. BeatInv
    BY <1>1 DEF PresenceInit, BeatInv
  <2>2. MaxClock \in Nat \ {0} => 1 \in 1..MaxClock
    OBVIOUS
  <2>3. ClockKinds
    BY <1>1, <2>2 DEF PresenceInit, ClockKinds, PresenceAssumption
  <2>4. \A k : Lacks(<<>>, k)
    BY DEF Lacks, Range
  <2>5. SentOnceInv
    BY <1>1, <2>4 DEF PresenceInit, SentOnceInv
  <2>6. QED
    BY <2>1, <2>3, <2>5
<1>2. BeatInv /\ ClockKinds /\ SentOnceInv => PresenceTypeOK
  BY DEF ClockKinds, SentOnceInv, PresenceTypeOK
<1>3. QED
  BY <1>1, <1>2, BeatStep, ClockStep, SentOnceStep, PTL DEF PresenceSpec

-----------------------------------------------------------------------------
(* Sales: the types                                                        *)

\* The counters of a clear.
SaleCounts == errors \in 0..(MaxErrors - 1) /\ left \in 0..QueueSize /\ rounds \in 0..MaxRounds

(* A clear that fails counts one error more, or ends.                      *)
LEMMA ErrorsStayFew ==
  ASSUME SaleAssumption, SaleCounts, NEW f, NEW clears,
         SaleError(f, clears) \/ (\E r \in BOOLEAN : QueueResultFor(f, r, clears))
  PROVE  errors' \in 0..(MaxErrors - 1)
<1> USE DEF SaleAssumption, SaleCounts
<1>1. ASSUME SaleError(f, clears)
      PROVE  errors' \in 0..(MaxErrors - 1)
  <2>1. \/ errors' = errors
        \/ errors' = errors + 1 /\ ~(errors + 1 >= MaxErrors)
    BY <1>1 DEF SaleError
  <2>2. QED
    BY <2>1
<1>2. QED
  BY <1>1 DEF QueueResultFor

(* Every step keeps the counters within their bounds.                      *)
LEMMA CountsStep ==
  ASSUME SaleAssumption, SalesInv, SaleCounts, [SaleNext]_saleVars
  PROVE  SaleCounts'
<1>1. ASSUME NEW f \in Callers, CallSale(f)
      PROVE  SaleCounts'
  BY <1>1 DEF CallSale, SaleCounts, SaleAssumption
<1>2. ASSUME NEW f \in Callers, SaleWaitOver(f) \/ SaleSlept(f) \/ StickerWaitOver(f) \/ Consume(f)
      PROVE  SaleCounts'
  BY <1>2 DEF SaleWaitOver, SaleSlept, StickerWaitOver, Consume, SaleCounts
<1>3. ASSUME NEW f \in Callers, CallQueue(f)
      PROVE  SaleCounts'
  BY <1>3 DEF CallQueue, SaleCounts, SaleAssumption
<1>4. ASSUME NEW f \in Callers, CallSticker(f)
      PROVE  SaleCounts'
  BY <1>4 DEF CallSticker, SaleCounts, SaleAssumption
<1>5. ASSUME NEW f \in Callers, QueueWaitOver(f)
      PROVE  SaleCounts'
  <2>1. queueResult \in BOOLEAN /\ QueueResultFor(f, queueResult, {}) /\ left' = left /\ rounds' = rounds
    BY <1>5 DEF QueueWaitOver, SalesInv, SaleTypes
  <2>2. QED
    BY <2>1, ErrorsStayFew DEF SaleCounts
<1>6. ASSUME NEW f \in Callers, NEW state \in PageStates, PageSeen(f, state)
      PROVE  SaleCounts'
  <2>1. CASE state = "Error"
    <3>1. SaleError(f, {}) /\ left' = left /\ rounds' = rounds
      BY <1>6, <2>1 DEF PageSeen
    <3>2. QED
      BY <3>1, ErrorsStayFew DEF SaleCounts
  <2>2. CASE state \in {"NoCards", "exception"}
    BY <1>6, <2>2 DEF PageSeen, SaleCounts
  <2>3. CASE state = "HasCards"
    BY <1>6, <2>3 DEF PageSeen, SaleCounts, SaleAssumption
  <2>4. QED
    BY <2>1, <2>2, <2>3 DEF PageStates
<1>7. ASSUME NEW f \in Callers, NEW ok \in BOOLEAN, QueueReturns(f, ok), left' = 0, rounds' = rounds
      PROVE  SaleCounts'
  <2>1. QueueResultFor(f, ok, {[waiters |-> "queueWait", result |-> ok]})
    BY <1>7 DEF QueueReturns
  <2>2. errors' \in 0..(MaxErrors - 1)
    BY <2>1, ErrorsStayFew
  <2>3. QED
    BY <1>7, <2>2 DEF SaleCounts, SaleAssumption
<1>8. ASSUME NEW f \in Callers, NEW ok \in BOOLEAN, NEW n \in 0..QueueSize, Generated(f, ok, n)
      PROVE  SaleCounts'
  <2>1. CASE ok /\ n > 0
    BY <1>8, <2>1 DEF Generated, SaleCounts
  <2>2. CASE ~(ok /\ n > 0)
    BY <1>7, <1>8, <2>2 DEF Generated
  <2>3. QED
    BY <2>1, <2>2
<1>9. ASSUME NEW f \in Callers, NEW ok \in BOOLEAN, AppCleared(f, ok)
      PROVE  SaleCounts'
  <2>1. CASE ok /\ left > 1
    BY <1>9, <2>1 DEF AppCleared, SaleCounts, SaleAssumption
  <2>2. CASE ~(ok /\ left > 1)
    BY <1>7, <1>9, <2>2 DEF AppCleared
  <2>3. QED
    BY <2>1, <2>2
<1>10. ASSUME NEW f \in Callers, NEW reply, ClaimAnswered(f, reply)
       PROVE  SaleCounts'
  BY <1>10 DEF ClaimAnswered, SaleCounts
<1>11. ASSUME SaleQuit
       PROVE  SaleCounts'
  <2>1. PICK S : /\ S \subseteq saleLock
                 /\ S # {} => errors + 1 < MaxErrors
                 /\ errors' = errors + Cardinality(S)
                 /\ left' = 0 /\ rounds' = rounds
    <3>1. PICK Q : Q = {f \in queueLock : saleAt[f] \in {"generate", "clear"}}
      OBVIOUS
    <3>2. PICK S : S = IF errors + 1 < MaxErrors THEN Q \cap saleLock ELSE {}
      OBVIOUS
    <3>3. errors' = errors + Cardinality(S) /\ left' = 0 /\ rounds' = rounds
      BY <1>11, <3>1, <3>2 DEF SaleQuit
    <3>4. QED
      BY <3>2, <3>3
  <2>2. \A x, y \in S : x = y
    BY <2>1 DEF SalesInv, LocksInv, Single
  <2>3. Cardinality(S) \in Nat /\ Cardinality(S) <= 1
    BY <2>2, AtMostOne
  <2>4. S = {} => Cardinality(S) = 0
    BY FS_EmptySet
  <2>5. QED
    BY <2>1, <2>3, <2>4 DEF SaleCounts, SaleAssumption
<1>12. CASE UNCHANGED saleVars
  BY <1>12 DEF saleVars, SaleCounts
<1>13. QED
  BY <1>1, <1>2, <1>3, <1>4, <1>5, <1>6, <1>8, <1>9, <1>10, <1>11, <1>12, SaleCases

(* All fields of the sale modules keep their types.                        *)
LEMMA SalesAreTyped ==
  ASSUME SaleAssumption
  PROVE  SaleSpec => []SaleTypeOK
<1>1. SaleInit => SalesInv /\ SaleCounts
  <2>1. SaleInit => SalesInv
    BY DEF SaleInit, SalesInv, SaleTypes, LocksInv, FreshResults, Single, Places
  <2>2. SaleInit => SaleCounts
    BY DEF SaleInit, SaleCounts, SaleAssumption
  <2>3. QED
    BY <2>1, <2>2
<1>2. SalesInv /\ SaleCounts /\ [SaleNext]_saleVars => SalesInv' /\ SaleCounts'
  BY CountsStep, LocksStep, WaitersStep DEF SalesInv
<1>3. SalesInv /\ SaleCounts => SaleTypeOK
  <2>1. ASSUME NEW S, Single(S)
        PROVE  S \subseteq Callers /\ Cardinality(S) <= 1
    BY <2>1, AtMostOne DEF Single
  <2>2. QED
    BY <2>1 DEF SalesInv, SaleTypes, LocksInv, SaleCounts, SaleTypeOK, Places
<1>4. QED
  BY <1>1, <1>2, <1>3, PTL DEF SaleSpec

-----------------------------------------------------------------------------
(* Server lists: the types                                                 *)

\* There are no lists but those of the queries made.
ListBounds ==
  /\ cache \in [Cells -> 0..MaxQueries] /\ got \in [Askers -> 0..MaxQueries]
  /\ \A t \in Range(tasks) : t.list \in 0..MaxQueries

(* Every step keeps the lists within the bound.                            *)
LEMMA BoundsStep ==
  ASSUME ListAssumption, QueryingInv, ListBounds, [ListNext]_listVars
  PROVE  ListBounds'
<1>0. MaxQueries \in Nat /\ 0 \in 0..MaxQueries
  BY DEF ListAssumption
<1>1. ASSUME NEW a \in Askers, NEW c \in Cells, Ask(a, c)
      PROVE  ListBounds'
  <2>1. PICK t : t = [kind |-> "get", asker |-> a, cell |-> c, list |-> 0]
    OBVIOUS
  <2>2. t \in Tasks /\ t.list = 0
    BY <2>1 DEF Tasks
  <2>3. tasks' = Append(tasks, t) /\ got' = [got EXCEPT ![a] = 0] /\ cache' = cache
    BY <1>1, <2>1 DEF Ask
  <2>4. Range(tasks') = Range(tasks) \cup {t}
    BY <2>2, <2>3, RangeAppend DEF QueryingInv
  <2>5. QED
    BY <1>0, <2>2, <2>3, <2>4 DEF ListBounds
<1>2. ASSUME RunTask
      PROVE  ListBounds'
  <2>1. /\ tasks # <<>>
        /\ Head(tasks) \in Tasks /\ Tail(tasks) \in Seq(Tasks)
        /\ Range(tasks) = {Head(tasks)} \cup Range(Tail(tasks))
    BY <1>2, FirstTask DEF RunTask
  <2>2. PICK t \in Tasks : t = Head(tasks)
    BY <2>1
  <2>3. t.list \in 0..MaxQueries /\ t.cell \in Cells /\ t.asker \in Askers
        /\ \A s \in Range(Tail(tasks)) : s.list \in 0..MaxQueries
    BY <2>1, <2>2 DEF ListBounds, Tasks
  <2>4. CASE Get(t)
    <3>1. cache' \in [Cells -> 0..MaxQueries] /\ got' = got
      BY <1>0, <2>3, <2>4 DEF Get, ListBounds
    <3>2. CASE tasks' = Tail(tasks)
      BY <2>3, <3>1, <3>2 DEF ListBounds
    <3>3. CASE tasks' = Append(Tail(tasks), [t EXCEPT !.kind = "callback", !.list = cache[t.cell]])
      <4>1. PICK s : s = [t EXCEPT !.kind = "callback", !.list = cache[t.cell]]
        OBVIOUS
      <4>2. cache[t.cell] \in 0..MaxQueries /\ cache[t.cell] \in Nat
        BY <1>0, <2>3 DEF ListBounds
      <4>3. s \in Tasks /\ s.list = cache[t.cell]
        BY <4>1, <4>2 DEF Tasks
      <4>4. Range(tasks') = Range(Tail(tasks)) \cup {s}
        <5>1. PICK r \in Seq(Tasks) : r = Tail(tasks)
          BY <2>1
        <5>2. Range(Append(r, s)) = Range(r) \cup {s}
          BY <4>3, RangeAppend
        <5>3. QED
          BY <3>3, <4>1, <5>1, <5>2
      <4>5. QED
        BY <2>3, <3>1, <4>2, <4>3, <4>4 DEF ListBounds
    <3>4. QED
      BY <2>4, <3>2, <3>3 DEF Get
  <2>5. CASE Callback(t)
    <3>1. tasks' = Tail(tasks) /\ got' = [got EXCEPT ![t.asker] = t.list] /\ cache' = cache
      BY <2>5 DEF Callback
    <3>2. QED
      BY <2>3, <3>1 DEF ListBounds
  <2>6. QED
    BY <1>2, <2>2, <2>4, <2>5 DEF RunTask
<1>3. ASSUME NEW c \in Cells, NEW n \in 1..MaxQueries, NEW ok \in BOOLEAN, ReceivedData(c, n, ok)
      PROVE  ListBounds'
  <2>1. got' = got /\ n \in Nat /\ n \in 0..MaxQueries
    BY <1>0, <1>3 DEF ReceivedData
  <2>2. CASE UNCHANGED <<cache, tasks>>
    BY <2>1, <2>2 DEF ListBounds
  <2>3. CASE ~UNCHANGED <<cache, tasks>>
    <3>1. PICK order \in SetToSeqs(callbacks[c]) :
            cache' = [cache EXCEPT ![c] = n] /\ tasks' = tasks \o Posted(order, c, n)
      BY <1>3, <2>3 DEF ReceivedData, Posted
    <3>2. PICK posted : posted = Posted(order, c, n)
      OBVIOUS
    <3>3. /\ Range(tasks \o posted) = Range(tasks) \cup Range(posted)
          /\ Range(posted) \subseteq [kind : {"callback"}, asker : callbacks[c], cell : {c}, list : {n}]
      BY <2>1, <3>2, PostedFacts
    <3>4. \A s \in Range(posted) : s.list = n
      BY <3>3
    <3>5. QED
      BY <2>1, <3>1, <3>2, <3>3, <3>4 DEF ListBounds
  <2>4. QED
    BY <2>2, <2>3
<1>4. ASSUME NEW c \in Cells, CacheAges(c)
      PROVE  ListBounds'
  BY <1>4 DEF CacheAges, ListBounds
<1>5. CASE UNCHANGED listVars
  BY <1>5 DEF listVars, ListBounds
<1>6. QED
  BY <1>1, <1>2, <1>3, <1>4, <1>5, ListCases

(* All fields of the server lists keep their types.                        *)
LEMMA ListsAreTyped ==
  ASSUME ListAssumption
  PROVE  ListSpec => []ListTypeOK
<1> DEFINE Inv == QueryingInv /\ KnownInv /\ FreshInv /\ dead \in BOOLEAN
<1>1. ListInit => ListBounds
  <2>1. Range(<<>>) = {}
    BY DEF Range
  <2>2. QED
    BY <2>1 DEF ListInit, ListBounds, ListAssumption
<1>2. Inv /\ ListBounds /\ [ListNext]_listVars => ListBounds'
  BY BoundsStep
<1>3. Inv /\ ListBounds => ListTypeOK
  <2>1. QueryingInv => querying \in [Cells -> SUBSET (1..MaxQueries)]
    BY DEF QueryingInv, ListAssumption
  <2>2. QED
    BY <2>1 DEF QueryingInv, KnownInv, ListBounds, ListTypeOK
<1>4. ListSpec => []Inv
  BY ListInvAlways
<1> HIDE DEF Inv
<1>5. QED
  BY <1>1, <1>2, <1>3, <1>4, PTL DEF ListSpec

-----------------------------------------------------------------------------
(* Streams: the types                                                      *)

\* Where the module is, and how many functions have been made.
StreamCounts == /\ viewPc \in {"wait", "beat", "page", "tmpd", "gone"} /\ enqueued \in 0..MaxStreams

(* Every step keeps the module at a place it knows, within the bound.      *)
LEMMA StreamCountsStep ==
  ASSUME StreamAssumption, StreamCounts, [StreamNext]_streamVars
  PROVE  StreamCounts'
<1>1. ASSUME NEW w, NEW action, NEW urls, ViewAction(w, action, urls)
      PROVE  StreamCounts'
  BY <1>1 DEF ViewAction, StreamCounts, StreamAssumption
<1>2. ASSUME NEW k, BeatsFrom(k), enqueued' = enqueued
      PROVE  StreamCounts'
  <2>1. viewPc' \in {"wait", "beat", "page"}
    <3>1. ASSUME RunFunction
          PROVE  viewPc' \in {"wait", "page"}
      BY <3>1 DEF RunFunction
    <3>2. QED
      BY <1>2, <3>1 DEF BeatsFrom
  <2>2. QED
    BY <1>2, <2>1 DEF StreamCounts
<1>3. CASE RoundBegins \/ HeartbeatAnswered
  BY <1>2, <1>3 DEF RoundBegins, HeartbeatAnswered
<1>4. ASSUME NEW ok \in BOOLEAN, StartAnswered(ok)
      PROVE  StreamCounts'
  <2>1. viewPc' \in {"tmpd", "wait"} /\ enqueued' = enqueued
    BY <1>4 DEF StartAnswered
  <2>2. QED
    BY <2>1 DEF StreamCounts
<1>5. CASE ViewQuit \/ CancelledStart \/ ModuleEnds
  BY <1>5 DEF ViewQuit, CancelledStart, ModuleEnds, StreamCounts
<1>6. ASSUME NEW i, BeatDue(i) \/ Returned(i)
      PROVE  StreamCounts'
  BY <1>6 DEF BeatDue, Returned, StreamCounts
<1>7. CASE UNCHANGED streamVars
  BY <1>7 DEF streamVars, StreamCounts
<1>8. QED
  BY <1>1, <1>3, <1>4, <1>5, <1>6, <1>7, StreamCases

(* All fields of the streams keep their types.                             *)
LEMMA StreamsAreTyped ==
  ASSUME StreamAssumption
  PROVE  StreamSpec => []StreamTypeOK
<1>1. StreamInit => StreamCounts
  BY DEF StreamInit, StreamCounts, StreamAssumption
<1>2. StreamCounts /\ [StreamNext]_streamVars => StreamCounts'
  BY StreamCountsStep
<1>3. ASSUME CallingInv, BeatingInv, StreamCounts
      PROVE  StreamTypeOK
  <2>1. Cardinality(running) <= 1
    BY <1>3, AtMostOne DEF CallingInv
  <2>2. streams \in Seq(Watched)
    BY <1>3 DEF BeatingInv
  <2>3. \A i \in 1..Len(streams) : streams[i] \in Watched
    BY <2>2
  <2>4. \A s \in Range(streams) : s \in Watched
    BY <2>2, RangeIs
  <2>5. beats \subseteq Urls
    BY <1>3, <2>4 DEF BeatingInv, Watched
  <2>6. QED
    BY <1>3, <2>1, <2>3, <2>5 DEF CallingInv, StreamCounts, StreamTypeOK, Watched
<1>4. QED
  BY <1>1, <1>2, <1>3, StreamsInvAlways, PTL DEF StreamSpec

-----------------------------------------------------------------------------
(* Accounts, requests and the cloud: the types                             *)

(* All fields of the accounts keep their types.                            *)
LEMMA AccountsAreTyped ==
  ASSUME AccountAssumption
  PROVE  AccountSpec => []AccountTypeOK
<1>1. HoldersInv /\ SearchInv => AccountTypeOK
  BY DEF HoldersInv, SearchInv, AccountTypeOK, Doings
<1>2. QED
  BY <1>1, HoldersAlways, PTL

\* No more is sent or waits than has been asked for.
FreeCounts ==
  /\ loggedIn \in BOOLEAN /\ addPc \in {"wait", "page"} /\ licencesChanged \in BOOLEAN
  /\ freeAnswered \in BOOLEAN
  /\ Len(added) <= MaxAdds /\ appRequests + Len(adds) <= Len(added)

(* Every step keeps the requests within their bound.                       *)
LEMMA FreeCountsStep ==
  ASSUME FreeAssumption, FreeInv, FreeCounts, [FreeNext]_freeVars
  PROVE  FreeCounts'
<1>1. /\ adds \in Seq(Free) /\ added \in Seq(Free) /\ appRequests \in Nat
      /\ Len(adds) \in Nat /\ Len(added) \in Nat /\ MaxAdds \in Nat
  BY DEF FreeInv, FreeAssumption
<1>2. CASE FreeLogin
  BY <1>2 DEF FreeLogin, FreeCounts
<1>3. ASSUME NEW id \in Free, Add(id)
      PROVE  FreeCounts'
  <2>1. \A s \in Seq(Free) : Len(Append(s, id)) = Len(s) + 1
    BY AppendFacts
  <2>2. Len(added') = Len(added) + 1 /\ Len(adds') = Len(adds) + 1 /\ Len(added) < MaxAdds
    BY <1>1, <1>3, <2>1 DEF Add
  <2>3. Len(added') <= MaxAdds /\ appRequests + Len(adds') <= Len(added')
    BY <1>1, <2>2 DEF FreeCounts
  <2>4. QED
    BY <1>3, <2>3 DEF Add, FreeCounts
<1>4. ASSUME NEW p, LicenceListComes(p)
      PROVE  FreeCounts'
  BY <1>4 DEF LicenceListComes, FreeCounts
<1>a. CASE AppAnswered
  BY <1>a DEF AppAnswered, FreeCounts
<1>5. CASE AddFreeLicenseWakes
  <2>1. loggedIn' = loggedIn /\ added' = added /\ freeAnswered' \in BOOLEAN
    BY <1>5 DEF AddFreeLicenseWakes
  <2>2. CASE PackagesAt(adds) # {}
    <3> DEFINE i == Min(PackagesAt(adds))
    <3>1. adds' = SubSeq(adds, i + 1, Len(adds)) /\ appRequests' = appRequests + i - 1
      BY <1>5, <2>2 DEF AddFreeLicenseWakes, HandlePackage
    <3>0. addPc' = "page" /\ licencesChanged' = licencesChanged
      BY <1>5, <2>2 DEF AddFreeLicenseWakes, HandlePackage
    <3>2. i \in 1..Len(adds)
      BY <2>2, FirstPackage
    <3> HIDE DEF i
    <3>3. Len(adds') = Len(adds) - i
      <4>1. \A j \in (i + 1)..Len(adds) : adds[j] \in Free
        BY <1>1, <3>2
      <4>2. Len(SubSeq(adds, i + 1, Len(adds))) = IF i + 1 <= Len(adds) THEN Len(adds) - (i + 1) + 1 ELSE 0
        BY <1>1, <3>2, <4>1, SubSeqProperties
      <4>3. QED
        BY <1>1, <3>1, <3>2, <4>2
    <3>4. appRequests' + Len(adds') <= Len(added)
      <4>1. appRequests + Len(adds) <= Len(added)
        BY DEF FreeCounts
      <4>2. appRequests' + Len(adds') = (appRequests + i - 1) + (Len(adds) - i)
        BY <3>1, <3>3
      <4>3. appRequests \in Int /\ Len(adds) \in Int /\ i \in Int /\ Len(added) \in Int
        BY <1>1, <3>2
      <4> HIDE DEF FreeCounts
      <4>4. QED
        BY <4>1, <4>2, <4>3
    <3>5. QED
      BY <2>1, <3>0, <3>4 DEF FreeCounts
  <2>3. CASE PackagesAt(adds) = {}
    <3>1. adds' = <<>> /\ appRequests' = appRequests + Len(adds)
      BY <1>5, <2>3 DEF AddFreeLicenseWakes, CheckLicenses
    <3>2. addPc' = "wait" /\ licencesChanged' = FALSE
      BY <1>5, <2>3 DEF AddFreeLicenseWakes, CheckLicenses
    <3>3. Len(adds') = 0
      BY <3>1
    <3>4. appRequests' + Len(adds') <= Len(added)
      <4>1. appRequests + Len(adds) <= Len(added)
        BY DEF FreeCounts
      <4>2. QED
        BY <1>1, <3>1, <3>3, <4>1
    <3>5. QED
      BY <2>1, <3>2, <3>4 DEF FreeCounts
  <2>4. QED
    BY <2>2, <2>3
<1>6. CASE UNCHANGED freeVars
  BY <1>6 DEF freeVars, FreeCounts
<1>7. QED
  BY <1>2, <1>3, <1>4, <1>a, <1>5, <1>6 DEF FreeNext, Free

(* All fields of AddFreeLicense keep their types.                          *)
LEMMA RequestsAreTyped ==
  ASSUME FreeAssumption
  PROVE  FreeSpec => []FreeTypeOK
<1>1. ASSUME FreeInit
      PROVE  FreeCounts
  <2>1. Len(<<>>) = 0
    OBVIOUS
  <2>2. adds = <<>> /\ added = <<>> /\ appRequests = 0
    BY <1>1 DEF FreeInit
  <2>3. Len(added) <= MaxAdds /\ appRequests + Len(adds) <= Len(added)
    BY <2>1, <2>2 DEF FreeAssumption
  <2>4. QED
    BY <1>1, <2>3 DEF FreeInit, FreeCounts
<1>2. FreeInv /\ FreeCounts /\ [FreeNext]_freeVars => FreeCounts'
  BY FreeCountsStep
<1>3. ASSUME FreeInv, FreeCounts
      PROVE  FreeTypeOK
  <2>1. appRequests \in 0..MaxAdds
    <3>1. /\ appRequests \in Nat /\ Len(adds) \in Nat /\ Len(added) \in Nat /\ MaxAdds \in Nat
      BY <1>3 DEF FreeInv, FreeAssumption
    <3>2. Len(added) <= MaxAdds /\ appRequests + Len(adds) <= Len(added)
      BY <1>3 DEF FreeCounts
    <3>3. QED
      BY <3>1, <3>2
  <2>2. QED
    BY <1>3, <2>1 DEF FreeInv, FreeCounts, FreeTypeOK, Free
<1>4. QED
  BY <1>1, <1>2, <1>3, FreeInvAlways, PTL DEF FreeSpec

\* The files are never more than at first, and what is read next is one of them.
CloudCounts ==
  /\ cloudPc \in {"idle", "files", "page"} /\ tableOpen \in BOOLEAN /\ changes <= MaxChanges
  /\ Len(cloudServer) <= Len(CloudFiles) /\ fileIndex <= Len(CloudFiles)

(* Every step keeps the counters of the cloud within their bounds.         *)
LEMMA CloudCountsStep ==
  ASSUME CloudAssumption, FilesInv, CloudCounts, [CloudNext]_cloudVars
  PROVE  CloudCounts'
<1> DEFINE N == Len(cloudServer)
           L == Len(CloudFiles)
<1>1. /\ cloudServer \in Seq(AllFiles) /\ N \in Nat /\ L \in Nat /\ fileIndex \in Nat /\ changes \in Nat
      /\ MaxChanges \in Nat /\ N <= L /\ fileIndex <= L
  BY DEF FilesInv, CloudAssumption, CloudCounts
<1>2. CASE LoadFiles
  BY <1>1, <1>2 DEF LoadFiles, CloudCounts, pageVars
<1>3. ASSUME NEW f, FilesChange(f)
      PROVE  CloudCounts'
  <2> DEFINE at == CHOOSE i \in 1..N : cloudServer[i] = f
  <2>1. at \in 1..N
    <3>1. \E i \in 1..N : cloudServer[i] = f
      BY <1>1, <1>3, RangeIs DEF FilesChange
    <3>2. QED
      BY <3>1
  <2>2. /\ changes < MaxChanges /\ changes' = changes + 1
        /\ UNCHANGED <<cloudPc, fileIndex, tableOpen>>
        /\ \/ cloudServer' = RemoveAt(cloudServer, at)
           \/ cloudServer' = Append(RemoveAt(cloudServer, at), f)
    BY <1>3 DEF FilesChange, pageVars
  <2> HIDE DEF at
  <2>3. f \in AllFiles
    BY <1>1, <1>3, RangeIs DEF FilesChange
  <2>4. RemoveAt(cloudServer, at) \in Seq(AllFiles) /\ Len(RemoveAt(cloudServer, at)) = N - 1
    BY <1>1, <2>1, RemoveFacts, Zenon
  <2>5. \A s \in Seq(AllFiles) : Len(Append(s, f)) = Len(s) + 1
    BY <2>3, AppendFacts
  <2>6. Len(cloudServer') <= L
    BY <1>1, <2>2, <2>4, <2>5
  <2>7. QED
    BY <1>1, <2>2, <2>6 DEF CloudCounts
<1>4. ASSUME NEW count \in 0..Len(CloudFiles), ReceiveChunk(count)
      PROVE  CloudCounts'
  <2> DEFINE from == IF fileIndex < N THEN fileIndex ELSE N
             chunk == SubSeq(cloudServer, from + 1, from + count)
  <2>1. /\ from + count <= N /\ (count = 0 => from = N)
        /\ fileIndex' = fileIndex + Len(chunk) /\ cloudPc' \in {"files", "idle"}
        /\ UNCHANGED <<cloudServer, changes, tableOpen>>
    BY <1>4 DEF ReceiveChunk, pageVars
  <2>2. count \in Nat /\ from \in Nat /\ from + count \in Nat
    BY <1>1
  <2>3. Len(chunk) = count
    <3>1. \A i \in (from + 1)..(from + count) : cloudServer[i] \in AllFiles
      BY <1>1, <2>1, <2>2
    <3>2. Len(chunk) = IF from + 1 <= from + count THEN (from + count) - (from + 1) + 1 ELSE 0
      <4> HIDE DEF from
      <4>1. QED
        BY <1>1, <2>1, <2>2, <3>1, SubSeqProperties
    <3> HIDE DEF from, chunk
    <3>3. QED
      BY <2>2, <3>2
  <2> HIDE DEF chunk
  <2>4. fileIndex' <= L
    BY <1>1, <2>1, <2>2, <2>3
  <2>5. QED
    BY <1>1, <2>1, <2>4 DEF CloudCounts
<1>5. ASSUME NEW p, LoadApps(p)
      PROVE  CloudCounts'
  BY <1>5 DEF LoadApps, CloudCounts, fileVars
<1>6. CASE ReadRow
  <2>1. tableOpen' \in BOOLEAN /\ UNCHANGED <<cloudPc, cloudServer, changes, fileIndex>>
    BY <1>6 DEF ReadRow, fileVars
  <2>2. QED
    BY <2>1 DEF CloudCounts
<1>7. CASE PageEnds
  BY <1>7 DEF PageEnds, CloudCounts, fileVars
<1>8. CASE UNCHANGED cloudVars
  BY <1>8 DEF cloudVars, CloudCounts
<1>9. QED
  BY <1>2, <1>3, <1>4, <1>5, <1>6, <1>7, <1>8 DEF CloudNext

(* All fields of the cloud modules keep their types.                       *)
LEMMA CloudIsTyped ==
  ASSUME CloudAssumption
  PROVE  CloudSpec => []CloudTypeOK
<1>1. ASSUME CloudInit
      PROVE  CloudCounts
  <2>1. Len(CloudFiles) \in Nat /\ MaxChanges \in Nat
    BY DEF CloudAssumption
  <2>2. cloudServer = CloudFiles /\ changes = 0 /\ fileIndex = 0
    BY <1>1 DEF CloudInit
  <2>3. changes <= MaxChanges /\ Len(cloudServer) <= Len(CloudFiles) /\ fileIndex <= Len(CloudFiles)
    BY <2>1, <2>2
  <2>4. QED
    BY <1>1, <2>3 DEF CloudInit, CloudCounts
<1>2. FilesInv /\ CloudCounts /\ [CloudNext]_cloudVars => CloudCounts'
  BY CloudCountsStep
<1>3. ASSUME FilesInv, CloudCounts
      PROVE  CloudTypeOK
  <2>1. \A s \in Seq(AllFiles) : Range(s) \subseteq AllFiles
    BY RangeIs
  <2>2. Range(cloudServer) \subseteq Range(CloudFiles) /\ Range(files) \subseteq Range(CloudFiles)
    BY <1>3, <2>1 DEF FilesInv, AllFiles
  <2>3. fileIndex \in 0..(2 * Len(CloudFiles)) /\ changes \in 0..MaxChanges
    <3>1. fileIndex \in Nat /\ changes \in Nat /\ Len(CloudFiles) \in Nat /\ MaxChanges \in Nat
      BY <1>3 DEF FilesInv, CloudAssumption
    <3>2. fileIndex <= Len(CloudFiles) /\ changes <= MaxChanges
      BY <1>3 DEF CloudCounts
    <3>3. QED
      BY <3>1, <3>2
  <2>4. QED
    BY <1>3, <2>2, <2>3 DEF CloudCounts, CloudTypeOK
<1>4. QED
  BY <1>1, <1>2, <1>3, CloudInvAlways, PTL DEF CloudSpec

-----------------------------------------------------------------------------
(* The user interface: the types                                           *)

\* Where the thread and the prompts are, and how many texts have been said.
UiPlaces ==
  /\ uiState \in {"starting", "idle", "ended"}
  /\ prompt \in [Speakers -> {"none", "queued", "open", "entered", "completed", "withdrawn"}]
  /\ said \in [Speakers -> Nat] /\ \A s \in Speakers : said[s] <= MaxTexts[s]

(* Every step keeps the thread and the prompts at places it knows.         *)
LEMMA UiPlacesStep ==
  ASSUME UiAssumption, UiPlaces, [UiNext]_uiVars
  PROVE  UiPlaces'
<1>1. ASSUME NEW s \in Speakers, OutputText(s)
      PROVE  UiPlaces'
  <2>1. said[s] < MaxTexts[s] /\ said' = [said EXCEPT ![s] = @ + 1] /\ UNCHANGED <<uiState, prompt>>
    BY <1>1 DEF OutputText, promptVars
  <2>2. said' \in [Speakers -> Nat] /\ \A t \in Speakers : said'[t] <= MaxTexts[t]
    BY <2>1 DEF UiPlaces, UiAssumption
  <2>3. QED
    BY <2>1, <2>2 DEF UiPlaces
<1>2. ASSUME NEW s \in Speakers, RequestPassword(s) \/ Cancel(s) \/ ExecuteOnThread(s)
      PROVE  UiPlaces'
  BY <1>2 DEF RequestPassword, Cancel, ExecuteOnThread, UiPlaces
<1>3. ASSUME NEW given, Completed(given)
      PROVE  UiPlaces'
  <2>1. UNCHANGED <<uiState, said>>
    BY <1>3 DEF Completed, Dequeue
  <2>2. prompt' = prompt \/ \E s : prompt' = [prompt EXCEPT ![s] = "completed"]
    BY <1>3 DEF Completed
  <2>3. QED
    BY <2>1, <2>2 DEF UiPlaces
<1>4. CASE Start \/ ShowText \/ End \/ TellUi \/ PostQuit \/ Wait
  <2>1. UNCHANGED <<prompt, said>> /\ (uiState' = uiState \/ uiState' \in {"idle", "ended"})
    BY <1>4 DEF Start, ShowText, End, TellUi, PostQuit, Wait, Dequeue, promptVars
  <2>2. QED
    BY <2>1 DEF UiPlaces
<1>5. CASE ShowPrompt
  <2>1. UNCHANGED <<uiState, said>> /\ \E s : prompt' = [prompt EXCEPT ![s] = "open"]
    BY <1>5 DEF ShowPrompt, Dequeue
  <2>2. QED
    BY <2>1 DEF UiPlaces
<1>6. CASE UNCHANGED uiVars
  BY <1>6 DEF uiVars, UiPlaces
<1>7. QED
  BY <1>1, <1>2, <1>3, <1>4, <1>5, <1>6 DEF UiNext

(* All fields of the user interface's thread keep their types.             *)
LEMMA UiIsTyped ==
  ASSUME UiAssumption
  PROVE  UiSpec => []UiTypeOK
<1>1. UiInit => UiPlaces
  BY DEF UiInit, UiPlaces, UiAssumption
<1>2. UiPlaces /\ [UiNext]_uiVars => UiPlaces'
  BY UiPlacesStep
<1>3. ASSUME UiInv, UiPlaces
      PROVE  UiTypeOK
  <2>1. ASSUME NEW s \in Speakers
        PROVE  /\ said[s] \in 0..MaxTexts[s] /\ answer[s] \in Inputs \cup {"none"}
               /\ prompt[s] \in {"none", "queued", "open", "entered", "completed", "withdrawn"}
    <3>1. said[s] \in 0..MaxTexts[s]
      BY <1>3 DEF UiPlaces, UiAssumption
    <3>2. answer[s] # "none" => answer[s] \in Validator(Asks[s])
      BY <1>3 DEF UiInv, PromptsInv, PromptOf
    <3>3. \A t : Validator(t) \subseteq Inputs
      BY DEF Validator, Inputs
    <3>4. QED
      BY <1>3, <3>1, <3>2, <3>3 DEF UiPlaces
  <2>2. QED
    BY <1>3, <2>1 DEF UiPlaces, UiInv, EndInv, UiTypeOK
<1>4. QED
  BY <1>1, <1>2, <1>3, UiInvAlways, PTL DEF UiSpec

-----------------------------------------------------------------------------
(* Fibers: the types                                                       *)

\* A fiber is in one place: with the scheduler, on its way there from another thread, or
\* neither. A handler that starts it or completes its operation is there only if it waits
\* for one.
PlaceOf(f) ==
  \/ /\ fiberAt[f] = "ready" /\ Lacks(remote, f) /\ f \notin handlers
     /\ \/ active = f /\ Lacks(ready, f)
        \/ active # f /\ HoldsOnce(ready, f)
  \/ /\ fiberAt[f] = "remote" /\ HoldsOnce(remote, f) /\ f \notin handlers
     /\ active # f /\ Lacks(ready, f)
  \/ /\ fiberAt[f] \notin {"ready", "remote"} /\ Lacks(remote, f)
     /\ active # f /\ Lacks(ready, f)
     /\ f \in handlers => fiberAt[f] \in {"none", "op"}
PlacesInv == \A f \in Fibers : PlaceOf(f)

(* The next context is resumed: whoever is ready stays it, or runs.        *)
LEMMA NextRuns ==
  ASSUME NEW q \in Seq(Contexts), q # <<>>, NEW f
  PROVE  /\ Tail(q) \in Seq(Contexts)
         /\ Lacks(q, f) => Head(q) # f /\ Lacks(Tail(q), f)
         /\ HoldsOnce(q, f) => \/ Head(q) = f /\ Lacks(Tail(q), f)
                               \/ Head(q) # f /\ HoldsOnce(Tail(q), f)
BY TailOnce

(* Somebody else is put behind the others.                                 *)
LEMMA OtherBehind ==
  ASSUME NEW q \in Seq(Contexts), NEW c \in Contexts, NEW f, f # c
  PROVE  /\ Lacks(q, f) => Lacks(Append(q, c), f)
         /\ HoldsOnce(q, f) => HoldsOnce(Append(q, c), f)
BY AppendOnce

(* The fibers that are due are readied once each.                          *)
LEMMA DueOnce ==
  ASSUME FiberAssumption, NEW due \in SetToSeqs(Due), NEW f \in Fibers
  PROVE  /\ due \in Seq(Contexts)
         /\ f \in Due => HoldsOnce(due, f)
         /\ f \notin Due => Lacks(due, f)
<1>1. IsFiniteSet(Due) /\ Due \subseteq Fibers /\ Fibers \subseteq Contexts
  BY FS_Subset DEF FiberAssumption, Due, Asleep, Contexts
<1>2. /\ due \in Seq(Due) /\ Len(due) \in Nat
      /\ \A i, j \in 1..Len(due) : due[i] = due[j] => i = j
      /\ \A x \in Due : \E i \in 1..Len(due) : due[i] = x
  BY <1>1, SeqsFacts
<1>3. due \in Seq(Contexts)
  BY <1>1, <1>2
<1>4. f \in Due => HoldsOnce(due, f)
  BY <1>2 DEF HoldsOnce
<1>5. f \notin Due => Lacks(due, f)
  BY <1>2 DEF Lacks
<1>6. QED
  BY <1>3, <1>4, <1>5

(* What the dispatcher finds: whoever is ready, woken or due comes once.   *)
LEMMA LineOnce ==
  ASSUME FiberAssumption, ContextsInv, NEW due \in SetToSeqs(Due), NEW f \in Fibers, PlaceOf(f),
         active = "dispatcher"
  PROVE  /\ ready \o remote \o due \in Seq(Contexts)
         /\ fiberAt[f] = "ready" \/ f \in Due \cup ToSet(remote) => HoldsOnce(ready \o remote \o due, f)
         /\ fiberAt[f] # "ready" /\ f \notin Due \cup ToSet(remote) => Lacks(ready \o remote \o due, f)
         /\ fiberAt[f] # "ready" /\ f \notin Due \cup ToSet(remote) => fiberAt[f] # "remote"
<1>1. ready \in Seq(Contexts) /\ remote \in Seq(Contexts) /\ f # "dispatcher"
  BY DEF ContextsInv, FiberAssumption, Contexts
<1>2. /\ due \in Seq(Contexts)
      /\ f \in Due => HoldsOnce(due, f)
      /\ f \notin Due => Lacks(due, f)
  BY DueOnce
<1>3. f \in Due => fiberAt[f] = "asleep"
  BY DEF Due, Asleep
<1>4. f \in ToSet(remote) <=> ~Lacks(remote, f)
  BY <1>1 DEF ToSet, Lacks
<1>5. HoldsOnce(remote, f) => ~Lacks(remote, f)
  BY DEF HoldsOnce, Lacks
<1>6. PICK both : both = ready \o remote
  OBVIOUS
<1>7. /\ both \in Seq(Contexts)
      /\ Lacks(ready, f) /\ Lacks(remote, f) => Lacks(both, f)
      /\ HoldsOnce(ready, f) /\ Lacks(remote, f) => HoldsOnce(both, f)
      /\ Lacks(ready, f) /\ HoldsOnce(remote, f) => HoldsOnce(both, f)
  BY <1>1, <1>6, ConcatOnce
<1>8. /\ both \o due \in Seq(Contexts)
      /\ Lacks(both, f) /\ Lacks(due, f) => Lacks(both \o due, f)
      /\ HoldsOnce(both, f) /\ Lacks(due, f) => HoldsOnce(both \o due, f)
      /\ Lacks(both, f) /\ HoldsOnce(due, f) => HoldsOnce(both \o due, f)
  BY <1>2, <1>7, ConcatOnce
<1>9. \/ fiberAt[f] = "ready" /\ Lacks(remote, f) /\ HoldsOnce(ready, f)
      \/ fiberAt[f] = "remote" /\ HoldsOnce(remote, f) /\ Lacks(ready, f)
      \/ fiberAt[f] \notin {"ready", "remote"} /\ Lacks(remote, f) /\ Lacks(ready, f)
  BY <1>1 DEF PlaceOf
<1>10. QED
  BY <1>2, <1>3, <1>4, <1>5, <1>6, <1>7, <1>8, <1>9

(* Every step keeps each fiber in one place.                               *)
LEMMA PlacesStep ==
  ASSUME FiberAssumption, ContextsInv, TimesInv, PlacesInv, [FiberNext]_fiberVars
  PROVE  PlacesInv'
<1>1. /\ ready \in Seq(Contexts) /\ remote \in Seq(Fibers \cup {"main"}) /\ handlers \subseteq Fibers
      /\ remote \in Seq(Contexts) /\ "main" \notin Fibers /\ "dispatcher" \notin Fibers
      /\ Fibers \subseteq Contexts /\ "main" \in Contexts /\ "dispatcher" \in Contexts
  BY DEF ContextsInv, FiberAssumption, Contexts
<1>2. DOMAIN fiberAt = Fibers
  BY DEF TimesInv
<1>3. active # "dispatcher" => ready # <<>>
  BY OneElement DEF ContextsInv
<1>4. SUFFICES ASSUME NEW f \in Fibers
               PROVE  PlaceOf(f)'
  BY DEF PlacesInv
<1>5. PlaceOf(f) /\ f # "main" /\ f # "dispatcher"
  BY <1>1 DEF PlacesInv
<1>6. CASE UNCHANGED <<ready, active, fiberAt, remote, handlers>>
  BY <1>5, <1>6, SMTT(30) DEF PlaceOf
<1>7. CASE ServiceLoop \/ Notified \/ HandlerGoesOn \/ TimerFires \/ TimePasses \/ UNCHANGED fiberVars
  BY <1>6, <1>7 DEF ServiceLoop, Notified, HandlerGoesOn, TimerFires, TimePasses, fiberVars, ioVars, elsewhere
<1>8. ASSUME NEW t, Notify(t)
      PROVE  PlaceOf(f)'
  BY <1>6, <1>8 DEF Notify
<1>9. ASSUME active = "main", active' = Head(ready), ready' = Tail(ready), UNCHANGED <<fiberAt, remote, handlers>>
      PROVE  PlaceOf(f)'
  <2>1. /\ Lacks(ready, f) => active' # f /\ Lacks(ready', f)
        /\ HoldsOnce(ready, f) => \/ active' = f /\ Lacks(ready', f)
                                  \/ active' # f /\ HoldsOnce(ready', f)
    BY <1>1, <1>3, <1>9, NextRuns
  <2>2. active # f
    BY <1>5, <1>9
  <2>3. QED
    BY <1>5, <1>9, <2>1, <2>2 DEF PlaceOf
<1>10. CASE PollEnds
  BY <1>9, <1>10 DEF PollEnds, Suspend, elsewhere, ioVars
<1>11. CASE RunHandler
  <2>1. active = "main" /\ remote' = remote
    BY <1>11 DEF RunHandler, elsewhere
  <2>2. ASSUME NEW g \in handlers, handlers' = handlers \ {g}, ready' = Append(ready, g),
               fiberAt' = [fiberAt EXCEPT ![g] = "ready"], active' = active
        PROVE  PlaceOf(f)'
    <3>1. g \in Contexts /\ g \in Fibers
      BY <1>1
    <3>2. CASE f = g
      <4>1. Lacks(ready, f) /\ Lacks(remote, f)
        BY <1>5, <2>2, <3>2 DEF PlaceOf
      <4>2. HoldsOnce(ready', f)
        BY <1>1, <2>2, <3>1, <3>2, <4>1, AppendOnce
      <4>3. fiberAt'[f] = "ready" /\ f \notin handlers' /\ active' # f
        BY <1>2, <1>5, <2>1, <2>2, <3>2
      <4>4. QED
        BY <2>1, <4>1, <4>2, <4>3 DEF PlaceOf
    <3>3. CASE f # g
      <4>1. /\ Lacks(ready, f) => Lacks(ready', f)
            /\ HoldsOnce(ready, f) => HoldsOnce(ready', f)
        BY <1>1, <2>2, <3>1, <3>3, OtherBehind
      <4>2. fiberAt'[f] = fiberAt[f] /\ (f \in handlers' <=> f \in handlers)
        BY <1>2, <2>2, <3>3
      <4>3. QED
        BY <1>5, <2>1, <2>2, <4>1, <4>2 DEF PlaceOf
    <3>4. QED
      BY <3>2, <3>3
  <2>3. ASSUME active' = Head(ready), ready' = Append(Tail(ready), "main"), UNCHANGED <<fiberAt, handlers>>
        PROVE  PlaceOf(f)'
    <3>1. /\ Tail(ready) \in Seq(Contexts)
          /\ Lacks(ready, f) => active' # f /\ Lacks(Tail(ready), f)
          /\ HoldsOnce(ready, f) => \/ active' = f /\ Lacks(Tail(ready), f)
                                    \/ active' # f /\ HoldsOnce(Tail(ready), f)
      BY <1>1, <1>3, <2>1, <2>3, NextRuns
    <3>2. /\ Lacks(Tail(ready), f) => Lacks(ready', f)
          /\ HoldsOnce(Tail(ready), f) => HoldsOnce(ready', f)
      BY <1>1, <1>5, <2>3, <3>1, OtherBehind
    <3>3. QED
      BY <1>5, <2>1, <2>3, <3>1, <3>2 DEF PlaceOf
  <2>4. QED
    BY <1>9, <1>11, <2>1, <2>2, <2>3 DEF RunHandler, Suspend
<1>12. CASE Dispatch
  <2>1. active = "dispatcher" /\ remote' = <<>> /\ handlers' = handlers /\ Lacks(remote', f)
    BY <1>12, OneElement DEF Dispatch, ioVars
  <2>2. PICK due \in SetToSeqs(Due) :
          LET line == ready \o remote \o due
          IN /\ fiberAt' = [g \in Fibers |-> IF g \in Due \cup ToSet(remote) THEN "ready" ELSE fiberAt[g]]
             /\ IF line # <<>>
                THEN active' = Head(line) /\ ready' = Append(Tail(line), "dispatcher")
                ELSE active' = active /\ ready' = ready
    BY <1>12 DEF Dispatch
  <2>3. PICK line : line = ready \o remote \o due
    OBVIOUS
  <2>4. /\ line \in Seq(Contexts)
        /\ fiberAt[f] = "ready" \/ f \in Due \cup ToSet(remote) => HoldsOnce(line, f)
        /\ fiberAt[f] # "ready" /\ f \notin Due \cup ToSet(remote) => Lacks(line, f)
        /\ fiberAt[f] # "ready" /\ f \notin Due \cup ToSet(remote) => fiberAt[f] # "remote"
    BY <1>5, <2>1, <2>3, LineOnce
  <2>5. /\ fiberAt'[f] = IF f \in Due \cup ToSet(remote) THEN "ready" ELSE fiberAt[f]
        /\ IF line # <<>>
           THEN active' = Head(line) /\ ready' = Append(Tail(line), "dispatcher")
           ELSE active' = active /\ ready' = ready
    BY <2>2, <2>3
  <2>6. f \in handlers => fiberAt[f] \in {"none", "op"} /\ f \notin Due \cup ToSet(remote)
    <3>1. f \in ToSet(remote) => ~Lacks(remote, f)
      BY <1>1 DEF ToSet, Lacks
    <3>2. QED
      BY <1>5, <3>1 DEF PlaceOf, Due, Asleep
  <2>7. \/ /\ fiberAt'[f] = "ready" /\ f \notin handlers
           /\ \/ active' = f /\ Lacks(ready', f)
              \/ active' # f /\ HoldsOnce(ready', f)
        \/ fiberAt'[f] \notin {"ready", "remote"} /\ active' # f /\ Lacks(ready', f) /\ fiberAt'[f] = fiberAt[f]
    <3>1. CASE line = <<>>
      <4>1. Lacks(line, f) /\ ~HoldsOnce(line, f)
        BY <3>1, OneElement
      <4>2. Lacks(ready, f) /\ active' # f
        BY <1>5, <2>1, <2>4, <2>5, <3>1, <4>1 DEF PlaceOf
      <4>3. QED
        BY <2>4, <2>5, <3>1, <4>1, <4>2
    <3>2. CASE line # <<>>
      <4>1. /\ Tail(line) \in Seq(Contexts)
            /\ Lacks(line, f) => active' # f /\ Lacks(Tail(line), f)
            /\ HoldsOnce(line, f) => \/ active' = f /\ Lacks(Tail(line), f)
                                     \/ active' # f /\ HoldsOnce(Tail(line), f)
        BY <2>4, <2>5, <3>2, NextRuns
      <4>2. PICK rest : rest = Tail(line)
        OBVIOUS
      <4>3. /\ Lacks(rest, f) => Lacks(Append(rest, "dispatcher"), f)
            /\ HoldsOnce(rest, f) => HoldsOnce(Append(rest, "dispatcher"), f)
        BY <1>1, <1>5, <4>1, <4>2, OtherBehind
      <4>4. QED
        BY <2>4, <2>5, <2>6, <3>2, <4>1, <4>2, <4>3
    <3>3. QED
      BY <3>1, <3>2
  <2>8. QED
    BY <2>1, <2>6, <2>7 DEF PlaceOf
<1>13. CASE SuspendUntil
  <2>1. UNCHANGED <<active, fiberAt, remote, handlers>>
    BY <1>13 DEF SuspendUntil
  <2>2. ready' = ready \/ ready' = Append(ready, "main")
    BY <1>13 DEF SuspendUntil
  <2>3. /\ Lacks(ready, f) => Lacks(ready', f)
        /\ HoldsOnce(ready, f) => HoldsOnce(ready', f)
    BY <1>1, <1>5, <2>2, OtherBehind
  <2>4. QED
    BY <1>5, <2>1, <2>3 DEF PlaceOf
<1>14. ASSUME NEW g \in Fibers, FiberSuspends(g)
       PROVE  PlaceOf(f)'
  <2>1. /\ active = g /\ active' = Head(ready) /\ ready' = Tail(ready)
        /\ UNCHANGED <<remote, handlers>>
        /\ \E at \in {"asleep", "op", "mutex", "none"} : fiberAt' = [fiberAt EXCEPT ![g] = at]
    BY <1>14 DEF FiberSuspends, Suspend, elsewhere, ioVars
  <2>2. /\ Lacks(ready, f) => active' # f /\ Lacks(ready', f)
        /\ HoldsOnce(ready, f) => \/ active' = f /\ Lacks(ready', f)
                                  \/ active' # f /\ HoldsOnce(ready', f)
    BY <1>1, <1>3, <1>14, <2>1, NextRuns
  <2>3. CASE f = g
    <3>1. fiberAt'[f] \in {"asleep", "op", "mutex", "none"}
      BY <1>2, <2>1, <2>3
    <3>2. Lacks(ready, f) /\ Lacks(remote, f) /\ f \notin handlers
      BY <1>5, <2>1, <2>3 DEF PlaceOf
    <3>3. QED
      BY <2>1, <2>2, <3>1, <3>2 DEF PlaceOf
  <2>4. CASE f # g
    <3>1. fiberAt'[f] = fiberAt[f] /\ active # f
      BY <1>2, <2>1, <2>4
    <3>2. QED
      BY <1>5, <2>1, <2>2, <3>1 DEF PlaceOf
  <2>5. QED
    BY <2>3, <2>4
<1>15. CASE EnqueueHandler
  <2>1. UNCHANGED <<ready, active, fiberAt, remote>>
    BY <1>15 DEF EnqueueHandler, elsewhere
  <2>2. \/ handlers' = handlers
        \/ \E g \in Fibers : fiberAt[g] \in {"none", "op"} /\ handlers' = handlers \cup {g}
    BY <1>15 DEF EnqueueHandler
  <2>3. f \in handlers' => f \in handlers \/ fiberAt[f] \in {"none", "op"}
    BY <2>2
  <2>4. QED
    BY <1>5, <2>1, <2>3 DEF PlaceOf
<1>16. ASSUME NEW t \in Threads, NEW c \in Fibers \cup {"main"}, WakeRemotely(t, c)
       PROVE  PlaceOf(f)'
  <2>1. /\ remote' = Append(remote, c) /\ UNCHANGED <<ready, active, handlers>>
        /\ \/ c = "main" /\ fiberAt' = fiberAt
           \/ c \in Fibers /\ fiberAt[c] = "mutex" /\ fiberAt' = [fiberAt EXCEPT ![c] = "remote"]
    BY <1>16 DEF WakeRemotely, ioVars
  <2>2. c \in Contexts
    BY <1>1
  <2>3. CASE f = c
    <3>1. fiberAt[f] = "mutex" /\ fiberAt'[f] = "remote"
      BY <1>2, <1>5, <2>1, <2>3
    <3>2. Lacks(remote, f) /\ Lacks(ready, f) /\ active # f /\ f \notin handlers
      BY <1>5, <3>1 DEF PlaceOf
    <3>3. HoldsOnce(remote', f)
      BY <1>1, <2>1, <2>2, <2>3, <3>2, AppendOnce
    <3>4. QED
      BY <2>1, <3>1, <3>2, <3>3 DEF PlaceOf
  <2>4. CASE f # c
    <3>1. /\ Lacks(remote, f) => Lacks(remote', f)
          /\ HoldsOnce(remote, f) => HoldsOnce(remote', f)
      BY <1>1, <2>1, <2>2, <2>4, OtherBehind
    <3>2. fiberAt'[f] = fiberAt[f]
      BY <1>2, <2>1, <2>4
    <3>3. QED
      BY <1>5, <2>1, <3>1, <3>2 DEF PlaceOf
  <2>5. QED
    BY <2>3, <2>4
<1>17. QED
  BY <1>7, <1>8, <1>10, <1>11, <1>12, <1>13, <1>14, <1>15, <1>16 DEF FiberNext

\* The clock does not run past its bound.
FiberClockInv ==
  /\ now <= MaxTime /\ timer.expiry <= MaxTime /\ \A f \in Fibers : deadline[f] <= MaxTime

(* Every step stays within the bound of the clock.                         *)
LEMMA FiberClockStep ==
  ASSUME FiberAssumption, TimesInv, FiberClockInv, [FiberNext]_fiberVars
  PROVE  FiberClockInv'
<1>1. /\ now \in Nat /\ deadline \in [Fibers -> Nat] /\ MaxTime \in Nat /\ Nap \in Nat
      /\ timer \in [expiry : Nat, pending : BOOLEAN, armed : SUBSET Nat, waits : Nat]
  BY DEF TimesInv, FiberAssumption
<1>2. ASSUME now' = now, deadline' = deadline, timer'.expiry = timer.expiry
      PROVE  FiberClockInv'
  BY <1>2 DEF FiberClockInv
<1>3. AsyncWait.expiry = timer.expiry
  BY <1>1 DEF AsyncWait
<1>4. ASSUME CallOff
      PROVE  timer'.expiry = timer.expiry
  BY <1>1, <1>4 DEF CallOff
<1>5. CASE ServiceLoop \/ PollEnds \/ Notified \/ RunHandler \/ HandlerGoesOn \/ Dispatch \/ EnqueueHandler
           \/ UNCHANGED fiberVars
  <2>1. UNCHANGED <<now, deadline, timer>>
    BY <1>5 DEF ServiceLoop, PollEnds, Notified, RunHandler, HandlerGoesOn, Dispatch, EnqueueHandler,
       fiberVars, elsewhere, timerVars
  <2>2. QED
    BY <1>2, <2>1
<1>6. CASE SuspendUntil
  <2>1. UNCHANGED <<now, deadline>>
    BY <1>6 DEF SuspendUntil
  <2>2. \/ CallOff \/ timer' = timer \/ timer' = AsyncWait \/ timer' = [timer EXCEPT !.pending = TRUE]
        \/ \E f \in Asleep : timer' = [timer EXCEPT !.expiry = deadline[f]]
    BY <1>6 DEF SuspendUntil, timerVars
  <2>3. CASE \E f \in Asleep : timer' = [timer EXCEPT !.expiry = deadline[f]]
    <3>1. PICK f \in Fibers : timer' = [timer EXCEPT !.expiry = deadline[f]]
      BY <2>3 DEF Asleep
    <3>2. timer'.expiry = deadline[f]
      BY <1>1, <3>1
    <3>3. QED
      BY <2>1, <3>2 DEF FiberClockInv
  <2>4. CASE ~(\E f \in Asleep : timer' = [timer EXCEPT !.expiry = deadline[f]])
    <3>1. timer'.expiry = timer.expiry
      BY <1>1, <1>3, <1>4, <2>2, <2>4
    <3>2. QED
      BY <1>2, <2>1, <3>1
  <2>5. QED
    BY <2>3, <2>4
<1>7. CASE TimerFires
  <2>1. UNCHANGED <<now, deadline>> /\ timer'.expiry = timer.expiry
    BY <1>1, <1>7 DEF TimerFires
  <2>2. QED
    BY <1>2, <2>1
<1>8. CASE TimePasses
  <2>1. UNCHANGED <<deadline, timer>> /\ now < MaxTime /\ now' = now + 1
    BY <1>8 DEF TimePasses, timerVars
  <2>2. QED
    BY <1>1, <2>1 DEF FiberClockInv
<1>9. ASSUME NEW f \in Fibers, FiberSuspends(f)
      PROVE  FiberClockInv'
  <2>1. UNCHANGED <<now, timer>>
    BY <1>9 DEF FiberSuspends, elsewhere
  <2>2. \/ deadline' = deadline
        \/ now + Nap <= MaxTime /\ deadline' = [deadline EXCEPT ![f] = now + Nap]
    BY <1>9 DEF FiberSuspends
  <2>3. QED
    BY <1>1, <2>1, <2>2 DEF FiberClockInv
<1>10. ASSUME NEW t \in Threads, Notify(t)
       PROVE  FiberClockInv'
  <2>1. UNCHANGED <<now, deadline>>
    BY <1>10 DEF Notify
  <2>2. \/ CallOff \/ timer' = AsyncWait \/ timer' = [timer EXCEPT !.pending = TRUE]
        \/ timer' = [timer EXCEPT !.expiry = now]
    BY <1>10 DEF Notify
  <2>3. timer'.expiry = timer.expiry \/ timer'.expiry = now
    BY <1>1, <1>3, <1>4, <2>2
  <2>4. QED
    BY <2>1, <2>3 DEF FiberClockInv
<1>11. ASSUME NEW t \in Threads, NEW c \in Fibers \cup {"main"}, WakeRemotely(t, c)
       PROVE  FiberClockInv'
  BY <1>2, <1>11 DEF WakeRemotely, timerVars
<1>12. QED
  BY <1>5, <1>6, <1>7, <1>8, <1>9, <1>10, <1>11 DEF FiberNext

(* All fields of the fibers keep their types; no context is scheduled      *)
(* twice.                                                                  *)
LEMMA FibersAreTyped ==
  ASSUME FiberAssumption
  PROVE  FiberSpec => []FiberTypeOK
<1>1. ASSUME FiberInit
      PROVE  PlacesInv /\ FiberClockInv
  <2>1. /\ ready = <<"dispatcher">> /\ active = "main" /\ handlers = {} /\ remote = <<>>
        /\ fiberAt = [f \in Fibers |-> "none"]
    BY <1>1 DEF FiberInit
  <2>2. \A f \in Fibers : f # "main" /\ f # "dispatcher"
    BY DEF FiberAssumption
  <2>3. \A f \in Fibers : Lacks(ready, f) /\ Lacks(remote, f)
    BY <2>1, <2>2, OneElement
  <2>4. PlacesInv
    BY <2>1, <2>2, <2>3 DEF PlacesInv, PlaceOf
  <2>5. now = 0 /\ deadline = [f \in Fibers |-> 0] /\ timer.expiry = 0
    BY <1>1 DEF FiberInit
  <2>6. FiberClockInv
    BY <2>5 DEF FiberClockInv, FiberAssumption
  <2>7. QED
    BY <2>4, <2>6
<1>2. FibersInv /\ PlacesInv /\ FiberClockInv /\ [FiberNext]_fiberVars => (PlacesInv /\ FiberClockInv)'
  BY PlacesStep, FiberClockStep DEF FibersInv
<1>3. ASSUME FibersInv, PlacesInv, FiberClockInv
      PROVE  FiberTypeOK
  <2>1. /\ ready \in Seq(Contexts) /\ remote \in Seq(Fibers \cup {"main"}) /\ handlers \subseteq Fibers
        /\ within \in {"none", "yield", "mutex", "woken"} /\ mainAt \in {"loop", "poll", "run", "cnd"}
    BY <1>3 DEF FibersInv, ContextsInv
  <2>2. ToSet(ready) \subseteq Contexts /\ ToSet(remote) \subseteq Fibers \cup {"main"}
    BY <2>1 DEF ToSet
  <2>3. ASSUME NEW c \in Contexts
        PROVE  Lacks(ready, c) \/ HoldsOnce(ready, c)
    <3>1. CASE c \in Fibers
      BY <1>3, <3>1 DEF PlacesInv, PlaceOf
    <3>2. CASE c = "main"
      BY <1>3, <3>2 DEF FibersInv, ContextsInv, MainIsSomewhere
    <3>3. CASE c = "dispatcher"
      BY <1>3, <3>3 DEF FibersInv, ContextsInv
    <3>4. QED
      BY <3>1, <3>2, <3>3 DEF Contexts
  <2>4. IsInjective(ready)
    <3>1. DOMAIN ready = 1..Len(ready) /\ \A i \in 1..Len(ready) : ready[i] \in Contexts
      BY <2>1
    <3>2. \A i, j \in 1..Len(ready) : ready[i] = ready[j] => i = j
      BY <2>3, <3>1 DEF Lacks, HoldsOnce
    <3>3. QED
      BY <3>1, <3>2 DEF IsInjective
  <2>5. timer.expiry \in 0..MaxTime /\ (timer.waits = 0 <=> timer.armed = {})
    BY <1>3 DEF FibersInv, TimesInv, FiberClockInv, FiberAssumption
  <2>6. QED
    BY <2>1, <2>2, <2>4, <2>5 DEF FiberTypeOK, Contexts
<1>4. QED
  BY <1>1, <1>2, <1>3, FibersAlways, PTL DEF FiberSpec

-----------------------------------------------------------------------------
(* Web session, calls and transport: the types                             *)

(* A jar, the tokens and the queue of web sessions have their types.       *)
LEMMA WebIsTyped ==
  ASSUME WebAssumption
  PROVE  WebSpec => []WebTypeOK
<1>1. ASSUME TokenInv, SentInv, ForbiddenInv, ServedInv
      PROVE  WebTypeOK
  <2>1. accessToken \in 0..MaxTokens /\ expired \subseteq 1..MaxTokens
    BY <1>1 DEF TokenInv, WebAssumption
  <2>2. forbidden \subseteq Requests
    <3>1. webQueue \in Seq(Requests) /\ (forbidden # {} => webQueue # <<>> /\ forbidden = {Head(webQueue)})
      BY <1>1 DEF ForbiddenInv
    <3>2. webQueue # <<>> => Head(webQueue) \in Requests
      BY <3>1, TailFacts
    <3>3. QED
      BY <3>1, <3>2
  <2>3. \A c \in jar : c.name \in {"timezoneOffset", "steamLoginSecure", "sessionid"}
    BY <1>1 DEF SentInv, CookiesOK, CookieNames
  <2>4. tokens \in 0..MaxTokens /\ tokenOwner \in Others \cup {"web", "nobody"}
        /\ tokenQueue \subseteq Others \cup {"web"}
    BY <1>1 DEF TokenInv
  <2>5. webPc \in {"wait", "login", "perform", "failed", "noToken"} /\ waiters \subseteq Requests
    BY <1>1 DEF SentInv, ServedInv
  <2>6. QED
    BY <2>1, <2>2, <2>3, <2>4, <2>5 DEF WebTypeOK
<1>2. QED
  BY <1>1, WebInvAlways, PTL

(* A call is asked again MaxRetries times at most.                         *)
RetriesInv == retries \in [Calls -> 0..MaxRetries] /\ atServer \subseteq Calls

(* The calls, their retries and the responses have their types.            *)
LEMMA CallsAreTyped ==
  ASSUME CallAssumption
  PROVE  CallSpec => []CallTypeOK
<1>1. ASSUME CallInit
      PROVE  RetriesInv
  BY <1>1 DEF CallInit, RetriesInv, CallAssumption
<1>2. ASSUME RetriesInv, [CallNext]_callVars
      PROVE  RetriesInv'
  <2>1. ASSUME NEW c \in Calls, Execute(c) \/ Resend(c)
        PROVE  RetriesInv'
    BY <1>2, <2>1 DEF Execute, Resend, RetriesInv
  <2>2. ASSUME NEW c \in Calls, NEW code \in Codes, ResponseArrives(c, code)
        PROVE  RetriesInv'
    BY <1>2, <2>2 DEF ResponseArrives, RetriesInv
  <2>3. ASSUME NEW c \in Calls, Fetch(c)
        PROVE  RetriesInv'
    <3>1. atServer' = atServer
      BY <2>3 DEF Fetch
    <3>2. \/ retries' = retries
          \/ retries[c] < MaxRetries /\ retries' = [retries EXCEPT ![c] = @ + 1]
      BY <2>3 DEF Fetch
    <3>3. QED
      BY <1>2, <3>1, <3>2 DEF RetriesInv, CallAssumption
  <2>4. CASE QuitCancels
    BY <1>2, <2>4 DEF QuitCancels, RetriesInv
  <2>5. CASE (\E n \in JobNames : NotificationArrives(n)) \/ ServerModuleWakes
    BY <1>2, <2>5 DEF NotificationArrives, ServerModuleWakes, RetriesInv
  <2>6. CASE UNCHANGED callVars
    BY <1>2, <2>6 DEF callVars, RetriesInv
  <2>7. QED
    BY <1>2, <2>1, <2>2, <2>3, <2>4, <2>5, <2>6 DEF CallNext
<1>3. ASSUME CallsInv, RetriesInv
      PROVE  CallTypeOK
  <2>1. ASSUME NEW c \in Calls, NEW i \in 1..Len(callInbox[c])
        PROVE  callInbox[c][i].job \in Calls
    <3>1. callInbox[c] \in Seq(CallResponses)
      BY <1>3 DEF CallsInv
    <3>2. callInbox[c][i] \in CallResponses
      BY <3>1
    <3>3. QED
      BY <3>2 DEF CallResponses
  <2>2. callPc \in [Calls -> {"idle", "waiting", "sleeping"} \cup Ended]
        /\ messageList \subseteq Calls /\ callsReceived \subseteq messageList
    BY <1>3 DEF CallsInv
  <2>3. QED
    BY <1>3, <2>1, <2>2 DEF CallTypeOK, RetriesInv
<1>4. QED
  BY <1>1, <1>2, <1>3, CallsInvAlways, PTL DEF CallSpec

(* What has been read on a socket has been sent on it.                     *)
NetKinds ==
  /\ netPc \in {"connect", "handshake", "ready", "eof", "crashed"}
  /\ attempt \in 1..MaxAttempts /\ encryptionState \in {"None", "Challenged", "Encrypting"}
  /\ half \in BOOLEAN
ReadIsSent ==
  /\ server.sent <= MaxData /\ Len(decrypted) <= MaxData
  /\ netPc \in {"connect", "handshake"} => decrypted = <<>>
  /\ netPc = "ready" => Len(decrypted) + Len(onWire) <= server.sent

(* The transport's state, attempt and engine have their types, and no more *)
(* is read than was sent.                                                  *)
LEMMA NetKindsStep ==
  ASSUME TransportAssumption, NetKinds, [NetNext]_netVars
  PROVE  NetKinds'
<1>1. ASSUME NEW ok \in BOOLEAN, TcpConnects(ok) \/ HeaderArrives(ok)
      PROVE  NetKinds'
  BY <1>1 DEF TcpConnects, HeaderArrives, NetKinds
<1>2. CASE \E challenge \in BOOLEAN : ServerRequests(challenge)
  BY <1>2 DEF ServerRequests, NetKinds
<1>3. CASE ServerStrays \/ ServerSends \/ HandleEncryptRequest \/ HandleEncryptResult
  BY <1>3 DEF ServerStrays, ServerSends, HandleEncryptRequest, HandleEncryptResult, NetKinds
<1>4. CASE Ignored \/ ReadPacket \/ WritePacket
  BY <1>4 DEF Ignored, ReadPacket, WritePacket, NetKinds
<1>5. CASE ServerCloses
  <2>1. \/ attempt < MaxAttempts /\ netPc' = "connect" /\ attempt' = attempt + 1
        \/ netPc' = "eof" /\ attempt' = attempt
    BY <1>5 DEF ServerCloses
  <2>2. half' = FALSE /\ encryptionState' = encryptionState
    BY <1>5 DEF ServerCloses
  <2>3. attempt' \in 1..MaxAttempts
    BY <2>1 DEF NetKinds, TransportAssumption
  <2>4. netPc' \in {"connect", "eof"}
    BY <2>1
  <2>5. QED
    BY <2>2, <2>3, <2>4 DEF NetKinds
<1>6. CASE UNCHANGED netVars
  BY <1>6 DEF netVars, NetKinds
<1>7. QED
  BY NetCases, <1>1, <1>2, <1>3, <1>4, <1>5, <1>6

(* A packet is read once.                                                  *)
LEMMA ReadIsSentStep ==
  ASSUME TransportAssumption, Sockets, WireInv, DataInv, ReadIsSent, [NetNext]_netVars
  PROVE  ReadIsSent'
<1>0. /\ onWire \in Seq(Packets) /\ decrypted \in Seq(Nat)
      /\ Len(onWire) \in Nat /\ Len(decrypted) \in Nat /\ server.sent \in Nat /\ MaxData \in Nat
  BY DEF WireInv, DataInv, Sockets, TransportAssumption
<1>1. ASSUME NEW ok \in BOOLEAN, TcpConnects(ok)
      PROVE  ReadIsSent'
  <2>1. netPc = "connect" /\ netPc' # "ready" /\ decrypted' = decrypted /\ server'.sent = 0
    BY <1>1 DEF TcpConnects, NewSocket
  <2>2. QED
    BY <1>0, <2>1 DEF ReadIsSent
<1>2. ASSUME NEW ok \in BOOLEAN, HeaderArrives(ok)
      PROVE  ReadIsSent'
  <2>1. UNCHANGED <<onWire, server, decrypted>> /\ netPc' \in {netPc, "crashed"}
    BY <1>2 DEF HeaderArrives
  <2>2. QED
    BY <2>1 DEF ReadIsSent
<1>3. CASE (\E challenge \in BOOLEAN : ServerRequests(challenge)) \/ ServerStrays \/ HandleEncryptRequest
  <2>1. /\ netPc = "handshake" /\ netPc' = netPc /\ decrypted' = decrypted
    BY <1>3 DEF ServerRequests, ServerStrays, HandleEncryptRequest
  <2>2. server'.sent = server.sent
    BY <1>3 DEF ServerRequests, ServerStrays, HandleEncryptRequest, Sockets
  <2>3. QED
    BY <2>1, <2>2 DEF ReadIsSent
<1>4. CASE ServerSends
  <2>1. netPc = "ready" /\ netPc' = netPc /\ decrypted' = decrypted /\ server.sent < MaxData
        /\ onWire' = Append(onWire, "Data")
    BY <1>4 DEF ServerSends
  <2>2. server'.sent = server.sent + 1
    BY <1>4 DEF ServerSends, Sockets
  <2>3. Len(onWire') = Len(onWire) + 1
    BY <1>0, <2>1
  <2>4. Len(decrypted) + Len(onWire) <= server.sent /\ Len(decrypted) <= MaxData
    BY <2>1 DEF ReadIsSent
  <2>5. /\ server'.sent <= MaxData /\ Len(decrypted) <= MaxData
        /\ Len(decrypted) + Len(onWire') <= server'.sent
    BY <1>0, <2>1, <2>2, <2>3, <2>4
  <2>6. QED
    BY <2>1, <2>5 DEF ReadIsSent
<1>5. CASE HandleEncryptResult
  <2>1. /\ netPc = "handshake" /\ netPc' \in {"ready", "crashed"} /\ UNCHANGED <<server, decrypted>>
        /\ onWire' = Tail(onWire) /\ half /\ Head(onWire) \in Results
    BY <1>5 DEF HandleEncryptResult, Results
  <2>2. onWire # <<>>
    BY <2>1 DEF WireInv
  <2>3. Head(onWire) = onWire[1] /\ Len(onWire) \in Nat \ {0} /\ Len(onWire') = Len(onWire) - 1
    BY <1>0, <2>1, <2>2, TailFacts
  <2>4. Len(onWire) = 1
    <3>1. 1 \in 1..Len(onWire) /\ onWire[1] \in RequestKinds \cup Results
      BY <2>1, <2>3
    <3>2. QED
      BY <2>1, <3>1 DEF WireInv
  <2>5. Len(onWire') = 0 /\ decrypted = <<>> /\ Len(decrypted) = 0
    BY <2>1, <2>3, <2>4 DEF ReadIsSent
  <2>6. Len(decrypted') + Len(onWire') <= server'.sent
    BY <1>0, <2>1, <2>5
  <2>7. QED
    BY <2>1, <2>6 DEF ReadIsSent
<1>6. CASE Ignored \/ WritePacket \/ ServerCloses
  <2>1. CASE Ignored
    <3>1. netPc = "handshake" /\ netPc' = netPc /\ UNCHANGED <<server, decrypted>>
      BY <2>1 DEF Ignored
    <3>2. QED
      BY <3>1 DEF ReadIsSent
  <2>2. CASE WritePacket
    BY <2>2 DEF WritePacket, ReadIsSent
  <2>3. CASE ServerCloses
    <3>1. UNCHANGED <<server, decrypted>> /\ netPc' # "ready" /\ netPc' # "handshake"
          /\ (netPc' = "connect" => netPc = "handshake")
      BY <2>3 DEF ServerCloses
    <3>2. QED
      BY <3>1 DEF ReadIsSent
  <2>4. QED
    BY <1>6, <2>1, <2>2, <2>3
<1>7. CASE ReadPacket
  <2>1. /\ netPc = "ready" /\ netPc' = netPc /\ half /\ server' = server /\ onWire' = Tail(onWire)
    BY <1>7 DEF ReadPacket
  <2>2. PICK one : decrypted' = Append(decrypted, one)
    BY <1>7 DEF ReadPacket
  <2>3. onWire # <<>>
    BY <2>1 DEF WireInv
  <2>4. Len(onWire') = Len(onWire) - 1
    BY <1>0, <2>1, <2>3, TailFacts
  <2>5. Len(decrypted') = Len(decrypted) + 1
    BY <1>0, <2>2
  <2>6. Len(decrypted) + Len(onWire) <= server.sent /\ server.sent <= MaxData
    BY <2>1 DEF ReadIsSent
  <2>7. Len(onWire') \in Nat
    BY <1>0, <2>1, <2>3, TailFacts
  <2>8. Len(decrypted') + Len(onWire') <= server'.sent /\ Len(decrypted') <= MaxData
        /\ server'.sent <= MaxData
    <3>1. server'.sent = server.sent
      BY <2>1
    <3>2. Len(decrypted') + Len(onWire') = Len(decrypted) + Len(onWire)
      BY <1>0, <2>4, <2>5
    <3>3. Len(decrypted') <= server.sent
      BY <1>0, <2>5, <2>6, <2>7, <3>2
    <3>4. QED
      BY <1>0, <2>5, <2>6, <3>1, <3>2, <3>3
  <2>9. QED
    BY <2>1, <2>8 DEF ReadIsSent
<1>8. CASE UNCHANGED netVars
  BY <1>8 DEF netVars, ReadIsSent
<1>9. QED
  BY NetCases, <1>1, <1>2, <1>3, <1>4, <1>5, <1>6, <1>7, <1>8

(* The transport's fields have their types.                                *)
LEMMA NetIsTyped ==
  ASSUME TransportAssumption
  PROVE  NetSpec => []NetTypeOK
<1>1. ASSUME NetInit
      PROVE  NetKinds /\ ReadIsSent
  <2>1. NetKinds
    <3>1. 1 \in 1..MaxAttempts
      BY DEF TransportAssumption
    <3>2. QED
      BY <1>1, <3>1 DEF NetInit, NetKinds
  <2>2. server.sent = 0 /\ netPc = "connect" /\ decrypted = <<>>
    BY <1>1 DEF NetInit, NewSocket
  <2>3. Len(decrypted) = 0 /\ 0 <= MaxData
    BY <2>2 DEF TransportAssumption
  <2>4. QED
    BY <2>1, <2>2, <2>3 DEF ReadIsSent
<1>2. ASSUME NetKinds, ReadIsSent, Sockets, WireInv, DataInv, [NetNext]_netVars
      PROVE  NetKinds' /\ ReadIsSent'
  BY <1>2, NetKindsStep, ReadIsSentStep
<1>3. ASSUME NetKinds, ReadIsSent, DataInv
      PROVE  NetTypeOK
  <2>1. Cardinality(engine) <= 1
    BY <1>3, AtMostOne DEF DataInv
  <2>2. ASSUME NEW i \in 1..Len(decrypted)
        PROVE  decrypted[i] \in 0..(2 * MaxData + 2)
    <3>1. decrypted[i] = i /\ Len(decrypted) <= MaxData /\ Len(decrypted) \in Nat /\ MaxData \in Nat
      BY <1>3, <2>2 DEF DataInv, ReadIsSent, TransportAssumption
    <3>2. QED
      BY <3>1
  <2>3. QED
    BY <1>3, <2>1, <2>2 DEF NetTypeOK, NetKinds
<1>4. QED
  BY <1>1, <1>2, <1>3, NetInvAlways, PTL DEF NetSpec

-----------------------------------------------------------------------------
(* Licenses and the store: the types                                       *)

(* The fields of the license flow that no other invariant is about.        *)
FlowKinds ==
  /\ listsSent \in 0..MaxLists
  /\ newLicenses \in [Clients -> SUBSET Packages]
  /\ woken \in [Clients -> BOOLEAN]
  /\ pc \in [Clients -> {"wait", "responses", "store", "appinfo"}]
  /\ latestJob \in [Clients -> Nat] /\ \A c \in Clients : latestJob[c] <= jobs

(* A list that is read has new packages, and a request a new job.          *)
LEMMA FlowKindsStep ==
  ASSUME FlowAssumption, FlowInv, ListsInv, FlowKinds, [FlowNext]_flowVars
  PROVE  FlowKinds'
<1>0. MaxLists \in Nat /\ jobs \in Nat
  BY DEF FlowAssumption, FlowInv
<1>1. ASSUME NEW c \in Clients, SendLicenses(c)
      PROVE  FlowKinds'
  <2>1. /\ listsSent < MaxLists /\ listsSent' = listsSent + 1
        /\ UNCHANGED <<newLicenses, woken, pc, latestJob, jobs>>
    BY <1>1 DEF SendLicenses, board, module
  <2>2. listsSent' \in 0..MaxLists
    BY <1>0, <2>1 DEF FlowKinds
  <2>3. QED
    BY <2>1, <2>2 DEF FlowKinds
<1>2. ASSUME NEW c \in Clients, HandleLicenseList(c)
      PROVE  FlowKinds'
  <2> DEFINE r == ReadList(DOMAIN licenses[c].map, Head(lists[c]))
  <2>1. /\ lists[c] # <<>> /\ newLicenses' = [newLicenses EXCEPT ![c] = r.new]
        /\ woken' = [woken EXCEPT ![c] = TRUE]
        /\ UNCHANGED <<listsSent, pc, latestJob, jobs>>
    BY <1>2 DEF HandleLicenseList, listServer
  <2>2. Head(lists[c]) \in ListMessages
    <3>1. lists[c] \in Seq(ListMessages) /\ lists[c] # <<>>
      BY <2>1 DEF ListsInv
    <3>2. QED
      BY <3>1, RangeTail, ElementOfSeq
  <2>3. Head(lists[c]).list \in Lists
        /\ Head(lists[c]).list \in Seq([pkg : Packages, family : BOOLEAN])
    BY <2>2 DEF ListMessages, FlowAssumption
  <2>4. LicensesRead(r, Head(lists[c]), Len(Head(lists[c]).list))
    BY <2>3, ReadAll
  <2>5. DOMAIN r.map = {Head(lists[c]).list[j].pkg : j \in 1..Len(Head(lists[c]).list)}
        /\ r.new \subseteq DOMAIN r.map
    BY <2>4 DEF LicensesRead
  <2>6. \A j \in 1..Len(Head(lists[c]).list) : Head(lists[c]).list[j].pkg \in Packages
    BY <2>3, LicenseItems
  <2> HIDE DEF r
  <2>7. r.new \subseteq Packages
    BY <2>5, <2>6
  <2>8. newLicenses' \in [Clients -> SUBSET Packages]
    BY <2>1, <2>7 DEF FlowKinds
  <2>9. QED
    BY <2>1, <2>8 DEF FlowKinds
<1>3. ASSUME NEW c \in Clients, HandleLicenses(c)
      PROVE  FlowKinds'
  <2>1. /\ woken' = [woken EXCEPT ![c] = FALSE] /\ pc' = [pc EXCEPT ![c] = "responses"]
        /\ UNCHANGED <<listsSent, newLicenses>>
        /\ \/ jobs' = jobs + 1 /\ latestJob' = [latestJob EXCEPT ![c] = jobs + 1]
           \/ UNCHANGED <<jobs, latestJob>>
    BY <1>3 DEF HandleLicenses
  <2>2. latestJob' \in [Clients -> Nat] /\ \A d \in Clients : latestJob'[d] <= jobs'
    BY <1>0, <2>1 DEF FlowKinds
  <2>3. woken' \in [Clients -> BOOLEAN] /\ pc' \in [Clients -> {"wait", "responses", "store", "appinfo"}]
    BY <2>1 DEF FlowKinds
  <2>4. QED
    BY <2>1, <2>2, <2>3 DEF FlowKinds
<1>4. ASSUME NEW c \in Clients, \/ TakeResponse(c) \/ SaveStore(c) \/ AppInfoUpdated(c)
                                \/ ResponsesDone(c) \/ \E p \in Packages : StorePackage(c, p)
      PROVE  FlowKinds'
  <2>1. /\ UNCHANGED <<listsSent, newLicenses, woken, latestJob, jobs>>
        /\ \/ pc' = [pc EXCEPT ![c] = "appinfo"]
           \/ pc' = [pc EXCEPT ![c] = "store"] \/ pc' = pc
           \/ pc' = [pc EXCEPT ![c] = "responses"]
           \/ pc' = [pc EXCEPT ![c] = "wait"]
    BY <1>4 DEF TakeResponse, StorePackage, SaveStore, AppInfoUpdated, ResponsesDone, listServer,
               board
  <2>2. pc' \in [Clients -> {"wait", "responses", "store", "appinfo"}]
    BY <2>1 DEF FlowKinds
  <2>3. QED
    BY <2>1, <2>2 DEF FlowKinds
<1>5. ASSUME NEW p \in Packages, PackageChanges(p)
      PROVE  FlowKinds'
  BY <1>5 DEF PackageChanges, board, module, FlowKinds
<1>6. ASSUME NEW r \in asked, AnswerPart(r)
      PROVE  FlowKinds'
  BY <1>6 DEF AnswerPart, board, module, FlowKinds
<1>7. CASE UNCHANGED flowVars
  BY <1>7 DEF flowVars, FlowKinds
<1>8. QED
  BY <1>1, <1>2, <1>3, <1>4, <1>5, <1>6, <1>7 DEF FlowNext, ClientStep

(* The lists, the licenses and the store have their types.                 *)
LEMMA FlowIsTyped ==
  ASSUME FlowAssumption
  PROVE  FlowSpec => []FlowTypeOK
<1>1. ASSUME FlowInit
      PROVE  FlowKinds
  <2>1. \A n : n \in {0} => n \in 0..MaxLists
    BY DEF FlowAssumption
  <2>2. listsSent \in 0..MaxLists
    BY <1>1, <2>1 DEF FlowInit
  <2>3. latestJob = [c \in Clients |-> 0] /\ jobs = 0
    BY <1>1 DEF FlowInit
  <2>4. latestJob \in [Clients -> Nat] /\ \A c \in Clients : latestJob[c] <= jobs
    BY <2>3
  <2>5. QED
    BY <1>1, <2>2, <2>4 DEF FlowInit, FlowKinds
<1>2. ASSUME FlowInv, ListsInv, FlowKinds, [FlowNext]_flowVars
      PROVE  FlowKinds'
  BY <1>2, FlowKindsStep
<1>3. ASSUME FlowInv, StoringInv, ListsInv, SettledInv, FlowKinds
      PROVE  FlowTypeOK
  <2>1. ASSUME NEW c \in Clients
        PROVE  /\ licenses[c].id \in 0..MaxLists /\ DOMAIN licenses[c].map \subseteq Packages
               /\ newLicenses[c] \subseteq Packages /\ packageData[c] \in 0..MaxLists
               /\ latestJob[c] \in 0..jobs
    <3>1. /\ licenses[c].id \in Nat /\ licenses[c].id <= listsSent
          /\ listsSent \in 0..MaxLists /\ MaxLists \in Nat
      BY <1>3 DEF ListsInv, ListsOf, FlowKinds, FlowAssumption
    <3>2. licenses[c].id \in 0..MaxLists
      BY <3>1
    <3>3. /\ packageData[c] \in Nat /\ packageData[c] <= latestLicenses[c].id
          /\ latestLicenses[c].id <= licenses[c].id /\ latestLicenses[c].id \in Nat
          /\ DOMAIN licenses[c].map \subseteq Packages
      BY <1>3 DEF SettledInv, Settled, OfServer
    <3>4. packageData[c] \in 0..MaxLists
      BY <3>1, <3>2, <3>3
    <3>5. newLicenses[c] \subseteq Packages /\ latestJob[c] \in Nat /\ latestJob[c] <= jobs
          /\ jobs \in Nat
      BY <1>3 DEF FlowKinds, FlowInv
    <3>6. QED
      BY <3>2, <3>3, <3>4, <3>5
  <2>2. appData \in [Apps -> SUBSET Packages]
    BY <1>3 DEF FlowInv
  <2>3. /\ DOMAIN data \subseteq Packages /\ data \in [DOMAIN data -> Infos]
        /\ DOMAIN file \subseteq Packages /\ file \in [DOMAIN file -> Infos]
    BY <1>3, PartialsAre DEF FlowInv, PlainPartials
  <2>4. QED
    BY <1>3, <2>1, <2>2, <2>3 DEF FlowTypeOK, FlowKinds, FlowInv, StoringInv
<1>4. QED
  BY <1>1, <1>2, <1>3, FlowInvAlways, PTL DEF FlowSpec

(* What the app cache holds are apps.                                      *)
CacheKinds ==
  /\ disk \subseteq AppIds /\ tempFile \subseteq AppIds /\ json \subseteq AppIds
  /\ updates \subseteq AppIds
  /\ aborted \in BOOLEAN /\ restarts \in 0..MaxRestarts /\ mutex \in Members \cup {NoMember}
  /\ cacheRequested \in [Members -> SUBSET AppIds] /\ prev \in [Members -> SUBSET AppIds]

(* A round asks for the DLCs of apps that are known.                       *)
LEMMA CacheKindsStep ==
  ASSUME CacheAssumption, CacheKinds, [CacheNext]_cacheVars
  PROVE  CacheKinds'
<1>0. MissingDlcs \subseteq AppIds
  BY DEF MissingDlcs, CacheKinds, CacheAssumption
<1>1. ASSUME NEW m \in Members, NEW previous, DlcRound(m, previous)
      PROVE  cacheRequested' \in [Members -> SUBSET AppIds] /\ prev' \in [Members -> SUBSET AppIds]
  BY <1>0, <1>1 DEF DlcRound, CacheKinds
<1>2. ASSUME NEW m \in Members, Release(m)
      PROVE  /\ cacheRequested' \in [Members -> SUBSET AppIds] /\ prev' \in [Members -> SUBSET AppIds]
             /\ mutex' = NoMember
  BY <1>2 DEF Release, CacheKinds
<1>3. ASSUME NEW m \in Members, BeginUpdate(m)
      PROVE  CacheKinds'
  BY <1>3 DEF BeginUpdate, memory, cacheFiles, CacheKinds
<1>4. ASSUME NEW m \in Members, Lock(m)
      PROVE  CacheKinds'
  <2>1. mutex' = m /\ UNCHANGED <<disk, tempFile, json, updates, restarts>>
    BY <1>4 DEF Lock, memory, cacheFiles
  <2>a. aborted' \in {TRUE, aborted}
    BY <1>4 DEF Lock, DlcRound
  <2>2. \/ DlcRound(m, {})
        \/ cacheRequested' = [cacheRequested EXCEPT ![m] = Wanted[m] \ Known] /\ prev' = prev
    BY <1>4 DEF Lock
  <2>3. Wanted[m] \ Known \subseteq AppIds
    BY DEF CacheAssumption
  <2>4. cacheRequested' \in [Members -> SUBSET AppIds] /\ prev' \in [Members -> SUBSET AppIds]
    <3>1. CASE DlcRound(m, {})
      BY <1>1, <3>1
    <3>2. CASE cacheRequested' = [cacheRequested EXCEPT ![m] = Wanted[m] \ Known] /\ prev' = prev
      BY <2>3, <3>2 DEF CacheKinds
    <3>3. QED
      BY <2>2, <3>1, <3>2
  <2>5. QED
    BY <2>1, <2>a, <2>4 DEF CacheKinds
<1>5. ASSUME NEW m \in Members, NEW found \in SUBSET AppIds, NEW pending \in BOOLEAN,
             Answer(m, found, pending)
      PROVE  CacheKinds'
  <2>1. updates' = updates \cup found /\ UNCHANGED <<disk, tempFile, json, mutex, restarts>>
    BY <1>5 DEF Answer, cacheFiles
  <2>a. aborted' \in {TRUE, aborted}
    BY <1>5 DEF Answer, DlcRound
  <2>2. \/ UNCHANGED <<cacheRequested, prev>>
        \/ cacheRequested' = [cacheRequested EXCEPT ![m] = @ \ found] /\ prev' = prev
        \/ \E previous : DlcRound(m, previous)
    BY <1>5 DEF Answer
  <2>3. cacheRequested' \in [Members -> SUBSET AppIds] /\ prev' \in [Members -> SUBSET AppIds]
    <3>1. CASE \E previous : DlcRound(m, previous)
      BY <1>1, <3>1
    <3>2. CASE cacheRequested' = [cacheRequested EXCEPT ![m] = @ \ found] /\ prev' = prev
      BY <3>2 DEF CacheKinds
    <3>3. CASE UNCHANGED <<cacheRequested, prev>>
      BY <3>3 DEF CacheKinds
    <3>4. QED
      BY <2>2, <3>1, <3>2, <3>3
  <2>4. QED
    BY <2>1, <2>a, <2>3 DEF CacheKinds
<1>6. ASSUME NEW m \in Members, Write(m)
      PROVE  CacheKinds'
  <2>1. CASE cacheChanged
    <3>1. /\ json' = json \cup updates /\ updates' = {} /\ tempFile' \in {{}, json'}
          /\ UNCHANGED <<mutex, cacheRequested, prev, disk, aborted, restarts>>
      BY <1>6, <2>1 DEF Write
    <3>2. QED
      BY <3>1 DEF CacheKinds
  <2>2. CASE ~cacheChanged
    <3>1. Release(m) /\ UNCHANGED <<json, updates, tempFile, disk, aborted, restarts>>
      BY <1>6, <2>2 DEF Write
    <3>2. QED
      BY <1>2, <3>1 DEF CacheKinds
  <2>3. QED
    BY <2>1, <2>2
<1>7. ASSUME NEW m \in Members, Rename(m) \/ CancelUpdate(m)
      PROVE  CacheKinds'
  <2>1. Release(m) /\ disk' \in {disk, tempFile} /\ UNCHANGED <<tempFile, json, updates, aborted, restarts>>
    BY <1>7 DEF Rename, CancelUpdate, memory, cacheFiles
  <2>2. QED
    BY <1>2, <2>1 DEF CacheKinds
<1>8. CASE Crash
  <2>1. restarts' \in 0..MaxRestarts
    BY <1>8 DEF Crash, CacheKinds, CacheAssumption
  <2>2. QED
    BY <1>8, <2>1 DEF Crash, Fresh, cacheFiles, CacheKinds
<1>9. CASE UNCHANGED cacheVars
  BY <1>9 DEF cacheVars, CacheKinds
<1>10. QED
  BY <1>3, <1>4, <1>5, <1>6, <1>7, <1>8, <1>9, CacheCases

(* The cache of app infos has its type, across crashes.                    *)
LEMMA CacheIsTyped ==
  ASSUME CacheAssumption
  PROVE  CacheSpec => []CacheTypeOK
<1>1. ASSUME CacheInit
      PROVE  CacheKinds /\ StoreInv
  <2>1. 0 \in 0..MaxRestarts
    BY DEF CacheAssumption
  <2>2. CacheKinds
    BY <1>1, <2>1 DEF CacheInit, CacheKinds
  <2>3. QED
    BY <1>1, <2>2, StoreInit
<1>2. ASSUME CacheKinds, StoreInv, [CacheNext]_cacheVars
      PROVE  CacheKinds' /\ StoreInv'
  BY <1>2, CacheKindsStep, StoreStep
<1>3. ASSUME CacheKinds, StoreInv
      PROVE  CacheTypeOK
  BY <1>3 DEF CacheKinds, StoreInv, CacheTypeOK
<1>4. QED
  BY <1>1, <1>2, <1>3, PTL DEF CacheSpec

-----------------------------------------------------------------------------
(* Inventory and offers: the types                                         *)

(* What Inventory and AssetData work on are items and keys.                *)
ItemKinds ==
  /\ itemsGone \subseteq Items /\ itemAnnounced \subseteq Items /\ itemNotified \subseteq Items
  /\ itemInbox \subseteq Items /\ itemInfos \subseteq Items /\ offered \subseteq Items
  /\ inventory \in [there : BOOLEAN, items : SUBSET Items]
  /\ newer \in BOOLEAN /\ newerLoad \in BOOLEAN /\ failed \in BOOLEAN
  /\ sending \in {NotAsked, "inventory", "offer"}
KeyKinds ==
  /\ known \subseteq Keys /\ fetchKeys \subseteq Keys /\ fetched \subseteq Keys
  /\ chunks \subseteq {AppOfKey[k] : k \in Keys}

(* Only items that are there are gathered, asked for and sent.             *)
LEMMA ItemKindsStep ==
  ASSUME InventoryAssumption, InventoryInv, ItemKinds, [InventoryNext]_inventoryVars
  PROVE  ItemKinds'
<1>0. gathered \subseteq Items /\ inventory.items \subseteq Items /\ owned \subseteq Items
      /\ itemAsked \in Items \cup {NotAsked}
  BY DEF InventoryInv, InventoryLoadInv
<1>1. ASSUME NEW i \in Items, ItemArrives(i) \/ AskForItem(i)
      PROVE  ItemKinds'
  BY <1>1 DEF ItemArrives, AskForItem, itemServer, cached, assets, sender, ItemKinds
<1>2. ASSUME NEW i \in Items, NEW b \in BOOLEAN, HandleAnnouncement(i) \/ HandleItemNotification(i, b)
      PROVE  ItemKinds'
  <2>1. /\ itemsGone' = itemsGone /\ itemAnnounced' \subseteq itemAnnounced
        /\ itemNotified' \subseteq itemNotified /\ inventory' = inventory /\ failed' = failed
        /\ UNCHANGED <<itemInbox, itemInfos, sending, offered>>
    BY <1>2 DEF HandleAnnouncement, HandleItemNotification, Notice, assets, watcher, sender
  <2>2. newer' \in BOOLEAN /\ newerLoad' \in BOOLEAN
    BY <1>2 DEF HandleAnnouncement, HandleItemNotification, Notice
  <2>3. QED
    BY <2>1, <2>2 DEF ItemKinds
<1>3. CASE PageLoaded
  <2> DEFINE onPage == {i \in owned : PageOf[i] = nextPage}
  <2>1. /\ UNCHANGED <<itemsGone, itemAnnounced, itemNotified, itemInbox, itemInfos, offered, failed, sending>>
        /\ \/ UNCHANGED <<inventory, newer, newerLoad>>
           \/ /\ inventory' = [there |-> TRUE, items |-> gathered \cup onPage]
              /\ newer' = newerLoad /\ newerLoad' = FALSE
    BY <1>3 DEF PageLoaded, itemServer, watcher, sender
  <2>2. gathered \cup onPage \subseteq Items
    BY <1>0
  <2> HIDE DEF onPage
  <2>3. [there |-> TRUE, items |-> gathered \cup onPage] \in [there : BOOLEAN, items : SUBSET Items]
    BY <2>2
  <2>4. inventory' \in [there : BOOLEAN, items : SUBSET Items] /\ newer' \in BOOLEAN /\ newerLoad' \in BOOLEAN
    BY <2>1, <2>3 DEF ItemKinds
  <2>5. QED
    BY <2>1, <2>4 DEF ItemKinds
<1>4. CASE PageLoadFails
  BY <1>4 DEF PageLoadFails, itemServer, assets, watcher, ItemKinds, NoInventory
<1>5. CASE BeginFetch \/ FetchFails
  BY <1>5 DEF BeginFetch, FetchFails, itemServer, cached, watcher, sender, ItemKinds
<1>6. ASSUME NEW a, NEW some \in SUBSET Keys, ChunkArrives(a, some)
      PROVE  ItemKinds'
  <2>1. failed' \in BOOLEAN
    BY <1>6 DEF ChunkArrives
  <2>2. QED
    BY <1>6, <2>1 DEF ChunkArrives, itemServer, cached, watcher, sender, ItemKinds
<1>6a. CASE ItemAnswerIsWrong
  BY <1>6a DEF ItemAnswerIsWrong, itemServer, cached, sender, ItemKinds
<1>7. ASSUME ItemDescribed
      PROVE  ItemKinds'
  <2>1. itemInfos' \subseteq itemInfos \cup {itemAsked} /\ itemAsked # NotAsked
    BY <1>7 DEF ItemDescribed
  <2>2. itemInfos' \subseteq Items
    BY <1>0, <2>1 DEF ItemKinds
  <2>3. QED
    BY <1>7, <2>2 DEF ItemDescribed, itemServer, cached, sender, ItemKinds
<1>8. ASSUME NEW b \in BOOLEAN, SendItems(b)
      PROVE  ItemKinds'
  <2>1. itemsGone' \subseteq itemsGone \cup offered /\ sending' = NotAsked
    BY <1>8 DEF SendItems
  <2>2. QED
    BY <1>8, <2>1 DEF SendItems, cached, assets, watcher, ItemKinds
<1>9. CASE BeginSend
  BY <1>9 DEF BeginSend, BeginLoad, itemServer, cached, assets, watcher, ItemKinds
<1>10. ASSUME NEW items \in SUBSET Items, CollectItems(items)
       PROVE  ItemKinds'
  BY <1>10 DEF CollectItems, itemServer, cached, assets, watcher, ItemKinds
<1>11. CASE UNCHANGED inventoryVars
  BY <1>11, SMTT(30) DEF inventoryVars, ItemKinds
<1>12. QED
  BY <1>1, <1>2, <1>3, <1>4, <1>5, <1>6, <1>6a, <1>7, <1>8, <1>9, <1>10, <1>11 DEF InventoryNext

(* Descriptions are stored by their keys, and asked for by their apps.     *)
LEMMA KeyKindsStep ==
  ASSUME InventoryAssumption, InventoryInv, KeyKinds, [InventoryNext]_inventoryVars
  PROVE  KeyKinds'
<1>0. /\ owned \subseteq Items /\ itemAsked \in Items \cup {NotAsked}
      /\ KeyOf \in [Items -> Keys] /\ OfferKeys \subseteq Keys
  BY DEF InventoryInv, InventoryLoadInv, InventoryAssumption
<1>1. CASE UNCHANGED <<known, fetchKeys, fetched, chunks>>
  BY <1>1 DEF KeyKinds
<1>2. CASE PageLoaded
  <2>1. known' \subseteq known \cup {KeyOf[i] : i \in owned} /\ UNCHANGED <<fetchKeys, fetched, chunks>>
    BY <1>2 DEF PageLoaded, Stored
  <2>2. QED
    BY <1>0, <2>1 DEF KeyKinds
<1>3. CASE BeginFetch
  <2>1. fetchKeys' = OfferKeys \ known /\ chunks' = {AppOfKey[k] : k \in fetchKeys'}
        /\ UNCHANGED <<known, fetched>>
    BY <1>3 DEF BeginFetch
  <2>2. QED
    BY <1>0, <2>1 DEF KeyKinds
<1>4. CASE FetchFails
  BY <1>4 DEF FetchFails, KeyKinds
<1>5. ASSUME NEW a, NEW some \in SUBSET Keys, ChunkArrives(a, some)
      PROVE  KeyKinds'
  BY <1>5 DEF ChunkArrives, Stored, KeyKinds
<1>6. ASSUME ItemDescribed
      PROVE  KeyKinds'
  <2>1. itemAsked \in Items /\ UNCHANGED <<fetchKeys, fetched, chunks>>
        /\ known' \subseteq known \cup {KeyOf[itemAsked]}
    BY <1>0, <1>6 DEF ItemDescribed, Stored
  <2>2. QED
    BY <1>0, <2>1 DEF KeyKinds
<1>7. QED
  BY <1>1, <1>2, <1>3, <1>4, <1>5, <1>6 DEF InventoryNext, ItemArrives, HandleAnnouncement, AskForItem,
     HandleItemNotification, Notice, PageLoadFails, SendItems, BeginSend, CollectItems,
     ItemAnswerIsWrong, inventoryVars, assets

(* The inventory, its notifications and the descriptions have their types. *)
LEMMA InventoryIsTyped ==
  ASSUME InventoryAssumption
  PROVE  InventorySpec => []InventoryTypeOK
<1>1. ASSUME InventoryInit
      PROVE  ItemKinds /\ KeyKinds
  <2>1. NoInventory \in [there : BOOLEAN, items : SUBSET Items]
    BY DEF NoInventory
  <2>2. ItemKinds
    BY <1>1, <2>1 DEF InventoryInit, ItemKinds
  <2>3. KeyKinds
    BY <1>1 DEF InventoryInit, KeyKinds
  <2>4. QED
    BY <2>2, <2>3
<1>2. InventoryInv /\ ItemKinds /\ KeyKinds /\ [InventoryNext]_inventoryVars => ItemKinds' /\ KeyKinds'
  BY ItemKindsStep, KeyKindsStep
<1>3. ASSUME InventoryInv, ItemKinds, KeyKinds
      PROVE  InventoryTypeOK
  <2>1. owned \subseteq Items /\ gathered \subseteq Items /\ nextPage \in 0..LastPage
        /\ itemAsked \in Items \cup {NotAsked}
    BY <1>3 DEF InventoryInv, InventoryLoadInv
  <2>2. {owned, itemsGone, itemAnnounced, itemNotified, gathered, itemInbox, itemInfos, offered}
          \subseteq SUBSET Items
    BY <1>3, <2>1 DEF ItemKinds
  <2>3. {newer, newerLoad, failed} \subseteq BOOLEAN
    BY <1>3 DEF ItemKinds
  <2>4. {known, fetchKeys, fetched} \subseteq SUBSET Keys
    BY <1>3 DEF KeyKinds
  <2>5. QED
    BY <1>3, <2>1, <2>2, <2>3, <2>4 DEF InventoryTypeOK, ItemKinds, KeyKinds
<1>4. QED
  BY <1>1, <1>2, <1>3, InventoryInvAlways, PTL DEF InventorySpec

(* The offers, pages and notifications of the trading modules.             *)
TradeKinds ==
  /\ notes \subseteq OfferIds /\ notesSeen \subseteq OfferIds /\ offerInbox \subseteq OfferIds
  /\ newOffers \subseteq OfferIds /\ toDo \subseteq OfferIds
  /\ lastOffers \in 0..MaxPages /\ reading \in 0..MaxPages /\ pages <= MaxPages
  /\ loader \in {"auto", "ui", "nobody"} /\ queued \subseteq {"auto", "ui"}
  /\ loading \in {"page", "assets", "nothing"} /\ botItems \in Modes
TradeFlags ==
  /\ pings \in BOOLEAN /\ asking \in BOOLEAN /\ last \in BOOLEAN /\ enabled \in BOOLEAN
  /\ reload \in BOOLEAN /\ lastWoken \in BOOLEAN /\ signal \in BOOLEAN /\ offersWoken \in BOOLEAN

(* getIncoming() keeps both, whoever calls it.                             *)
LEMMA LoadKeepsKinds ==
  ASSUME TradeAssumption, OffersInv, TradeKinds, TradeFlags, NEW who \in {"auto", "ui"},
         EnqueueLoad(who) \/ GetIncoming(who), reload' \in BOOLEAN, enabled' = enabled
  PROVE  TradeKinds' /\ TradeFlags'
<1>1. CASE EnqueueLoad(who)
  BY <1>1 DEF EnqueueLoad, serverPart, notePart, listPart, acceptPart, TradeKinds, TradeFlags
<1>2. CASE GetIncoming(who) /\ Stale
  <2>1. Load(who) /\ queued' = queued \ {who}
    BY <1>2 DEF GetIncoming
  <2>2. TradeKinds'
    BY <2>1 DEF Load, serverPart, notePart, TradeKinds
  <2>3. TradeFlags'
    BY <2>1 DEF Load, serverPart, notePart, TradeFlags
  <2>4. QED
    BY <2>2, <2>3
<1>3. CASE GetIncoming(who) /\ ~Stale
  BY <1>3 DEF GetIncoming, serverPart, notePart, listPart, acceptPart, TradeKinds, TradeFlags
<1>4. QED
  BY <1>1, <1>2, <1>3

(* Offers stay offers, pages pages and flags flags.                        *)
LEMMA TradeKindsStep ==
  ASSUME TradeAssumption, OffersInv, TradeKinds, TradeFlags, [TradeNext]_tradeVars
  PROVE  TradeKinds' /\ TradeFlags'
<1> USE DEF serverPart, notePart, listPart, loadPart, autoPart, acceptPart
<1>0. /\ open \subseteq OfferIds /\ loaded \subseteq OfferIds /\ page \in [1..MaxPages -> SUBSET OfferIds]
      /\ offers \in 0..MaxPages /\ MaxPages \in Nat /\ pages \in Nat
      /\ (loading # "nothing" => pages < MaxPages)
  BY DEF OffersInv, TradeAssumption
<1>1. ASSUME NEW o \in OfferIds, OfferMade(o)
      PROVE  TradeKinds' /\ TradeFlags'
  BY <1>1 DEF OfferMade, TradeKinds, TradeFlags
<1>2. ASSUME NEW o \in OfferIds, HandleNotification(o)
      PROVE  TradeKinds' /\ TradeFlags'
  <2>1. TradeKinds'
    BY <1>2 DEF HandleNotification, TradeKinds
  <2>2. last' \in BOOLEAN /\ lastWoken' \in BOOLEAN
    BY <1>2 DEF HandleNotification
  <2>3. TradeFlags'
    BY <1>2, <2>2 DEF HandleNotification, TradeFlags
  <2>4. QED
    BY <2>1, <2>3
<1>3. ASSUME NEW o \in OfferIds, NEW succeeds \in BOOLEAN, IgnoreOffer(o) \/ AcceptOffer(o, succeeds)
      PROVE  TradeKinds' /\ TradeFlags'
  <2>1. TradeKinds'
    BY <1>3 DEF IgnoreOffer, AcceptOffer, TradeKinds
  <2>2. TradeFlags'
    BY <1>3 DEF IgnoreOffer, AcceptOffer, TradeFlags
  <2>3. QED
    BY <2>1, <2>2
<1>4. ASSUME NEW m \in Modes, EnableBots(m)
      PROVE  TradeKinds' /\ TradeFlags'
  BY <1>4 DEF EnableBots, TradeKinds, TradeFlags
<1>5. CASE AskNotifications \/ GetNotifications
  <2>1. TradeKinds'
    BY <1>5 DEF AskNotifications, GetNotifications, TradeKinds
  <2>2. TradeFlags'
    BY <1>5 DEF AskNotifications, GetNotifications, TradeFlags
  <2>3. QED
    BY <2>1, <2>2
<1>6. CASE CallerGets
  BY <1>6, LoadKeepsKinds DEF CallerGets, TradeFlags
<1>7. CASE PageArrives \/ LoadFails
  <2>1. TradeKinds'
    BY <1>7 DEF PageArrives, LoadFails, TradeKinds
  <2>2. TradeFlags'
    BY <1>7 DEF PageArrives, LoadFails, TradeFlags
  <2>3. QED
    BY <2>1, <2>2
<1>8. CASE AssetsArrive
  <2>1. pages' = pages + 1 /\ loading = "assets"
    BY <1>8 DEF AssetsArrive
  <2>2. pages' <= MaxPages
    BY <1>0, <2>1
  <2>3. QED
    BY <1>8, <2>2 DEF AssetsArrive, TradeKinds, TradeFlags
<1>9. CASE AutoLoadWakes
  BY <1>9 DEF AutoLoadWakes, TradeKinds, TradeFlags
<1>10. CASE AutoLoads \/ AutoLoadGoesOn
  BY <1>10, LoadKeepsKinds DEF AutoLoads, AutoLoadGoesOn, TradeFlags
<1>11. CASE AutoAcceptWakes
  <2>1. enabled' \in BOOLEAN /\ signal' = FALSE /\ offersWoken' = FALSE
    BY <1>11 DEF AutoAcceptWakes, TradeFlags
  <2>2. reading' \in {0, offers}
    BY <1>11 DEF AutoAcceptWakes
  <2>3. toDo' = {} \/ (offers # 0 /\ toDo' = page[offers])
    BY <1>11 DEF AutoAcceptWakes
  <2>4. offers # 0 => page[offers] \subseteq OfferIds
    BY <1>0
  <2>5. reading' \in 0..MaxPages /\ toDo' \subseteq OfferIds
    BY <1>0, <2>2, <2>3, <2>4
  <2>6. QED
    BY <1>11, <2>1, <2>5 DEF AutoAcceptWakes, TradeKinds, TradeFlags
<1>12. CASE OffersHandled
  <2>1. reading' = 0 /\ lastOffers' = offers
    BY <1>12 DEF OffersHandled
  <2>2. reading' \in 0..MaxPages /\ lastOffers' \in 0..MaxPages
    BY <1>0, <2>1
  <2>3. QED
    BY <1>12, <2>2 DEF OffersHandled, TradeKinds, TradeFlags
<1>13. CASE UNCHANGED tradeVars
  BY <1>13 DEF tradeVars, TradeKinds, TradeFlags
<1>14. QED
  BY <1>1, <1>2, <1>3, <1>4, <1>5, <1>6, <1>7, <1>8, <1>9, <1>10, <1>11, <1>12, <1>13 DEF TradeNext

(* The offers, the lists and the flags of the modules have their types.    *)
LEMMA TradeIsTyped ==
  ASSUME TradeAssumption
  PROVE  TradeSpec => []TradeTypeOK
<1>1. ASSUME TradeInit
      PROVE  TradeKinds /\ TradeFlags
  <2>1. 0 \in 0..MaxPages /\ 0 <= MaxPages /\ "None" \in Modes
    BY DEF TradeAssumption
  <2>2. QED
    BY <1>1, <2>1 DEF TradeInit, TradeKinds, TradeFlags
<1>2. OffersInv /\ TradeKinds /\ TradeFlags /\ [TradeNext]_tradeVars => TradeKinds' /\ TradeFlags'
  BY TradeKindsStep
<1>3. ASSUME OffersInv, TradeKinds, TradeFlags
      PROVE  TradeTypeOK
  <2>1. open \subseteq OfferIds /\ loaded \subseteq OfferIds /\ offers \in 0..MaxPages
        /\ page \in [1..MaxPages -> SUBSET OfferIds]
    BY <1>3 DEF OffersInv
  <2>2. pages \in 0..MaxPages
    BY <1>3 DEF OffersInv, TradeKinds, TradeAssumption
  <2>3. {open, notes, notesSeen, offerInbox, newOffers, loaded, toDo} \subseteq SUBSET OfferIds
    BY <1>3, <2>1 DEF TradeKinds
  <2>4. {pings, asking, last, enabled, reload, lastWoken, signal, offersWoken} \subseteq BOOLEAN
    BY <1>3 DEF TradeFlags
  <2>5. {offers, lastOffers, reading, pages} \subseteq 0..MaxPages
    BY <1>3, <2>1, <2>2 DEF TradeKinds
  <2>6. QED
    BY <1>3, <2>1, <2>3, <2>4, <2>5 DEF TradeTypeOK, TradeKinds
<1>4. QED
  BY <1>1, <1>2, <1>3, OffersInvAlways, PTL DEF TradeSpec

=============================================================================
