----------------------------- MODULE PackageNames -----------------------------
(***************************************************************************)
(* The module PackageInfo finds the names of new packages.  Every client   *)
(* collects the packages of its NewLicenses messages until its PackageData *)
(* is current; then it asks, one package at a time and one client at a     *)
(* time, for the support page of each app of a package whose name is not   *)
(* known.  The names go to a store all clients share and, at most once a   *)
(* minute, to a data file.                                                 *)
(*                                                                         *)
(* A support page is abstracted to what its parser collects: the lines     *)
(* with a text about a purchase, the packages with a button or a form, and *)
(* the names in the help text.  A name is the package it is the name of.   *)
(***************************************************************************)
EXTENDS Naturals, Sequences, FiniteSets, SequencesExt, Selection

CONSTANTS
    Owners,      \* the clients
    NamedPackages, NamedApps,
    Dummy,       \* PackageID::Steam, which stands for a button with a name
    AppsIn,      \* AppsIn[p]: the apps of a package
    NamedGames,       \* the apps whose type is game or dlc
    FamilyOnly,  \* packages licensed through the family group
    WithData,    \* packages for which PackageData has data
    Pages,       \* Pages[a]: the support pages an app may have
    MaxNameMessages  \* bound on the NewLicenses messages of a client

VARIABLES
    infos,       \* PackageInfo::infos: package -> the package it is named after, or ""
    unsaved,     \* PackageInfo::changed
    nameFile,    \* the data file "PackageNames"
    minutePast,  \* sixty seconds have passed since lastSave
    holder,      \* who holds the mutex of the request, or "nobody"
    nameAnnounced,   \* messages sent to each client
    nameInbox,       \* newLicensesWaiter
    nameMessages,    \* newLicensesMessages
    current,     \* PackageData::isCurrent()
    dataWoken,   \* packageDataWaiter is woken
    nameAt,          \* where updateNewLicenses() is
    todo,        \* packages left of the message
    package,     \* the package asked for
    appsLeft,    \* its apps that are left
    terminated   \* an ErrorException left a fiber: the process has ended

nameStore == <<infos, unsaved, nameFile, minutePast>>
loop == <<todo, package, appsLeft>>
nameVars == <<infos, unsaved, nameFile, minutePast, holder, nameAnnounced, nameInbox,
              nameMessages, current,
          dataWoken, nameAt, todo, package, appsLeft, terminated>>

----------------------------------------------------------------------------
(* What the parsers make of a page.  page.rows: the lines, [kind, pkg] with *)
(* the package the line is about; page.buttons: [kind, pkg]; page.details.  *)

\* isInventoryLine(), isRevocationLine(): gifts in the inventory and revoked keys
\* have no button
WithoutButton(row) == row.kind \in {"inventory", "revoked"}

\* handleLineItemRow()
LineItemRows(page) ==
    Kept(page.rows, {r \in Range(page.rows) : r.kind # "unexpected" /\ ~WithoutButton(r)})

\* handleRemovalForm(): a button with a package and no name
FormPackage(button) == button.pkg

\* handlePackageButton(): a button with a text names its package at once and leaves
\* a dummy to keep its place
PackageIds(page) == [i \in DOMAIN page.buttons |->
    IF page.buttons[i].kind = "named" THEN Dummy ELSE FormPackage(page.buttons[i])]
NamedButtons(page) ==
    {page.buttons[i].pkg : i \in {j \in DOMAIN page.buttons : page.buttons[j].kind = "named"}}

\* handleDetail()
HelpDetails(page) == page.details

\* What Steam writes. A page has a button or a form, or packageIds.front() is undefined,
\* and one for a package. Lines and buttons come in one order; only the page that asks to
\* remove one package has its name in the help text.
PageIsSound(page) ==
    LET rows == LineItemRows(page)
    IN /\ page.rows = [i \in 1..Len(page.rows) |-> page.rows[i]] /\ Len(page.rows) \in Nat
       /\ page.buttons = [i \in 1..Len(page.buttons) |-> page.buttons[i]]
       /\ Len(page.buttons) \in Nat \ {0}
       /\ \A row \in Range(page.rows) \cup Range(page.buttons) : row.pkg \in NamedPackages
       /\ Len(rows) = Len(page.buttons) =>
             \A i \in 1..Len(rows) : rows[i].pkg = page.buttons[i].pkg
       /\ \A i, j \in DOMAIN page.buttons : page.buttons[i].pkg = page.buttons[j].pkg => i = j
       /\ Len(page.details) = 1 =>
             \A button \in Range(page.buttons) :
                 button.kind = "form" /\ button.pkg = page.details[1]

NamesAssumption ==
    /\ Dummy \notin NamedPackages /\ "nobody" \notin Owners
    /\ AppsIn \in [NamedPackages -> SUBSET NamedApps]
    /\ MaxNameMessages \in Nat
    /\ \A a \in NamedGames : \A page \in Pages[a] : PageIsSound(page)

\* SupportPageParser::parse()
Parsed(page) == [names |-> [p \in NamedButtons(page) |-> p],
                 ids |-> PackageIds(page), rows |-> LineItemRows(page),
                 details |-> HelpDetails(page), ok |-> TRUE]

\* The entries of result.names for the lines in Done, from their rows
WithNames(result, Done) ==
    LET Ids == {result.ids[i] : i \in Done} \ {Dummy}
        At(p) == CHOOSE i \in Done : result.ids[i] = p
    IN [result EXCEPT
          !.names = [p \in DOMAIN @ \cup Ids |-> IF p \in DOMAIN @ THEN @[p] ELSE result.rows[At(p)].pkg],
          !.ok = @ /\ Ids \cap DOMAIN result.names = {}
                   /\ \A i, j \in Done : result.ids[i] = result.ids[j] /\ result.ids[i] # Dummy => i = j]

\* eraseLine() of every line in Done: a row is only erased where there is one
Without(result, Done) ==
    LET Keep(s) == LET left == Kept([i \in DOMAIN s |-> i], DOMAIN s \ Done)
                   IN [k \in DOMAIN left |-> s[left[k]]]
    IN [result EXCEPT !.ids = Keep(@), !.rows = Keep(@)]

Aligned(result) == Len(result.rows) = Len(result.ids)

\* handlePackageNames(): lines that say "as part of: <package name>"
HandlePackageNames(result) ==
    LET Done == {i \in DOMAIN result.ids :
                    result.ids[i] = Dummy \/ result.rows[i].kind \in {"activation", "purchase"}}
    IN IF Aligned(result)
       THEN Without(WithNames(result, Done), Done)
       ELSE result

\* handleDetailName(): the one name in the help text, for the one package left
HandleDetailName(result) ==
    IF Len(result.details) = 1 /\ Len(result.ids) = 1
    THEN Without([result EXCEPT !.names = [p \in DOMAIN @ \cup {result.ids[1]} |->
                                              IF p \in DOMAIN @ THEN @[p] ELSE result.details[1]],
                                !.ok = @ /\ result.ids[1] \notin DOMAIN result.names], {1})
    ELSE result

\* getReceipts(): a request for every line with a receipt, answered with a name
\* for those of Answered
GetReceipts(result, Answered) ==
    LET Done == {i \in DOMAIN result.ids : result.rows[i].kind = "receipt" /\ result.ids[i] \in Answered}
    IN IF Aligned(result)
       THEN Without(WithNames(result, Done), Done)
       ELSE result

PageResult(page, Answered) == GetReceipts(HandleDetailName(HandlePackageNames(Parsed(page))), Answered)

\* updateLicenseInfo(): the names of the page, or a note that there is none
Learn(result) ==
    IF DOMAIN result.names # {}
    THEN [p \in DOMAIN infos \cup DOMAIN result.names |->
            IF p \in DOMAIN result.names THEN result.names[p] ELSE infos[p]]
    ELSE [p \in DOMAIN infos \cup {result.ids[1]} |-> IF p = result.ids[1] THEN "" ELSE infos[p]]

----------------------------------------------------------------------------
(* PackageInfoModule of client c *)

\* PackageInfo::save()
Save(force) ==
    LET write == unsaved /\ (force \/ minutePast)
    IN /\ nameFile' = IF write THEN infos ELSE nameFile
       /\ unsaved' = (unsaved /\ ~write)
       /\ minutePast' = (minutePast /\ ~write)
       /\ UNCHANGED infos

\* PackageInfoModule::run() and the start of updateNewLicenses()
NamesWake(c) ==
    /\ nameAt[c] = "wait" /\ (nameInbox[c] # << >> \/ dataWoken[c])
    /\ nameMessages' = [nameMessages EXCEPT ![c] = @ \o nameInbox[c]]
    /\ nameInbox' = [nameInbox EXCEPT ![c] = << >>]
    /\ dataWoken' = [dataWoken EXCEPT ![c] = FALSE]
    /\ nameAt' = [nameAt EXCEPT ![c] = IF current[c] THEN "messages" ELSE "wait"]
    /\ UNCHANGED <<nameStore, holder, nameAnnounced, current, loop, terminated>>

\* The newest message first; when none is left everything is saved
TakeMessage(c) ==
    /\ nameAt[c] = "messages"
    /\ \/ /\ nameMessages[c] # << >>
          /\ todo' = [todo EXCEPT ![c] = Last(nameMessages[c])]
          /\ nameMessages' = [nameMessages EXCEPT ![c] = Front(@)]
          /\ nameAt' = [nameAt EXCEPT ![c] = "packages"]
          /\ UNCHANGED nameStore
       \/ /\ nameMessages[c] = << >>
          /\ Save(TRUE)
          /\ nameAt' = [nameAt EXCEPT ![c] = "wait"]
          /\ UNCHANGED <<nameMessages, todo>>
    /\ UNCHANGED <<holder, nameAnnounced, nameInbox, current, dataWoken, package, appsLeft,
                   terminated>>

MessageDone(c) ==
    /\ nameAt[c] = "packages" /\ todo[c] = {}
    /\ nameAt' = [nameAt EXCEPT ![c] = "messages"]
    /\ UNCHANGED <<nameStore, holder, nameAnnounced, nameInbox, nameMessages, current, dataWoken,
                   loop, terminated>>

Skipped(p) == p \in DOMAIN infos \/ p \in FamilyOnly \/ p \notin WithData

\* One package, under the mutex
TakePackage(c) ==
    /\ nameAt[c] = "packages" /\ holder = "nobody"
    /\ \E p \in todo[c] :
          /\ todo' = [todo EXCEPT ![c] = @ \ {p}]
          /\ \/ /\ Skipped(p)
                /\ UNCHANGED <<nameAt, holder, package, appsLeft>>
             \/ /\ ~Skipped(p)
                /\ nameAt' = [nameAt EXCEPT ![c] = "apps"]
                /\ holder' = c
                /\ package' = [package EXCEPT ![c] = p]
                /\ appsLeft' = [appsLeft EXCEPT ![c] = AppsIn[p]]
    /\ UNCHANGED <<nameStore, nameAnnounced, nameInbox, nameMessages, current, dataWoken,
                   terminated>>

PackageDone(c) ==
    /\ nameAt[c] = "apps" /\ appsLeft[c] = {}
    /\ Save(FALSE)
    /\ holder' = "nobody"
    /\ nameAt' = [nameAt EXCEPT ![c] = "packages"]
    /\ UNCHANGED <<nameAnnounced, nameInbox, nameMessages, current, dataWoken, loop, terminated>>

\* updateLicenseInfo(), from the request to the names; other types have no page
UpdateLicenseInfo(c) ==
    /\ nameAt[c] = "apps"
    /\ \E a \in appsLeft[c] :
          /\ appsLeft' = [appsLeft EXCEPT ![c] = @ \ {a}]
          /\ \/ /\ a \notin NamedGames
                /\ UNCHANGED <<infos, unsaved>>
             \/ /\ a \in NamedGames
                /\ \E page \in Pages[a] : \E Answered \in SUBSET {page.rows[i].pkg : i \in DOMAIN page.rows} :
                      infos' = Learn(PageResult(page, Answered))
                /\ unsaved' = TRUE
    /\ UNCHANGED <<nameFile, minutePast, holder, nameAnnounced, nameInbox, nameMessages, current,
                   dataWoken, nameAt,
                   todo, package, terminated>>

\* The server does not answer a request with ok: ErrorException, which nothing catches
PageFails(c) ==
    /\ nameAt[c] = "apps" /\ appsLeft[c] \cap NamedGames # {}
    /\ terminated' = TRUE
    /\ UNCHANGED <<nameStore, holder, nameAnnounced, nameInbox, nameMessages, current, dataWoken,
                   nameAt, loop>>

----------------------------------------------------------------------------
(* The rest of the process *)

NewLicensesArrive(c) ==
    /\ nameAnnounced[c] < MaxNameMessages
    /\ nameAnnounced' = [nameAnnounced EXCEPT ![c] = @ + 1]
    /\ \E new \in SUBSET NamedPackages : nameInbox' = [nameInbox EXCEPT ![c] = Append(@, new)]
    /\ current' = [current EXCEPT ![c] = FALSE]
    /\ UNCHANGED <<nameStore, holder, nameMessages, dataWoken, nameAt, loop, terminated>>

PackageDataArrives(c) ==
    /\ ~current[c] /\ nameAnnounced[c] > 0
    /\ current' = [current EXCEPT ![c] = TRUE]
    /\ dataWoken' = [dataWoken EXCEPT ![c] = TRUE]
    /\ UNCHANGED <<nameStore, holder, nameAnnounced, nameInbox, nameMessages, nameAt, loop,
                   terminated>>

MinutePasses ==
    /\ unsaved /\ ~minutePast
    /\ minutePast' = TRUE
    /\ UNCHANGED <<infos, unsaved, nameFile, holder, nameAnnounced, nameInbox, nameMessages,
                   current, dataWoken, nameAt,
                   loop, terminated>>

NamesInit ==
    /\ infos = << >> /\ unsaved = FALSE /\ nameFile = << >> /\ minutePast = FALSE
    /\ holder = "nobody"
    /\ nameAnnounced = [c \in Owners |-> 0]
    /\ nameInbox = [c \in Owners |-> << >>]
    /\ nameMessages = [c \in Owners |-> << >>]
    /\ current = [c \in Owners |-> FALSE]
    /\ dataWoken = [c \in Owners |-> FALSE]
    /\ nameAt = [c \in Owners |-> "wait"]
    /\ todo = [c \in Owners |-> {}]
    /\ package = [c \in Owners |-> Dummy]
    /\ appsLeft = [c \in Owners |-> {}]
    /\ terminated = FALSE

ModuleStep(c) ==
    \/ NamesWake(c) \/ TakeMessage(c) \/ MessageDone(c) \/ TakePackage(c) \/ PackageDone(c)
    \/ UpdateLicenseInfo(c) \/ PageFails(c)

NamesNext ==
    /\ ~terminated
    /\ \/ \E c \in Owners : ModuleStep(c) \/ NewLicensesArrive(c) \/ PackageDataArrives(c)
       \/ MinutePasses

NamesSpec == NamesInit /\ [][NamesNext]_nameVars

----------------------------------------------------------------------------
NamesTypeOK ==
    /\ DOMAIN infos \subseteq NamedPackages
    /\ DOMAIN nameFile \subseteq NamedPackages
    /\ holder \in Owners \cup {"nobody"}
    /\ \A c \in Owners : /\ nameAt[c] \in {"wait", "messages", "packages", "apps"}
                         /\ appsLeft[c] \subseteq NamedApps

\* A package is never given the name of another one: lines, buttons and receipts
\* stay matched while dummies, gifts and resolved lines are taken out.
NamesMatch == \A p \in DOMAIN infos : infos[p] = p \/ infos[p] = ""

\* The assertions on duplicate names hold for every page, whatever was answered
PageAssertions ==
    \A a \in NamedGames : \A page \in Pages[a] :
        \A Answered \in SUBSET {page.rows[i].pkg : i \in DOMAIN page.rows} : PageResult(page, Answered).ok

\* Only the holder of the mutex asks, so no two clients ask for the same package,
\* and when all of them rest the file has every name.
OneAsks == \A c \in Owners : (nameAt[c] = "apps") <=> (holder = c)
AllSaved == (\A c \in Owners : nameAt[c] = "wait") /\ ~terminated => nameFile = infos /\ ~unsaved
=============================================================================
