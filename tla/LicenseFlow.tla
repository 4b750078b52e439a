----------------------------- MODULE LicenseFlow -----------------------------
(***************************************************************************)
(* From the license list a server sends to package data the rest of a      *)
(* client can rely on: the module LicenseList turns each list into the     *)
(* Licenses on the whiteboard and a NewLicenses message, the module        *)
(* PackageData asks for the packages whose data is missing or old, and the *)
(* store MyPackageData, which all clients of the process share, keeps the  *)
(* answers, indexes them by app and writes them to a data file.            *)
(*                                                                         *)
(* Data is abstracted: a package's data is its change number and its apps. *)
(* Modules/AppInfo work under AppInfo::update() is the module AppInfoCache *)
(* and is here the time PackageData's fiber spends blocked in it.          *)
(***************************************************************************)
EXTENDS Naturals, Sequences, FiniteSets, SequencesExt

CONSTANTS
    Clients,     \* accounts that run in this process
    Packages,    \* package ids, without PackageID::Steam, which the handler skips
    Changing,    \* bound: the packages that change at Steam while the process runs
    Apps,        \* app ids
    MaxVersion,  \* bound on change numbers
    Lists,       \* what a license list may hold: sequences of [pkg, family]
    MaxLists,    \* bound on the license lists of all clients in one process run
    AppsOf       \* AppsOf[p][v]: the apps the server lists for package p at change number v

FlowAssumption ==
    /\ MaxVersion \in Nat \ {0} /\ MaxLists \in Nat
    /\ AppsOf \in [Packages -> [1..MaxVersion -> Seq(Apps)]]
    /\ Lists \subseteq Seq([pkg : Packages, family : BOOLEAN])
    \* the server grants an account a package itself at most once
    /\ \A l \in Lists : \A i, j \in DOMAIN l :
          (~l[i].family /\ ~l[j].family /\ l[i].pkg = l[j].pkg) => i = j

VARIABLES
    version,        \* the server's change number of each package
    listsSent,      \* license lists sent so far
    lists,          \* LicenseList's waiter: lists not handled yet, each with a number of its own
    licenses,       \* whiteboard: [id, map] the Licenses::Ptr, id 0 for none
    newLicenses,    \* the last NewLicenses message
    asked,          \* PICS requests the server has still to answer
    responses,      \* PackageData's waiter: response parts not handled to the end yet
    storing,        \* the packages of the first part that update() has still to be called for
    woken,          \* PackageData's licensesWaiter is woken
    pc,             \* where PackageData::run() is
    latestJob,      \* latestJobId
    latestLicenses, \* latestLicenses
    packageData,    \* whiteboard: the list the PackageData was set for, 0 for none
    data,           \* MyPackageData::data, a partial function
    appData,        \* MyPackageData::appData
    wasUpdated,     \* MyPackageData::wasUpdated
    file,           \* the data file "PackageData"
    jobs            \* JobID: the last one handed out

listServer == <<version, listsSent, asked>>
store == <<data, appData, wasUpdated, file>>
board == <<licenses, newLicenses, packageData>>
module == <<woken, pc, storing, latestJob, latestLicenses>>
flowVars == <<version, listsSent, lists, licenses, newLicenses, asked, responses, woken, pc,
              storing, latestJob, latestLicenses, packageData, data, appData, wasUpdated, file,
              jobs>>

Infos == [change : 1..MaxVersion, apps : Seq(Apps)]
PartialFunctions(S, T) == UNION {[D -> T] : D \in SUBSET S}
NoLicenses == [id |-> 0, map |-> << >>]

\* The packages whose list of apps never has an app twice
NamedOnce == {p \in Packages : \A v \in 1..MaxVersion : IsInjective(AppsOf[p][v])}

----------------------------------------------------------------------------
(* The license list *)

\* LicenseListModule::handle(), one license of the message: an owned license
\* replaces one obtained from the family, and familyLicenses counts what is kept.
AddLicense(existing, numbers, acc, l) ==
    LET p == l.pkg
        twice == p \in DOMAIN acc.map
        entry == [change |-> numbers[p], family |-> l.family]
        keep == twice /\ l.family
    IN [map |-> [q \in DOMAIN acc.map \cup {p} |-> IF q = p /\ ~keep THEN entry ELSE acc.map[q]],
        new |-> IF p \in existing THEN acc.new ELSE acc.new \cup {p},
        family |-> acc.family + (IF l.family THEN 1 ELSE 0) - (IF twice THEN 1 ELSE 0),
        ok |-> acc.ok /\ (twice /\ ~l.family => acc.map[p].family)]

ReadList(existing, message) ==
    FoldLeft(LAMBDA acc, l : AddLicense(existing, message.numbers, acc, l),
             [map |-> << >>, new |-> {}, family |-> 0, ok |-> TRUE], message.list)

\* LicenseListModule::handle(): the whiteboard has the licenses before the
\* message with the new ones goes out, and wakes PackageData's fiber.
HandleLicenseList(c) ==
    /\ lists[c] # << >>
    /\ LET r == ReadList(DOMAIN licenses[c].map, Head(lists[c]))
       IN /\ licenses' = [licenses EXCEPT ![c] = [id |-> Head(lists[c]).id, map |-> r.map]]
          /\ newLicenses' = [newLicenses EXCEPT ![c] = r.new]
    /\ lists' = [lists EXCEPT ![c] = Tail(@)]
    /\ woken' = [woken EXCEPT ![c] = TRUE]
    /\ UNCHANGED <<listServer, responses, pc, storing, latestJob, latestLicenses, packageData,
                   store, jobs>>

----------------------------------------------------------------------------
(* The store all clients share *)

\* A mutant: the package stays linked to the apps it had.
UnlinkNothing(d, index, p) == index

\* MyPackageData::storeNew_noLock(), the first half: the package leaves its apps
Unlink(d, index, p) ==
    [a \in Apps |-> IF p \in DOMAIN d /\ a \in Range(d[p].apps) THEN index[a] \ {p} ELSE index[a]]

\* The second half links the new apps in their order, up to the first that has the
\* package already: the list had it twice, or an earlier list that did left it linked.
\* Then the function returns, and the new data is not stored.
StoreNew(d, index, p, info) ==
    LET unlinked == Unlink(d, index, p)
        again == {i \in DOMAIN info.apps : \/ p \in unlinked[info.apps[i]]
                                          \/ \E j \in 1..(i - 1) : info.apps[j] = info.apps[i]}
        linked == {info.apps[i] : i \in {k \in DOMAIN info.apps : \A j \in again : k < j}}
    IN [appData |-> [a \in Apps |-> IF a \in linked THEN unlinked[a] \cup {p} ELSE unlinked[a]],
        data |-> IF again = {} THEN [q \in DOMAIN d \cup {p} |-> IF q = p THEN info ELSE d[q]] ELSE d]

\* MyPackageData::MyPackageData(): every item of the file is stored, as anew. What was
\* stored before it was saved has no app twice.
LoadFile(f) == [data |-> f, appData |-> [a \in Apps |-> {p \in DOMAIN f : a \in Range(f[p].apps)}]]

\* MyPackageData::lookup(LicenseIdentifier)
Lookup(p, change) == p \in DOMAIN data /\ data[p].change >= change

\* MyPackageData::lookup(AppID)
LookupApp(a) == {p \in appData[a] : p \in DOMAIN data}

\* MyPackageData::checkForUpdates(): any difference of the identifiers counts
CheckForUpdates(map) ==
    {p \in DOMAIN map : p \notin DOMAIN data \/ data[p].change # map[p].change}

----------------------------------------------------------------------------
(* The module PackageData of client c *)

\* PackageDataModule::handle(Licenses::Ptr), on the wakeup by the whiteboard
HandleLicenses(c) ==
    /\ pc[c] = "wait" /\ woken[c]
    /\ woken' = [woken EXCEPT ![c] = FALSE]
    /\ pc' = [pc EXCEPT ![c] = "responses"]
    /\ latestLicenses' = [latestLicenses EXCEPT ![c] = licenses[c]]
    /\ LET list == CheckForUpdates(licenses[c].map)
       IN \/ /\ list # {}
             /\ jobs' = jobs + 1
             /\ latestJob' = [latestJob EXCEPT ![c] = jobs + 1]
             /\ asked' = asked \cup {[client |-> c, job |-> jobs + 1, packages |-> list]}
             /\ UNCHANGED packageData
          \/ /\ list = {}
             /\ packageData' = [packageData EXCEPT ![c] = licenses[c].id]
             /\ UNCHANGED <<jobs, latestJob, asked>>
    /\ UNCHANGED <<version, listsSent, lists, licenses, newLicenses, responses, storing, store>>

\* PackageDataModule::handle(response) is called for the next part. The mutex of the
\* store is taken for each of its packages, and again to save: other clients come between.
TakeResponse(c) ==
    /\ \/ pc[c] = "responses"
       \/ pc[c] = "wait" /\ ~woken[c]
    /\ responses[c] # << >>
    /\ storing' = [storing EXCEPT ![c] = DOMAIN Head(responses[c]).infos]
    /\ pc' = [pc EXCEPT ![c] = "store"]
    /\ UNCHANGED <<listServer, lists, board, responses, woken, latestJob, latestLicenses, store,
                   jobs>>

\* MyPackageData::update(): only newer data is stored. A package that cannot be read throws
\* here, which ends the process.
StorePackage(c, p) ==
    /\ pc[c] = "store" /\ p \in storing[c]
    /\ storing' = [storing EXCEPT ![c] = @ \ {p}]
    /\ LET info == Head(responses[c]).infos[p]
       IN \/ /\ p \in DOMAIN data => data[p].change < info.change
             /\ data' = StoreNew(data, appData, p, info).data
             /\ appData' = StoreNew(data, appData, p, info).appData
             /\ wasUpdated' = TRUE
          \/ /\ p \in DOMAIN data /\ data[p].change >= info.change
             /\ UNCHANGED <<data, appData, wasUpdated>>
    /\ UNCHANGED <<listServer, lists, board, responses, woken, pc, latestJob, latestLicenses,
                   file, jobs>>

\* MyPackageData::save(), for whatever any client has stored; the rest only happens if the
\* part answers the latest job. The steps of the write, and one that fails, are AppInfoCache's.
SaveStore(c) ==
    /\ pc[c] = "store" /\ storing[c] = {}
    /\ file' = IF wasUpdated THEN data ELSE file
    /\ wasUpdated' = FALSE
    /\ pc' = [pc EXCEPT ![c] = IF Head(responses[c]).job = latestJob[c] THEN "appinfo" ELSE "responses"]
    /\ responses' = [responses EXCEPT ![c] = Tail(@)]
    /\ UNCHANGED <<listServer, lists, board, woken, storing, latestJob, latestLicenses, data,
                   appData, jobs>>

\* AppInfo::update() returns and PackageData goes to the whiteboard
AppInfoUpdated(c) ==
    /\ pc[c] = "appinfo"
    /\ packageData' = [packageData EXCEPT ![c] = latestLicenses[c].id]
    /\ pc' = [pc EXCEPT ![c] = "responses"]
    /\ UNCHANGED <<listServer, lists, licenses, newLicenses, responses, woken, storing, latestJob,
                   latestLicenses, store, jobs>>

\* PackageDataModule::run(): no response is left, wait again
ResponsesDone(c) ==
    /\ pc[c] = "responses" /\ responses[c] = << >>
    /\ pc' = [pc EXCEPT ![c] = "wait"]
    /\ UNCHANGED <<listServer, lists, board, responses, woken, storing, latestJob, latestLicenses,
                   store, jobs>>

\* PackageData::isCurrent(): the two whiteboard entries are the same list
IsCurrent(c) == packageData[c] # 0 /\ packageData[c] = licenses[c].id

----------------------------------------------------------------------------
(* The server and the process *)

SendLicenses(c) ==
    /\ listsSent < MaxLists
    /\ listsSent' = listsSent + 1
    /\ \E l \in Lists :
          lists' = [lists EXCEPT ![c] = Append(@, [id |-> listsSent', list |-> l, numbers |-> version])]
    /\ UNCHANGED <<version, asked, board, responses, module, store, jobs>>

PackageChanges(p) ==
    /\ p \in Changing /\ version[p] < MaxVersion
    /\ version' = [version EXCEPT ![p] = @ + 1]
    /\ UNCHANGED <<listsSent, asked, lists, board, responses, module, store, jobs>>

\* One part of the answer to a request; the last one leaves nothing to answer
AnswerPart(r) ==
    /\ \E part \in SUBSET (r.packages \cap Packages) :
          /\ part # {}
          /\ responses' = [responses EXCEPT ![r.client] = Append(@,
                [job |-> r.job,
                 infos |-> [p \in part |-> [change |-> version[p], apps |-> AppsOf[p][version[p]]]]])]
          /\ asked' = (asked \ {r}) \cup
                (IF part = r.packages THEN {} ELSE {[r EXCEPT !.packages = @ \ part]})
    /\ UNCHANGED <<version, listsSent, lists, board, module, store, jobs>>

\* A process starts with whatever an earlier one left in the data file
FlowInit ==
    /\ version \in [Packages -> 1..MaxVersion]
    /\ \E change \in PartialFunctions(Packages, 1..MaxVersion) :
          /\ \A p \in DOMAIN change : change[p] <= version[p] /\ IsInjective(AppsOf[p][change[p]])
          /\ file = [p \in DOMAIN change |-> [change |-> change[p], apps |-> AppsOf[p][change[p]]]]
    /\ data = LoadFile(file).data
    /\ appData = LoadFile(file).appData
    /\ wasUpdated = FALSE
    /\ listsSent = 0
    /\ lists = [c \in Clients |-> << >>]
    /\ licenses = [c \in Clients |-> NoLicenses]
    /\ newLicenses = [c \in Clients |-> {}]
    /\ asked = {}
    /\ responses = [c \in Clients |-> << >>]
    /\ woken = [c \in Clients |-> FALSE]
    /\ pc = [c \in Clients |-> "wait"]
    /\ storing = [c \in Clients |-> {}]
    /\ latestJob = [c \in Clients |-> 0]
    /\ latestLicenses = [c \in Clients |-> NoLicenses]
    /\ packageData = [c \in Clients |-> 0]
    /\ jobs = 0

ClientStep(c) ==
    \/ SendLicenses(c) \/ HandleLicenseList(c) \/ HandleLicenses(c)
    \/ TakeResponse(c) \/ SaveStore(c) \/ AppInfoUpdated(c) \/ ResponsesDone(c)
    \/ \E p \in Packages : StorePackage(c, p)

FlowNext ==
    \/ \E c \in Clients : ClientStep(c)
    \/ \E p \in Packages : PackageChanges(p)
    \/ \E r \in asked : AnswerPart(r)

FlowSpec == FlowInit /\ [][FlowNext]_flowVars

----------------------------------------------------------------------------
FlowTypeOK ==
    /\ version \in [Packages -> 1..MaxVersion]
    /\ listsSent \in 0..MaxLists
    /\ \A c \in Clients :
          /\ licenses[c].id \in 0..MaxLists
          /\ DOMAIN licenses[c].map \subseteq Packages
          /\ newLicenses[c] \subseteq Packages
          /\ packageData[c] \in 0..MaxLists
          /\ latestJob[c] \in 0..jobs
    /\ woken \in [Clients -> BOOLEAN]
    /\ pc \in [Clients -> {"wait", "responses", "store", "appinfo"}]
    /\ storing \in [Clients -> SUBSET Packages]
    /\ wasUpdated \in BOOLEAN
    /\ DOMAIN data \subseteq Packages /\ data \in [DOMAIN data -> Infos]
    /\ DOMAIN file \subseteq Packages /\ file \in [DOMAIN file -> Infos]
    /\ appData \in [Apps -> SUBSET Packages]

Waiting(c) == (\E r \in asked : r.client = c) \/ responses[c] # << >>

\* When a client's PackageData is current and no part of an answer is on its way
\* to it, every license of the client has package data that is not older than
\* the license, so that lookup() finds it: whatever the other client, other
\* requests and changes on the server did in between. Only a package whose list of
\* apps has an app twice is never stored.
PackagesSettled ==
    \A c \in Clients : IsCurrent(c) /\ ~Waiting(c) =>
        \A p \in DOMAIN licenses[c].map \cap NamedOnce : Lookup(p, licenses[c].map[p].change)

\* The index by app and the packages agree, also after a package changed its apps
\* and after the file was loaded, for all packages that name each app once.
IndexMatches ==
    \A a \in Apps :
        LET WithApp == {p \in DOMAIN data \cap NamedOnce : a \in Range(data[p].apps)}
        IN appData[a] \cap NamedOnce = WithApp /\ LookupApp(a) \cap NamedOnce = WithApp

\* What LicenseList makes of a list does not depend on the order of the licenses:
\* an owned license wins, the count is the number of family licenses kept, and the
\* assertion on replaced licenses holds.
ListReadRight ==
    \A c \in Clients : \A i \in DOMAIN lists[c] :
        LET m == lists[c][i]
            r == ReadList({}, m)
            Entries(p) == {j \in DOMAIN m.list : m.list[j].pkg = p}
        IN /\ r.ok
           /\ DOMAIN r.map = {m.list[j].pkg : j \in DOMAIN m.list}
           /\ \A p \in DOMAIN r.map : r.map[p].family = (\A j \in Entries(p) : m.list[j].family)
           /\ r.family = Cardinality({p \in DOMAIN r.map : r.map[p].family})

\* What the store has and the file has not is marked. And what a client was told is current
\* does not get lost in a crash: its licenses have their data in the file, unless another
\* client, whose answers the data may be from, is just storing and will save.
FileHasStore ==
    /\ wasUpdated \/ file = data
    /\ \A c \in Clients : IsCurrent(c) /\ ~Waiting(c) =>
          \/ \A p \in DOMAIN licenses[c].map \cap NamedOnce :
                p \in DOMAIN file /\ file[p].change >= licenses[c].map[p].change
          \/ \E d \in Clients \ {c} : pc[d] = "store"

\* The data of a package never gets older
NeverOlder == [][\A p \in DOMAIN data : p \in DOMAIN data' /\ data'[p].change >= data[p].change]_data
=============================================================================
