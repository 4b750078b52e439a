---------------------------- MODULE FreeLicenses ----------------------------
(***************************************************************************)
(* AddFreeLicense: other modules ask it to add the free licence of an app  *)
(* or a package. The module asks for an app with a Steam message and for a *)
(* package on a web page, whose answer it waits for; the packages it asked *)
(* for are reported once they are in the account's licence list.           *)
(***************************************************************************)
EXTENDS Naturals, Sequences, FiniteSets, SequencesExt, FiniteSetsExt, Selection

CONSTANTS
    FreePackages, \* packages whose licences are requested
    FreeApps,     \* apps whose licences are requested
    MaxAdds       \* bound on the requests

FreeAssumption == MaxAdds \in Nat /\ FreePackages \cap FreeApps = {}

VARIABLES
    loggedIn,     \* waitForLogin() is over
    adds,         \* addLicense's messages
    addPc,        \* where run() is: "wait" or "page"
    appRequests,  \* CMsgClientRequestFreeLicense messages sent
    freeAnswered, \* a response to such a message waits to be handled
    freeRequested,    \* requestedPackages
    licences,     \* the licences on the whiteboard, none before the first list
    licencesChanged, \* licensesWaiter's item is changed
    added,        \* the messages so far (history)
    reported      \* packages that were reported (history)

freeVars == <<loggedIn, adds, addPc, appRequests, freeAnswered, freeRequested, licences,
              licencesChanged, added, reported>>

FreeInit ==
    /\ loggedIn = FALSE /\ adds = <<>> /\ addPc = "wait" /\ appRequests = 0
    /\ freeAnswered = FALSE /\ freeRequested = <<>>
    /\ licences = {} /\ licencesChanged = FALSE /\ added = <<>> /\ reported = <<>>

----------------------------------------------------------------------------
FreeLogin ==
    /\ ~loggedIn /\ loggedIn' = TRUE
    /\ UNCHANGED <<adds, addPc, appRequests, freeAnswered, freeRequested, licences,
                   licencesChanged, added, reported>>

\* AddFreeLicense::add().
Add(id) ==
    /\ Len(added) < MaxAdds /\ added' = Append(added, id) /\ adds' = Append(adds, id)
    /\ UNCHANGED <<loggedIn, addPc, appRequests, freeAnswered, freeRequested, licences,
                   licencesChanged, reported>>

\* A licence list comes, with one package more or with those there were (external).
LicenceListComes(p) ==
    /\ licences' = licences \cup {p} /\ licencesChanged' = TRUE
    /\ UNCHANGED <<loggedIn, adds, addPc, appRequests, freeAnswered, freeRequested, added, reported>>

\* The server answers a request for an app's licence (external).
AppAnswered ==
    /\ appRequests > 0 /\ ~freeAnswered /\ freeAnswered' = TRUE
    /\ UNCHANGED <<loggedIn, adds, addPc, appRequests, freeRequested, licences, licencesChanged,
                   added, reported>>

PackagesAt(queue) == {i \in 1..Len(queue) : queue[i] \in FreePackages}

\* handle() of one message after the other, up to the first for a package: an app's
\* request is sent at once, a package is noted and its page asked for.
HandlePackage ==
    LET i == Min(PackagesAt(adds))
    IN /\ freeRequested' = Append(freeRequested, adds[i]) /\ adds' = SubSeq(adds, i + 1, Len(adds))
       /\ appRequests' = appRequests + i - 1 /\ addPc' = "page"
       /\ UNCHANGED <<licencesChanged, reported>>

\* When no message is left checkLicenses() has its turn: what is in the list there is,
\* whether that woke the module or not, is reported and forgotten.
CheckLicenses ==
    /\ adds' = <<>> /\ appRequests' = appRequests + Len(adds) /\ addPc' = "wait"
    /\ licencesChanged' = FALSE
    /\ reported' = reported \o Kept(freeRequested, licences)
    /\ freeRequested' = Kept(freeRequested, FreePackages \ licences)

\* run(): the wait ends with a message, a response or a new list, the page's with its
\* answer. Nothing is handled before the login, and no response while a page is waited for.
AddFreeLicenseWakes ==
    /\ loggedIn /\ (addPc = "wait" => adds # <<>> \/ licencesChanged \/ freeAnswered)
    /\ freeAnswered' = (freeAnswered /\ addPc = "page")
    /\ IF PackagesAt(adds) # {} THEN HandlePackage ELSE CheckLicenses
    /\ UNCHANGED <<loggedIn, licences, added>>

FreeNext ==
    \/ FreeLogin \/ AppAnswered \/ AddFreeLicenseWakes
    \/ \E id \in FreePackages \cup FreeApps : Add(id)
    \/ \E p \in FreePackages : LicenceListComes(p)

FreeSpec == FreeInit /\ [][FreeNext]_freeVars

----------------------------------------------------------------------------
\* Type invariant.
FreeTypeOK ==
    /\ loggedIn \in BOOLEAN /\ addPc \in {"wait", "page"} /\ appRequests \in 0..MaxAdds
    /\ adds \in Seq(FreePackages \cup FreeApps) /\ freeRequested \in Seq(FreePackages)
    /\ licences \subseteq FreePackages /\ licencesChanged \in BOOLEAN /\ freeAnswered \in BOOLEAN

\* No request is lost or made twice: each was sent to the server, is on its way, or
\* is among the packages that were asked for, reported or not
\* (AddFreeLicense.cpp:150-163, 236-268).
NoRequestLost ==
    /\ appRequests + Count(adds, FreeApps) = Count(added, FreeApps)
    /\ \A p \in FreePackages :
          Count(freeRequested, {p}) + Count(reported, {p}) + Count(adds, {p}) = Count(added, {p})

\* What is reported is there (AddFreeLicense.cpp:236-252).
ReportedIsHere == Range(reported) \subseteq licences

\* No package is left to be reported that has its licence, once the module waits with no
\* new list to look at: not one that was there before it was asked for, nor one that came
\* while the module waited for a page (AddFreeLicense.cpp:236-268, Whiteboard.hpp:187-191).
ReportedAtOnce == addPc = "wait" /\ ~licencesChanged => Range(freeRequested) \cap licences = {}

=============================================================================
