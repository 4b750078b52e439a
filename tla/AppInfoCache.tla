---------------------------- MODULE AppInfoCache ----------------------------
(***************************************************************************)
(* The store of app infos that all clients of the process share            *)
(* (AppInfo.cpp), the CacheFile it is, and the DataFile that keeps it on   *)
(* disk. A client fetches what it misses while it holds the store's mutex, *)
(* across the wait for the server's answers; new entries stay in `updates' *)
(* until they are merged into the file's JSON and saved.                   *)
(*                                                                         *)
(* An app info is abstracted to its presence and to the list of DLCs it    *)
(* has; the thread runs one fiber at a time, so that only a crash of the   *)
(* process can fall between two steps of a save.                           *)
(***************************************************************************)
EXTENDS Naturals, FiniteSets

CONSTANTS
    Members,     \* clients that update the store
    AppIds,      \* app ids
    Dlcs,        \* Dlcs[a]: "extended"/"listofdlc" of app a
    HasInfo,     \* apps for which the server has a buffer that deserializes
    Wanted,      \* Wanted[m]: the apps of the packages m has licenses of
    NoMember,    \* nobody holds the mutex
    MaxRestarts  \* bound on crashes of the process

CacheAssumption ==
    /\ Dlcs \in [AppIds -> SUBSET AppIds]
    /\ HasInfo \subseteq AppIds
    /\ Wanted \in [Members -> SUBSET AppIds]
    /\ NoMember \notin Members
    /\ MaxRestarts \in Nat

VARIABLES
    disk,      \* apps in the file Steam-AppInfo.json
    tempFile,  \* apps in the file Steam-AppInfo-new.json
    truncated, \* which of the two files, "file" and "temp", lacks its end: a write has failed
    json,      \* DataFile::json
    updates,   \* AppInfoFile::updates
    cacheChanged,   \* CacheFile::changed
    mutex,     \* CacheFile::mutex: who holds it
    step,      \* where each client's AppInfo::update() is
    cacheRequested, \* apps of the request m waits for, less those answered
    prev,      \* updateDlcs_noMutex(): the previous round's request
    aborted,   \* an assertion has failed
    restarts   \* crashes so far

memory == <<json, updates, cacheChanged>>
fibers == <<mutex, step, cacheRequested, prev>>
cacheFiles == <<disk, tempFile, truncated>>
cacheVars == <<disk, tempFile, truncated, json, updates, cacheChanged, mutex, step,
               cacheRequested, prev, aborted, restarts>>

Steps == {"idle", "blocked", "apps", "dlcs", "writing", "renaming"}

\* The program starts, and starts again after a crash: DataFile::loadFile()
\* reads the file, or nothing where there is none. It cannot parse a file that lacks its
\* end, and the exception of the first AppInfoFile::get() ends the process.
Fresh(content) ==
    /\ json' = content
    /\ updates' = {} /\ cacheChanged' = FALSE
    /\ mutex' = NoMember
    /\ step' = [m \in Members |-> "idle"]
    /\ cacheRequested' = [m \in Members |-> {}]
    /\ prev' = [m \in Members |-> {}]
    /\ aborted' = ("file" \in truncated)

CacheInit ==
    /\ disk = {} /\ tempFile = {} /\ truncated = {} /\ json = {} /\ updates = {} /\ cacheChanged = FALSE
    /\ mutex = NoMember
    /\ step = [m \in Members |-> "idle"]
    /\ cacheRequested = [m \in Members |-> {}] /\ prev = [m \in Members |-> {}]
    /\ aborted = FALSE /\ restarts = 0

\* AppInfoFile::get_noMutex(): what can be found, in the updates first.
Known == updates \cup json

\* updateDlcs_noMutex(): what one round finds missing. It reads the file's
\* JSON only.
MissingDlcs == (UNION {Dlcs[a] : a \in json}) \ json

\* It asserts that no two apps list the same one.
ListedTwice == \E a, b \in json : a # b /\ ~(Dlcs[a] \cap Dlcs[b] \subseteq json)

Running(m) == ~aborted /\ \A k \in Members : step[k] \in {"writing", "renaming"} => k = m

----------------------------------------------------------------------------
\* AppInfo::update(): a client with new package data wants the mutex.
BeginUpdate(m) ==
    /\ Running(m) /\ step[m] = "idle"
    /\ step' = [step EXCEPT ![m] = "blocked"]
    /\ UNCHANGED <<cacheFiles, memory, mutex, cacheRequested, prev, aborted, restarts>>

\* One round of updateDlcs_noMutex(), or its end and the save. An app list that
\* comes twice in a row ends the loop.
DlcRound(m, last) ==
    \/ /\ ListedTwice
       /\ aborted' = TRUE /\ UNCHANGED <<step, cacheRequested, prev>>
    \/ /\ ~ListedTwice /\ MissingDlcs \in {{}, last}
       /\ step' = [step EXCEPT ![m] = "writing"]
       /\ UNCHANGED <<cacheRequested, prev, aborted>>
    \/ /\ ~ListedTwice /\ MissingDlcs \notin {{}, last}
       /\ step' = [step EXCEPT ![m] = "dlcs"]
       /\ cacheRequested' = [cacheRequested EXCEPT ![m] = MissingDlcs]
       /\ prev' = [prev EXCEPT ![m] = MissingDlcs]
       /\ UNCHANGED aborted

\* AppInfo::update() with the mutex: ask for what is not known, or go on to the
\* DLCs when nothing is missing.
Lock(m) ==
    /\ Running(m) /\ step[m] = "blocked" /\ mutex = NoMember
    /\ mutex' = m
    /\ LET missing == Wanted[m] \ Known IN
       IF missing = {}
       THEN DlcRound(m, {})
       ELSE /\ step' = [step EXCEPT ![m] = "apps"]
            /\ cacheRequested' = [cacheRequested EXCEPT ![m] = missing]
            /\ UNCHANGED <<prev, aborted>>
    /\ UNCHANGED <<cacheFiles, memory, restarts>>

\* One response message for the request: apps with a buffer that deserializes
\* are added, each of which must not be among the updates yet; the others in the
\* message are passed over. The message without response_pending is the last.
Answer(m, apps, pending) ==
    /\ Running(m) /\ step[m] \in {"apps", "dlcs"} /\ apps \subseteq cacheRequested[m] \cap HasInfo
    /\ updates' = updates \cup apps
    /\ cacheChanged' = (cacheChanged \/ apps # {})
    /\ IF pending THEN apps # {} ELSE apps = cacheRequested[m] \cap HasInfo
    /\ \/ /\ apps \cap updates # {}
          /\ aborted' = TRUE /\ UNCHANGED <<step, cacheRequested, prev>>
       \/ /\ apps \cap updates = {} /\ pending
          /\ cacheRequested' = [cacheRequested EXCEPT ![m] = @ \ apps]
          /\ UNCHANGED <<step, prev, aborted>>
       \/ /\ apps \cap updates = {} /\ ~pending
          /\ DlcRound(m, IF step[m] = "dlcs" THEN prev[m] ELSE {})
    /\ UNCHANGED <<cacheFiles, json, mutex, restarts>>

\* ~lock_guard: AppInfo::update() returns.
Release(m) ==
    /\ mutex' = NoMember
    /\ step' = [step EXCEPT ![m] = "idle"]
    /\ cacheRequested' = [cacheRequested EXCEPT ![m] = {}]
    /\ prev' = [prev EXCEPT ![m] = {}]

\* A mutant: the file itself is written, so that a crash finds it incomplete.
WriteInPlace(m) ==
    /\ Running(m) /\ step[m] = "writing"
    /\ IF cacheChanged
       THEN /\ json' = json \cup updates /\ updates' = {}
            /\ tempFile' = json' /\ disk' = {}
            /\ step' = [step EXCEPT ![m] = "renaming"]
            /\ UNCHANGED <<truncated, cacheChanged, mutex, cacheRequested, prev>>
       ELSE /\ Release(m)
            /\ UNCHANGED <<cacheFiles, json, updates, cacheChanged>>
    /\ UNCHANGED <<aborted, restarts>>

\* save_noMutex(true): nothing to do, or updateFile() moves the updates into the
\* JSON and saveFile() writes it to the temporary file. The state of the stream
\* is not looked at: a write that fails leaves a file that lacks its end.
Write(m) ==
    /\ Running(m) /\ step[m] = "writing"
    /\ IF cacheChanged
       THEN /\ json' = json \cup updates /\ updates' = {}
            /\ \/ tempFile' = json' /\ truncated' = truncated \ {"temp"}
               \/ tempFile' = {} /\ truncated' = truncated \cup {"temp"}
            /\ step' = [step EXCEPT ![m] = "renaming"]
            /\ UNCHANGED <<cacheChanged, mutex, cacheRequested, prev>>
       ELSE /\ Release(m)
            /\ UNCHANGED <<json, updates, cacheChanged, tempFile, truncated>>
    /\ UNCHANGED <<disk, aborted, restarts>>

\* saveFile(), the rename, and the return to save_noMutex() and update().
Rename(m) ==
    /\ Running(m) /\ step[m] = "renaming"
    /\ disk' = tempFile /\ truncated' = IF "temp" \in truncated THEN {"file"} ELSE {}
    /\ cacheChanged' = FALSE
    /\ Release(m)
    /\ UNCHANGED <<tempFile, json, updates, aborted, restarts>>

\* The client quits while it waits for an answer: sendAndWait() throws, the
\* mutex is released and what came stays in `updates'. A fiber that is blocked
\* on the mutex cannot be cancelled.
CancelUpdate(m) ==
    /\ Running(m) /\ step[m] \in {"apps", "dlcs"}
    /\ Release(m)
    /\ UNCHANGED <<cacheFiles, memory, aborted, restarts>>

\* The process dies, whatever it was doing (a failed assertion included, and a rename
\* that throws because no temporary file could be opened), and is started again.
Crash ==
    /\ restarts < MaxRestarts
    /\ restarts' = restarts + 1
    /\ Fresh(disk)
    /\ UNCHANGED cacheFiles

CacheNext ==
    \/ \E m \in Members : BeginUpdate(m) \/ Lock(m) \/ Write(m) \/ Rename(m) \/ CancelUpdate(m)
    \/ \E m \in Members, apps \in SUBSET AppIds, pending \in BOOLEAN : Answer(m, apps, pending)
    \/ Crash

CacheSpec == CacheInit /\ [][CacheNext]_cacheVars

----------------------------------------------------------------------------
CacheTypeOK ==
    /\ {disk, tempFile, json, updates} \subseteq SUBSET AppIds
    /\ truncated \subseteq {"file", "temp"}
    /\ cacheChanged \in BOOLEAN /\ aborted \in BOOLEAN /\ restarts \in 0..MaxRestarts
    /\ mutex \in Members \cup {NoMember}
    /\ step \in [Members -> Steps]
    /\ cacheRequested \in [Members -> SUBSET AppIds] /\ prev \in [Members -> SUBSET AppIds]

\* Nothing that was read from a server is forgotten while the process lives: at
\* rest, what is not on disk is in memory and marked as changed, so that the
\* next update of any client saves it. Only a write that has failed leaves the
\* file behind, unmarked.
UnsavedIsMarked ==
    mutex = NoMember => /\ json = disk \/ "file" \in truncated
                        /\ updates # {} => cacheChanged

\* Whatever a client does and whenever the process dies, an app info that was
\* saved is still in the file; but a file whose write failed takes its place.
FileOnlyGrows == [][disk \subseteq disk' \/ "file" \in truncated']_cacheVars

\* The comment at AppInfo.cpp:219-225 says DLC infos are fetched "repeatedly in
\* case the newly loaded AppInfos have new DLCs to add". When an update goes on
\* to save, every DLC of a known app that the server has an info for should be
\* known.
DlcsFollow ==
    \A m \in Members : step[m] = "writing" => \A a \in Known : Dlcs[a] \cap HasInfo \subseteq Known

=============================================================================
