------------------------------ MODULE Accounts ------------------------------
(***************************************************************************)
(* The accounts (ClientInfo), their settings and the two kinds of mutex    *)
(* they are kept under: the one of the registry, and one for each account  *)
(* file. Every client runs on a thread of its own; threads without a       *)
(* client, as those of the user interface, look accounts up as well. A     *)
(* step takes a mutex, or stands for a section that takes a free mutex and *)
(* no other one.                                                           *)
(*                                                                         *)
(* Names and values that differ in case only are the same here, as they    *)
(* are for caseInsensitiveStringCompare_equal().                           *)
(***************************************************************************)
EXTENDS Naturals, FiniteSets

CONSTANTS Accounts,  \* account names; a client's thread goes by the account's name
          OtherThreads,  \* threads without a client
          HasFile,   \* those with a file when the program starts
          Kinds,     \* the registered settings: "String", "Bool" and "BotName"
          Values,    \* what the user enters, and what the files say when they say something
          OnWords, OffWords  \* boolStrings

AccountAssumption ==
    /\ HasFile \subseteq Accounts
    /\ Kinds \subseteq {"String", "Bool", "BotName"}
    /\ OnWords \cap OffWords = {} /\ "on" \in OnWords /\ "off" \in OffWords
    /\ "" \notin Accounts \cup OnWords \cup OffWords
    /\ "free" \notin Accounts \cup OtherThreads  \* whose mutex is not held
    /\ OtherThreads \cap Accounts = {}
    /\ "absent" \notin Accounts \cup Values  \* what a file that says nothing holds

VARIABLES
    registered,      \* clients: a ClientInfo is never removed
    registryHolder,  \* the thread that has locked the registry's mutex, "free" if none
    fileHolder,      \* the same for the mutex of an account's file
    fileSettings,    \* the "Settings" of an account's file, "absent" where there is none
    settings,        \* SettingsModule::settings of a client, and its whiteboard
    op,              \* what a thread does
    accountTodo,     \* what is left: settings to load, or accounts whose files are read
    chosen           \* the setting that is loaded or changed, and its new value

accountVars == <<registered, registryHolder, fileHolder, fileSettings, settings, op, accountTodo,
                 chosen>>

AccountThreads == Accounts \cup OtherThreads

Default(kind) == IF kind = "Bool" THEN "off" ELSE ""

\* doFind()
DoFind(name) == {a \in registered : a = name}

\* setString(), and what getString() then returns; no result if it returns false. A
\* client is not a bot name for itself.
SetString(c, kind, value) ==
    CASE kind = "String" -> {value}
      [] kind = "Bool" -> IF value \in OnWords THEN {"on"} ELSE IF value \in OffWords THEN {"off"} ELSE {}
      [] kind = "BotName" -> DoFind(value) \ {c}

\* The value a setting has after a string: the old one if it is refused.
Result(new, old) == IF new = {} THEN old ELSE CHOOSE v \in new : TRUE

With(f, c, kind, value) == [f EXCEPT ![c] = [@ EXCEPT ![kind] = value]]

\* init() registers the accounts that have a file, before the first client is launched.
AccountInit ==
    /\ registered = HasFile
    /\ registryHolder = "free" /\ fileHolder = [a \in Accounts |-> "free"]
    /\ fileSettings \in [Accounts -> {[k \in Kinds |-> v] : v \in Values \cup {"absent"}}]
    /\ settings = [a \in Accounts |-> [k \in Kinds |-> Default(k)]]
    /\ op = [c \in AccountThreads |-> IF c \in Accounts THEN "off" ELSE "idle"]
    /\ accountTodo = [c \in AccountThreads |-> {}]
    /\ chosen = [a \in Accounts |-> <<"", "">>]

----------------------------------------------------------------------------
\* create(): a name is registered once.
Create(a) ==
    /\ registryHolder = "free" /\ DoFind(a) = {}
    /\ registered' = registered \cup {a}
    /\ UNCHANGED <<registryHolder, fileHolder, fileSettings, settings, op, accountTodo, chosen>>

\* A client starts: displayName() locks the registry and reads the file, because there
\* are no settings on the whiteboard yet.
Launch(c) ==
    /\ op[c] = "off" /\ c \in registered /\ registryHolder = "free"
    /\ registryHolder' = c /\ op' = [op EXCEPT ![c] = "display"]
    /\ UNCHANGED <<registered, fileHolder, fileSettings, settings, accountTodo, chosen>>

DisplayName(c) ==
    /\ op[c] = "display" /\ fileHolder[c] = "free"
    /\ registryHolder' = "free" /\ op' = [op EXCEPT ![c] = "load"]
    /\ accountTodo' = [accountTodo EXCEPT ![c] = Kinds]
    /\ UNCHANGED <<registered, fileHolder, fileSettings, settings, chosen>>

\* loadSettings(): examine() calls setString() with the file's mutex locked; that of a
\* bot name needs the registry.
LoadSetting(c, kind) ==
    /\ op[c] = "load" /\ kind \in accountTodo[c] /\ fileHolder[c] = "free"
    /\ LET value == fileSettings[c][kind]
       IN IF kind = "BotName" /\ value # "absent"
          THEN /\ fileHolder' = [fileHolder EXCEPT ![c] = c] /\ op' = [op EXCEPT ![c] = "setString"]
               /\ UNCHANGED <<settings, accountTodo>>
          ELSE /\ settings' = IF value = "absent" THEN settings
                              ELSE With(settings, c, kind, Result(SetString(c, kind, value), settings[c][kind]))
               /\ accountTodo' = [accountTodo EXCEPT ![c] = @ \ {kind}]
               /\ UNCHANGED <<fileHolder, op>>
    /\ UNCHANGED <<registered, registryHolder, fileSettings, chosen>>

\* SettingBotName::setString() in examine().
LoadBotName(c) ==
    /\ op[c] = "setString" /\ registryHolder = "free"
    /\ settings' = With(settings, c, "BotName",
                        Result(SetString(c, "BotName", fileSettings[c]["BotName"]), settings[c]["BotName"]))
    /\ fileHolder' = [fileHolder EXCEPT ![c] = "free"]
    /\ op' = [op EXCEPT ![c] = "load"]
    /\ accountTodo' = [accountTodo EXCEPT ![c] = @ \ {"BotName"}]
    /\ UNCHANGED <<registered, registryHolder, fileSettings, chosen>>

Loaded(c) ==
    /\ op[c] = "load" /\ accountTodo[c] = {} /\ op' = [op EXCEPT ![c] = "idle"]
    /\ UNCHANGED <<registered, registryHolder, fileHolder, fileSettings, settings, accountTodo,
                   chosen>>

----------------------------------------------------------------------------
\* find(pred), for a Steam id: the files are examined with the registry locked, up to the
\* one that is it.
Find(c) ==
    /\ op[c] = "idle" /\ registryHolder = "free"
    /\ registryHolder' = c /\ op' = [op EXCEPT ![c] = "search"]
    /\ accountTodo' = [accountTodo EXCEPT ![c] = registered]
    /\ UNCHANGED <<registered, fileHolder, fileSettings, settings, chosen>>

\* findDisplay(), and displayName() of one account: the display names are read from the
\* files with the registry locked; a running client has its own one on the whiteboard.
ReadNames(c, names) ==
    /\ op[c] = "idle" /\ registryHolder = "free" /\ names \ {c} # {}
    /\ registryHolder' = c /\ op' = [op EXCEPT ![c] = "names"]
    /\ accountTodo' = [accountTodo EXCEPT ![c] = names \ {c}]
    /\ UNCHANGED <<registered, fileHolder, fileSettings, settings, chosen>>

Examine(c, a) ==
    /\ op[c] \in {"search", "names"} /\ a \in accountTodo[c] /\ fileHolder[a] = "free"
    /\ \/ accountTodo' = [accountTodo EXCEPT ![c] = @ \ {a}]
       \/ op[c] = "search" /\ accountTodo' = [accountTodo EXCEPT ![c] = {}]  \* it is the one
    /\ IF accountTodo'[c] = {} THEN registryHolder' = "free" /\ op' = [op EXCEPT ![c] = "idle"]
                               ELSE UNCHANGED <<registryHolder, op>>
    /\ UNCHANGED <<registered, fileHolder, fileSettings, settings, chosen>>

----------------------------------------------------------------------------
\* changeValue(): nothing happens if the value is the old one or is invalid; an empty
\* value stands for the default.
ChangeValue(c, kind, value) ==
    LET new == IF value = "" THEN {Default(kind)} ELSE SetString(c, kind, value)
    IN /\ op[c] = "idle" /\ value # settings[c][kind] /\ new # {}
       /\ kind = "BotName" => registryHolder = "free"
       /\ chosen' = [chosen EXCEPT ![c] = <<kind, Result(new, "")>>]
       /\ op' = [op EXCEPT ![c] = "store"]
       /\ UNCHANGED <<registered, registryHolder, fileHolder, fileSettings, settings, accountTodo>>

\* storeItem() writes the string into the file; then the setting is on the whiteboard.
StoreItem(c) ==
    /\ op[c] = "store" /\ fileHolder[c] = "free"
    /\ fileSettings' = With(fileSettings, c, chosen[c][1], chosen[c][2])
    /\ settings' = With(settings, c, chosen[c][1], chosen[c][2])
    /\ op' = [op EXCEPT ![c] = "idle"] /\ chosen' = [chosen EXCEPT ![c] = <<"", "">>]
    /\ UNCHANGED <<registered, registryHolder, fileHolder, accountTodo>>

\* The client is gone, and its settings with it.
Quit(c) ==
    /\ op[c] = "idle" /\ op' = [op EXCEPT ![c] = "off"]
    /\ settings' = [settings EXCEPT ![c] = [k \in Kinds |-> Default(k)]]
    /\ UNCHANGED <<registered, registryHolder, fileHolder, fileSettings, accountTodo, chosen>>

AccountNext ==
    \/ \E c \in Accounts : \/ Create(c) \/ Launch(c) \/ DisplayName(c) \/ LoadBotName(c) \/ Loaded(c)
                           \/ StoreItem(c) \/ Quit(c)
                           \/ \E kind \in Kinds : LoadSetting(c, kind)
                           \/ \E kind \in Kinds, v \in Values \cup {""} : ChangeValue(c, kind, v)
    \/ \E c \in AccountThreads : \/ Find(c) \/ ReadNames(c, registered)
                                 \/ \E a \in registered : ReadNames(c, {a}) \/ Examine(c, a)

AccountSpec == AccountInit /\ [][AccountNext]_accountVars

----------------------------------------------------------------------------
\* Type invariant.
AccountTypeOK ==
    /\ registered \subseteq Accounts /\ registryHolder \in AccountThreads \cup {"free"}
    /\ fileHolder \in [Accounts -> AccountThreads \cup {"free"}]
    /\ \A c \in AccountThreads :
        op[c] \in {"off", "display", "load", "setString", "idle", "search", "names", "store"}

\* A client that has loaded its settings has what its file says, after any changes and
\* restarts, also those that were refused; only a bot that was registered after the
\* settings were loaded may be missing (Settings.cpp:83-189, SettingBool.cpp,
\* SettingBotName.cpp:31-53).
SettingsAreTheFiles ==
    \A c \in Accounts, k \in Kinds : op[c] \in {"idle", "search", "names", "store"} =>
        LET value == fileSettings[c][k]
            loaded == IF value = "absent" THEN Default(k) ELSE Result(SetString(c, k, value), Default(k))
        IN settings[c][k] = loaded \/ (k = "BotName" /\ settings[c][k] = "")

\* What a thread waits for.
Waits(c, d) ==
    \/ op[c] = "setString" /\ registryHolder = d
    \/ op[c] = "display" /\ fileHolder[c] = d
    \/ op[c] \in {"search", "names"} /\ \E a \in accountTodo[c] : fileHolder[a] = d

\* Client c loads its bot name: it has locked its file and wants the registry. Thread d
\* looks through accounts: it has locked the registry and wants that file.
BotNameAgainst(c, d) ==
    /\ op[c] = "setString" /\ fileHolder[c] = c /\ registryHolder = d
    /\ op[d] \in {"search", "names"} /\ c \in accountTodo[d]

\* Two threads wait for each other only when one of them loads a bot name, while the other
\* one has the registry's mutex and still has that account's file to read: for find() by a
\* Steam id, findDisplay(), or another account's displayName(). Whoever holds a mutex is
\* otherwise never held up, and a mutex is only held by a thread that is in the middle of
\* one of these (ClientInfo.cpp:123-151, 307-376, Settings.cpp:96-121,
\* SettingBotName.cpp:31-42).
OnlyBotNamesBlock ==
    /\ \A c, d \in AccountThreads : c # d /\ Waits(c, d) /\ Waits(d, c) =>
           BotNameAgainst(c, d) \/ BotNameAgainst(d, c)
    /\ \A c \in AccountThreads : registryHolder = c => op[c] \in {"display", "search", "names"}
    /\ \A a \in Accounts, c \in AccountThreads : fileHolder[a] = c => c = a /\ op[c] = "setString"

\* Threads do not wait for each other. TLC finds this violated: SettingBotName::setString()
\* locks the registry in examine(), and find(pred), findDisplay() and displayName() read
\* the files with the registry locked (ClientInfo.cpp:123-151, Settings.cpp:98-103).
NobodyBlocks == \A c, d \in AccountThreads : ~(Waits(c, d) /\ Waits(d, c))

=============================================================================
