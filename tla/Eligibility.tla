---------------------------- MODULE Eligibility ----------------------------
(***************************************************************************)
(* MaintainBoosterPackEligibility: a chain of a timer on the Asio thread,  *)
(* a login of the account that has been away for longest, and a fiber in   *)
(* its client that quits the client and starts the timer again. Users      *)
(* start and quit clients meanwhile.                                       *)
(*                                                                         *)
(* Time passes in days; what the chain does takes less than one. The       *)
(* record of a login is written when a client logs in and when it is gone  *)
(* (LoginTracking.cpp, see Presence), not while it stays logged in.        *)
(***************************************************************************)
EXTENDS Integers, FiniteSets

CONSTANTS BpeAccounts,  \* the registered accounts
          MaxPause,  \* maxPause
          Never,     \* the time of an account that has no record
          LastDay    \* bound on the clock

EligibilityAssumption ==
    /\ MaxPause \in Nat \ {0} /\ LastDay \in Nat /\ MaxPause <= LastDay
    /\ Never \in Int /\ Never < 0

VARIABLES
    day,      \* the clock
    logoff,   \* [BpeAccounts -> when + duration of the "Last login" in the file]
    bpeRunning,  \* [BpeAccounts -> "off", "starting" (there is a client) or "on" (it is logged in)]
    bpePc,    \* "timer", "poll", "fiber" (waits for the login), "pause", "restart", "nothing" or "lost"
    expiry,   \* when the timer fires
    target    \* the account that is logged in, {} if none

bpeVars == <<day, logoff, bpeRunning, bpePc, expiry, target>>

Recorded == {a \in BpeAccounts : logoff[a] # Never}

\* OldestLogin
Oldest(a) == a \in Recorded /\ \A b \in Recorded : logoff[a] <= logoff[b]

BpeInit ==
    /\ day = MaxPause /\ logoff \in [BpeAccounts -> {Never} \cup 0..MaxPause]
    /\ bpeRunning = [a \in BpeAccounts |-> "off"]
    /\ bpePc = "restart" /\ expiry = 0 /\ target = {}

----------------------------------------------------------------------------
\* startTimer(): the timer is set, or an account is overdue and logs in at once; launch()
\* does nothing for a client that is active. Without a record it all ends.
StartTimer ==
    /\ bpePc = "restart"
    /\ IF Recorded = {} THEN bpePc' = "nothing" /\ UNCHANGED <<expiry, target, bpeRunning>>
       ELSE \E a \in BpeAccounts :
           /\ Oldest(a)
           /\ IF logoff[a] + MaxPause > day
              THEN /\ expiry' = logoff[a] + MaxPause /\ bpePc' = "timer" /\ UNCHANGED <<target,
                                                                                        bpeRunning>>
              ELSE /\ target' = {a} /\ bpePc' = "poll"
                   /\ bpeRunning' = [bpeRunning EXCEPT ![a] = IF @ = "off" THEN "starting" ELSE @]
                   /\ UNCHANGED expiry
    /\ UNCHANGED <<day, logoff>>

BpeTimerFires ==
    /\ bpePc = "timer" /\ day >= expiry /\ bpePc' = "restart"
    /\ UNCHANGED <<day, logoff, bpeRunning, expiry, target>>

\* WaitClient: every second until there is a client; clientReady() puts the fiber there.
Poll ==
    /\ bpePc = "poll" /\ \E a \in target : bpeRunning[a] # "off"
    /\ bpePc' = "fiber"
    /\ UNCHANGED <<day, logoff, bpeRunning, expiry, target>>

\* waitForLogin() returns.
FiberSeesLogin ==
    /\ bpePc = "fiber" /\ \E a \in target : bpeRunning[a] = "on"
    /\ bpePc' = "pause"
    /\ UNCHANGED <<day, logoff, bpeRunning, expiry, target>>

\* A client that is logged in writes the record when it is gone.
Gone(a) ==
    /\ bpeRunning' = [bpeRunning EXCEPT ![a] = "off"]
    /\ logoff' = IF bpeRunning[a] = "on" THEN [logoff EXCEPT ![a] = day] ELSE logoff

\* Five seconds later the client quits, if it has not done so, and startTimer() is posted.
FiberQuitsClient ==
    /\ bpePc = "pause" /\ \E a \in target : Gone(a)
    /\ bpePc' = "restart" /\ target' = {}
    /\ UNCHANGED <<day, expiry>>

----------------------------------------------------------------------------
\* A user, or another part of the program, starts a client. It is still active while the
\* fiber sleeps in it.
UserLaunches(a) ==
    /\ bpeRunning[a] = "off" /\ ~(bpePc = "pause" /\ a \in target)
    /\ bpeRunning' = [bpeRunning EXCEPT ![a] = "starting"]
    /\ UNCHANGED <<day, logoff, bpePc, expiry, target>>

LogsIn(a) ==
    /\ bpeRunning[a] = "starting" /\ bpeRunning' = [bpeRunning EXCEPT ![a] = "on"]
    /\ logoff' = [logoff EXCEPT ![a] = day]
    /\ UNCHANGED <<day, bpePc, expiry, target>>

\* A client is quit: waitForLogin() throws, and nobody posts startTimer() any more.
UserQuits(a) ==
    /\ bpeRunning[a] # "off" /\ Gone(a)
    /\ bpePc' = IF bpePc = "fiber" /\ a \in target THEN "lost" ELSE bpePc
    /\ UNCHANGED <<day, expiry, target>>

\* WaitClient polls for ever, unless somebody launches the client again.
PollsForever == bpePc = "poll" /\ \A a \in target : bpeRunning[a] = "off"

NextDay ==
    /\ day < LastDay /\ day' = day + 1
    /\ \/ bpePc = "timer" /\ day < expiry
       \/ bpePc \in {"nothing", "lost"} \/ PollsForever
    /\ UNCHANGED <<logoff, bpeRunning, bpePc, expiry, target>>

BpeNext ==
    \/ StartTimer \/ BpeTimerFires \/ Poll \/ FiberSeesLogin \/ FiberQuitsClient \/ NextDay
    \/ \E a \in BpeAccounts : UserLaunches(a) \/ LogsIn(a) \/ UserQuits(a)

BpeSpec == BpeInit /\ [][BpeNext]_bpeVars

----------------------------------------------------------------------------
\* Type invariant.
BpeTypeOK ==
    /\ day \in 0..LastDay /\ \A a \in BpeAccounts : logoff[a] \in {Never} \cup 0..LastDay
    /\ bpeRunning \in [BpeAccounts -> {"off", "starting", "on"}]
    /\ bpePc \in {"timer", "poll", "fiber", "pause", "restart", "nothing", "lost"}
    /\ target \subseteq BpeAccounts /\ Cardinality(target) <= 1

\* While the timer runs no account is overdue, and it fires before one is, whatever users
\* start and quit: maxPause is the longest time away for every account that has a record
\* (MaintainBPE.cpp:77-93, 187-219). An account is only logged in when it is overdue by
\* its record.
TimerIsInTime ==
    bpePc = "timer" => \A a \in Recorded : day <= logoff[a] + MaxPause /\ expiry <= logoff[a] + MaxPause

\* The chain goes on. TLC finds this violated: if the client is quit before it has logged
\* in, the fiber is cancelled in waitForLogin() or WaitClient polls for a client that is not
\* launched again (MaintainBPE.cpp:124-133, 155-177); so is the program that has no record
\* to start with (MaintainBPE.cpp:215-218).
ChainGoesOn == bpePc \notin {"nothing", "lost"} /\ ~PollsForever

\* Only clients the chain has launched are quit by it, and none that stays logged in for
\* longer than maxPause. TLC finds this violated: the record of a client that stays logged
\* in is as old as its login (LoginTracking.cpp:125-131, MaintainBPE.cpp:84-89, 127).
OnlyOverdueAreQuit == \A a \in target : bpePc = "poll" => bpeRunning[a] # "on" \/ logoff[a] = day

=============================================================================
