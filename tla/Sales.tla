-------------------------------- MODULE Sales -------------------------------
(***************************************************************************)
(* The sale functions of one client, called from several of its fibers:    *)
(* SaleQueue::clear() asks whether there are cards left and clears         *)
(* discovery queues until there are none; DiscoveryQueue::clear() has a    *)
(* queue generated and clears its apps one by one; SaleSticker::claim()    *)
(* asks and claims, and leaves the outcome on the whiteboard. Each is      *)
(* guarded by a mutex of its own: a second caller of the two clear()s does *)
(* nothing but wait for the outcome of the first.                          *)
(*                                                                         *)
(* A page or an answer is abstracted to what the code reads from it, and   *)
(* the server (external) chooses it. A fiber mutex is free once unlocked:  *)
(* the fibers it wakes compete for it with those that come later.          *)
(***************************************************************************)
EXTENDS Naturals, FiniteSets

CONSTANTS
    Callers,   \* fibers that call the functions
    QueueSize, \* bound on the apps of a discovery queue
    MaxErrors, \* SaleQueue.cpp's maxErrors
    MaxRounds  \* bound on the queues generated and on the claims

SaleAssumption ==
    QueueSize \in Nat /\ MaxErrors \in Nat \ {0} /\ MaxRounds \in Nat

VARIABLES
    saleAt,          \* saleAt[f]: where fiber f is
    saleLock,    \* who holds SaleQueue's mutex; {} when free
    queueLock,   \* who holds DiscoveryQueue's mutex
    stickerLock, \* who holds SaleSticker's mutex
    saleResult,  \* SaleQueue's lastResult
    queueResult, \* DiscoveryQueue's lastResult
    errors,      \* errorCount of the fiber that clears sale queues
    left,        \* apps left of the discovery queue that is being cleared
    rounds,      \* queues generated and claims made so far
    sticker,     \* the Status on the whiteboard, "none" if there is none
    outcome,     \* outcome[f]: what f's last call returned
    saleTrue,    \* how clears have ended since f began to wait: the results possible
    saleQuit     \* the client has called Cancel::cancel()

saleVars == <<saleAt, saleLock, queueLock, stickerLock, saleResult, queueResult, errors, left,
              rounds, sticker, outcome, saleTrue, saleQuit>>

SaleInit ==
    /\ saleAt = [f \in Callers |-> "idle"]
    /\ saleLock = {} /\ queueLock = {} /\ stickerLock = {}
    /\ saleResult = FALSE /\ queueResult = FALSE
    /\ errors = 0 /\ left = 0 /\ rounds = 0 /\ sticker = "none"
    /\ outcome = [f \in Callers |-> "none"] /\ saleTrue = [f \in Callers |-> {}]
    /\ saleQuit = FALSE

GoTo(f, place) == saleAt' = [saleAt EXCEPT ![f] = place]

\* Clears end, each with the place of those who wait for it and its result.
Ends(clears) ==
    saleTrue' = [g \in Callers |-> saleTrue[g] \cup {c.result : c \in {d \in clears : d.waiters = saleAt[g]}}]

----------------------------------------------------------------------------
\* SaleQueue::clear(): try_lock, or wait for the mutex.
CallSale(f) ==
    /\ saleAt[f] = "idle" /\ outcome[f] = "none" /\ ~saleQuit
    /\ IF saleLock = {}
       THEN GoTo(f, "hasCards") /\ saleLock' = {f} /\ errors' = 0 /\ UNCHANGED saleTrue
       ELSE GoTo(f, "saleWait") /\ saleTrue' = [saleTrue EXCEPT ![f] = {}]
            /\ UNCHANGED <<saleLock, errors>>
    /\ UNCHANGED <<queueLock, stickerLock, saleResult, queueResult, left, rounds, sticker,
                   outcome, saleQuit>>

\* The waiting fiber gets the mutex and returns lastResult.
SaleWaitOver(f) ==
    /\ saleAt[f] = "saleWait" /\ saleLock = {}
    /\ GoTo(f, "idle") /\ outcome' = [outcome EXCEPT ![f] = IF saleResult THEN "true" ELSE "false"]
    /\ UNCHANGED <<saleLock, queueLock, stickerLock, saleResult, queueResult, errors, left, rounds,
                   sticker, saleTrue, saleQuit>>

\* performClear() returns, and clear() with it.
SaleReturns(f, result, clears) ==
    /\ GoTo(f, "idle") /\ saleLock' = {} /\ saleResult' = result
    /\ outcome' = [outcome EXCEPT ![f] = IF result THEN "true" ELSE "false"]
    /\ Ends(clears \cup {[waiters |-> "saleWait", result |-> result]})

\* A mutant: one error too many.
SaleErrorLate(f, clears) ==
    IF errors >= MaxErrors THEN SaleReturns(f, FALSE, clears) /\ UNCHANGED errors
    ELSE /\ GoTo(f, "sleep") /\ errors' = errors + 1 /\ Ends(clears)
         /\ UNCHANGED <<saleLock, saleResult, outcome>>

\* An error: performClear() gives up after maxErrors of them, or sleeps.
SaleError(f, clears) ==
    IF errors + 1 >= MaxErrors THEN SaleReturns(f, FALSE, clears) /\ UNCHANGED errors
    ELSE /\ GoTo(f, "sleep") /\ errors' = errors + 1 /\ Ends(clears)
         /\ UNCHANGED <<saleLock, saleResult, outcome>>

\* hasSaleCards(): the page has another status than ok, says that there are no cards, or
\* some. An exception, of the query or the parser, ends performClear() at once.
PageSeen(f, state) ==
    /\ saleAt[f] = "hasCards"
    /\ CASE state = "Error" -> SaleError(f, {}) /\ UNCHANGED <<queueLock, left, rounds>>
         [] state \in {"NoCards", "exception"} ->
              SaleReturns(f, state = "NoCards", {}) /\ UNCHANGED <<errors, queueLock, left, rounds>>
         [] state = "HasCards" ->
              /\ IF queueLock = {}
                 THEN rounds < MaxRounds /\ rounds' = rounds + 1 /\ queueLock' = {f}
                      /\ GoTo(f, "generate")
                 ELSE GoTo(f, "queueWait") /\ UNCHANGED <<rounds, queueLock>>
              /\ saleTrue' = [saleTrue EXCEPT ![f] = {}]
              /\ UNCHANGED <<errors, left, saleLock, saleResult, outcome>>
    /\ UNCHANGED <<stickerLock, queueResult, sticker, saleQuit>>

\* The 30 seconds are over.
SaleSlept(f) ==
    /\ saleAt[f] = "sleep" /\ GoTo(f, "hasCards")
    /\ UNCHANGED <<saleLock, queueLock, stickerLock, saleResult, queueResult, errors, left, rounds,
                   sticker, outcome, saleTrue, saleQuit>>

----------------------------------------------------------------------------
\* A mutant: the mutex is not asked for.
CallQueueUnlocked(f) ==
    /\ saleAt[f] = "idle" /\ outcome[f] = "none" /\ ~saleQuit
    /\ rounds < MaxRounds /\ rounds' = rounds + 1 /\ queueLock' = {f} /\ GoTo(f, "generate")
    /\ UNCHANGED <<saleLock, stickerLock, saleResult, queueResult, errors, left, sticker,
                   outcome, saleTrue, saleQuit>>

\* DiscoveryQueue::clear(), called directly.
CallQueue(f) ==
    /\ saleAt[f] = "idle" /\ outcome[f] = "none" /\ ~saleQuit
    /\ IF queueLock = {}
       THEN rounds < MaxRounds /\ rounds' = rounds + 1 /\ queueLock' = {f} /\ GoTo(f, "generate")
            /\ UNCHANGED saleTrue
       ELSE GoTo(f, "queueWait") /\ saleTrue' = [saleTrue EXCEPT ![f] = {}]
            /\ UNCHANGED <<rounds, queueLock>>
    /\ UNCHANGED <<saleLock, stickerLock, saleResult, queueResult, errors, left, sticker,
                   outcome, saleQuit>>

\* What becomes of DiscoveryQueue::clear()'s result: performClear() of the sale queue
\* sleeps or counts an error, any other caller gets it.
QueueResultFor(f, result, clears) ==
    IF saleLock = {f}
    THEN IF result THEN /\ GoTo(f, "sleep") /\ Ends(clears)
                        /\ UNCHANGED <<errors, saleLock, saleResult, outcome>>
         ELSE SaleError(f, clears)
    ELSE /\ GoTo(f, "idle") /\ outcome' = [outcome EXCEPT ![f] = IF result THEN "true" ELSE "false"]
         /\ Ends(clears)
         /\ UNCHANGED <<errors, saleLock, saleResult>>

QueueWaitOver(f) ==
    /\ saleAt[f] = "queueWait" /\ queueLock = {}
    /\ QueueResultFor(f, queueResult, {})
    /\ UNCHANGED <<queueLock, stickerLock, queueResult, left, rounds, sticker, saleQuit>>

\* performClear() of the discovery queue returns: its mutex is free again.
QueueReturns(f, result) ==
    /\ queueLock' = {} /\ queueResult' = result
    /\ QueueResultFor(f, result, {[waiters |-> "queueWait", result |-> result]})

\* The answers to generatenewdiscoveryqueue and to the clearing of an app; anything
\* but OK, or data that does not parse, ends it. n is the size of the new queue.
Generated(f, ok, n) ==
    /\ saleAt[f] = "generate"
    /\ IF ok /\ n > 0 THEN GoTo(f, "clear") /\ left' = n
                           /\ UNCHANGED <<queueLock, queueResult, saleTrue, errors, saleLock,
                                          saleResult, outcome>>
       ELSE QueueReturns(f, ok) /\ left' = 0
    /\ UNCHANGED <<stickerLock, rounds, sticker, saleQuit>>

AppCleared(f, ok) ==
    /\ saleAt[f] = "clear"
    /\ IF ok /\ left > 1 THEN left' = left - 1
                              /\ UNCHANGED <<saleAt, queueLock, queueResult, saleTrue, errors,
                                             saleLock, saleResult, outcome>>
       ELSE QueueReturns(f, ok) /\ left' = 0
    /\ UNCHANGED <<stickerLock, rounds, sticker, saleQuit>>

----------------------------------------------------------------------------
\* SaleSticker::claim(): getAccessToken(), then CanClaimItem, then ClaimItem.
CallSticker(f) ==
    /\ saleAt[f] = "idle" /\ outcome[f] = "none" /\ ~saleQuit /\ rounds < MaxRounds
    /\ IF stickerLock = {} THEN stickerLock' = {f} /\ GoTo(f, "canClaim") /\ rounds' = rounds + 1
       ELSE GoTo(f, "stickerWait") /\ UNCHANGED <<stickerLock, rounds>>
    /\ UNCHANGED <<saleLock, queueLock, saleResult, queueResult, errors, left, sticker, outcome,
                   saleTrue, saleQuit>>

StickerWaitOver(f) ==
    /\ saleAt[f] = "stickerWait" /\ stickerLock = {}
    /\ stickerLock' = {f} /\ GoTo(f, "canClaim")
    /\ UNCHANGED <<saleLock, queueLock, saleResult, queueResult, errors, left, rounds, sticker,
                   outcome,
                   saleTrue, saleQuit>>

\* The Status goes to the whiteboard while the mutex is held, and the caller gets a
\* reference to that item.
Claimed(f, result) ==
    /\ sticker' = result /\ stickerLock' = {} /\ GoTo(f, "idle")
    /\ outcome' = [outcome EXCEPT ![f] = result]

ClaimAnswered(f, answer) ==
    /\ \/ saleAt[f] = "canClaim" /\ answer = "can" /\ GoTo(f, "claim")
          /\ UNCHANGED <<sticker, stickerLock, outcome>>
       \/ saleAt[f] = "canClaim" /\ answer \in {"AlreadyClaimed", "NoSale", "Error"} /\ Claimed(f, answer)
       \/ saleAt[f] = "claim" /\ answer \in {"Ok", "Error"} /\ Claimed(f, answer)
    /\ UNCHANGED <<saleLock, queueLock, saleResult, queueResult, errors, left, rounds, saleTrue,
                   saleQuit>>

\* The client quits. Each wait for an answer throws: the clear()s catch everything and
\* carry on as after an error, claim() passes the exception on. Blocked on a mutex, a
\* fiber does not notice, and the waits that follow are not cancelled any more; a sleep
\* inside SaleQueue's performClear() is caught there, too.
SaleQuit ==
    /\ ~saleQuit /\ saleQuit' = TRUE
    /\ LET queueEnds == {f \in queueLock : saleAt[f] \in {"generate", "clear"}}
           saleEnds == {f \in saleLock : saleAt[f] \in {"hasCards", "sleep"}}
           claimEnds == {f \in stickerLock : saleAt[f] \in {"canClaim", "claim"}}
           goesOn == IF errors + 1 < MaxErrors THEN queueEnds \cap saleLock ELSE {}
           saleOver == saleEnds \cup ((queueEnds \cap saleLock) \ goesOn)
       IN /\ saleAt' = [f \in Callers |-> IF f \in goesOn THEN "sleep"
                        ELSE IF f \in saleOver \cup queueEnds \cup claimEnds THEN "idle" ELSE saleAt[f]]
          /\ outcome' = [f \in Callers |-> IF f \in claimEnds THEN "cancelled"
                            ELSE IF f \in (saleOver \cup queueEnds) \ goesOn THEN "false" ELSE outcome[f]]
          /\ queueLock' = queueLock \ queueEnds /\ saleLock' = saleLock \ saleOver
          /\ stickerLock' = stickerLock \ claimEnds
          /\ queueResult' = (queueResult /\ queueEnds = {})
          /\ saleResult' = (saleResult /\ saleOver = {})
          /\ errors' = errors + Cardinality(goesOn)
          /\ Ends({[waiters |-> "queueWait", result |-> FALSE] : f \in queueEnds}
                  \cup {[waiters |-> "saleWait", result |-> FALSE] : f \in saleOver})
    /\ left' = 0
    /\ UNCHANGED <<rounds, sticker>>

\* The caller is done with what it got.
Consume(f) ==
    /\ saleAt[f] = "idle" /\ outcome[f] # "none" /\ outcome' = [outcome EXCEPT ![f] = "none"]
    /\ saleTrue' = [saleTrue EXCEPT ![f] = {}]
    /\ UNCHANGED <<saleAt, saleLock, queueLock, stickerLock, saleResult, queueResult, errors,
                   left, rounds,
                   sticker, saleQuit>>

\* After the quit WebSession is gone: no answer comes any more.
SaleNext ==
    \/ \E f \in Callers : CallSale(f) \/ SaleWaitOver(f) \/ SaleSlept(f) \/ CallQueue(f)
          \/ QueueWaitOver(f) \/ CallSticker(f) \/ StickerWaitOver(f) \/ Consume(f)
    \/ \E f \in Callers, state \in {"Error", "exception", "NoCards", "HasCards"} :
          ~saleQuit /\ PageSeen(f, state)
    \/ \E f \in Callers, ok \in BOOLEAN, n \in 0..QueueSize : ~saleQuit /\ Generated(f, ok, n)
    \/ \E f \in Callers, ok \in BOOLEAN : ~saleQuit /\ AppCleared(f, ok)
    \/ \E f \in Callers, answer \in {"can", "Ok", "AlreadyClaimed", "NoSale", "Error"} :
          ~saleQuit /\ ClaimAnswered(f, answer)
    \/ SaleQuit

SaleSpec == SaleInit /\ [][SaleNext]_saleVars

----------------------------------------------------------------------------
\* Type invariant.
SaleTypeOK ==
    /\ saleAt \in [Callers -> {"idle", "saleWait", "hasCards", "sleep", "queueWait", "generate", "clear",
                           "stickerWait", "canClaim", "claim"}]
    /\ \A l \in {saleLock, queueLock, stickerLock} : l \subseteq Callers /\ Cardinality(l) <= 1
    /\ errors \in 0..(MaxErrors - 1) /\ left \in 0..QueueSize /\ rounds \in 0..MaxRounds

\* One fiber at a time works on each of the three, and its mutex says which.
OneWorkerEach ==
    /\ \A f \in Callers : saleAt[f] \in {"generate", "clear"} <=> queueLock = {f}
    /\ \A f \in Callers : saleAt[f] \in {"canClaim", "claim"} <=> stickerLock = {f}
    /\ \A f \in Callers : saleAt[f] \in {"hasCards", "sleep"} => saleLock = {f}

\* What a fiber that only waited is given is the result of a clear that ended after it
\* began to wait, never one from before (SaleQueue.cpp:166-179, DiscoveryQueue.cpp:166-178).
WaitersGetFreshResults ==
    \A f \in Callers :
        /\ saleAt[f] = "saleWait" /\ saleLock = {} => saleResult \in saleTrue[f]
        /\ saleAt[f] = "queueWait" /\ queueLock = {} => queueResult \in saleTrue[f]

\* A client that has quit is left by its fibers: none waits for an answer that nobody
\* will send (Client/Cancel.hpp:39-41: all cancels lead to the owning fiber to exit).
\* It does not hold: DiscoveryQueue::clear() swallows the cancellation, and the sale
\* queue sleeps and asks for its page again.
NobodyAsksAfterQuit ==
    saleQuit => \A f \in Callers : saleAt[f] \notin {"hasCards", "generate", "clear", "canClaim", "claim"}

=============================================================================
