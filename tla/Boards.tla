------------------------------- MODULE Boards -------------------------------
(***************************************************************************)
(* The whiteboard and the messageboard of one client. A whiteboard has one *)
(* item per type; its waiter items have a "changed" flag. A messageboard   *)
(* keeps no message: it appends each to the queue of every waiter item of  *)
(* its type. Both know their items by weak pointers and drop the expired   *)
(* ones whenever they go through the list.                                 *)
(*                                                                         *)
(* Only the client's fibers use the boards, one at a time. A fiber sleeps  *)
(* in Waiter::wait() (module Waiter) and gets up when an item of it calls  *)
(* wakeup(). Values are numbers that are never used twice, messages too.   *)
(***************************************************************************)
EXTENDS Naturals, Sequences, FiniteSets, SequencesExt

CONSTANTS
    BoardFibers,     \* fibers that own waiter items
    Types,      \* types on the whiteboard
    Sent,       \* types on the messageboard
    MaxValues,  \* bound on set()
    MaxBoardMessages \* bound on send()

BoardAssumption ==
    /\ MaxValues \in Nat /\ MaxBoardMessages \in Nat
    /\ Types \cap Sent = {} \* two boards: a key tells which one it belongs to

BoardTypes == Types \cup Sent

VARIABLES
    value,     \* value[t]: what the whiteboard holds, 0 if there is no item
    values,    \* values set so far
    boardMessages,  \* boardMessages[t]: messages of the type sent so far, in order
    alive,     \* alive[k]: fibers that own an item for k
    listed,    \* listed[k]: the weak pointers in waiters[k]; {} means no entry
    boardChanged,   \* boardChanged[t]: the fibers whose hasChanged is set
    boardSeen,      \* boardSeen[t][f]: the value f's item has given it last
    queue,     \* queue[t][f]: the messages in f's item
    handled,   \* handled[t][f]: the messages f's item had and has no more
    since,     \* since[t][f]: messages that had been sent when f's item was made
    sleeping   \* fibers blocked in wait()

boardVars == <<value, values, boardMessages, alive, listed, boardChanged, boardSeen, queue,
               handled, since, sleeping>>

BoardInit ==
    /\ value = [t \in Types |-> 0] /\ values = 0
    /\ boardMessages = [t \in Sent |-> <<>>]
    /\ alive = [k \in BoardTypes |-> {}] /\ listed = [k \in BoardTypes |-> {}]
    /\ boardChanged = [t \in Types |-> {}]
    /\ boardSeen = [t \in Types |-> [f \in BoardFibers |-> 0]]
    /\ queue = [t \in Sent |-> [f \in BoardFibers |-> <<>>]]
    /\ handled = [t \in Sent |-> [f \in BoardFibers |-> <<>>]]
    /\ since = [t \in Sent |-> [f \in BoardFibers |-> 0]]
    /\ sleeping = {}

\* isWoken() of the items of a fiber.
WokenFiber(f) == \/ \E t \in Types : f \in boardChanged[t]
                 \/ \E t \in Sent : queue[t][f] # <<>>

\* action(): the callback reaches the items that are there, the rest is dropped.
Reached(k) == listed[k] \cap alive[k]
CleanUp(k) == listed' = [listed EXCEPT ![k] = Reached(k)]

----------------------------------------------------------------------------
\* A mutant: setChanged() wakes the fiber when the flag was set already.
DidChangeLate(t) ==
    /\ boardChanged' = [boardChanged EXCEPT ![t] = @ \cup Reached(t)]
    /\ sleeping' = sleeping \ (Reached(t) \cap boardChanged[t])
    /\ CleanUp(t)
    /\ UNCHANGED <<boardMessages, alive, boardSeen, queue, handled, since>>

\* set() and clear() end in didChange(): setChanged() sets the flag of every item,
\* and wakes the fiber if it was not set before.
DidChange(t) ==
    /\ boardChanged' = [boardChanged EXCEPT ![t] = @ \cup Reached(t)]
    /\ sleeping' = sleeping \ (Reached(t) \ boardChanged[t])
    /\ CleanUp(t)
    /\ UNCHANGED <<boardMessages, alive, boardSeen, queue, handled, since>>

SetValue(t) ==
    /\ values < MaxValues /\ values' = values + 1
    /\ value' = [value EXCEPT ![t] = values']
    /\ DidChange(t)

ClearValue(t) ==
    /\ value[t] # 0 /\ value' = [value EXCEPT ![t] = 0] /\ UNCHANGED values
    /\ DidChange(t)

\* createWaiter(): install() adds the item, which starts out changed if there is a
\* value for it.
CreateWhiteboardWaiter(t, f) ==
    /\ f \notin alive[t] /\ f \notin sleeping
    /\ alive' = [alive EXCEPT ![t] = @ \cup {f}]
    /\ listed' = [listed EXCEPT ![t] = @ \cup {f}]
    /\ boardChanged' = [boardChanged EXCEPT ![t] = IF value[t] # 0 THEN @ \cup {f} ELSE @]
    /\ boardSeen' = [boardSeen EXCEPT ![t][f] = 0]
    /\ UNCHANGED <<value, values, boardMessages, queue, handled, since, sleeping>>

CreateMessageWaiter(t, f) ==
    /\ f \notin alive[t] /\ f \notin sleeping
    /\ alive' = [alive EXCEPT ![t] = @ \cup {f}]
    /\ listed' = [listed EXCEPT ![t] = @ \cup {f}]
    /\ queue' = [queue EXCEPT ![t][f] = <<>>]
    /\ handled' = [handled EXCEPT ![t][f] = <<>>]
    /\ since' = [since EXCEPT ![t][f] = Len(boardMessages[t])]
    /\ UNCHANGED <<value, values, boardMessages, boardChanged, boardSeen, sleeping>>

\* The item's has() and get() reset the flag and read the board.
Has(t, f) ==
    /\ f \in alive[t] /\ f \notin sleeping /\ (f \in boardChanged[t] \/ boardSeen[t][f] # value[t])
    /\ boardChanged' = [boardChanged EXCEPT ![t] = @ \ {f}]
    /\ boardSeen' = [boardSeen EXCEPT ![t][f] = value[t]]
    /\ UNCHANGED <<value, values, boardMessages, alive, listed, queue, handled, since, sleeping>>

\* The last pointer to an item goes: its destructor lets the board clean up.
DestroyItem(k, f) ==
    /\ f \in alive[k] /\ f \notin sleeping
    /\ alive' = [alive EXCEPT ![k] = @ \ {f}]
    /\ listed' = [listed EXCEPT ![k] = @ \cap alive'[k]]
    /\ boardChanged' = [t \in Types |-> IF t = k THEN boardChanged[t] \ {f} ELSE boardChanged[t]]
    /\ queue' = [t \in Sent |-> IF t = k THEN [queue[t] EXCEPT ![f] = <<>>] ELSE queue[t]]
    /\ UNCHANGED <<value, values, boardMessages, boardSeen, handled, since, sleeping>>

----------------------------------------------------------------------------
\* send(): received() of every item appends the message and wakes the fiber.
Send(t) ==
    /\ Len(boardMessages[t]) < MaxBoardMessages
    /\ LET m == Len(boardMessages[t]) + 1
       IN /\ boardMessages' = [boardMessages EXCEPT ![t] = Append(@, m)]
          /\ queue' = [queue EXCEPT ![t] = [f \in BoardFibers |->
                          IF f \in Reached(t) THEN Append(@[f], m) ELSE @[f]]]
    /\ sleeping' = sleeping \ Reached(t)
    /\ CleanUp(t)
    /\ UNCHANGED <<value, values, alive, boardChanged, boardSeen, handled, since>>

\* fetch(), handle(handler, one) and discardMessages(): the first n messages go.
TakeMessages(t, f, n) ==
    /\ f \notin sleeping /\ n \in {1, Len(queue[t][f])} /\ queue[t][f] # <<>>
    /\ handled' = [handled EXCEPT ![t][f] = @ \o SubSeq(queue[t][f], 1, n)]
    /\ queue' = [queue EXCEPT ![t][f] = SubSeq(@, n + 1, Len(@))]
    /\ UNCHANGED <<value, values, boardMessages, alive, listed, boardChanged, boardSeen, since,
                   sleeping>>

\* Waiter::wait(): it blocks only if no item is woken.
WaitForItems(f) ==
    /\ f \notin sleeping /\ ~WokenFiber(f) /\ \E k \in BoardTypes : f \in alive[k]
    /\ sleeping' = sleeping \cup {f}
    /\ UNCHANGED <<value, values, boardMessages, alive, listed, boardChanged, boardSeen, queue,
                   handled, since>>

BoardNext ==
    \/ \E t \in Types : SetValue(t) \/ ClearValue(t)
    \/ \E t \in Types, f \in BoardFibers : CreateWhiteboardWaiter(t, f) \/ Has(t, f)
    \/ \E t \in Sent : Send(t)
    \/ \E t \in Sent, f \in BoardFibers :
          CreateMessageWaiter(t, f) \/ \E n \in 1..MaxBoardMessages : TakeMessages(t, f, n)
    \/ \E k \in BoardTypes, f \in BoardFibers : DestroyItem(k, f)
    \/ \E f \in BoardFibers : WaitForItems(f)

BoardSpec == BoardInit /\ [][BoardNext]_boardVars

----------------------------------------------------------------------------
\* Type invariant.
BoardTypeOK ==
    /\ value \in [Types -> 0..MaxValues] /\ values \in 0..MaxValues
    /\ alive \in [BoardTypes -> SUBSET BoardFibers] /\ listed \in [BoardTypes -> SUBSET BoardFibers]
    /\ boardChanged \in [Types -> SUBSET BoardFibers] /\ boardSeen \in [Types -> [BoardFibers -> 0..MaxValues]]
    /\ since \in [Sent -> [BoardFibers -> 0..MaxBoardMessages]] /\ sleeping \subseteq BoardFibers

\* Nobody misses a change: an item that is not marked as changed has shown its owner
\* the value the board holds now, and nobody sleeps over a marked one or over a
\* message (Whiteboard.hpp:160-215, Whiteboard.cpp:43-62).
NoChangeMissed ==
    /\ \A t \in Types : \A f \in alive[t] \ boardChanged[t] : boardSeen[t][f] = value[t]
    /\ \A f \in sleeping : ~WokenFiber(f)

\* Every item gets every message sent since it was made, once and in the order they
\* were sent (Messageboard.hpp:120-211).
NoMessageMissed ==
    \A t \in Sent : \A f \in alive[t] :
        handled[t][f] \o queue[t][f] = SubSeq(boardMessages[t], since[t][f] + 1, Len(boardMessages[t]))

\* The boards list no item that is gone when its client ends: the destructors assert
\* that the map of waiters is empty then (Whiteboard.cpp:70-73, Messageboard.cpp:29-32).
NoItemLeftListed == \A k \in BoardTypes : alive[k] = {} => listed[k] = {}

=============================================================================
