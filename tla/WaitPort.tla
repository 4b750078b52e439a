------------------------------ MODULE WaitPort ------------------------------
(***************************************************************************)
(* What a Waiter promises the fiber that owns it: wait() blocks until an   *)
(* attached item has something to report, until the optional deadline, or  *)
(* until cancel(), which makes it throw.  The predicate, the condition     *)
(* variable and the threads that set the items are hidden.                 *)
(***************************************************************************)
CONSTANT Items

VARIABLES attached,     \* the items the waiter still refers to
          woken,        \* what isWoken() of each item would answer
          cancelled,    \* WaiterBase::cancelled
          fiber         \* the fiber: "running", "waiting", "timed" or "thrown"

vars == <<attached, woken, cancelled, fiber>>

Waiting == fiber \in {"waiting", "timed"}

Woken == \E i \in attached : woken[i]

Init == /\ attached \in SUBSET Items
        /\ woken \in [Items -> BOOLEAN]
        /\ cancelled = FALSE
        /\ fiber = "running"

(* Between two waits the owner attaches, drops and empties items.          *)
Attach(i) == /\ fiber = "running"
             /\ attached' = attached \cup {i}
             /\ \E w \in BOOLEAN : woken' = [woken EXCEPT ![i] = w]
             /\ UNCHANGED <<cancelled, fiber>>

Detach(i) == /\ fiber = "running"
             /\ attached' = attached \ {i}
             /\ UNCHANGED <<woken, cancelled, fiber>>

Collect(i) == /\ fiber = "running"
              /\ woken' = [woken EXCEPT ![i] = FALSE]
              /\ UNCHANGED <<attached, cancelled, fiber>>

(* Anybody may give an item something to report, at any time.              *)
Report(i) == /\ woken' = [woken EXCEPT ![i] = TRUE]
             /\ UNCHANGED <<attached, cancelled, fiber>>

Cancel == /\ cancelled' = TRUE
          /\ UNCHANGED <<attached, woken, fiber>>

Wait(how) == /\ fiber = "running"
             /\ fiber' = how
             /\ UNCHANGED <<attached, woken, cancelled>>

(* An untimed wait returns only with a reason; a timed one also when its   *)
(* deadline has passed.                                                    *)
Return == /\ \/ Waiting /\ Woken
             \/ fiber = "timed"
          /\ ~cancelled
          /\ fiber' = "running"
          /\ UNCHANGED <<attached, woken, cancelled>>

Throw == /\ Waiting
         /\ cancelled
         /\ fiber' = "thrown"
         /\ UNCHANGED <<attached, woken, cancelled>>

Next == \/ \E i \in Items : Attach(i) \/ Detach(i) \/ Collect(i) \/ Report(i)
        \/ Cancel
        \/ \E how \in {"waiting", "timed"} : Wait(how)
        \/ Return
        \/ Throw

Spec == Init /\ [][Next]_vars

(* A wait that has a reason to end ends.                                   *)
FairSpec == Spec /\ WF_vars(Return) /\ WF_vars(Throw)
=============================================================================
