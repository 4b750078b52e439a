--------------------------- MODULE UserInterface ----------------------------
(***************************************************************************)
(* The thread of the user interface (UI::Thread): clients queue texts and  *)
(* prompts for it, the UI of the application (external) posts functions to *)
(* the front of the queue, and the thread that handles SIGINT ends it.     *)
(*                                                                         *)
(* A text is its number. What the user enters is empty, a Steam guard code *)
(* or something else. One step is a section under the thread's mutex or an *)
(* item of the queue; enqueue() notifies after every change.               *)
(***************************************************************************)
EXTENDS Naturals, Sequences

CONSTANTS
    Speakers,  \* threads that use UI::Thread
    Asks,      \* Asks[s]: the PasswordType of the prompt of s
    MaxTexts   \* bounds on the texts of the speakers

UiAssumption ==
    /\ Asks \in [Speakers -> {"AccountPassword", "SteamGuard_EMail", "SteamGuard_App"}]
    /\ MaxTexts \in [Speakers -> Nat]
    /\ "nobody" \notin Speakers

VARIABLES
    uiState,   \* Thread: "starting" before create(), "idle" in dequeue(), "ended" with didQuit
    uiQueue,   \* Thread::queue
    uiQuit,    \* Thread::quit(): "no", "told" after ui->quit(), "posted"
    uiWait,    \* Thread::wait() has returned
    said,      \* texts each speaker has queued
    uiShown,   \* texts the UI was given
    asker,     \* "no", "waiting" or "left": what s does about its prompt
    prompt,    \* the waiter item of s: where the UI has it
    canCancel, \* those with a cancelFunction
    answer     \* WaiterBase's result, "none" while !resultAvailable

uiVars == <<uiState, uiQueue, uiQuit, uiWait, said, uiShown, asker, prompt, canCancel, answer>>
promptVars == <<asker, prompt, canCancel, answer>>

Text(s, n) == [kind |-> "text", by |-> s, no |-> n]
Prompt(s) == [kind |-> "prompt", by |-> s, no |-> 0]
Function(s) == [kind |-> "function", by |-> s, no |-> 0]
Null == [kind |-> "nullptr", by |-> "nobody", no |-> 0]

Inputs == {"empty", "code", "words"}

\* PasswordValidator(), SteamGuardValidator().
Validator(passwordType) ==
    IF passwordType = "AccountPassword" THEN Inputs \ {"empty"} ELSE {"code"}

\* Thread::enqueue().
Enqueue(item, front) == uiQueue' = IF front THEN <<item>> \o uiQueue ELSE Append(uiQueue, item)

\* The thread is made by the first call of Thread::get().
UiInit ==
    /\ uiState = "starting" /\ uiQueue = << >> /\ uiQuit = "no" /\ uiWait = FALSE
    /\ said = [s \in Speakers |-> 0] /\ uiShown = << >>
    /\ asker = [s \in Speakers |-> "no"] /\ prompt = [s \in Speakers |-> "none"]
    /\ canCancel = {} /\ answer = [s \in Speakers |-> "none"]

----------------------------------------------------------------------------
\* outputText().
OutputText(s) ==
    /\ said[s] < MaxTexts[s]
    /\ said' = [said EXCEPT ![s] = @ + 1]
    /\ Enqueue(Text(s, said'[s]), FALSE)
    /\ UNCHANGED <<uiState, uiQuit, uiWait, uiShown, promptVars>>

\* requestPassword(): the caller has a waiter item, and the queue the other end of it.
RequestPassword(s) ==
    /\ asker[s] = "no"
    /\ asker' = [asker EXCEPT ![s] = "waiting"] /\ prompt' = [prompt EXCEPT ![s] = "queued"]
    /\ Enqueue(Prompt(s), FALSE)
    /\ UNCHANGED <<uiState, uiQuit, uiWait, said, uiShown, canCancel, answer>>

\* WaiterBase::cancel(): the UI takes the prompt away if it has said how; a prompt it has
\* not seen yet stays in the queue.
Cancel(s) ==
    /\ asker[s] = "waiting" /\ answer[s] = "none"
    /\ asker' = [asker EXCEPT ![s] = "left"]
    /\ IF s \in canCancel THEN prompt' = [prompt EXCEPT ![s] = "withdrawn"] ELSE UNCHANGED prompt
    /\ canCancel' = canCancel \ {s}
    /\ UNCHANGED <<uiState, uiQueue, uiQuit, uiWait, said, uiShown, answer>>

----------------------------------------------------------------------------
\* The lambda of Thread's constructor makes the UI before it looks at the queue.
Start ==
    /\ uiState = "starting" /\ uiState' = "idle"
    /\ UNCHANGED <<uiQueue, uiQuit, uiWait, said, uiShown, promptVars>>

\* dequeue() returns an item.
Dequeue(kind) ==
    /\ uiState = "idle" /\ uiQueue # << >> /\ Head(uiQueue).kind = kind
    /\ uiQueue' = Tail(uiQueue)
    /\ UNCHANGED <<uiQuit, uiWait, said>>

ShowText ==
    /\ Dequeue("text") /\ uiShown' = Append(uiShown, Head(uiQueue))
    /\ UNCHANGED <<uiState, promptVars>>

\* ui->requestPassword(): the UI keeps the prompt, with a cancelFunction or without one.
ShowPrompt ==
    /\ Dequeue("prompt")
    /\ prompt' = [prompt EXCEPT ![Head(uiQueue).by] = "open"]
    /\ canCancel' \in {canCancel, canCancel \cup {Head(uiQueue).by}}
    /\ UNCHANGED <<uiState, uiShown, asker, answer>>

\* The user has entered something the validator accepts; a thread of the UI posts the
\* function that completes the prompt (executeOnThread()).
ExecuteOnThread(s) ==
    /\ prompt[s] = "open"
    /\ prompt' = [prompt EXCEPT ![s] = "entered"]
    /\ Enqueue(Function(s), TRUE)
    /\ UNCHANGED <<uiState, uiQuit, uiWait, said, uiShown, asker, canCancel, answer>>

\* The function runs, and completes the prompt if it is still there: clearCancel() and
\* completed(), which wakes the waiter.
Completed(value) ==
    LET s == Head(uiQueue).by
    IN /\ Dequeue("function")
       /\ IF prompt[s] = "entered"
          THEN /\ value \in Validator(Asks[s])
               /\ answer' = [answer EXCEPT ![s] = value] /\ prompt' = [prompt EXCEPT ![s] = "completed"]
               /\ canCancel' = canCancel \ {s}
          ELSE UNCHANGED <<answer, prompt, canCancel>>
       /\ UNCHANGED <<uiState, uiShown, asker>>

\* A null item ends the thread: whatever else is in the queue stays there.
End ==
    /\ Dequeue("nullptr") /\ uiState' = "ended"
    /\ UNCHANGED <<uiShown, promptVars>>

\* Thread::quit(): ui->quit() if there is a UI already, and a null item in front of all
\* others.
TellUi ==
    /\ uiQuit = "no" /\ uiQuit' = "told"
    /\ UNCHANGED <<uiState, uiQueue, uiWait, said, uiShown, promptVars>>

PostQuit ==
    /\ uiQuit = "told" /\ uiQuit' = "posted"
    /\ Enqueue(Null, TRUE)
    /\ UNCHANGED <<uiState, uiWait, said, uiShown, promptVars>>

\* Thread::wait() returns.
Wait ==
    /\ uiState = "ended" /\ ~uiWait /\ uiWait' = TRUE
    /\ UNCHANGED <<uiState, uiQueue, uiQuit, said, uiShown, promptVars>>

UiNext ==
    \/ \E s \in Speakers : OutputText(s) \/ RequestPassword(s) \/ Cancel(s) \/ ExecuteOnThread(s)
    \/ \E value \in Inputs : Completed(value)
    \/ Start \/ ShowText \/ ShowPrompt \/ End \/ TellUi \/ PostQuit \/ Wait

UiSpec == UiInit /\ [][UiNext]_uiVars

----------------------------------------------------------------------------
\* Type invariant.
UiTypeOK ==
    /\ uiState \in {"starting", "idle", "ended"} /\ uiQuit \in {"no", "told", "posted"}
    /\ \A s \in Speakers :
          /\ said[s] \in 0..MaxTexts[s] /\ answer[s] \in Inputs \cup {"none"}
          /\ prompt[s] \in {"none", "queued", "open", "entered", "completed", "withdrawn"}

\* The texts of a speaker are shown in the order they were said, none is skipped, and as
\* long as the thread runs those not shown are in the queue, in order, whatever is posted
\* in front of them (UI.cpp:50-53, 193-207, 229-239).
TextsInOrder ==
    \A s \in Speakers :
        LET items == uiShown \o uiQueue
            places == {i \in DOMAIN items : items[i].kind = "text" /\ items[i].by = s}
        IN /\ {items[i] : i \in places} = {Text(s, n) : n \in 1..said[s]}
           /\ \A i, j \in places : i < j => items[i].no < items[j].no

\* A prompt somebody waits for is in the queue or with the UI, or answered: it can still
\* be answered until the thread ends, and is answered once, with what its type asks for
\* (UI.cpp:72-123, 268-292).
PromptsAreServed ==
    \A s \in Speakers :
        LET places == {i \in DOMAIN uiQueue : uiQueue[i].kind # "text" /\ uiQueue[i].by = s}
        IN /\ prompt[s] = "queued" => \E i \in places : places = {i} /\ uiQueue[i] = Prompt(s)
           /\ prompt[s] = "entered" => \E i \in places : places = {i} /\ uiQueue[i] = Function(s)
           /\ prompt[s] \notin {"queued", "entered", "withdrawn"} => places = {}
           /\ asker[s] = "waiting" => prompt[s] \notin {"none", "withdrawn"}
           /\ answer[s] # "none" <=> prompt[s] = "completed"
           /\ answer[s] # "none" => answer[s] \in Validator(Asks[s])

\* The thread ends because it was told to, and whoever waits for that waits long enough
\* (UI.cpp:153-172, 303-322).
EndsWhenTold == /\ uiState = "ended" => uiQuit = "posted"
                /\ uiWait => uiState = "ended"

\* What was said is shown before the thread ends. TLC finds this violated: quit() puts
\* its item in front of what is queued (UI.cpp:313).
EverythingIsShown == uiState = "ended" => uiQueue = << >>

\* A prompt nobody waits for is not shown to the user. TLC finds this violated: cancel()
\* does nothing as long as the prompt is in the queue (UI.cpp:116-123).
NobodyIsAskedInVain == \A s \in Speakers : asker[s] = "left" => prompt[s] # "open"

=============================================================================
