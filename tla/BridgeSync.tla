------------------------------ MODULE BridgeSync -------------------------------
(***************************************************************************)
(* What wiloc-master expects of FreeRTOS: a queue of one item that wakes a *)
(* write task, and a mutex that write tasks wait for and the interrupt     *)
(* handler tries.  Every call takes effect at once, and a call that can    *)
(* succeed and stays so does.  Bridge uses it; RtosQueue implements it.    *)
(***************************************************************************)
CONSTANTS Writers, NoTask

VARIABLES
    item,       \* tx_queue holds an item
    owner,      \* who has ringbuf_mutex: a write task, "isr" or NoTask
    at          \* the call each write task is in, "none" when it does not exist

vars == <<item, owner, at>>

Init == item = FALSE /\ owner = NoTask /\ at = [w \in Writers |-> "none"]

Goes(w, a, b) == at[w] = a /\ at' = [at EXCEPT ![w] = b]

\* xQueueSendToBackFromISR: an item that finds the queue full is dropped.
Notify == item' = TRUE /\ UNCHANGED <<owner, at>>

\* xSemaphoreTakeFromISR and xSemaphoreGiveFromISR
IsrTake == owner = NoTask /\ owner' = "isr" /\ UNCHANGED <<item, at>>
IsrGive == owner = "isr" /\ owner' = NoTask /\ UNCHANGED <<item, at>>

Receive(w) == Goes(w, "recv", "take") /\ item /\ item' = FALSE /\ UNCHANGED owner

Take(w) == Goes(w, "take", "copy") /\ owner = NoTask /\ owner' = w /\ UNCHANGED item

Give(w) == Goes(w, "copy", "write") /\ owner = w /\ owner' = NoTask /\ UNCHANGED item

\* xTaskCreate, the end of a write, and vTaskDelete after a failed one
Create(w) == Goes(w, "none", "recv") /\ UNCHANGED <<item, owner>>
Again(w)  == Goes(w, "write", "recv") /\ UNCHANGED <<item, owner>>
Delete(w) == Goes(w, "write", "none") /\ UNCHANGED <<item, owner>>

Next ==
    \/ Notify \/ IsrTake \/ IsrGive
    \/ \E w \in Writers :
        \/ Receive(w) \/ Take(w) \/ Give(w)
        \/ Create(w) \/ Again(w) \/ Delete(w)

Spec == Init /\ [][Next]_vars

Fairness == \A w \in Writers : WF_vars(Receive(w) \/ Take(w))

FairSpec == Spec /\ Fairness

===============================================================================
