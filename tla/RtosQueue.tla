------------------------------ MODULE RtosQueue --------------------------------
(***************************************************************************)
(* The queue and the mutex of wiloc-master inside FreeRTOS 7.5.2:          *)
(* third_party/freertos/queue.c with the scheduler calls it makes          *)
(* (tasks.c), compiled as FreeRTOSConfig.h says, under the calls that      *)
(* write_task and uart_rx make.                                            *)
(*                                                                         *)
(* One core.  A step is what runs with interrupts masked: a critical       *)
(* section, a call from the interrupt handler, or a statement that only a  *)
(* task with the scheduler suspended can disturb.  Between any two of them *)
(* an interrupt may come, and another task unless the scheduler is         *)
(* suspended.  The tasks have one priority: an unblocked task never        *)
(* displaces the running one, a mutex holder inherits nothing, and an      *)
(* event list is in order of arrival.  Every wait is for portMAX_DELAY and *)
(* every send for 0, so nobody is ever in xTasksWaitingToSend and no wait  *)
(* times out.                                                              *)
(***************************************************************************)
EXTENDS Integers, Sequences, Functions

CONSTANTS
    Tasks,      \* task slots for write_task
    NoTask,     \* NULL
    MaxLock     \* bound: takes by the handler while the mutex is locked

ASSUME MaxLockAssumption == MaxLock \in Nat
ASSUME NamesAssumption == NoTask \notin Tasks /\ "isr" \notin Tasks /\ NoTask # "isr"

Queues == {"tx_queue", "ringbuf_mutex"}
UNLOCKED == -1
LOCKED_UNMODIFIED == 0

VARIABLES
    uxMessagesWaiting,          \* of each queue; uxLength is 1 for both
    pxMutexHolder,
    xRxLock, xTxLock,
    xTasksWaitingToReceive,
    ready,                      \* tasks in the ready list
    xPendingReadyList,
    suspender,                  \* who holds the scheduler suspended, or NoTask
    pc,                         \* the next step of each task
    on,                         \* the queue it calls
    isr                         \* the next call of the interrupt handler

queueVars == <<uxMessagesWaiting, pxMutexHolder, xRxLock, xTxLock>>
listVars  == <<xTasksWaitingToReceive, ready, xPendingReadyList>>
vars      == <<queueVars, listVars, suspender, pc, on, isr>>

\* After user_init: xQueueCreateMutex has given the mutex once.
Init ==
    /\ uxMessagesWaiting = [tx_queue |-> 0, ringbuf_mutex |-> 1]
    /\ pxMutexHolder = NoTask
    /\ xRxLock = [q \in Queues |-> UNLOCKED] /\ xTxLock = [q \in Queues |-> UNLOCKED]
    /\ xTasksWaitingToReceive = [q \in Queues |-> <<>>]
    /\ ready = {} /\ xPendingReadyList = {} /\ suspender = NoTask
    /\ pc = [t \in Tasks |-> "none"] /\ on = [t \in Tasks |-> "tx_queue"]
    /\ isr = "idle"

-------------------------------------------------------------------------------
(* The event lists.                                                        *)

\* The current task goes to the end of the list and out of the ready list.
vTaskPlaceOnEventList(q, t) ==
    /\ xTasksWaitingToReceive' = [xTasksWaitingToReceive EXCEPT ![q] = Append(@, t)]
    /\ ready' = ready \ {t}
    /\ UNCHANGED xPendingReadyList

\* k calls: the first k tasks leave the list, for the ready list or, while the
\* scheduler is suspended, for the list of those that will be ready.
xTaskRemoveFromEventList(q, k) ==
    LET woken == {xTasksWaitingToReceive[q][i] : i \in 1 .. k}
    IN  /\ xTasksWaitingToReceive' =
               [xTasksWaitingToReceive EXCEPT ![q] = SubSeq(@, k + 1, Len(@))]
        /\ IF suspender = NoTask
           THEN ready' = ready \cup woken /\ UNCHANGED xPendingReadyList
           ELSE xPendingReadyList' = xPendingReadyList \cup woken /\ UNCHANGED ready

\* Up to n receivers are woken, as many as there are.
Wake(q, n) ==
    xTaskRemoveFromEventList(q, IF n < Len(xTasksWaitingToReceive[q]) THEN n
                                ELSE Len(xTasksWaitingToReceive[q]))

-------------------------------------------------------------------------------
(* Calls from the interrupt handler.                                       *)

\* Returns whether there was an item.  A receiver from an interrupt is not
\* recorded as the holder of a mutex.
xQueueReceiveFromISR(q) ==
    /\ uxMessagesWaiting[q] > 0
    /\ uxMessagesWaiting' = [uxMessagesWaiting EXCEPT ![q] = @ - 1]
    /\ xRxLock' = IF xRxLock[q] = UNLOCKED THEN xRxLock
                  ELSE [xRxLock EXCEPT ![q] = @ + 1]
    /\ UNCHANGED <<pxMutexHolder, xTxLock>>

\* prvCopyDataToQueue: one more item; a mutex that is given has no holder.
prvCopyDataToQueue(q) ==
    /\ uxMessagesWaiting' = [uxMessagesWaiting EXCEPT ![q] = @ + 1]
    /\ pxMutexHolder' = IF q = "ringbuf_mutex" THEN NoTask ELSE pxMutexHolder

\* Mutant of RoomIn: one item too many is let in.
RoomInOneMore(q) == uxMessagesWaiting[q] <= 1

\* uxMessagesWaiting < uxLength
RoomIn(q) == uxMessagesWaiting[q] < 1

\* A full queue refuses the item.  A locked one leaves the event list alone and
\* counts what was sent.
xQueueGenericSendFromISR(q) ==
    IF RoomIn(q)
    THEN /\ prvCopyDataToQueue(q)
         /\ IF xTxLock[q] = UNLOCKED
            THEN Wake(q, 1) /\ UNCHANGED xTxLock
            ELSE xTxLock' = [xTxLock EXCEPT ![q] = @ + 1] /\ UNCHANGED listVars
         /\ UNCHANGED xRxLock
    ELSE UNCHANGED <<queueVars, listVars>>

\* uart_rx: take the mutex or not, fill a ring, give it back, notify.
IsrTake ==
    /\ isr = "idle"
    /\ xRxLock["ringbuf_mutex"] < MaxLock
    /\ xQueueReceiveFromISR("ringbuf_mutex")
    /\ isr' = "fill"
    /\ UNCHANGED <<listVars, suspender, pc, on>>

IsrRefused ==
    /\ isr = "idle"
    /\ ~(uxMessagesWaiting["ringbuf_mutex"] > 0)
    /\ isr' = "notify"
    /\ UNCHANGED <<queueVars, listVars, suspender, pc, on>>

IsrGive ==
    /\ isr = "fill"
    /\ xQueueGenericSendFromISR("ringbuf_mutex")
    /\ isr' = "notify"
    /\ UNCHANGED <<suspender, pc, on>>

IsrNotify ==
    /\ isr = "notify"
    /\ xQueueGenericSendFromISR("tx_queue")
    /\ isr' = "idle"
    /\ UNCHANGED <<suspender, pc, on>>

-------------------------------------------------------------------------------
(* xQueueGenericReceive with portMAX_DELAY, called by a task.              *)

\* t is the running task, and about to do step p.
Runs(t, p) ==
    /\ isr = "idle" /\ pc[t] = p
    /\ IF suspender = NoTask THEN t \in ready ELSE suspender = t

Goto(t, p) == pc' = [pc EXCEPT ![t] = p]

\* The first critical section: take the item if there is one.  write_task then
\* goes on to take the mutex, or to copy the ring.
TryReceive(t) ==
    /\ Runs(t, "try")
    /\ uxMessagesWaiting[on[t]] > 0
    /\ uxMessagesWaiting' = [uxMessagesWaiting EXCEPT ![on[t]] = @ - 1]
    /\ IF on[t] = "ringbuf_mutex"
       THEN pxMutexHolder' = t /\ Goto(t, "copy") /\ UNCHANGED on
       ELSE on' = [on EXCEPT ![t] = "ringbuf_mutex"] /\ UNCHANGED <<pxMutexHolder, pc>>
    /\ UNCHANGED <<xRxLock, xTxLock, listVars, suspender, isr>>

FindEmpty(t) ==
    /\ Runs(t, "try")
    /\ uxMessagesWaiting[on[t]] = 0
    /\ Goto(t, "suspend")
    /\ UNCHANGED <<queueVars, listVars, suspender, on, isr>>

vTaskSuspendAll(t) ==
    /\ Runs(t, "suspend")
    /\ suspender' = t
    /\ Goto(t, "lock")
    /\ UNCHANGED <<queueVars, listVars, on, isr>>

prvLockQueue(t) ==
    /\ Runs(t, "lock")
    /\ xRxLock' = [xRxLock EXCEPT
            ![on[t]] = IF @ = UNLOCKED THEN LOCKED_UNMODIFIED ELSE @]
    /\ xTxLock' = [xTxLock EXCEPT
            ![on[t]] = IF @ = UNLOCKED THEN LOCKED_UNMODIFIED ELSE @]
    /\ Goto(t, "check")
    /\ UNCHANGED <<uxMessagesWaiting, pxMutexHolder, listVars, suspender, on, isr>>

\* Mutant of prvIsQueueEmpty: the queue is not looked at a second time.
IsQueueEmptyStill(q) == TRUE

prvIsQueueEmpty(q) == uxMessagesWaiting[q] = 0

\* An item that came since the first look is not slept on.
Check(t) ==
    /\ Runs(t, "check")
    /\ Goto(t, IF prvIsQueueEmpty(on[t]) THEN "place" ELSE "unlockTx")
    /\ UNCHANGED <<queueVars, listVars, suspender, on, isr>>

Place(t) ==
    /\ Runs(t, "place")
    /\ vTaskPlaceOnEventList(on[t], t)
    /\ Goto(t, "unlockTx")
    /\ UNCHANGED <<queueVars, suspender, on, isr>>

\* Mutant of UnlockTx: what was sent to the locked queue wakes nobody.
UnlockTxForgets(t) ==
    /\ Runs(t, "unlockTx")
    /\ xTxLock' = [xTxLock EXCEPT ![on[t]] = UNLOCKED]
    /\ Goto(t, "unlockRx")
    /\ UNCHANGED <<uxMessagesWaiting, pxMutexHolder, xRxLock, listVars, suspender,
                   on, isr>>

\* The first half of prvUnlockQueue: a receiver is woken for each item that was
\* sent meanwhile.
UnlockTx(t) ==
    /\ Runs(t, "unlockTx")
    /\ Wake(on[t], xTxLock[on[t]])
    /\ xTxLock' = [xTxLock EXCEPT ![on[t]] = UNLOCKED]
    /\ Goto(t, "unlockRx")
    /\ UNCHANGED <<uxMessagesWaiting, pxMutexHolder, xRxLock, suspender, on, isr>>

UnlockRx(t) ==
    /\ Runs(t, "unlockRx")
    /\ xRxLock' = [xRxLock EXCEPT ![on[t]] = UNLOCKED]
    /\ Goto(t, "resume")
    /\ UNCHANGED <<uxMessagesWaiting, pxMutexHolder, xTxLock, listVars, suspender,
                   on, isr>>

\* Mutant of xTaskResumeAll: tasks woken meanwhile stay in the pending list.
ResumeAllForgets(t) ==
    /\ Runs(t, "resume")
    /\ suspender' = NoTask
    /\ Goto(t, "try")
    /\ UNCHANGED <<queueVars, listVars, on, isr>>

\* The task looks at the queue again, at once or when it is next ready.
xTaskResumeAll(t) ==
    /\ Runs(t, "resume")
    /\ suspender' = NoTask
    /\ ready' = ready \cup xPendingReadyList /\ xPendingReadyList' = {}
    /\ Goto(t, "try")
    /\ UNCHANGED <<queueVars, xTasksWaitingToReceive, on, isr>>

xQueueGenericReceive(t) ==
    \/ TryReceive(t) \/ FindEmpty(t) \/ vTaskSuspendAll(t) \/ prvLockQueue(t)
    \/ Check(t) \/ Place(t) \/ UnlockTx(t) \/ UnlockRx(t) \/ xTaskResumeAll(t)

-------------------------------------------------------------------------------
(* The rest of write_task.                                                 *)

\* xSemaphoreGive is xQueueGenericSend with a block time of 0.
xQueueGenericSend(t) ==
    /\ Runs(t, "copy")
    /\ IF RoomIn("ringbuf_mutex")
       THEN prvCopyDataToQueue("ringbuf_mutex") /\ Wake("ringbuf_mutex", 1)
       ELSE UNCHANGED <<uxMessagesWaiting, pxMutexHolder, listVars>>
    /\ Goto(t, "write")
    /\ UNCHANGED <<xRxLock, xTxLock, suspender, on, isr>>

WriteAgain(t) ==
    /\ Runs(t, "write")
    /\ Goto(t, "try") /\ on' = [on EXCEPT ![t] = "tx_queue"]
    /\ UNCHANGED <<queueVars, listVars, suspender, isr>>

\* write() failed; a task that deletes itself is in no event list.
vTaskDelete(t) ==
    /\ Runs(t, "write")
    /\ ready' = ready \ {t}
    /\ Goto(t, "none") /\ on' = [on EXCEPT ![t] = "tx_queue"]
    /\ UNCHANGED <<queueVars, xTasksWaitingToReceive, xPendingReadyList, suspender,
                   isr>>

\* xTaskCreate, called by main_task.
xTaskCreate(t) ==
    /\ isr = "idle" /\ suspender = NoTask
    /\ pc[t] = "none"
    /\ ready' = ready \cup {t}
    /\ Goto(t, "try")
    /\ UNCHANGED <<queueVars, xTasksWaitingToReceive, xPendingReadyList, suspender,
                   on, isr>>

IsrNext == IsrTake \/ IsrRefused \/ IsrGive \/ IsrNotify

TaskNext(t) ==
    \/ xQueueGenericReceive(t) \/ xQueueGenericSend(t)
    \/ WriteAgain(t) \/ vTaskDelete(t) \/ xTaskCreate(t)

Next == IsrNext \/ \E t \in Tasks : TaskNext(t)

Spec == Init /\ [][Next]_vars

\* The handler runs to its end, and tasks of one priority share the processor
\* (xTaskIncrementTick, also for the ticks that xTaskResumeAll catches up with).
Fairness ==
    /\ WF_vars(IsrGive \/ IsrNotify)
    /\ \A t \in Tasks : SF_vars(xQueueGenericReceive(t) \/ xQueueGenericSend(t))

FairSpec == Spec /\ Fairness

-------------------------------------------------------------------------------
Slow == {"lock", "check", "place", "unlockTx", "unlockRx", "resume"}

\* In particular a queue of length one never holds two items, and a lock count
\* never falls below "unlocked".
TypeOK ==
    /\ uxMessagesWaiting \in [Queues -> 0 .. 1]
    /\ pxMutexHolder \in Tasks \cup {NoTask}
    /\ xRxLock \in [Queues -> Nat \cup {UNLOCKED}]
    /\ xTxLock \in [Queues -> Nat \cup {UNLOCKED}]
    /\ xTasksWaitingToReceive \in [Queues -> Seq(Tasks)]
    /\ ready \subseteq Tasks /\ xPendingReadyList \subseteq Tasks
    /\ suspender \in Tasks \cup {NoTask}
    /\ pc \in [Tasks -> {"none", "try", "suspend", "copy", "write"} \cup Slow]
    /\ on \in [Tasks -> Queues]
    /\ isr \in {"idle", "fill", "notify"}

Sleepers(q) == Range(xTasksWaitingToReceive[q])

\* No task is asleep beside an item: when one waits for a queue that has one and
\* is not locked, another is awake and has yet to look at the queue again.  The
\* handler may send between the first look and vTaskPlaceOnEventList, and tasks
\* are woken while the scheduler cannot run them (queue.c:1065-1182, 1484-1534).
NoSleeperBesideItem ==
    \A q \in Queues :
        (/\ uxMessagesWaiting[q] > 0
         /\ Sleepers(q) # {}
         /\ xTxLock[q] = UNLOCKED)
        => \E t \in (ready \cup xPendingReadyList) \ Sleepers(q) :
               on[t] = q /\ pc[t] \in {"try", "unlockRx", "resume"}

\* A task is in exactly one list: ready, pending or waiting for one queue; while
\* it puts itself to sleep it may already have been woken.  Nothing that was
\* woken is forgotten (tasks.c:1357-1422, 1882-2024).
EachTaskInOneList ==
    \A t \in Tasks :
        LET lists == {l \in {"ready", "pending"} \cup Queues :
                        \/ l = "ready" /\ t \in ready
                        \/ l = "pending" /\ t \in xPendingReadyList
                        \/ l \in Queues /\ t \in Sleepers(l)}
        IN  /\ \A l, k \in lists : l = k
            /\ lists = {} <=> pc[t] = "none"
            /\ (xPendingReadyList # {} => suspender # NoTask)
            /\ \A q \in Queues : t \in Sleepers(q) => on[t] = q

\* What the kernel's state amounts to: the refinement mapping.
item  == uxMessagesWaiting["tx_queue"] > 0
owner == IF isr = "fill" THEN "isr" ELSE pxMutexHolder
place(p, q) == IF p \in {"none", "copy", "write"} THEN p
               ELSE IF q = "tx_queue" THEN "recv" ELSE "take"
at    == [t \in Tasks |-> place(pc[t], on[t])]

Sync == INSTANCE BridgeSync WITH Writers <- Tasks

\* The kernel's lists, locks and second looks amount to a queue and a mutex whose
\* calls take effect at once, are never granted to two, and succeed whenever they
\* can for long enough: what Bridge is written with.
ImplementsSync == Sync!FairSpec

================================================================================
