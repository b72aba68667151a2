--------------------------- MODULE RtosQueueProofs ----------------------------
(***************************************************************************)
(* What is proved of the kernel's queue and mutex, for any number of write *)
(* tasks and any count of sends to a locked queue: no task sleeps beside   *)
(* an item, no task is forgotten, and the calls implement BridgeSync.      *)
(***************************************************************************)
EXTENDS RtosQueue, SequenceTheorems, TLAPS

NoDuplicates(s) == \A i, j \in 1 .. Len(s) : s[i] = s[j] => i = j

\* The first k entries of a list leave it, and only those.
LEMMA DropFirst ==
    ASSUME NEW S, NEW s \in Seq(S), NoDuplicates(s), NEW k \in 0 .. Len(s)
    PROVE  /\ SubSeq(s, k + 1, Len(s)) \in Seq(S)
           /\ NoDuplicates(SubSeq(s, k + 1, Len(s)))
           /\ Range(SubSeq(s, k + 1, Len(s))) = Range(s) \ {s[i] : i \in 1 .. k}
           /\ {s[i] : i \in 1 .. k} \subseteq Range(s)
           /\ k > 0 => {s[i] : i \in 1 .. k} # {}
<1>. DEFINE r == SubSeq(s, k + 1, Len(s))
            gone == {s[i] : i \in 1 .. k}
<1>1. /\ Len(s) \in Nat /\ s \in [1 .. Len(s) -> S]
  BY LenProperties
<1>2. /\ r \in Seq(S)
      /\ Len(r) = Len(s) - k
      /\ \A i \in 1 .. Len(r) : r[i] = s[k + i]
  <2>1. \A i \in k + 1 .. Len(s) : s[i] \in S
    BY <1>1
  <2>2. /\ r \in Seq(S)
        /\ Len(r) = IF k + 1 <= Len(s) THEN Len(s) - (k + 1) + 1 ELSE 0
        /\ \A i \in 1 .. Len(s) - (k + 1) + 1 : r[i] = s[k + 1 + i - 1]
    BY <1>1, <2>1, SubSeqProperties, SMTT(30)
  <2>. HIDE DEF r
  <2>3. Len(r) = Len(s) - k
    <3>1. Len(r) = IF k + 1 <= Len(s) THEN Len(s) - (k + 1) + 1 ELSE 0
      BY <2>2
    <3>2. Len(s) \in Nat /\ k \in Int
      BY <1>1
    <3>. QED
      BY <3>1, <3>2
  <2>4. ASSUME NEW i \in 1 .. Len(r) PROVE r[i] = s[k + i]
    <3>1. i \in 1 .. Len(s) - (k + 1) + 1 /\ k + 1 + i - 1 = k + i
      BY <1>1, <2>3
    <3>. QED
      BY <2>2, <3>1
  <2>. QED
    BY <2>2, <2>3, <2>4
<1>3. Range(s) = {s[i] : i \in 1 .. Len(s)} /\ Range(r) = {r[i] : i \in 1 .. Len(r)}
  BY <1>2, RangeEquality
<1>. HIDE DEF r
<1>4. NoDuplicates(r)
  BY <1>1, <1>2 DEF NoDuplicates
<1>5. ASSUME NEW x PROVE x \in Range(r) <=> x \in Range(s) \ gone
  <2>1. ASSUME x \in Range(r) PROVE x \in Range(s) \ gone
    <3>1. PICK i \in 1 .. Len(r) : x = s[k + i] /\ k + i \in 1 .. Len(s)
      BY <1>1, <1>2, <1>3, <2>1, SMTT(30)
    <3>2. \A j \in 1 .. k : s[j] # x
      BY <1>1, <3>1 DEF NoDuplicates
    <3>. QED
      BY <1>3, <3>1, <3>2
  <2>2. ASSUME x \in Range(s) \ gone PROVE x \in Range(r)
    <3>1. PICK i \in 1 .. Len(s) : x = s[i]
      BY <1>3, <2>2
    <3>2. i - k \in 1 .. Len(r) /\ r[i - k] = s[i]
      BY <1>1, <1>2, <2>2, <3>1
    <3>. QED
      BY <1>3, <3>1, <3>2
  <2>. QED
    BY <2>1, <2>2
<1>6. gone \subseteq Range(s)
  BY <1>1, <1>3
<1>7. k > 0 => gone # {}
  BY <1>1
<1>. QED
  BY <1>2, <1>4, <1>5, <1>6, <1>7 DEF r

\* One more entry at the end of a list.
LEMMA AppendOne ==
    ASSUME NEW S, NEW s \in Seq(S), NoDuplicates(s), NEW x \in S, x \notin Range(s)
    PROVE  /\ Append(s, x) \in Seq(S)
           /\ NoDuplicates(Append(s, x))
           /\ Range(Append(s, x)) = Range(s) \cup {x}
<1>1. /\ Append(s, x) \in Seq(S) /\ Len(Append(s, x)) = Len(s) + 1
      /\ \A i \in 1 .. Len(s) : Append(s, x)[i] = s[i]
      /\ Append(s, x)[Len(s) + 1] = x
      /\ Len(s) \in Nat
  BY AppendProperties, LenProperties
<1>2. /\ Range(s) = {s[i] : i \in 1 .. Len(s)}
      /\ Range(Append(s, x)) = {Append(s, x)[i] : i \in 1 .. Len(s) + 1}
  BY <1>1, RangeEquality
<1>3. \A i \in 1 .. Len(s) : s[i] # x
  BY <1>2
<1>4. \A i \in 1 .. Len(s) + 1 : i \in 1 .. Len(s) \/ i = Len(s) + 1
  BY <1>1
<1>5. NoDuplicates(Append(s, x))
  BY <1>1, <1>3, <1>4 DEF NoDuplicates
<1>6. Range(Append(s, x)) = Range(s) \cup {x}
  BY <1>1, <1>2, <1>4
<1>. QED
  BY <1>1, <1>5, <1>6

-------------------------------------------------------------------------------
(* Types, the suspended scheduler and the locks of the queues.             *)

\* The scheduler is suspended by the task that is between vTaskSuspendAll and
\* xTaskResumeAll, and by nobody else.
Suspension ==
    /\ \A t \in Tasks : pc[t] \in Slow <=> suspender = t
    /\ suspender = NoTask => xPendingReadyList = {}

\* A queue is locked exactly while a task is between prvLockQueue and
\* prvUnlockQueue on it.
Locks ==
    /\ \A t \in Tasks : pc[t] \in {"check", "place", "unlockTx"}
                         => xTxLock[on[t]] # UNLOCKED
    /\ \A q \in Queues : xTxLock[q] # UNLOCKED
                          => \E t \in Tasks : /\ on[t] = q
                                              /\ pc[t] \in {"check", "place", "unlockTx"}

LockInv == TypeOK /\ Suspension /\ Locks

\* A task outside the slow path runs only when the scheduler is not suspended.
LEMMA RunsFast ==
    ASSUME TypeOK, Suspension, NEW t \in Tasks, NEW p, p \notin Slow, Runs(t, p)
    PROVE  suspender = NoTask /\ t \in ready /\ pc[t] = p /\ isr = "idle"
  BY DEF TypeOK, Suspension, Runs

\* A task on the slow path is the one that suspended the scheduler.
LEMMA RunsSlow ==
    ASSUME TypeOK, Suspension, NEW t \in Tasks, NEW p \in Slow, Runs(t, p)
    PROVE  suspender = t /\ suspender # NoTask /\ pc[t] = p /\ isr = "idle"
  BY NamesAssumption DEF TypeOK, Suspension, Runs

\* Waking keeps the lists lists of tasks.
LEMMA WakeTypes ==
    ASSUME TypeOK, NEW q \in Queues, NEW n \in Nat, Wake(q, n)
    PROVE  /\ xTasksWaitingToReceive' \in [Queues -> Seq(Tasks)]
           /\ ready' \subseteq Tasks /\ xPendingReadyList' \subseteq Tasks
           /\ suspender = NoTask => xPendingReadyList' = xPendingReadyList
<1>. DEFINE s == xTasksWaitingToReceive[q]
            k == IF n < Len(s) THEN n ELSE Len(s)
<1>1. s \in Seq(Tasks) /\ Len(s) \in Nat /\ s \in [1 .. Len(s) -> Tasks]
  <2>1. s \in Seq(Tasks)
    BY DEF TypeOK
  <2>. QED
    BY <2>1, LenProperties
<1>2. k \in 0 .. Len(s)
  BY <1>1
<1>3. SubSeq(s, k + 1, Len(s)) \in Seq(Tasks)
  <2>1. \A i \in k + 1 .. Len(s) : s[i] \in Tasks
    BY <1>1, <1>2
  <2>. HIDE DEF s, k
  <2>. QED
    BY <1>1, <1>2, <2>1, SubSeqProperties
<1>4. {s[i] : i \in 1 .. k} \subseteq Tasks
  BY <1>1, <1>2
<1>5. xTaskRemoveFromEventList(q, k)
  BY DEF Wake
<1>. HIDE DEF k
<1>. QED
  BY <1>3, <1>4, <1>5 DEF xTaskRemoveFromEventList, TypeOK

\* The state after user_init.
LEMMA LockInit == Init => LockInv
<1>. SUFFICES ASSUME Init PROVE LockInv
  OBVIOUS
<1>1. <<>> \in Seq(Tasks)
  BY EmptySeq
<1>2. TypeOK
  BY <1>1 DEF Init, TypeOK, Queues, UNLOCKED
<1>. QED
  BY <1>2, NamesAssumption DEF Init, LockInv, Suspension, Locks, Slow, UNLOCKED

\* A send from the handler keeps the types, and counts only in a locked queue.
LEMMA SendFromISREffect ==
    ASSUME TypeOK, Suspension, NEW q \in Queues, xQueueGenericSendFromISR(q)
    PROVE  /\ uxMessagesWaiting' \in [Queues -> 0 .. 1]
           /\ pxMutexHolder' \in Tasks \cup {NoTask}
           /\ xRxLock' = xRxLock
           /\ xTxLock' \in [Queues -> Nat \cup {UNLOCKED}]
           /\ \A p \in Queues : xTxLock[p] = UNLOCKED <=> xTxLock'[p] = UNLOCKED
           /\ xTasksWaitingToReceive' \in [Queues -> Seq(Tasks)]
           /\ ready' \subseteq Tasks /\ xPendingReadyList' \subseteq Tasks
           /\ suspender = NoTask => xPendingReadyList' = xPendingReadyList
<1>1. CASE ~RoomIn(q)
  BY <1>1 DEF xQueueGenericSendFromISR, queueVars, listVars, TypeOK
<1>2. CASE RoomIn(q)
  <2>1. /\ prvCopyDataToQueue(q) /\ xRxLock' = xRxLock
        /\ IF xTxLock[q] = UNLOCKED
           THEN Wake(q, 1) /\ xTxLock' = xTxLock
           ELSE xTxLock' = [xTxLock EXCEPT ![q] = @ + 1] /\ UNCHANGED listVars
    BY <1>2 DEF xQueueGenericSendFromISR
  <2>2. /\ uxMessagesWaiting' \in [Queues -> 0 .. 1]
        /\ pxMutexHolder' \in Tasks \cup {NoTask}
    <3>1. uxMessagesWaiting \in [Queues -> 0 .. 1] /\ pxMutexHolder \in Tasks \cup {NoTask}
      BY DEF TypeOK
    <3>2. uxMessagesWaiting[q] + 1 \in 0 .. 1
      BY <1>2, <3>1 DEF RoomIn
    <3>. QED
      BY <2>1, <3>1, <3>2 DEF prvCopyDataToQueue
  <2>3. CASE xTxLock[q] = UNLOCKED
    BY <2>1, <2>2, <2>3, WakeTypes DEF TypeOK
  <2>4. CASE xTxLock[q] # UNLOCKED
    <3>1. xTxLock \in [Queues -> Nat \cup {UNLOCKED}]
      BY DEF TypeOK
    <3>2. xTxLock[q] + 1 \in Nat /\ xTxLock[q] + 1 # UNLOCKED
      BY <2>4, <3>1 DEF UNLOCKED
    <3>3. /\ xTxLock' = [xTxLock EXCEPT ![q] = xTxLock[q] + 1]
          /\ UNCHANGED listVars
      BY <2>1, <2>4
    <3>4. /\ xTxLock' \in [Queues -> Nat \cup {UNLOCKED}]
          /\ \A p \in Queues : xTxLock[p] = UNLOCKED <=> xTxLock'[p] = UNLOCKED
      BY <2>4, <3>1, <3>2, <3>3
    <3>. QED
      BY <2>1, <2>2, <3>3, <3>4 DEF TypeOK, listVars
  <2>. QED
    BY <2>3, <2>4
<1>. QED
  BY <1>1, <1>2

\* The handler's calls leave the tasks' places alone.
LEMMA LockIsr == LockInv /\ IsrNext => LockInv'
<1>. SUFFICES ASSUME LockInv, IsrNext PROVE LockInv'
  OBVIOUS
<1>0. TypeOK /\ Suspension /\ Locks
  BY DEF LockInv
<1>. USE DEF Queues
<1>1. CASE IsrTake
  BY <1>0, <1>1 DEF IsrTake, xQueueReceiveFromISR, LockInv, TypeOK, Suspension,
     Locks, listVars, UNLOCKED
<1>2. CASE IsrRefused
  BY <1>0, <1>2 DEF IsrRefused, LockInv, TypeOK, Suspension, Locks, queueVars, listVars
<1>3. CASE IsrGive \/ IsrNotify
  <2>1. PICK q \in Queues : xQueueGenericSendFromISR(q)
    BY <1>3 DEF IsrGive, IsrNotify
  <2>2. UNCHANGED <<suspender, pc, on>> /\ isr' \in {"idle", "fill", "notify"}
    BY <1>3 DEF IsrGive, IsrNotify
  <2>. QED
    BY <1>0, <2>1, <2>2, SendFromISREffect DEF LockInv, TypeOK, Suspension, Locks
<1>. QED
  BY <1>1, <1>2, <1>3 DEF IsrNext

\* Nothing is locked while the scheduler runs.
LEMMA AllUnlocked ==
    ASSUME LockInv, suspender = NoTask
    PROVE  /\ \A q \in Queues : xTxLock[q] = UNLOCKED
           /\ \A u \in Tasks : pc[u] \notin Slow
<1>1. \A u \in Tasks : pc[u] \notin Slow
  BY NamesAssumption DEF LockInv, Suspension
<1>2. \A q \in Queues : xTxLock[q] = UNLOCKED
  BY <1>1 DEF LockInv, Locks, Slow
<1>. QED
  BY <1>1, <1>2

\* While it does not, only the queue of the task that suspended it can be locked.
LEMMA OneSlow ==
    ASSUME LockInv, NEW t \in Tasks, suspender = t
    PROVE  /\ \A u \in Tasks : pc[u] \in Slow <=> u = t
           /\ \A q \in Queues : xTxLock[q] # UNLOCKED
                  <=> (on[t] = q /\ pc[t] \in {"check", "place", "unlockTx"})
  BY DEF LockInv, TypeOK, Suspension, Locks, Slow

\* The slow path of xQueueGenericReceive locks and unlocks what it says.
LEMMA LockSlow ==
    ASSUME LockInv, NEW t \in Tasks,
           \/ prvLockQueue(t) \/ Check(t) \/ Place(t) \/ UnlockTx(t) \/ UnlockRx(t)
           \/ xTaskResumeAll(t)
    PROVE  LockInv'
<1>0. TypeOK /\ Suspension /\ Locks
  BY DEF LockInv
<1>1. /\ suspender = t /\ suspender # NoTask /\ pc[t] \in Slow /\ isr = "idle"
      /\ prvLockQueue(t) => pc[t] = "lock"
      /\ Check(t) => pc[t] = "check"
      /\ Place(t) => pc[t] = "place"
      /\ UnlockTx(t) => pc[t] = "unlockTx"
      /\ UnlockRx(t) => pc[t] = "unlockRx"
      /\ xTaskResumeAll(t) => pc[t] = "resume"
  BY <1>0, RunsSlow DEF prvLockQueue, Check, Place, UnlockTx, UnlockRx,
     xTaskResumeAll, Slow
<1>2. /\ \A u \in Tasks : pc[u] \in Slow <=> u = t
      /\ \A q \in Queues : xTxLock[q] # UNLOCKED
             <=> (on[t] = q /\ pc[t] \in {"check", "place", "unlockTx"})
      /\ pc \in [Tasks -> {"none", "try", "suspend", "copy", "write"} \cup Slow]
      /\ on[t] \in Queues
      /\ xTxLock \in [Queues -> Nat \cup {UNLOCKED}]
      /\ xRxLock \in [Queues -> Nat \cup {UNLOCKED}]
  BY <1>0, <1>1, OneSlow DEF TypeOK
<1>3. CASE prvLockQueue(t)
  <2>1. pc' = [pc EXCEPT ![t] = "check"] /\ UNCHANGED <<uxMessagesWaiting,
           pxMutexHolder, listVars, suspender, on, isr>>
    BY <1>3 DEF prvLockQueue, Goto
  <2>2. /\ xRxLock' \in [Queues -> Nat \cup {UNLOCKED}]
        /\ xTxLock' = [xTxLock EXCEPT ![on[t]] = LOCKED_UNMODIFIED]
    BY <1>1, <1>2, <1>3 DEF prvLockQueue, LOCKED_UNMODIFIED
  <2>3. /\ xTxLock' \in [Queues -> Nat \cup {UNLOCKED}]
        /\ \A q \in Queues : xTxLock'[q] # UNLOCKED <=> q = on[t]
    BY <1>1, <1>2, <1>3, <2>2 DEF LOCKED_UNMODIFIED, UNLOCKED
  <2>4. TypeOK'
    BY <1>0, <2>1, <2>2, <2>3 DEF TypeOK, listVars, Slow
  <2>5. Suspension' /\ Locks'
    BY <1>1, <1>2, <2>1, <2>3 DEF Suspension, Locks, Slow
  <2>. QED
    BY <2>4, <2>5 DEF LockInv
<1>4. CASE Check(t)
  <2>1. /\ \E p \in {"place", "unlockTx"} : pc' = [pc EXCEPT ![t] = p]
        /\ UNCHANGED <<queueVars, listVars, suspender, on, isr>>
    BY <1>4 DEF Check, Goto
  <2>. QED
    BY <1>0, <1>1, <1>2, <1>4, <2>1 DEF LockInv, TypeOK, Suspension, Locks, Slow,
       queueVars, listVars
<1>5. CASE Place(t)
  <2>1. /\ pc' = [pc EXCEPT ![t] = "unlockTx"]
        /\ UNCHANGED <<queueVars, xPendingReadyList, suspender, on, isr>>
        /\ xTasksWaitingToReceive' = [xTasksWaitingToReceive EXCEPT
                ![on[t]] = Append(xTasksWaitingToReceive[on[t]], t)]
        /\ ready' = ready \ {t}
    BY <1>5 DEF Place, Goto, vTaskPlaceOnEventList
  <2>2. Append(xTasksWaitingToReceive[on[t]], t) \in Seq(Tasks)
    BY <1>0, <1>2, AppendProperties DEF TypeOK
  <2>3. TypeOK'
    BY <1>0, <2>1, <2>2 DEF TypeOK, Slow, queueVars
  <2>4. Suspension' /\ Locks'
    BY <1>0, <1>1, <1>2, <1>5, <2>1 DEF Suspension, Locks, Slow, queueVars
  <2>. QED
    BY <2>3, <2>4 DEF LockInv
<1>6. CASE UnlockTx(t)
  <2>1. /\ pc' = [pc EXCEPT ![t] = "unlockRx"]
        /\ UNCHANGED <<uxMessagesWaiting, pxMutexHolder, xRxLock, suspender, on, isr>>
        /\ xTxLock' = [xTxLock EXCEPT ![on[t]] = UNLOCKED]
        /\ Wake(on[t], xTxLock[on[t]])
    BY <1>6 DEF UnlockTx, Goto
  <2>2. xTxLock[on[t]] \in Nat
    BY <1>1, <1>2, <1>6
  <2>3. TypeOK'
    BY <1>0, <1>2, <2>1, <2>2, WakeTypes DEF TypeOK, Slow
  <2>4. Suspension'
    BY <1>1, <1>2, <2>1 DEF Suspension, Slow
  <2>5. Locks'
    <3>1. \A q \in Queues : xTxLock'[q] = UNLOCKED
      BY <1>2, <2>1
    <3>2. \A u \in Tasks : pc'[u] \notin {"check", "place", "unlockTx"}
      BY <1>2, <2>1 DEF Slow
    <3>. QED
      BY <3>1, <3>2 DEF Locks
  <2>. QED
    BY <2>3, <2>4, <2>5 DEF LockInv
<1>7. CASE UnlockRx(t)
  <2>1. /\ pc' = [pc EXCEPT ![t] = "resume"]
        /\ UNCHANGED <<uxMessagesWaiting, pxMutexHolder, xTxLock, listVars, suspender,
                       on, isr>>
        /\ xRxLock' \in [Queues -> Nat \cup {UNLOCKED}]
    BY <1>2, <1>7 DEF UnlockRx, Goto
  <2>. QED
    BY <1>0, <1>1, <1>2, <1>7, <2>1 DEF LockInv, TypeOK, Suspension, Locks, Slow,
       listVars
<1>8. CASE xTaskResumeAll(t)
  <2>1. /\ pc' = [pc EXCEPT ![t] = "try"] /\ suspender' = NoTask
        /\ ready' = ready \cup xPendingReadyList /\ xPendingReadyList' = {}
        /\ UNCHANGED <<queueVars, xTasksWaitingToReceive, on, isr>>
    BY <1>8 DEF xTaskResumeAll, Goto
  <2>2. TypeOK'
    BY <1>0, <2>1 DEF TypeOK, queueVars
  <2>3. \A u \in Tasks : pc'[u] \notin Slow
    BY <1>2, <2>1 DEF Slow
  <2>4. \A q \in Queues : xTxLock'[q] = UNLOCKED
    BY <1>1, <1>2, <1>8, <2>1 DEF queueVars
  <2>5. Suspension' /\ Locks'
    BY <2>1, <2>3, <2>4, NamesAssumption DEF Suspension, Locks, Slow
  <2>. QED
    BY <2>2, <2>5 DEF LockInv
<1>. QED
  BY <1>3, <1>4, <1>5, <1>6, <1>7, <1>8

\* No other call of a task touches a lock.
LEMMA LockFast ==
    ASSUME LockInv, NEW t \in Tasks,
           \/ TryReceive(t) \/ FindEmpty(t) \/ vTaskSuspendAll(t)
           \/ xQueueGenericSend(t) \/ WriteAgain(t) \/ vTaskDelete(t) \/ xTaskCreate(t)
    PROVE  LockInv'
<1>0. TypeOK /\ Suspension /\ Locks
  BY DEF LockInv
<1>1. suspender = NoTask
  BY <1>0, RunsFast DEF TryReceive, FindEmpty, vTaskSuspendAll, xQueueGenericSend,
     WriteAgain, vTaskDelete, xTaskCreate, Slow
<1>2. /\ \A q \in Queues : xTxLock[q] = UNLOCKED
      /\ \A u \in Tasks : pc[u] \notin Slow
      /\ pc \in [Tasks -> {"none", "try", "suspend", "copy", "write"} \cup Slow]
      /\ on \in [Tasks -> Queues]
      /\ uxMessagesWaiting \in [Queues -> 0 .. 1]
      /\ xPendingReadyList = {}
  BY <1>0, <1>1, AllUnlocked DEF TypeOK, Suspension
\* All but one of the steps leave the scheduler running and the locks open.
<1>3. ASSUME suspender' = suspender, xTxLock' = xTxLock, xPendingReadyList' = {},
             NEW p \in {"none", "try", "suspend", "copy", "write"},
             pc' = [pc EXCEPT ![t] = p], on' \in [Tasks -> Queues], TypeOK'
      PROVE  LockInv'
  <2>1. \A u \in Tasks : pc'[u] \notin Slow
    BY <1>2, <1>3 DEF Slow
  <2>. QED
    BY <1>1, <1>2, <1>3, <2>1, NamesAssumption DEF LockInv, Suspension, Locks, Slow
<1>4. CASE TryReceive(t)
  <2>1. /\ uxMessagesWaiting[on[t]] > 0
        /\ uxMessagesWaiting' = [uxMessagesWaiting EXCEPT
                ![on[t]] = uxMessagesWaiting[on[t]] - 1]
        /\ UNCHANGED <<xRxLock, xTxLock, listVars, suspender, isr>>
        /\ pc[t] = "try"
    BY <1>4 DEF TryReceive, Runs
  <2>2. uxMessagesWaiting' \in [Queues -> 0 .. 1]
    <3>1. on[t] \in Queues /\ uxMessagesWaiting[on[t]] - 1 \in 0 .. 1
      BY <1>2, <2>1
    <3>. QED
      BY <1>2, <2>1, <3>1
  <2>3. CASE on[t] = "ringbuf_mutex"
    <3>1. pxMutexHolder' = t /\ pc' = [pc EXCEPT ![t] = "copy"] /\ on' = on
      BY <1>4, <2>3 DEF TryReceive, Goto
    <3>2. TypeOK'
      BY <1>0, <1>2, <2>1, <2>2, <3>1 DEF TypeOK, listVars
    <3>. QED
      BY <1>2, <1>3, <2>1, <3>1, <3>2 DEF listVars
  <2>4. CASE on[t] # "ringbuf_mutex"
    <3>1. /\ on' = [on EXCEPT ![t] = "ringbuf_mutex"]
          /\ pxMutexHolder' = pxMutexHolder /\ pc' = pc
      BY <1>4, <2>4 DEF TryReceive
    <3>2. pc' = [pc EXCEPT ![t] = "try"] /\ on' \in [Tasks -> Queues]
      BY <1>2, <2>1, <3>1 DEF Queues
    <3>3. TypeOK'
      BY <1>0, <1>2, <2>1, <2>2, <3>1, <3>2 DEF TypeOK, listVars
    <3>. QED
      BY <1>2, <1>3, <2>1, <3>2, <3>3 DEF listVars
  <2>. QED
    BY <2>3, <2>4
<1>5. CASE FindEmpty(t)
  <2>1. /\ pc' = [pc EXCEPT ![t] = "suspend"]
        /\ UNCHANGED <<queueVars, listVars, suspender, on, isr>>
    BY <1>5 DEF FindEmpty, Goto
  <2>2. TypeOK'
    BY <1>0, <2>1 DEF TypeOK, queueVars, listVars
  <2>. QED
    BY <1>2, <1>3, <2>1, <2>2 DEF queueVars, listVars
<1>6. CASE vTaskSuspendAll(t)
  <2>1. /\ pc' = [pc EXCEPT ![t] = "lock"] /\ suspender' = t
        /\ UNCHANGED <<queueVars, listVars, on, isr>>
    BY <1>6 DEF vTaskSuspendAll, Goto
  <2>2. TypeOK'
    BY <1>0, <2>1 DEF TypeOK, queueVars, listVars, Slow
  <2>3. Suspension'
    BY <1>2, <2>1, NamesAssumption DEF Suspension, Slow
  <2>4. Locks'
    <3>1. \A u \in Tasks : pc'[u] \notin {"check", "place", "unlockTx"}
      BY <1>2, <2>1 DEF Slow
    <3>. QED
      BY <1>2, <2>1, <3>1 DEF Locks, queueVars
  <2>. QED
    BY <2>2, <2>3, <2>4 DEF LockInv
<1>7. CASE xQueueGenericSend(t)
  <2>1. /\ pc' = [pc EXCEPT ![t] = "write"]
        /\ UNCHANGED <<xRxLock, xTxLock, suspender, on, isr>>
    BY <1>7 DEF xQueueGenericSend, Goto
  <2>2. CASE ~RoomIn("ringbuf_mutex")
    <3>1. UNCHANGED <<uxMessagesWaiting, pxMutexHolder, listVars>>
      BY <1>7, <2>2 DEF xQueueGenericSend
    <3>2. TypeOK'
      BY <1>0, <2>1, <3>1 DEF TypeOK, listVars
    <3>. QED
      BY <1>2, <1>3, <2>1, <3>1, <3>2 DEF listVars
  <2>3. CASE RoomIn("ringbuf_mutex")
    <3>1. "ringbuf_mutex" \in Queues
      BY DEF Queues
    <3>2. prvCopyDataToQueue("ringbuf_mutex") /\ Wake("ringbuf_mutex", 1)
      BY <1>7, <2>3 DEF xQueueGenericSend
    <3>3. uxMessagesWaiting["ringbuf_mutex"] + 1 \in 0 .. 1
      BY <1>2, <2>3, <3>1 DEF RoomIn
    <3>4. uxMessagesWaiting' \in [Queues -> 0 .. 1] /\ pxMutexHolder' = NoTask
      BY <1>2, <3>1, <3>2, <3>3 DEF prvCopyDataToQueue
    <3>5. /\ xTasksWaitingToReceive' \in [Queues -> Seq(Tasks)]
          /\ ready' \subseteq Tasks /\ xPendingReadyList' = {}
      BY <1>0, <1>1, <1>2, <3>1, <3>2, WakeTypes
    <3>6. TypeOK'
      BY <1>0, <2>1, <3>4, <3>5 DEF TypeOK
    <3>. QED
      BY <1>2, <1>3, <2>1, <3>5, <3>6
  <2>. QED
    BY <2>2, <2>3
<1>8. CASE WriteAgain(t)
  <2>1. /\ pc' = [pc EXCEPT ![t] = "try"] /\ on' = [on EXCEPT ![t] = "tx_queue"]
        /\ UNCHANGED <<queueVars, listVars, suspender, isr>>
    BY <1>8 DEF WriteAgain, Goto
  <2>2. TypeOK' /\ on' \in [Tasks -> Queues]
    BY <1>0, <2>1 DEF TypeOK, queueVars, listVars, Queues
  <2>. QED
    BY <1>2, <1>3, <2>1, <2>2 DEF queueVars, listVars
<1>9. CASE vTaskDelete(t)
  <2>1. /\ pc' = [pc EXCEPT ![t] = "none"] /\ on' = [on EXCEPT ![t] = "tx_queue"]
        /\ ready' = ready \ {t}
        /\ UNCHANGED <<queueVars, xTasksWaitingToReceive, xPendingReadyList,
                       suspender, isr>>
    BY <1>9 DEF vTaskDelete, Goto
  <2>2. TypeOK' /\ on' \in [Tasks -> Queues]
    BY <1>0, <2>1 DEF TypeOK, queueVars, Queues
  <2>. QED
    BY <1>2, <1>3, <2>1, <2>2 DEF queueVars
<1>10. CASE xTaskCreate(t)
  <2>1. /\ pc' = [pc EXCEPT ![t] = "try"] /\ ready' = ready \cup {t}
        /\ UNCHANGED <<queueVars, xTasksWaitingToReceive, xPendingReadyList,
                       suspender, on, isr>>
    BY <1>10 DEF xTaskCreate, Goto
  <2>2. TypeOK'
    BY <1>0, <2>1 DEF TypeOK, queueVars
  <2>. QED
    BY <1>2, <1>3, <2>1, <2>2 DEF queueVars
<1>. QED
  BY <1>4, <1>5, <1>6, <1>7, <1>8, <1>9, <1>10

\* Every step keeps the locks in order.
LEMMA LockNext == LockInv /\ [Next]_vars => LockInv'
<1>1. LockInv /\ UNCHANGED vars => LockInv'
  BY DEF LockInv, TypeOK, Suspension, Locks, vars, queueVars, listVars
<1>2. ASSUME LockInv, NEW t \in Tasks, TaskNext(t) PROVE LockInv'
  BY <1>2, LockSlow, LockFast DEF TaskNext, xQueueGenericReceive
<1>. QED
  BY <1>1, <1>2, LockIsr DEF Next

\* The kernel keeps its types, the scheduler is suspended by at most one task, and
\* a queue is locked only by that task, for any number of tasks.
THEOREM RtosLocks == Spec => []LockInv
  BY LockInit, LockNext, PTL DEF Spec

\* In particular the kernel's variables keep their types: a queue never holds more
\* than its one item and a lock count never falls below unlocked (queue.c:561-1580).
THEOREM RtosTypes == Spec => []TypeOK
<1>1. LockInv => TypeOK
  BY DEF LockInv
<1>. QED
  BY <1>1, RtosLocks, PTL

-------------------------------------------------------------------------------
(* The lists of tasks.                                                     *)

\* A task waits for the queue it called, or is ready, or will be when the
\* scheduler is resumed; it puts itself to sleep only on the slow path.
Listed ==
    /\ \A q \in Queues : NoDuplicates(xTasksWaitingToReceive[q])
    /\ \A q \in Queues, u \in Tasks :
           u \in Range(xTasksWaitingToReceive[q])
               => /\ on[u] = q /\ pc[u] \in {"try", "unlockTx", "unlockRx", "resume"}
                  /\ u \notin ready /\ u \notin xPendingReadyList
    /\ \A u \in Tasks :
           u \in xPendingReadyList
               => pc[u] \in {"try", "unlockRx", "resume"} /\ u \notin ready
    /\ \A u \in Tasks : u \in ready => pc[u] # "none"
    /\ \A u \in Tasks :
           pc[u] # "none" => \/ u \in ready \/ u \in xPendingReadyList
                            \/ u \in Range(xTasksWaitingToReceive[on[u]])

\* The step takes the tasks W out of the list of q and wakes them.
Woken(q, W) ==
    /\ W \subseteq Range(xTasksWaitingToReceive[q])
    /\ Range(xTasksWaitingToReceive'[q]) = Range(xTasksWaitingToReceive[q]) \ W
    /\ \A p \in Queues : p # q => xTasksWaitingToReceive'[p] = xTasksWaitingToReceive[p]
    /\ \A p \in Queues : NoDuplicates(xTasksWaitingToReceive'[p])
    /\ suspender = NoTask => ready' = ready \cup W /\ xPendingReadyList' = xPendingReadyList
    /\ suspender # NoTask => ready' = ready /\ xPendingReadyList' = xPendingReadyList \cup W

\* Wake wakes somebody if it is to wake one and there is one.
LEMMA WakeEffect ==
    ASSUME TypeOK, Listed, NEW q \in Queues, NEW n \in Nat, Wake(q, n)
    PROVE  \E W \in SUBSET Range(xTasksWaitingToReceive[q]) :
               /\ Woken(q, W)
               /\ (n > 0 /\ Range(xTasksWaitingToReceive[q]) # {}) => W # {}
<1>. DEFINE s == xTasksWaitingToReceive[q]
            k == IF n < Len(s) THEN n ELSE Len(s)
            W == {s[i] : i \in 1 .. k}
<1>1. s \in Seq(Tasks) /\ Len(s) \in Nat /\ NoDuplicates(s)
  <2>1. s \in Seq(Tasks)
    BY DEF TypeOK
  <2>. QED
    BY <2>1, LenProperties DEF Listed
<1>2. k \in 0 .. Len(s)
  BY <1>1
<1>3. /\ SubSeq(s, k + 1, Len(s)) \in Seq(Tasks)
      /\ NoDuplicates(SubSeq(s, k + 1, Len(s)))
      /\ Range(SubSeq(s, k + 1, Len(s))) = Range(s) \ W
      /\ W \subseteq Range(s)
      /\ k > 0 => W # {}
  <2>. HIDE DEF s, k
  <2>. QED
    BY <1>1, <1>2, DropFirst
<1>4. xTaskRemoveFromEventList(q, k)
  BY DEF Wake
<1>5. (n > 0 /\ Range(s) # {}) => k > 0
  <2>1. Range(s) = {s[i] : i \in 1 .. Len(s)}
    BY <1>1, RangeEquality
  <2>2. Range(s) # {} => Len(s) > 0
    BY <1>1, <2>1
  <2>. QED
    BY <1>1, <2>2
<1>6. xTasksWaitingToReceive' = [xTasksWaitingToReceive EXCEPT
                                     ![q] = SubSeq(s, k + 1, Len(s))]
  BY <1>4 DEF xTaskRemoveFromEventList
<1>7. /\ suspender = NoTask => ready' = ready \cup W /\ xPendingReadyList' = xPendingReadyList
      /\ suspender # NoTask => ready' = ready /\ xPendingReadyList' = xPendingReadyList \cup W
  BY <1>4 DEF xTaskRemoveFromEventList
<1>8. xTasksWaitingToReceive \in [Queues -> Seq(Tasks)]
  BY DEF TypeOK
<1>9. /\ xTasksWaitingToReceive'[q] = SubSeq(s, k + 1, Len(s))
      /\ \A p \in Queues : p # q => xTasksWaitingToReceive'[p] = xTasksWaitingToReceive[p]
  <2>. DEFINE rest == SubSeq(s, k + 1, Len(s))
  <2>1. xTasksWaitingToReceive' = [xTasksWaitingToReceive EXCEPT ![q] = rest]
    BY <1>6
  <2>. HIDE DEF rest
  <2>2. /\ xTasksWaitingToReceive'[q] = rest
        /\ \A p \in Queues : p # q => xTasksWaitingToReceive'[p] = xTasksWaitingToReceive[p]
    BY <1>8, <2>1
  <2>. QED
    BY <2>2 DEF rest
<1>10. \A p \in Queues : NoDuplicates(xTasksWaitingToReceive'[p])
  <2>. DEFINE rest == SubSeq(s, k + 1, Len(s))
  <2>1. NoDuplicates(rest) /\ xTasksWaitingToReceive'[q] = rest
    BY <1>3, <1>9
  <2>. HIDE DEF rest
  <2>2. \A p \in Queues : NoDuplicates(xTasksWaitingToReceive[p])
    BY DEF Listed
  <2>. QED
    BY <1>9, <2>1, <2>2, Zenon
<1>. HIDE DEF k, W
<1>11. Woken(q, W)
  BY <1>3, <1>7, <1>9, <1>10 DEF Woken
<1>. QED
  BY <1>3, <1>5, <1>11

\* Tasks that are woken are again in exactly one list.
LEMMA WokenListed ==
    ASSUME TypeOK, Suspension, Listed, NEW q \in Queues, NEW W, Woken(q, W),
           on' = on,
           \A u \in Tasks : pc'[u] = "none" <=> pc[u] = "none",
           \A u \in Tasks : u \in W => pc'[u] \in {"try", "unlockRx", "resume"},
           \A u \in Tasks : pc[u] \in {"try", "unlockRx", "resume"}
                            => pc'[u] \in {"try", "unlockRx", "resume"},
           \A u \in Tasks : pc[u] = "unlockTx" => pc'[u] \in {"unlockTx", "unlockRx"}
    PROVE  Listed'
<1>1. /\ \A u \in Tasks : u \in W => /\ u \in Range(xTasksWaitingToReceive[q])
                                     /\ on[u] = q /\ pc[u] # "none"
                                     /\ u \notin ready /\ u \notin xPendingReadyList
  BY DEF Listed, Woken
<1>2. \A p \in Queues, u \in Tasks : u \in Range(xTasksWaitingToReceive'[p])
          <=> u \in Range(xTasksWaitingToReceive[p]) /\ ~(p = q /\ u \in W)
  BY DEF Woken
<1>3. \A u \in Tasks : on[u] \in Queues
  BY DEF TypeOK
<1>4. CASE suspender = NoTask
  <2>1. ready' = ready \cup W /\ xPendingReadyList' = {} /\ xPendingReadyList = {}
    BY <1>4 DEF Woken, Suspension
  <2>. QED
    BY <1>1, <1>2, <1>3, <2>1 DEF Listed, Woken
<1>5. CASE suspender # NoTask
  <2>1. ready' = ready /\ xPendingReadyList' = xPendingReadyList \cup W
    BY <1>5 DEF Woken
  <2>. QED
    BY <1>1, <1>2, <1>3, <2>1 DEF Listed, Woken
<1>. QED
  BY <1>4, <1>5

\* No list holds a task before one is created.
LEMMA ListedInit == Init => Listed
<1>1. Range(<<>>) = {}
  BY DEF Range
<1>. QED
  BY <1>1, EmptySeq DEF Init, Listed, NoDuplicates

\* A send from the handler wakes at most one task of an unlocked queue.
LEMMA ListedSendFromISR ==
    ASSUME LockInv, Listed, NEW q \in Queues, xQueueGenericSendFromISR(q),
           UNCHANGED <<suspender, pc, on>>
    PROVE  Listed'
<1>0. TypeOK /\ Suspension /\ Locks
  BY DEF LockInv
<1>1. CASE ~(RoomIn(q) /\ xTxLock[q] = UNLOCKED)
  BY <1>1 DEF xQueueGenericSendFromISR, Listed, queueVars, listVars
<1>2. CASE RoomIn(q) /\ xTxLock[q] = UNLOCKED
  <2>1. Wake(q, 1)
    BY <1>2 DEF xQueueGenericSendFromISR
  <2>2. PICK W \in SUBSET Range(xTasksWaitingToReceive[q]) : Woken(q, W)
    BY <1>0, <2>1, WakeEffect
  <2>3. \A u \in Tasks : u \in W => pc[u] \in {"try", "unlockRx", "resume"}
    <3>1. \A u \in Tasks : u \in W =>
             on[u] = q /\ pc[u] \in {"try", "unlockTx", "unlockRx", "resume"}
      BY <2>2 DEF Listed
    <3>2. \A u \in Tasks : u \in W => pc[u] # "unlockTx"
      BY <1>0, <1>2, <3>1 DEF Locks
    <3>. QED
      BY <3>1, <3>2
  <2>. QED
    BY <1>0, <2>2, <2>3, WokenListed
<1>. QED
  BY <1>1, <1>2

\* A task that takes a step on the slow path is ready, unless it has already put
\* itself to sleep.
LEMMA ListedSlow ==
    ASSUME LockInv, Listed, NEW t \in Tasks,
           \/ prvLockQueue(t) \/ Check(t) \/ Place(t) \/ UnlockTx(t) \/ UnlockRx(t)
           \/ xTaskResumeAll(t)
    PROVE  Listed'
<1>0. TypeOK /\ Suspension /\ Locks
  BY DEF LockInv
<1>1. /\ suspender = t /\ suspender # NoTask
      /\ prvLockQueue(t) => pc[t] = "lock"
      /\ Check(t) => pc[t] = "check"
      /\ Place(t) => pc[t] = "place"
      /\ UnlockTx(t) => pc[t] = "unlockTx"
      /\ UnlockRx(t) => pc[t] = "unlockRx"
      /\ xTaskResumeAll(t) => pc[t] = "resume"
  BY <1>0, RunsSlow DEF prvLockQueue, Check, Place, UnlockTx, UnlockRx,
     xTaskResumeAll, Slow
<1>2. /\ \A u \in Tasks : pc[u] \in Slow <=> u = t
      /\ pc \in [Tasks -> {"none", "try", "suspend", "copy", "write"} \cup Slow]
      /\ on[t] \in Queues /\ \A u \in Tasks : on[u] \in Queues
      /\ xTxLock \in [Queues -> Nat \cup {UNLOCKED}]
  BY <1>0, <1>1, OneSlow DEF TypeOK
<1>3. CASE prvLockQueue(t)
  <2>1. pc' = [pc EXCEPT ![t] = "check"] /\ UNCHANGED <<listVars, on>>
    BY <1>3 DEF prvLockQueue, Goto
  <2>. QED
    BY <1>1, <1>2, <1>3, <2>1 DEF Listed, listVars
<1>4. CASE Check(t)
  <2>1. /\ \E p \in {"place", "unlockTx"} : pc' = [pc EXCEPT ![t] = p]
        /\ UNCHANGED <<listVars, on>>
    BY <1>4 DEF Check, Goto
  <2>. QED
    BY <1>1, <1>2, <1>4, <2>1 DEF Listed, listVars
<1>5. CASE Place(t)
  <2>. DEFINE s == xTasksWaitingToReceive[on[t]]
  <2>1. /\ pc' = [pc EXCEPT ![t] = "unlockTx"] /\ pc[t] = "place"
        /\ on' = on /\ xPendingReadyList' = xPendingReadyList
        /\ xTasksWaitingToReceive' = [xTasksWaitingToReceive EXCEPT ![on[t]] = Append(s, t)]
        /\ ready' = ready \ {t}
    BY <1>1, <1>5 DEF Place, Goto, vTaskPlaceOnEventList
  <2>2. s \in Seq(Tasks) /\ NoDuplicates(s) /\ t \notin Range(s)
    BY <1>0, <1>2, <2>1 DEF TypeOK, Listed
  <2>3. NoDuplicates(Append(s, t)) /\ Range(Append(s, t)) = Range(s) \cup {t}
    BY <2>2, AppendOne
  <2>4. xTasksWaitingToReceive \in [Queues -> Seq(Tasks)]
    BY <1>0 DEF TypeOK
  <2>5. /\ xTasksWaitingToReceive'[on[t]] = Append(s, t)
        /\ \A p \in Queues : p # on[t] =>
               xTasksWaitingToReceive'[p] = xTasksWaitingToReceive[p]
    BY <1>2, <2>1, <2>4
  <2>6. \A p \in Queues, u \in Tasks : u \in Range(xTasksWaitingToReceive'[p])
            <=> u \in Range(xTasksWaitingToReceive[p]) \/ (p = on[t] /\ u = t)
    BY <2>3, <2>5
  <2>7. ASSUME NEW p \in Queues PROVE NoDuplicates(xTasksWaitingToReceive'[p])
    <3>1. CASE p = on[t]
      BY <2>3, <2>5, <3>1
    <3>2. CASE p # on[t]
      <4>1. xTasksWaitingToReceive'[p] = xTasksWaitingToReceive[p]
        BY <2>5, <3>2
      <4>. QED
        BY <4>1 DEF Listed
    <3>. QED
      BY <3>1, <3>2
  <2>8. t \notin xPendingReadyList
    BY <2>1 DEF Listed
  <2>9. /\ \A u \in Tasks : pc'[u] = IF u = t THEN "unlockTx" ELSE pc[u]
    BY <1>2, <2>1
  <2>. HIDE DEF s
  <2>. QED
    BY <1>2, <2>1, <2>6, <2>7, <2>8, <2>9 DEF Listed
<1>6. CASE UnlockTx(t)
  <2>1. /\ pc' = [pc EXCEPT ![t] = "unlockRx"] /\ on' = on
        /\ Wake(on[t], xTxLock[on[t]])
    BY <1>6 DEF UnlockTx, Goto
  <2>2. xTxLock[on[t]] \in Nat
    BY <1>0, <1>1, <1>2, <1>6 DEF Locks
  <2>3. PICK W \in SUBSET Range(xTasksWaitingToReceive[on[t]]) : Woken(on[t], W)
    BY <1>0, <1>2, <2>1, <2>2, WakeEffect
  <2>4. \A u \in Tasks : pc'[u] = IF u = t THEN "unlockRx" ELSE pc[u]
    BY <1>2, <2>1
  <2>5. \A u \in Tasks : u \in W => pc'[u] \in {"try", "unlockRx", "resume"}
    <3>1. \A u \in Tasks : u \in W => pc[u] \in {"try", "unlockTx", "unlockRx", "resume"}
      BY <1>2, <2>3 DEF Listed
    <3>. QED
      BY <1>2, <2>4, <3>1 DEF Slow
  <2>. QED
    BY <1>0, <1>1, <1>2, <1>6, <2>1, <2>3, <2>4, <2>5, WokenListed DEF Slow
<1>7. CASE UnlockRx(t)
  <2>1. pc' = [pc EXCEPT ![t] = "resume"] /\ UNCHANGED <<listVars, on>>
    BY <1>7 DEF UnlockRx, Goto
  <2>. QED
    BY <1>1, <1>2, <1>7, <2>1 DEF Listed, listVars
<1>8. CASE xTaskResumeAll(t)
  <2>1. /\ pc' = [pc EXCEPT ![t] = "try"] /\ on' = on
        /\ ready' = ready \cup xPendingReadyList /\ xPendingReadyList' = {}
        /\ xTasksWaitingToReceive' = xTasksWaitingToReceive
    BY <1>8 DEF xTaskResumeAll, Goto
  <2>2. \A u \in Tasks : pc'[u] = IF u = t THEN "try" ELSE pc[u]
    BY <1>2, <2>1
  <2>. QED
    BY <1>1, <1>2, <1>8, <2>1, <2>2 DEF Listed
<1>. QED
  BY <1>3, <1>4, <1>5, <1>6, <1>7, <1>8

\* The other calls of a task move at most one task between lists.
LEMMA ListedFast ==
    ASSUME LockInv, Listed, NEW t \in Tasks,
           \/ TryReceive(t) \/ FindEmpty(t) \/ vTaskSuspendAll(t)
           \/ xQueueGenericSend(t) \/ WriteAgain(t) \/ vTaskDelete(t)
    PROVE  Listed'
<1>0. TypeOK /\ Suspension /\ Locks
  BY DEF LockInv
<1>1. suspender = NoTask /\ t \in ready
  BY <1>0, RunsFast DEF TryReceive, FindEmpty, vTaskSuspendAll, xQueueGenericSend,
     WriteAgain, vTaskDelete, Slow
<1>2. /\ pc \in [Tasks -> {"none", "try", "suspend", "copy", "write"} \cup Slow]
      /\ on \in [Tasks -> Queues] /\ xPendingReadyList = {}
  BY <1>0, <1>1 DEF TypeOK, Suspension
\* A ready task is in no other list, wherever it goes.
<1>3. ASSUME listVars' = listVars,
             \A u \in Tasks : u # t => pc'[u] = pc[u] /\ on'[u] = on[u],
             pc'[t] # "none"
      PROVE  Listed'
  BY <1>1, <1>2, <1>3 DEF Listed, listVars
<1>4. CASE TryReceive(t)
  <2>1. /\ listVars' = listVars
        /\ \/ pc' = [pc EXCEPT ![t] = "copy"] /\ on' = on
           \/ on' = [on EXCEPT ![t] = "ringbuf_mutex"] /\ pc' = pc
        /\ pc[t] = "try"
    BY <1>4 DEF TryReceive, Goto, Runs
  <2>. QED
    BY <1>2, <1>3, <2>1
<1>5. CASE FindEmpty(t) \/ vTaskSuspendAll(t) \/ WriteAgain(t)
  <2>1. /\ listVars' = listVars
        /\ \E p \in {"suspend", "lock", "try"} : pc' = [pc EXCEPT ![t] = p]
        /\ on' = on \/ on' = [on EXCEPT ![t] = "tx_queue"]
    BY <1>5 DEF FindEmpty, vTaskSuspendAll, WriteAgain, Goto
  <2>. QED
    BY <1>2, <1>3, <2>1
<1>6. CASE xQueueGenericSend(t)
  <2>1. pc' = [pc EXCEPT ![t] = "write"] /\ on' = on /\ pc[t] = "copy"
    BY <1>6 DEF xQueueGenericSend, Goto, Runs
  <2>2. CASE ~RoomIn("ringbuf_mutex")
    <3>1. listVars' = listVars
      BY <1>6, <2>2 DEF xQueueGenericSend
    <3>. QED
      BY <1>2, <1>3, <2>1, <3>1
  <2>3. CASE RoomIn("ringbuf_mutex")
    <3>1. Wake("ringbuf_mutex", 1) /\ "ringbuf_mutex" \in Queues
      BY <1>6, <2>3 DEF xQueueGenericSend, Queues
    <3>2. PICK W \in SUBSET Range(xTasksWaitingToReceive["ringbuf_mutex"]) :
             Woken("ringbuf_mutex", W)
      BY <1>0, <3>1, WakeEffect
    <3>3. \A u \in Tasks : pc'[u] = IF u = t THEN "write" ELSE pc[u]
      BY <1>2, <2>1
    <3>4. \A u \in Tasks : u \in W => u # t /\ pc[u] = "try"
      BY <1>0, <1>1, <3>1, <3>2, NamesAssumption DEF Listed, Suspension, Slow
    <3>. QED
      BY <1>0, <2>1, <3>1, <3>2, <3>3, <3>4, WokenListed
  <2>. QED
    BY <2>2, <2>3
<1>7. CASE vTaskDelete(t)
  <2>1. /\ pc' = [pc EXCEPT ![t] = "none"] /\ on' = [on EXCEPT ![t] = "tx_queue"]
        /\ ready' = ready \ {t}
        /\ UNCHANGED <<xTasksWaitingToReceive, xPendingReadyList>>
    BY <1>7 DEF vTaskDelete, Goto
  <2>. QED
    BY <1>1, <1>2, <2>1 DEF Listed
<1>. QED
  BY <1>4, <1>5, <1>6, <1>7

\* Every step keeps each task in one list.
LEMMA ListedNext == LockInv /\ Listed /\ [Next]_vars => Listed'
<1>. SUFFICES ASSUME LockInv, Listed, [Next]_vars PROVE Listed'
  OBVIOUS
<1>1. CASE IsrNext
  <2>1. CASE IsrTake \/ IsrRefused
    BY <2>1 DEF IsrTake, IsrRefused, Listed, listVars
  <2>2. CASE IsrGive \/ IsrNotify
    BY <2>2, ListedSendFromISR DEF IsrGive, IsrNotify, Queues
  <2>. QED
    BY <1>1, <2>1, <2>2 DEF IsrNext
<1>2. ASSUME NEW t \in Tasks, TaskNext(t) PROVE Listed'
  <2>1. CASE xTaskCreate(t)
    <3>1. /\ pc[t] = "none" /\ pc' = [pc EXCEPT ![t] = "try"]
          /\ ready' = ready \cup {t}
          /\ UNCHANGED <<xTasksWaitingToReceive, xPendingReadyList, on>>
      BY <2>1 DEF xTaskCreate, Goto
    <3>2. \A u \in Tasks : pc'[u] = IF u = t THEN "try" ELSE pc[u]
      BY <3>1 DEF LockInv, TypeOK
    <3>. QED
      BY <3>1, <3>2 DEF Listed
  <2>. QED
    BY <1>2, <2>1, ListedSlow, ListedFast DEF TaskNext, xQueueGenericReceive
<1>3. CASE UNCHANGED vars
  BY <1>3 DEF vars, listVars, Listed
<1>. QED
  BY <1>1, <1>2, <1>3 DEF Next

\* No task is forgotten and none is in two lists, for any number of tasks
\* (tasks.c:1357-1422, 1882-2024).
THEOREM RtosTaskLists == Spec => []EachTaskInOneList
<1>1. ASSUME LockInv, Listed PROVE EachTaskInOneList
  <2>. SUFFICES ASSUME NEW t \in Tasks
       PROVE  LET lists == {l \in {"ready", "pending"} \cup Queues :
                               \/ l = "ready" /\ t \in ready
                               \/ l = "pending" /\ t \in xPendingReadyList
                               \/ l \in Queues /\ t \in Sleepers(l)}
              IN  /\ \A l, k \in lists : l = k
                  /\ lists = {} <=> pc[t] = "none"
                  /\ (xPendingReadyList # {} => suspender # NoTask)
                  /\ \A q \in Queues : t \in Sleepers(q) => on[t] = q
    BY DEF EachTaskInOneList
  <2>. DEFINE lists == {l \in {"ready", "pending"} \cup Queues :
                           \/ l = "ready" /\ t \in ready
                           \/ l = "pending" /\ t \in xPendingReadyList
                           \/ l \in Queues /\ t \in Sleepers(l)}
  <2>1. xPendingReadyList # {} => suspender # NoTask
    BY <1>1 DEF LockInv, Suspension
  <2>2. /\ \A q \in Queues : t \in Sleepers(q)
               => on[t] = q /\ t \notin ready /\ t \notin xPendingReadyList
                            /\ pc[t] # "none"
        /\ t \in xPendingReadyList => t \notin ready /\ pc[t] # "none"
        /\ t \in ready => pc[t] # "none"
        /\ pc[t] # "none" => t \in ready \/ t \in xPendingReadyList \/ t \in Sleepers(on[t])
        /\ on[t] \in Queues /\ "ready" \notin Queues /\ "pending" \notin Queues
    BY <1>1 DEF LockInv, TypeOK, Listed, Sleepers, Queues
  <2>3. \A l, k \in lists : l = k
    BY <2>2
  <2>4. lists = {} <=> pc[t] = "none"
    BY <2>2
  <2>. QED
    BY <2>1, <2>2, <2>3, <2>4
<1>. QED
  BY <1>1, ListedInit, ListedNext, RtosLocks, PTL DEF Spec

-------------------------------------------------------------------------------
(* The wake-up.                                                            *)

\* t is awake and has yet to look at q again.
WillLook(t, q) ==
    /\ t \in ready \cup xPendingReadyList
    /\ on[t] = q /\ pc[t] \in {"try", "unlockRx", "resume"}

\* Between its second look and vTaskPlaceOnEventList a task learns of an item by
\* the count of sends; once the count has been used up, somebody who was woken
\* will look.
Awake ==
    /\ \A t \in Tasks :
           (pc[t] = "place" /\ uxMessagesWaiting[on[t]] > 0) => xTxLock[on[t]] > 0
    /\ \A q \in Queues :
           (/\ uxMessagesWaiting[q] > 0
            /\ Range(xTasksWaitingToReceive[q]) # {}
            /\ ~(xTxLock[q] > 0))
           => \E t \in Tasks : WillLook(t, q)

\* Nobody sleeps at first.
LEMMA AwakeInit == Init => Awake
<1>1. Range(<<>>) = {}
  BY DEF Range
<1>. QED
  BY <1>1 DEF Init, Awake, Queues

\* A task that is woken will look.
LEMMA WokenLooks ==
    ASSUME LockInv, Listed, NEW q \in Queues, NEW W, Woken(q, W), W # {}, on' = on,
           \A u \in Tasks : u \in W => pc'[u] \in {"try", "unlockRx", "resume"}
    PROVE  \E u \in Tasks : WillLook(u, q)'
<1>1. PICK u \in W : TRUE
  OBVIOUS
<1>2. u \in Range(xTasksWaitingToReceive[q])
  BY <1>1 DEF Woken
<1>3. u \in Tasks
  <2>1. xTasksWaitingToReceive[q] \in Seq(Tasks)
    BY DEF LockInv, TypeOK
  <2>2. Range(xTasksWaitingToReceive[q])
            = {xTasksWaitingToReceive[q][i] : i \in 1 .. Len(xTasksWaitingToReceive[q])}
    BY <2>1, RangeEquality
  <2>3. \A i \in 1 .. Len(xTasksWaitingToReceive[q]) : xTasksWaitingToReceive[q][i] \in Tasks
    BY <2>1, ElementOfSeq
  <2>. QED
    BY <1>2, <2>2, <2>3
<1>4. on[u] = q
  BY <1>2, <1>3 DEF Listed
<1>5. u \in ready' \cup xPendingReadyList'
  BY <1>1 DEF Woken
<1>. QED
  BY <1>1, <1>3, <1>4, <1>5 DEF WillLook

\* A send from the handler either wakes a task or is counted.
LEMMA AwakeSendFromISR ==
    ASSUME LockInv, Listed, Awake, NEW q \in Queues, xQueueGenericSendFromISR(q),
           UNCHANGED <<suspender, pc, on>>
    PROVE  Awake'
<1>0. TypeOK /\ Suspension /\ Locks
  BY DEF LockInv
<1>1. CASE ~RoomIn(q)
  BY <1>1 DEF xQueueGenericSendFromISR, Awake, WillLook, queueVars, listVars
<1>2. CASE RoomIn(q)
  <2>1. /\ uxMessagesWaiting' = [uxMessagesWaiting EXCEPT ![q] = uxMessagesWaiting[q] + 1]
        /\ uxMessagesWaiting \in [Queues -> 0 .. 1]
        /\ xTxLock \in [Queues -> Nat \cup {UNLOCKED}]
        /\ on \in [Tasks -> Queues]
    BY <1>0, <1>2 DEF xQueueGenericSendFromISR, prvCopyDataToQueue, TypeOK
  <2>2. \A p \in Queues : p # q => uxMessagesWaiting'[p] = uxMessagesWaiting[p]
    BY <2>1
  <2>3. CASE xTxLock[q] # UNLOCKED
    <3>1. xTxLock' = [xTxLock EXCEPT ![q] = xTxLock[q] + 1] /\ UNCHANGED listVars
      BY <1>2, <2>3 DEF xQueueGenericSendFromISR
    <3>2. /\ xTxLock'[q] > 0
          /\ \A p \in Queues : p # q => xTxLock'[p] = xTxLock[p]
      BY <2>1, <2>3, <3>1 DEF UNLOCKED
    <3>. QED
      BY <2>1, <2>2, <3>1, <3>2 DEF Awake, WillLook, listVars
  <2>4. CASE xTxLock[q] = UNLOCKED
    <3>1. Wake(q, 1) /\ xTxLock' = xTxLock
      BY <1>2, <2>4 DEF xQueueGenericSendFromISR
    <3>2. PICK W \in SUBSET Range(xTasksWaitingToReceive[q]) :
             /\ Woken(q, W)
             /\ Range(xTasksWaitingToReceive[q]) # {} => W # {}
      BY <1>0, <3>1, WakeEffect
    <3>3. \A u \in Tasks : u \in W => pc'[u] \in {"try", "unlockRx", "resume"}
      <4>1. \A u \in Tasks : u \in W =>
               on[u] = q /\ pc[u] \in {"try", "unlockTx", "unlockRx", "resume"}
        BY <3>2 DEF Listed
      <4>2. \A u \in Tasks : u \in W => pc[u] # "unlockTx"
        BY <1>0, <2>4, <4>1 DEF Locks
      <4>. QED
        BY <4>1, <4>2
    <3>4. \A u \in Tasks : pc[u] = "place" => on[u] # q
      BY <1>0, <2>4 DEF Locks
    <3>5. Range(xTasksWaitingToReceive'[q]) # {} => \E u \in Tasks : WillLook(u, q)'
      BY <3>2, <3>3, WokenLooks DEF Woken
    <3>6. \A p \in Queues : p # q => /\ xTasksWaitingToReceive'[p] = xTasksWaitingToReceive[p]
                                     /\ \A u \in Tasks : WillLook(u, p) => WillLook(u, p)'
      BY <3>2 DEF Woken, WillLook
    <3>7. ASSUME NEW u \in Tasks, pc'[u] = "place", uxMessagesWaiting'[on'[u]] > 0
          PROVE  xTxLock'[on'[u]] > 0
      BY <2>1, <2>2, <3>1, <3>4, <3>7 DEF Awake
    <3>8. ASSUME NEW p \in Queues, uxMessagesWaiting'[p] > 0,
                 Range(xTasksWaitingToReceive'[p]) # {}, ~(xTxLock'[p] > 0)
          PROVE  \E u \in Tasks : WillLook(u, p)'
      <4>1. CASE p = q
        BY <3>5, <3>8, <4>1
      <4>2. CASE p # q
        <5>1. PICK u \in Tasks : WillLook(u, p)
          BY <2>2, <3>1, <3>6, <3>8, <4>2 DEF Awake
        <5>. QED
          BY <3>6, <4>2, <5>1
      <4>. QED
        BY <4>1, <4>2
    <3>. QED
      BY <3>7, <3>8 DEF Awake
  <2>. QED
    BY <2>3, <2>4
<1>. QED
  BY <1>1, <1>2

\* The slow path: the count of sends takes over from the second look, and the
\* tasks it wakes from the count.
LEMMA AwakeSlow ==
    ASSUME LockInv, Listed, Awake, NEW t \in Tasks,
           \/ prvLockQueue(t) \/ Check(t) \/ Place(t) \/ UnlockTx(t) \/ UnlockRx(t)
           \/ xTaskResumeAll(t)
    PROVE  Awake'
<1>0. TypeOK /\ Suspension /\ Locks
  BY DEF LockInv
<1>1. /\ suspender = t /\ suspender # NoTask
      /\ prvLockQueue(t) => pc[t] = "lock"
      /\ Check(t) => pc[t] = "check"
      /\ Place(t) => pc[t] = "place"
      /\ UnlockTx(t) => pc[t] = "unlockTx"
      /\ UnlockRx(t) => pc[t] = "unlockRx"
      /\ xTaskResumeAll(t) => pc[t] = "resume"
  BY <1>0, RunsSlow DEF prvLockQueue, Check, Place, UnlockTx, UnlockRx,
     xTaskResumeAll, Slow
<1>2. /\ \A u \in Tasks : pc[u] \in Slow <=> u = t
      /\ pc \in [Tasks -> {"none", "try", "suspend", "copy", "write"} \cup Slow]
      /\ on[t] \in Queues
      /\ xTxLock \in [Queues -> Nat \cup {UNLOCKED}]
      /\ uxMessagesWaiting \in [Queues -> 0 .. 1]
      /\ \A u \in Tasks : on[u] \in Queues
  BY <1>0, <1>1, OneSlow DEF TypeOK
\* A step of t that leaves the queues alone and does not bring t to "place".
<1>3. ASSUME NEW p \in {"check", "unlockTx", "unlockRx", "resume", "try"},
             pc' = [pc EXCEPT ![t] = p],
             UNCHANGED <<uxMessagesWaiting, xTasksWaitingToReceive, on>>,
             \A q \in Queues : xTxLock[q] > 0 => xTxLock'[q] > 0,
             ready \cup xPendingReadyList \subseteq ready' \cup xPendingReadyList',
             pc[t] \in {"unlockRx", "resume"} => p \in {"resume", "try"}
      PROVE  Awake'
  <2>1. \A u \in Tasks : pc'[u] = IF u = t THEN p ELSE pc[u]
    BY <1>2, <1>3
  <2>2. \A u \in Tasks, q \in Queues : WillLook(u, q) => WillLook(u, q)'
    BY <1>1, <1>2, <1>3, <2>1 DEF WillLook, Slow
  <2>3. ASSUME NEW u \in Tasks, pc'[u] = "place" PROVE FALSE
    BY <1>2, <1>3, <2>1, <2>3 DEF Slow
  <2>4. ASSUME NEW q \in Queues, uxMessagesWaiting'[q] > 0,
               Range(xTasksWaitingToReceive'[q]) # {}, ~(xTxLock'[q] > 0)
        PROVE  \E u \in Tasks : WillLook(u, q)'
    <3>1. PICK u \in Tasks : WillLook(u, q)
      BY <1>3, <2>4 DEF Awake
    <3>. QED
      BY <2>2, <3>1
  <2>. QED
    BY <2>3, <2>4 DEF Awake
<1>4. CASE prvLockQueue(t)
  <2>1. /\ pc' = [pc EXCEPT ![t] = "check"]
        /\ UNCHANGED <<uxMessagesWaiting, listVars, on>>
        /\ xTxLock' = [xTxLock EXCEPT ![on[t]] = IF xTxLock[on[t]] = UNLOCKED
                          THEN LOCKED_UNMODIFIED ELSE xTxLock[on[t]]]
        /\ pc[t] = "lock"
    BY <1>1, <1>4 DEF prvLockQueue, Goto
  <2>2. \A q \in Queues : xTxLock[q] > 0 => xTxLock'[q] > 0
    BY <1>2, <2>1 DEF UNLOCKED
  <2>. QED
    BY <1>3, <2>1, <2>2 DEF listVars
<1>5. CASE Check(t)
  <2>1. UNCHANGED <<queueVars, listVars, on>> /\ pc[t] = "check"
    BY <1>1, <1>5 DEF Check
  <2>2. CASE uxMessagesWaiting[on[t]] = 0
    <3>1. pc' = [pc EXCEPT ![t] = "place"]
      BY <1>5, <2>2 DEF Check, Goto, prvIsQueueEmpty
    <3>2. \A u \in Tasks : pc'[u] = IF u = t THEN "place" ELSE pc[u]
      BY <1>2, <3>1
    <3>3. \A u \in Tasks : pc'[u] = "place" => uxMessagesWaiting'[on'[u]] = 0
      BY <1>2, <2>1, <2>2, <3>2 DEF queueVars, Slow
    <3>4. \A u \in Tasks, q \in Queues : WillLook(u, q) => WillLook(u, q)'
      BY <2>1, <3>2 DEF WillLook, listVars
    <3>5. ASSUME NEW q \in Queues, uxMessagesWaiting'[q] > 0,
                 Range(xTasksWaitingToReceive'[q]) # {}, ~(xTxLock'[q] > 0)
          PROVE  \E u \in Tasks : WillLook(u, q)'
      <4>1. PICK u \in Tasks : WillLook(u, q)
        BY <2>1, <3>5 DEF Awake, queueVars, listVars
      <4>. QED
        BY <3>4, <4>1
    <3>. QED
      BY <3>3, <3>5 DEF Awake
  <2>3. CASE uxMessagesWaiting[on[t]] # 0
    <3>1. pc' = [pc EXCEPT ![t] = "unlockTx"]
      BY <1>5, <2>3 DEF Check, Goto, prvIsQueueEmpty
    <3>. QED
      BY <1>3, <2>1, <3>1 DEF queueVars, listVars
  <2>. QED
    BY <2>2, <2>3
<1>6. CASE Place(t)
  <2>1. /\ pc' = [pc EXCEPT ![t] = "unlockTx"] /\ pc[t] = "place"
        /\ UNCHANGED <<queueVars, on, xPendingReadyList>>
        /\ xTasksWaitingToReceive' = [xTasksWaitingToReceive EXCEPT
                ![on[t]] = Append(xTasksWaitingToReceive[on[t]], t)]
        /\ ready' = ready \ {t}
    BY <1>1, <1>6 DEF Place, Goto, vTaskPlaceOnEventList
  <2>2. \A u \in Tasks : pc'[u] = IF u = t THEN "unlockTx" ELSE pc[u]
    BY <1>2, <2>1
  <2>3. \A u \in Tasks, q \in Queues : WillLook(u, q) => WillLook(u, q)'
    BY <2>1, <2>2 DEF WillLook
  <2>4. ASSUME NEW u \in Tasks, pc'[u] = "place" PROVE FALSE
    BY <1>2, <2>1, <2>2, <2>4 DEF Slow
  <2>5. ASSUME NEW q \in Queues, uxMessagesWaiting'[q] > 0,
               Range(xTasksWaitingToReceive'[q]) # {}, ~(xTxLock'[q] > 0)
        PROVE  \E u \in Tasks : WillLook(u, q)'
    <3>1. q # on[t]
      BY <2>1, <2>5 DEF Awake, queueVars
    <3>2. xTasksWaitingToReceive'[q] = xTasksWaitingToReceive[q]
      BY <1>0, <2>1, <3>1 DEF TypeOK
    <3>3. PICK u \in Tasks : WillLook(u, q)
      BY <2>1, <2>5, <3>2 DEF Awake, queueVars
    <3>. QED
      BY <2>3, <3>3
  <2>. QED
    BY <2>4, <2>5 DEF Awake
<1>7. CASE UnlockTx(t)
  <2>1. /\ pc' = [pc EXCEPT ![t] = "unlockRx"] /\ pc[t] = "unlockTx"
        /\ UNCHANGED <<uxMessagesWaiting, on>>
        /\ xTxLock' = [xTxLock EXCEPT ![on[t]] = UNLOCKED]
        /\ Wake(on[t], xTxLock[on[t]])
    BY <1>1, <1>7 DEF UnlockTx, Goto
  <2>2. xTxLock[on[t]] \in Nat
    BY <1>0, <1>2, <2>1 DEF Locks
  <2>3. PICK W \in SUBSET Range(xTasksWaitingToReceive[on[t]]) :
           /\ Woken(on[t], W)
           /\ (xTxLock[on[t]] > 0 /\ Range(xTasksWaitingToReceive[on[t]]) # {}) => W # {}
    BY <1>0, <1>2, <2>1, <2>2, WakeEffect
  <2>4. \A u \in Tasks : pc'[u] = IF u = t THEN "unlockRx" ELSE pc[u]
    BY <1>2, <2>1
  <2>5. \A u \in Tasks : u \in W => pc'[u] \in {"try", "unlockRx", "resume"}
    <3>1. \A u \in Tasks : u \in W => pc[u] \in {"try", "unlockTx", "unlockRx", "resume"}
      BY <1>2, <2>3 DEF Listed
    <3>. QED
      BY <1>2, <2>4, <3>1 DEF Slow
  <2>6. \A u \in Tasks, q \in Queues : WillLook(u, q) => WillLook(u, q)'
    BY <1>1, <2>1, <2>3, <2>4 DEF WillLook, Woken
  <2>7. ASSUME NEW u \in Tasks, pc'[u] = "place" PROVE FALSE
    BY <1>2, <2>1, <2>4, <2>7 DEF Slow
  <2>8. ASSUME NEW q \in Queues, uxMessagesWaiting'[q] > 0,
               Range(xTasksWaitingToReceive'[q]) # {}, ~(xTxLock'[q] > 0)
        PROVE  \E u \in Tasks : WillLook(u, q)'
    <3>1. Range(xTasksWaitingToReceive[q]) # {}
      BY <1>2, <2>3, <2>8 DEF Woken
    <3>2. CASE q = on[t] /\ xTxLock[q] > 0
      BY <1>2, <2>1, <2>3, <2>5, <3>1, <3>2, WokenLooks
    <3>3. CASE ~(q = on[t] /\ xTxLock[q] > 0)
      <4>1. ~(xTxLock[q] > 0)
        BY <1>2, <2>1, <2>8, <3>3
      <4>2. PICK u \in Tasks : WillLook(u, q)
        BY <2>1, <2>8, <3>1, <4>1 DEF Awake
      <4>. QED
        BY <2>6, <4>2
    <3>. QED
      BY <3>2, <3>3
  <2>. QED
    BY <2>7, <2>8 DEF Awake
<1>8. CASE UnlockRx(t)
  <2>1. /\ pc' = [pc EXCEPT ![t] = "resume"]
        /\ UNCHANGED <<uxMessagesWaiting, xTxLock, listVars, on>>
    BY <1>8 DEF UnlockRx, Goto
  <2>. QED
    BY <1>3, <2>1 DEF listVars
<1>9. CASE xTaskResumeAll(t)
  <2>1. /\ pc' = [pc EXCEPT ![t] = "try"]
        /\ UNCHANGED <<queueVars, xTasksWaitingToReceive, on>>
        /\ ready' = ready \cup xPendingReadyList
    BY <1>9 DEF xTaskResumeAll, Goto
  <2>. QED
    BY <1>3, <2>1 DEF queueVars
<1>. QED
  BY <1>4, <1>5, <1>6, <1>7, <1>8, <1>9

\* With the scheduler running nobody is about to go to sleep, and whoever was to
\* look at a queue still is, or has taken its item or found none.
LEMMA AwakeFast ==
    ASSUME LockInv, Listed, Awake, NEW t \in Tasks,
           \/ TryReceive(t) \/ FindEmpty(t) \/ vTaskSuspendAll(t)
           \/ xQueueGenericSend(t) \/ WriteAgain(t) \/ vTaskDelete(t) \/ xTaskCreate(t)
    PROVE  Awake'
<1>0. TypeOK /\ Suspension /\ Locks
  BY DEF LockInv
<1>1. suspender = NoTask
  BY <1>0, RunsFast DEF TryReceive, FindEmpty, vTaskSuspendAll, xQueueGenericSend,
     WriteAgain, vTaskDelete, xTaskCreate, Slow
<1>2. /\ \A u \in Tasks : pc[u] \notin Slow
      /\ pc \in [Tasks -> {"none", "try", "suspend", "copy", "write"} \cup Slow]
      /\ on \in [Tasks -> Queues]
      /\ uxMessagesWaiting \in [Queues -> 0 .. 1]
  BY <1>0, <1>1, AllUnlocked DEF TypeOK
\* A step of t, which was about to look at no queue but q.
<1>3. ASSUME NEW q \in Queues,
             pc[t] = "try" => on[t] = q /\ uxMessagesWaiting'[q] = 0,
             \A p \in Queues : p # q => uxMessagesWaiting'[p] = uxMessagesWaiting[p],
             uxMessagesWaiting'[q] > 0 => uxMessagesWaiting[q] > 0,
             UNCHANGED <<xTxLock, xTasksWaitingToReceive>>,
             ready \ {t} \subseteq ready', xPendingReadyList' = xPendingReadyList,
             \A u \in Tasks : u # t => pc'[u] = pc[u] /\ on'[u] = on[u],
             pc'[t] # "place"
      PROVE  Awake'
  <2>1. \A u \in Tasks : pc'[u] # "place"
    BY <1>2, <1>3 DEF Slow
  <2>2. ASSUME NEW p \in Queues, uxMessagesWaiting'[p] > 0,
               Range(xTasksWaitingToReceive'[p]) # {}, ~(xTxLock'[p] > 0)
        PROVE  \E u \in Tasks : WillLook(u, p)'
    <3>1. PICK u \in Tasks : WillLook(u, p)
      BY <1>3, <2>2 DEF Awake
    <3>2. u # t
      BY <1>2, <1>3, <2>2, <3>1 DEF WillLook, Slow
    <3>3. WillLook(u, p)'
      BY <1>3, <3>1, <3>2 DEF WillLook
    <3>. QED
      BY <3>3
  <2>. QED
    BY <2>1, <2>2 DEF Awake
<1>4. CASE TryReceive(t)
  <2>1. /\ pc[t] = "try" /\ uxMessagesWaiting[on[t]] > 0
        /\ uxMessagesWaiting' = [uxMessagesWaiting EXCEPT
                ![on[t]] = uxMessagesWaiting[on[t]] - 1]
        /\ UNCHANGED <<xTxLock, listVars>>
        /\ \/ pc' = [pc EXCEPT ![t] = "copy"] /\ on' = on
           \/ on' = [on EXCEPT ![t] = "ringbuf_mutex"] /\ pc' = pc
    BY <1>4 DEF TryReceive, Goto, Runs
  <2>2. /\ on[t] \in Queues /\ uxMessagesWaiting'[on[t]] = 0
        /\ \A p \in Queues : p # on[t] => uxMessagesWaiting'[p] = uxMessagesWaiting[p]
    BY <1>2, <2>1
  <2>3. /\ \A u \in Tasks : u # t => pc'[u] = pc[u] /\ on'[u] = on[u]
        /\ pc'[t] # "place"
    BY <1>2, <2>1
  <2>. QED
    BY <1>3, <2>1, <2>2, <2>3 DEF listVars
<1>5. CASE FindEmpty(t) \/ vTaskSuspendAll(t)
  <2>1. /\ pc[t] = "try" => uxMessagesWaiting[on[t]] = 0
        /\ UNCHANGED <<queueVars, listVars, on>>
        /\ \E p \in {"suspend", "lock"} : pc' = [pc EXCEPT ![t] = p]
    BY <1>5 DEF FindEmpty, vTaskSuspendAll, Goto, Runs
  <2>2. /\ \A u \in Tasks : u # t => pc'[u] = pc[u] /\ on'[u] = on[u]
        /\ pc'[t] # "place" /\ on[t] \in Queues
    BY <1>2, <2>1
  <2>. QED
    BY <1>3, <2>1, <2>2 DEF queueVars, listVars
<1>6. CASE WriteAgain(t) \/ vTaskDelete(t) \/ xTaskCreate(t)
  <2>1. /\ pc[t] \in {"write", "none"}
        /\ UNCHANGED <<queueVars, xTasksWaitingToReceive, xPendingReadyList>>
        /\ ready \ {t} \subseteq ready'
        /\ \E p \in {"try", "none"} : pc' = [pc EXCEPT ![t] = p]
        /\ on' = on \/ on' = [on EXCEPT ![t] = "tx_queue"]
    BY <1>6 DEF WriteAgain, vTaskDelete, xTaskCreate, Goto, Runs, listVars
  <2>2. /\ \A u \in Tasks : u # t => pc'[u] = pc[u] /\ on'[u] = on[u]
        /\ pc'[t] # "place" /\ on[t] \in Queues
    BY <1>2, <2>1
  <2>. QED
    BY <1>3, <2>1, <2>2 DEF queueVars
<1>7. CASE xQueueGenericSend(t)
  <2>. DEFINE m == "ringbuf_mutex"
  <2>1. /\ pc[t] = "copy" /\ pc' = [pc EXCEPT ![t] = "write"]
        /\ UNCHANGED <<xTxLock, on>> /\ m \in Queues
    BY <1>7 DEF xQueueGenericSend, Goto, Runs, Queues
  <2>2. \A u \in Tasks : pc'[u] = IF u = t THEN "write" ELSE pc[u]
    BY <1>2, <2>1
  <2>3. CASE ~RoomIn(m)
    <3>1. UNCHANGED <<uxMessagesWaiting, listVars>>
      BY <1>7, <2>3 DEF xQueueGenericSend
    <3>. QED
      BY <1>3, <2>1, <2>2, <3>1 DEF listVars
  <2>4. CASE RoomIn(m)
    <3>1. /\ Wake(m, 1)
          /\ uxMessagesWaiting' = [uxMessagesWaiting EXCEPT ![m] = uxMessagesWaiting[m] + 1]
      BY <1>7, <2>4 DEF xQueueGenericSend, prvCopyDataToQueue
    <3>2. PICK W \in SUBSET Range(xTasksWaitingToReceive[m]) :
             /\ Woken(m, W)
             /\ Range(xTasksWaitingToReceive[m]) # {} => W # {}
      BY <1>0, <2>1, <3>1, WakeEffect
    <3>3. \A u \in Tasks : u \in W => pc'[u] \in {"try", "unlockRx", "resume"}
      BY <1>2, <2>1, <2>2, <3>2 DEF Listed, Slow
    <3>4. \A u \in Tasks : pc'[u] # "place"
      BY <1>2, <2>2 DEF Slow
    <3>5. ASSUME NEW p \in Queues, uxMessagesWaiting'[p] > 0,
                 Range(xTasksWaitingToReceive'[p]) # {}, ~(xTxLock'[p] > 0)
          PROVE  \E u \in Tasks : WillLook(u, p)'
      <4>1. CASE p = m
        <5>1. W # {}
          BY <3>2, <3>5, <4>1 DEF Woken
        <5>. QED
          BY <2>1, <3>2, <3>3, <4>1, <5>1, WokenLooks
      <4>2. CASE p # m
        <5>1. /\ uxMessagesWaiting[p] > 0
              /\ xTasksWaitingToReceive'[p] = xTasksWaitingToReceive[p]
          BY <1>2, <3>1, <3>2, <3>5, <4>2 DEF Woken
        <5>2. PICK u \in Tasks : WillLook(u, p)
          BY <2>1, <3>5, <5>1 DEF Awake
        <5>3. WillLook(u, p)'
          BY <1>1, <2>1, <2>2, <3>2, <5>2 DEF WillLook, Woken
        <5>. QED
          BY <5>3
      <4>. QED
        BY <4>1, <4>2
    <3>. QED
      BY <3>4, <3>5 DEF Awake
  <2>. QED
    BY <2>3, <2>4
<1>. QED
  BY <1>4, <1>5, <1>6, <1>7

\* Every step keeps somebody awake for each item.
LEMMA AwakeNext == LockInv /\ Listed /\ Awake /\ [Next]_vars => Awake'
<1>. SUFFICES ASSUME LockInv, Listed, Awake, [Next]_vars PROVE Awake'
  OBVIOUS
<1>1. CASE IsrNext
  <2>1. CASE IsrRefused
    BY <2>1 DEF IsrRefused, Awake, WillLook, queueVars, listVars
  <2>2. CASE IsrTake
    <3>1. /\ uxMessagesWaiting' = [uxMessagesWaiting EXCEPT
                 !["ringbuf_mutex"] = uxMessagesWaiting["ringbuf_mutex"] - 1]
          /\ UNCHANGED <<listVars, pc, on, xTxLock>>
          /\ uxMessagesWaiting \in [Queues -> 0 .. 1]
          /\ on \in [Tasks -> Queues]
      BY <2>2 DEF IsrTake, xQueueReceiveFromISR, LockInv, TypeOK
    <3>2. \A q \in Queues : uxMessagesWaiting'[q] > 0 => uxMessagesWaiting[q] > 0
      BY <3>1
    <3>. QED
      BY <3>1, <3>2 DEF Awake, WillLook, listVars
  <2>3. CASE IsrGive \/ IsrNotify
    BY <2>3, AwakeSendFromISR DEF IsrGive, IsrNotify, Queues
  <2>. QED
    BY <1>1, <2>1, <2>2, <2>3 DEF IsrNext
<1>2. ASSUME NEW t \in Tasks, TaskNext(t) PROVE Awake'
  BY <1>2, AwakeSlow, AwakeFast DEF TaskNext, xQueueGenericReceive
<1>3. CASE UNCHANGED vars
  BY <1>3 DEF vars, queueVars, listVars, Awake, WillLook
<1>. QED
  BY <1>1, <1>2, <1>3 DEF Next

\* No wake-up is lost, whenever the handler interrupts a task on its way to
\* sleep, for any number of tasks (queue.c:1065-1182, 1484-1534).
THEOREM RtosNoSleeperBesideItem == Spec => []NoSleeperBesideItem
<1>1. ASSUME LockInv, Listed, Awake PROVE NoSleeperBesideItem
  <2>1. ASSUME NEW q \in Queues, uxMessagesWaiting[q] > 0, Sleepers(q) # {},
               xTxLock[q] = UNLOCKED
        PROVE  \E t \in (ready \cup xPendingReadyList) \ Sleepers(q) :
                   on[t] = q /\ pc[t] \in {"try", "unlockRx", "resume"}
    <3>1. PICK t \in Tasks : WillLook(t, q)
      BY <1>1, <2>1 DEF Awake, Sleepers, UNLOCKED
    <3>2. t \notin Sleepers(q)
      BY <1>1, <3>1 DEF Listed, WillLook, Sleepers
    <3>. QED
      BY <3>1, <3>2 DEF WillLook
  <2>. QED
    BY <2>1 DEF NoSleeperBesideItem
<1>. QED
  BY <1>1, ListedInit, ListedNext, AwakeInit, AwakeNext, RtosLocks, PTL DEF Spec

-------------------------------------------------------------------------------
(* The contract.                                                           *)

\* The mutex is with one task, or with the handler, or in its queue.
Owned ==
    /\ \A t \in Tasks : pc[t] = "copy" <=> pxMutexHolder = t
    /\ uxMessagesWaiting["ringbuf_mutex"] = 1
           <=> (isr # "fill" /\ pxMutexHolder = NoTask)
    /\ isr = "fill" => pxMutexHolder = NoTask
    /\ \A t \in Tasks : pc[t] = "none" => on[t] = "tx_queue"

\* The handler owns nothing at first.
LEMMA OwnedInit == Init => Owned
  BY NamesAssumption DEF Init, Owned

\* A step of one task moves that task's abstract place.
LEMMA AtStep ==
    ASSUME NEW t \in Tasks,
           \A u \in Tasks : u # t => pc'[u] = pc[u] /\ on'[u] = on[u]
    PROVE  at' = [at EXCEPT ![t] = place(pc'[t], on'[t])]
  BY DEF at, place

\* A step of the handler moves none.
LEMMA AtSame == ASSUME UNCHANGED <<pc, on>> PROVE at' = at
  BY DEF at, place

\* What the handler's calls amount to.
LEMMA SyncIsr ==
    ASSUME TypeOK, Owned, IsrNext
    PROVE  Owned' /\ (Sync!Next \/ UNCHANGED <<item, owner, at>>)
<1>1. /\ uxMessagesWaiting \in [Queues -> 0 .. 1]
      /\ "tx_queue" \in Queues /\ "ringbuf_mutex" \in Queues
  BY DEF TypeOK, Queues
<1>2. CASE IsrTake
  <2>1. /\ isr = "idle" /\ isr' = "fill"
        /\ uxMessagesWaiting["ringbuf_mutex"] > 0
        /\ uxMessagesWaiting' = [uxMessagesWaiting EXCEPT
               !["ringbuf_mutex"] = uxMessagesWaiting["ringbuf_mutex"] - 1]
        /\ UNCHANGED <<pxMutexHolder, pc, on>>
    BY <1>2 DEF IsrTake, xQueueReceiveFromISR
  <2>2. /\ uxMessagesWaiting["ringbuf_mutex"] = 1
        /\ uxMessagesWaiting'["ringbuf_mutex"] = 0
        /\ uxMessagesWaiting'["tx_queue"] = uxMessagesWaiting["tx_queue"]
    BY <1>1, <2>1
  <2>3. Owned'
    BY <2>1, <2>2 DEF Owned
  <2>4. owner = NoTask /\ owner' = "isr" /\ item' = item /\ at' = at
    BY <2>1, <2>2, AtSame DEF Owned, owner, item
  <2>. QED
    BY <2>3, <2>4 DEF Sync!Next, Sync!IsrTake
<1>3. CASE IsrRefused
  BY <1>3, AtSame DEF IsrRefused, Owned, owner, item, queueVars
<1>4. CASE IsrGive
  <2>1. /\ isr = "fill" /\ isr' = "notify"
        /\ xQueueGenericSendFromISR("ringbuf_mutex")
        /\ UNCHANGED <<pc, on>>
    BY <1>4 DEF IsrGive
  <2>2. RoomIn("ringbuf_mutex")
    BY <1>1, <2>1 DEF Owned, RoomIn
  <2>3. /\ uxMessagesWaiting'["ringbuf_mutex"] = 1
        /\ uxMessagesWaiting'["tx_queue"] = uxMessagesWaiting["tx_queue"]
        /\ pxMutexHolder' = NoTask /\ pxMutexHolder = NoTask
    BY <1>1, <2>1, <2>2 DEF xQueueGenericSendFromISR, prvCopyDataToQueue, RoomIn, Owned
  <2>4. Owned'
    BY <2>1, <2>3 DEF Owned
  <2>5. owner = "isr" /\ owner' = NoTask /\ item' = item /\ at' = at
    BY <2>1, <2>3, AtSame DEF owner, item
  <2>. QED
    BY <2>4, <2>5 DEF Sync!Next, Sync!IsrGive
<1>5. CASE IsrNotify
  <2>1. /\ isr = "notify" /\ isr' = "idle"
        /\ xQueueGenericSendFromISR("tx_queue")
        /\ UNCHANGED <<pc, on>>
    BY <1>5 DEF IsrNotify
  <2>2. /\ uxMessagesWaiting'["tx_queue"] > 0
        /\ uxMessagesWaiting'["ringbuf_mutex"] = uxMessagesWaiting["ringbuf_mutex"]
        /\ pxMutexHolder' = pxMutexHolder
    BY <1>1, <2>1 DEF xQueueGenericSendFromISR, prvCopyDataToQueue, RoomIn, queueVars
  <2>3. Owned'
    BY <2>1, <2>2 DEF Owned
  <2>4. item' = TRUE /\ owner' = owner /\ at' = at
    BY <2>1, <2>2, AtSame DEF owner, item
  <2>. QED
    BY <2>3, <2>4 DEF Sync!Next, Sync!Notify
<1>. QED
  BY <1>2, <1>3, <1>4, <1>5 DEF IsrNext

\* What a task's calls amount to.
LEMMA SyncTask ==
    ASSUME LockInv, Owned, NEW t \in Tasks, TaskNext(t)
    PROVE  Owned' /\ (Sync!Next \/ UNCHANGED <<item, owner, at>>)
<1>0. TypeOK /\ Suspension
  BY DEF LockInv
<1>1. /\ uxMessagesWaiting \in [Queues -> 0 .. 1]
      /\ "tx_queue" \in Queues /\ "ringbuf_mutex" \in Queues
      /\ pc \in [Tasks -> {"none", "try", "suspend", "copy", "write"} \cup Slow]
      /\ on \in [Tasks -> Queues] /\ on[t] \in {"tx_queue", "ringbuf_mutex"}
      /\ t # NoTask
  BY <1>0, NamesAssumption DEF TypeOK, Queues
\* The steps on the way to sleep and back amount to nothing.
<1>2. ASSUME NEW p \in {"try", "suspend"} \cup Slow, NEW r \in {"try", "suspend"} \cup Slow,
             pc[t] = p, pc' = [pc EXCEPT ![t] = r],
             UNCHANGED <<uxMessagesWaiting, pxMutexHolder, on, isr>>
      PROVE  Owned' /\ UNCHANGED <<item, owner, at>>
  <2>1. \A u \in Tasks : pc'[u] = IF u = t THEN r ELSE pc[u]
    BY <1>1, <1>2
  <2>2. Owned'
    BY <1>2, <2>1 DEF Owned, Slow
  <2>3. at' = at
    BY <1>2, <2>1 DEF at, place, Slow
  <2>. QED
    BY <1>2, <2>2, <2>3 DEF item, owner
<1>3. CASE FindEmpty(t) \/ vTaskSuspendAll(t) \/ prvLockQueue(t) \/ Check(t) \/ Place(t)
           \/ UnlockTx(t) \/ UnlockRx(t) \/ xTaskResumeAll(t)
  <2>1. /\ \E p \in {"try", "suspend"} \cup Slow, r \in {"try", "suspend"} \cup Slow :
               pc[t] = p /\ pc' = [pc EXCEPT ![t] = r]
        /\ UNCHANGED <<uxMessagesWaiting, pxMutexHolder, on, isr>>
    <3>1. CASE FindEmpty(t) \/ vTaskSuspendAll(t)
      BY <3>1 DEF FindEmpty, vTaskSuspendAll, Runs, Goto, Slow, queueVars
    <3>2. CASE prvLockQueue(t) \/ Check(t)
      BY <3>2 DEF prvLockQueue, Check, Runs, Goto, Slow, queueVars
    <3>3. CASE Place(t) \/ UnlockTx(t)
      BY <3>3 DEF Place, UnlockTx, Runs, Goto, Slow, queueVars
    <3>4. CASE UnlockRx(t) \/ xTaskResumeAll(t)
      BY <3>4 DEF UnlockRx, xTaskResumeAll, Runs, Goto, Slow, queueVars
    <3>. QED
      BY <1>3, <3>1, <3>2, <3>3, <3>4
  <2>. QED
    BY <1>2, <2>1
\* Steps that leave the queues alone.
<1>4. CASE WriteAgain(t) \/ vTaskDelete(t) \/ xTaskCreate(t)
  <2>1. /\ UNCHANGED <<uxMessagesWaiting, pxMutexHolder, isr>>
        /\ \/ /\ pc[t] = "write" /\ on' = [on EXCEPT ![t] = "tx_queue"]
              /\ pc' = [pc EXCEPT ![t] = "try"] \/ pc' = [pc EXCEPT ![t] = "none"]
           \/ pc[t] = "none" /\ on' = on /\ pc' = [pc EXCEPT ![t] = "try"]
    BY <1>4 DEF WriteAgain, vTaskDelete, xTaskCreate, Runs, Goto, queueVars
  <2>2. /\ \A u \in Tasks : u # t => pc'[u] = pc[u] /\ on'[u] = on[u]
        /\ on'[t] = "tx_queue"
        /\ \/ pc[t] = "write" /\ pc'[t] \in {"try", "none"}
           \/ pc[t] = "none" /\ pc'[t] = "try"
    BY <1>1, <2>1 DEF Owned
  <2>3. Owned'
    BY <2>1, <2>2 DEF Owned
  <2>4. item' = item /\ owner' = owner
    BY <2>1 DEF item, owner
  <2>5. /\ at' = [at EXCEPT ![t] = place(pc'[t], "tx_queue")]
        /\ at[t] = pc[t]
    BY <2>2, AtStep DEF at, place
  <2>6. \/ at[t] = "write" /\ at' = [at EXCEPT ![t] = "recv"]
        \/ at[t] = "write" /\ at' = [at EXCEPT ![t] = "none"]
        \/ at[t] = "none" /\ at' = [at EXCEPT ![t] = "recv"]
    BY <2>2, <2>5 DEF place
  <2>7. Sync!Again(t) \/ Sync!Delete(t) \/ Sync!Create(t)
    BY <2>4, <2>6 DEF Sync!Again, Sync!Delete, Sync!Create, Sync!Goes
  <2>. QED
    BY <2>3, <2>7 DEF Sync!Next
<1>5. CASE TryReceive(t)
  <2>1. /\ pc[t] = "try" /\ isr = "idle" /\ isr' = "idle"
        /\ uxMessagesWaiting[on[t]] > 0
        /\ uxMessagesWaiting' = [uxMessagesWaiting EXCEPT
                ![on[t]] = uxMessagesWaiting[on[t]] - 1]
    BY <1>5 DEF TryReceive, Runs
  <2>2. CASE on[t] = "tx_queue"
    <3>1. /\ on' = [on EXCEPT ![t] = "ringbuf_mutex"]
          /\ pc' = pc /\ pxMutexHolder' = pxMutexHolder
      BY <1>5, <2>2 DEF TryReceive
    <3>2. /\ uxMessagesWaiting["tx_queue"] > 0 /\ uxMessagesWaiting'["tx_queue"] = 0
          /\ uxMessagesWaiting'["ringbuf_mutex"] = uxMessagesWaiting["ringbuf_mutex"]
      BY <1>1, <2>1, <2>2
    <3>3. \A u \in Tasks : u # t => pc'[u] = pc[u] /\ on'[u] = on[u]
      BY <3>1
    <3>4. Owned'
      BY <2>1, <3>1, <3>2, <3>3 DEF Owned
    <3>5. at[t] = "recv" /\ at' = [at EXCEPT ![t] = "take"]
      BY <1>1, <2>1, <2>2, <3>1, <3>3, AtStep DEF at, place
    <3>6. item /\ item' = FALSE /\ owner' = owner
      BY <2>1, <3>1, <3>2 DEF item, owner
    <3>. QED
      BY <3>4, <3>5, <3>6 DEF Sync!Next, Sync!Receive, Sync!Goes
  <2>3. CASE on[t] = "ringbuf_mutex"
    <3>1. on' = on /\ pc' = [pc EXCEPT ![t] = "copy"] /\ pxMutexHolder' = t
      BY <1>5, <2>3 DEF TryReceive, Goto
    <3>2. /\ uxMessagesWaiting["ringbuf_mutex"] = 1
          /\ uxMessagesWaiting'["ringbuf_mutex"] = 0
          /\ uxMessagesWaiting'["tx_queue"] = uxMessagesWaiting["tx_queue"]
      BY <1>1, <2>1, <2>3
    <3>3. \A u \in Tasks : pc'[u] = IF u = t THEN "copy" ELSE pc[u]
      BY <1>1, <3>1
    <3>4. Owned'
      BY <1>1, <2>1, <3>1, <3>2, <3>3, NamesAssumption DEF Owned
    <3>5. at[t] = "take" /\ at' = [at EXCEPT ![t] = "copy"]
      BY <1>1, <2>1, <2>3, <3>1, <3>3, AtStep DEF at, place
    <3>6. item' = item /\ owner = NoTask /\ owner' = t
      BY <2>1, <3>1, <3>2 DEF item, owner, Owned
    <3>. QED
      BY <3>4, <3>5, <3>6 DEF Sync!Next, Sync!Take, Sync!Goes
  <2>. QED
    BY <1>1, <2>2, <2>3
<1>6. CASE xQueueGenericSend(t)
  <2>1. /\ pc[t] = "copy" /\ isr = "idle" /\ isr' = "idle"
        /\ on' = on /\ pc' = [pc EXCEPT ![t] = "write"]
    BY <1>6 DEF xQueueGenericSend, Runs, Goto
  <2>2. pxMutexHolder = t /\ uxMessagesWaiting["ringbuf_mutex"] = 0
    BY <1>1, <2>1 DEF Owned
  <2>3. prvCopyDataToQueue("ringbuf_mutex")
    BY <1>6, <2>2 DEF xQueueGenericSend, RoomIn
  <2>4. /\ uxMessagesWaiting'["ringbuf_mutex"] = 1 /\ pxMutexHolder' = NoTask
        /\ uxMessagesWaiting'["tx_queue"] = uxMessagesWaiting["tx_queue"]
    BY <1>1, <2>2, <2>3 DEF prvCopyDataToQueue
  <2>5. \A u \in Tasks : pc'[u] = IF u = t THEN "write" ELSE pc[u]
    BY <1>1, <2>1
  <2>6. Owned'
    BY <1>1, <2>1, <2>2, <2>4, <2>5, NamesAssumption DEF Owned
  <2>7. at[t] = "copy" /\ at' = [at EXCEPT ![t] = "write"]
    BY <1>1, <2>1, <2>5, AtStep DEF at, place
  <2>8. item' = item /\ owner = t /\ owner' = NoTask
    BY <2>1, <2>2, <2>4 DEF item, owner
  <2>. QED
    BY <2>6, <2>7, <2>8 DEF Sync!Next, Sync!Give, Sync!Goes
<1>. QED
  BY <1>3, <1>4, <1>5, <1>6 DEF TaskNext, xQueueGenericReceive

\* Every step is one of BridgeSync or a stutter.
LEMMA SyncNext ==
    LockInv /\ Owned /\ [Next]_vars => Owned' /\ [Sync!Next]_(Sync!vars)
<1>. SUFFICES ASSUME LockInv, Owned, [Next]_vars
              PROVE  Owned' /\ (Sync!Next \/ UNCHANGED <<item, owner, at>>)
  BY DEF Sync!vars
<1>1. CASE UNCHANGED vars
  BY <1>1, AtSame DEF vars, queueVars, Owned, item, owner
<1>. QED
  BY <1>1, SyncIsr, SyncTask DEF Next, LockInv

\* The kernel's queue and mutex do what wiloc-master expects of them, for any
\* number of tasks: an item is handed to one task, the mutex to one at a time.
THEOREM RtosImplementsSync == Spec => Sync!Spec
<1>1. Init => Sync!Init
  BY DEF Init, Sync!Init, item, owner, at, place
<1>. QED
  BY <1>1, OwnedInit, SyncNext, RtosLocks, PTL DEF Spec, Sync!Spec

================================================================================
