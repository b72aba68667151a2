----------------------------- MODULE BridgeProofs -----------------------------
(***************************************************************************)
(* What is proved of the bridge for every number of tasks and descriptors, *)
(* every buffer size and every bound.  TypeInv is inductive by itself; the *)
(* other invariants rest on it and on LockDiscipline.  The order of the    *)
(* bytes comes last: it needs all of them.                                 *)
(***************************************************************************)
EXTENDS Bridge, RingBufLemmas

TypeInv ==
    /\ TypeOK
    /\ RingConsistent(ringM) /\ RingConsistent(ringT)
    /\ isr \in {"idle", "notify"} => rxlen = 0

\* What a byte written into the storage changes.
LEMMA StoreFields ==
    ASSUME NEW mem, NEW p_r, NEW p_w, NEW n, NEW size, NEW a, NEW c
    PROVE  [[mem |-> mem, p_r |-> p_r, p_w |-> p_w, fill_cnt |-> n, size |-> size]
               EXCEPT !.mem[a] = c]
             = [mem |-> [mem EXCEPT ![a] = c], p_r |-> p_r, p_w |-> p_w, fill_cnt |-> n,
                size |-> size]
  OBVIOUS

\* Writing a byte into the storage of a ring, whatever place it has there,
\* leaves the pointers alone.
LEMMA StoreGood ==
    ASSUME NEW size \in Nat, size >= 2, NEW B, NEW c \in B,
           NEW a \in 0 .. size - 1,
           NEW r \in RingSet(size, B), RingConsistent(r)
    PROVE  /\ [r EXCEPT !.mem[a] = c] \in RingSet(size, B)
           /\ RingConsistent([r EXCEPT !.mem[a] = c])
<1>. DEFINE new == [r EXCEPT !.mem[a] = c]
<1>1. /\ r.mem \in [0 .. size - 1 -> B] /\ r.p_r \in 0 .. size - 1
      /\ r.p_w \in 0 .. size - 1 /\ r.fill_cnt \in 0 .. size
      /\ r.size = size
  BY DEF RingSet
<1>2. new = [mem |-> [r.mem EXCEPT ![a] = c], p_r |-> r.p_r, p_w |-> r.p_w,
             fill_cnt |-> r.fill_cnt, size |-> size]
  <2>1. r = [mem |-> r.mem, p_r |-> r.p_r, p_w |-> r.p_w, fill_cnt |-> r.fill_cnt,
             size |-> r.size]
    BY DEF RingSet
  <2>2. new = [[mem |-> r.mem, p_r |-> r.p_r, p_w |-> r.p_w, fill_cnt |-> r.fill_cnt,
                size |-> r.size] EXCEPT !.mem[a] = c]
    BY <2>1, Zenon
  <2>3. r.size = size
    BY <1>1
  <2>. HIDE DEF new
  <2>. QED
    BY <2>2, <2>3, StoreFields, Zenon
<1>3. [r.mem EXCEPT ![a] = c] \in [0 .. size - 1 -> B]
  BY <1>1
<1>4. new \in RingSet(size, B)
  BY <1>1, <1>2, <1>3 DEF RingSet
<1>. QED
  BY <1>2, <1>4 DEF RingConsistent

\* The head of the UART's FIFO is a byte and the rest is a shorter FIFO.
LEMMA FifoHeadTail ==
    ASSUME NEW s \in Seq(Nat), NEW n \in 0 .. Len(s), n > 0
    PROVE  /\ Head(s) \in Nat /\ Tail(s) \in Seq(Nat)
           /\ Len(Tail(s)) = Len(s) - 1 /\ Len(s) \in Nat /\ Len(s) > 0
           /\ n - 1 \in 0 .. Len(Tail(s))
<1>1. Len(s) \in Nat
  BY LenProperties
<1>2. Len(s) > 0
  BY <1>1
<1>3. s # <<>>
  BY <1>2, EmptySeq
<1>4. /\ Head(s) \in Nat /\ Tail(s) \in Seq(Nat) /\ Len(Tail(s)) = Len(s) - 1
  BY <1>3, HeadTailProperties
<1>. QED
  BY <1>1, <1>2, <1>4

\* user_init leaves every variable in its type.
LEMMA TypeInit == Init => TypeInv
<1>. SUFFICES ASSUME Init PROVE TypeInv
  OBVIOUS
<1>. USE DEF Init
<1>1. /\ ringM \in RingSet(MSize, Nat) /\ ringT \in RingSet(TSize, Nat)
      /\ RingConsistent(ringM) /\ RingConsistent(ringT)
  BY SizesAssumption, InitGood
<1>2. /\ fifo \in Seq(Nat) /\ Len(fifo) <= FifoCap /\ rxlen \in 0 .. Len(fifo)
      /\ wire \in Seq(Nat) /\ taken \in [Writers -> Seq(Nat)]
  BY BoundsAssumption, EmptySeq
<1>3. /\ sent \in 0 .. MaxBytes /\ conns \in 0 .. MaxConn /\ gotIp \in 0 .. MaxIp
      /\ wi \in [Writers -> 0 .. MSize] /\ wlen \in [Writers -> 0 .. MSize]
      /\ from \in [Writers -> 0 .. MSize - 1]
  BY BoundsAssumption, SizesAssumption
<1>. QED
  BY <1>1, <1>2, <1>3, NamesAssumption DEF TypeInv, TypeOK

\* The UART and the interrupt handler keep the types: both rings stay rings.
LEMMA TypeIsr == TypeInv /\ (UartByte \/ IsrStep) => TypeInv'
<1>. SUFFICES ASSUME TypeInv, UartByte \/ IsrStep PROVE TypeInv'
  OBVIOUS
<1>. USE DEF TypeInv, TypeOK, ringVars, wVars, mVars, wifiVars
<1>1. CASE UartByte
  <2>1. sent' \in 0 .. MaxBytes
    BY <1>1, BoundsAssumption DEF UartByte
  <2>2. fifo' \in Seq(Nat) /\ Len(fifo') <= FifoCap /\ rxlen' \in 0 .. Len(fifo')
    <3>1. sent + 1 \in Nat /\ Len(fifo) \in Nat
      BY BoundsAssumption, LenProperties
    <3>2. CASE Len(fifo) < FifoCap
      <4>1. /\ Append(fifo, sent + 1) \in Seq(Nat)
            /\ Len(Append(fifo, sent + 1)) = Len(fifo) + 1
        BY <3>1, AppendProperties
      <4>. QED
        BY <1>1, <3>1, <3>2, <4>1, BoundsAssumption, SMTT(30) DEF UartByte
    <3>3. CASE ~(Len(fifo) < FifoCap)
      BY <1>1, <3>3 DEF UartByte
    <3>. QED
      BY <3>2, <3>3
  <2>3. UNCHANGED <<isr, rxlen, ringVars, wVars, mVars, wifiVars>>
    BY <1>1 DEF UartByte
  <2>. QED
    BY <2>1, <2>2, <2>3, SMTT(30)
<1>2. CASE IsrDiscard
  <2>1. Len(fifo) \in Nat
    BY LenProperties
  <2>2. Tail(fifo) \in Seq(Nat) /\ Len(Tail(fifo)) = Len(fifo) - 1
        /\ Len(fifo) \in Nat \ {0}
    BY <1>2, <2>1, HeadTailProperties, EmptySeq DEF IsrDiscard
  <2>3. rxlen = 0
    BY <1>2 DEF IsrDiscard
  <2>4. fifo' \in Seq(Nat) /\ Len(fifo') <= FifoCap /\ rxlen' \in 0 .. Len(fifo')
        /\ rxlen' = 0
    BY <1>2, <2>2, <2>3, BoundsAssumption DEF IsrDiscard
  <2>. QED
    BY <1>2, <2>4 DEF IsrDiscard
<1>3. CASE IsrEnter
  <2>1. Len(fifo) \in Nat
    BY LenProperties
  <2>. QED
    BY <1>3, <2>1 DEF IsrEnter
<1>4. CASE IsrDrain
  <2>1. /\ ringM \in RingSet(MSize, Nat) /\ RingConsistent(ringM)
        /\ ringT \in RingSet(TSize, Nat) /\ RingConsistent(ringT)
    OBVIOUS
  <2>2. CASE get_ret(ringT) = 0
    <3>. HIDE DEF TypeInv, TypeOK
    <3>1. /\ ringbuf_get(ringT) \in RingSet(TSize, Nat)
          /\ RingConsistent(ringbuf_get(ringT))
          /\ get_byte(ringT) \in Nat
      BY <2>1, SizesAssumption, GetGood
    <3>2. /\ ringbuf_owr(ringM, get_byte(ringT)) \in RingSet(MSize, Nat)
          /\ RingConsistent(ringbuf_owr(ringM, get_byte(ringT)))
      BY <2>1, <3>1, SizesAssumption, OwrGood
    <3>. QED
      BY <1>4, <2>2, <3>1, <3>2 DEF IsrDrain, TypeInv, TypeOK
  <2>3. CASE get_ret(ringT) # 0
    BY <1>4, <2>3 DEF IsrDrain
  <2>. QED
    BY <2>2, <2>3
<1>5. CASE IsrMain
  <2>1. CASE rxlen > 0
    <3>1. /\ Head(fifo) \in Nat /\ fifo' \in Seq(Nat)
          /\ Len(fifo') = Len(fifo) - 1 /\ Len(fifo) \in Nat
          /\ rxlen' \in 0 .. Len(fifo')
      BY <1>5, <2>1, FifoHeadTail DEF IsrMain
    <3>2. /\ ringM' \in RingSet(MSize, Nat) /\ RingConsistent(ringM')
      BY <1>5, <2>1, <3>1, SizesAssumption, OwrGood, SMTT(30) DEF IsrMain
    <3>3. Len(fifo') <= FifoCap
      BY <3>1, BoundsAssumption
    <3>. QED
      BY <1>5, <2>1, <3>1, <3>2, <3>3 DEF IsrMain
  <2>2. CASE ~(rxlen > 0)
    <3>1. rxlen = 0
      BY <2>2, LenProperties
    <3>. QED
      BY <1>5, <2>2, <3>1 DEF IsrMain
  <2>. QED
    BY <2>1, <2>2
<1>6. CASE IsrTemp
  <2>1. CASE rxlen > 0
    <3>1. /\ Head(fifo) \in Nat /\ fifo' \in Seq(Nat)
          /\ Len(fifo') = Len(fifo) - 1 /\ Len(fifo) \in Nat
          /\ rxlen' \in 0 .. Len(fifo')
      BY <1>6, <2>1, FifoHeadTail DEF IsrTemp
    <3>2. /\ ringT' \in RingSet(TSize, Nat) /\ RingConsistent(ringT')
      BY <1>6, <2>1, <3>1, SizesAssumption, OwrGood, SMTT(30) DEF IsrTemp
    <3>3. Len(fifo') <= FifoCap
      BY <3>1, BoundsAssumption
    <3>. QED
      BY <1>6, <2>1, <3>1, <3>2, <3>3 DEF IsrTemp
  <2>2. CASE ~(rxlen > 0)
    <3>1. rxlen = 0
      BY <2>2, LenProperties
    <3>. QED
      BY <1>6, <2>2, <3>1 DEF IsrTemp
  <2>. QED
    BY <2>1, <2>2
<1>7. CASE IsrNotify
  BY <1>7 DEF IsrNotify
<1>. QED
  BY <1>1, <1>2, <1>3, <1>4, <1>5, <1>6, <1>7 DEF IsrStep

\* A write task keeps the types, although it writes into the ring's storage.
LEMMA TypeWriter ==
    ASSUME TypeInv, NEW w \in Writers, WriteStep(w)
    PROVE  TypeInv'
<1>. USE DEF TypeInv, TypeOK, isrVars, ringVars, mVars, wifiVars
<1>1. CASE WriteRecv(w)
  BY <1>1 DEF WriteRecv
<1>2. CASE WriteTake(w)
  <2>1. ringM.fill_cnt \in 0 .. MSize /\ ringM.p_r \in 0 .. MSize - 1
    BY DEF RingSet
  <2>2. Unread(ringM) \in Seq(Nat)
    BY SizesAssumption, UnreadIsSeq
  <2>3. 0 \in 0 .. MSize
    BY SizesAssumption
  <2>. QED
    BY <1>2, <2>1, <2>2, <2>3 DEF WriteTake
<1>3. CASE WriteCopy(w)
  <2>. DEFINE mid == ringbuf_get(ringM)
  <2>1. /\ mid \in RingSet(MSize, Nat) /\ RingConsistent(mid)
        /\ get_byte(ringM) \in Nat
    BY SizesAssumption, GetGood
  <2>2. wi[w] \in 0 .. MSize - 1 /\ wi[w] + 1 \in 0 .. MSize
    <3>1. wi[w] \in 0 .. MSize /\ wi[w] < MSize
      BY <1>3 DEF WriteCopy
    <3>. HIDE DEF TypeInv, TypeOK
    <3>. QED
      BY <3>1, SizesAssumption
  <2>3. /\ ringM' \in RingSet(MSize, Nat) /\ RingConsistent(ringM')
    <3>1. ringM' = [mid EXCEPT !.mem[wi[w]] = get_byte(ringM)]
      BY <1>3 DEF WriteCopy
    <3>. HIDE DEF mid
    <3>. QED
      BY <2>1, <2>2, <3>1, SizesAssumption, StoreGood
  <2>4. wi' \in [Writers -> 0 .. MSize]
    BY <1>3, <2>2 DEF WriteCopy
  <2>. QED
    BY <1>3, <2>3, <2>4 DEF WriteCopy
<1>4. CASE WriteGive(w)
  BY <1>4 DEF WriteGive
<1>5. CASE WriteOk(w)
  <2>1. ringM.mem \in [0 .. MSize - 1 -> Nat]
    BY DEF RingSet
  <2>2. wi[w] \in 0 .. MSize
    OBVIOUS
  <2>3. Chunk(w) \in [1 .. wi[w] -> Nat] /\ wi[w] \in Nat
    <3>. HIDE DEF TypeInv, TypeOK
    <3>1. ASSUME NEW k \in 1 .. wi[w] PROVE ringM.mem[k - 1] \in Nat
      <4>1. k - 1 \in 0 .. MSize - 1
        BY <2>2, SizesAssumption
      <4>. QED
        BY <2>1, <4>1
    <3>. QED
      BY <2>2, <3>1, SizesAssumption DEF Chunk
  <2>4. Chunk(w) \in Seq(Nat)
    <3>. HIDE DEF TypeInv, TypeOK
    <3>. QED
      BY <2>3, SeqDef
  <2>5. wire \o Chunk(w) \in Seq(Nat)
    BY <2>4, ConcatProperties
  <2>. QED
    BY <1>5, <2>5 DEF WriteOk
<1>6. CASE WriteFail(w)
  BY <1>6 DEF WriteFail
<1>. QED
  BY <1>1, <1>2, <1>3, <1>4, <1>5, <1>6 DEF WriteStep

\* A main task keeps the types.
LEMMA TypeMain ==
    ASSUME TypeInv, NEW m \in Mains, MainStep(m)
    PROVE  TypeInv'
<1>. USE DEF TypeInv, TypeOK, isrVars, ringVars, wVars, wifiVars
<1>1. CASE MainSocket(m)
  BY <1>1 DEF MainSocket
<1>2. CASE MainConnect(m)
  BY <1>2 DEF MainConnect
<1>3. CASE MainConnected(m)
  <2>1. /\ fd' = [fd EXCEPT ![mfd[m]] = "up"] /\ mpc' = [mpc EXCEPT ![m] = "loop"]
        /\ conns < MaxConn /\ conns' = conns + 1 /\ sock_connected' = TRUE
        /\ wpc' = wpc \/ \E w \in Writers : wpc' = [wpc EXCEPT ![w] = "recv"]
        /\ UNCHANGED <<isrVars, ringVars, wi, wlen, from, taken, wire, mfd, sta_socket,
                       wifiVars>>
    BY <1>3 DEF MainConnected
  <2>2. fd' \in [Fds -> {"free", "open", "up", "down"}] /\ conns' \in 0 .. MaxConn
    <3>1. conns \in 0 .. MaxConn /\ fd \in [Fds -> {"free", "open", "up", "down"}]
      OBVIOUS
    <3>2. fd' = [fd EXCEPT ![mfd[m]] = "up"] /\ conns < MaxConn /\ conns' = conns + 1
      BY <2>1
    <3>. HIDE DEF TypeInv, TypeOK
    <3>3. fd' \in [Fds -> {"free", "open", "up", "down"}]
      BY <3>1, <3>2
    <3>4. conns' \in 0 .. MaxConn
      BY <3>1, <3>2, BoundsAssumption
    <3>. QED
      BY <3>3, <3>4
  <2>3. wpc' \in [Writers -> {"none", "recv", "take", "copy", "write"}]
    <3>1. wpc \in [Writers -> {"none", "recv", "take", "copy", "write"}]
      OBVIOUS
    <3>. HIDE DEF TypeInv, TypeOK
    <3>. QED
      BY <2>1, <3>1
  <2>4. /\ mpc' \in [Mains -> {"none", "socket", "connect", "connecting", "loop",
                                "read", "reset", "flag"}]
        /\ \A n \in Mains : mpc'[n] = "read" => mfd'[n] \in Fds
    BY <2>1
  <2>5. crowded' \in BOOLEAN
    BY <1>3 DEF MainConnected
  <2>. QED
    BY <2>1, <2>2, <2>3, <2>4, <2>5
<1>4. CASE MainRefused(m)
  BY <1>4 DEF MainRefused, Close
<1>5. CASE MainLoop(m)
  BY <1>5 DEF MainLoop
<1>6. CASE MainReadFails(m)
  BY <1>6 DEF MainReadFails, Close
<1>7. CASE MainReset(m)
  BY <1>7 DEF MainReset
<1>8. CASE MainFlag(m)
  BY <1>8 DEF MainFlag
<1>. QED
  BY <1>1, <1>2, <1>3, <1>4, <1>5, <1>6, <1>7, <1>8 DEF MainStep

\* Wi-Fi events and the loss of a connection keep the types.
LEMMA TypeNetwork ==
    ASSUME TypeInv,
           WifiGotIp \/ WifiDisconnected \/ \E f \in Fds : ConnectionLost(f)
    PROVE  TypeInv'
<1>. USE DEF TypeInv, TypeOK, isrVars, ringVars, wVars, wifiVars
<1>1. CASE WifiGotIp
  <2>1. gotIp' \in 0 .. MaxIp
    <3>1. gotIp \in 0 .. MaxIp /\ MaxIp \in Nat
      BY BoundsAssumption
    <3>. HIDE DEF TypeInv, TypeOK
    <3>. QED
      BY <1>1, <3>1 DEF WifiGotIp
  <2>. QED
    BY <1>1, <2>1 DEF WifiGotIp
<1>2. CASE WifiDisconnected
  BY <1>2 DEF WifiDisconnected, mVars
<1>3. ASSUME NEW f \in Fds, ConnectionLost(f) PROVE TypeInv'
  BY <1>3 DEF ConnectionLost
<1>. QED
  BY <1>1, <1>2, <1>3

\* So does a step that changes nothing.
LEMMA TypeStutter == TypeInv /\ UNCHANGED vars => TypeInv'
  BY DEF TypeInv, TypeOK, vars, isrVars, ringVars, wVars, mVars, wifiVars

\* The type invariant is inductive.
LEMMA TypeNext == TypeInv /\ [Next]_vars => TypeInv'
  BY TypeIsr, TypeWriter, TypeMain, TypeNetwork, TypeStutter DEF Next

\* Every variable of the bridge keeps its type, both rings stay consistent and
\* no pointer leaves its storage, whatever the tasks, the interrupts and the
\* network do.
THEOREM BridgeTypes == Spec => []TypeInv
  BY TypeInit, TypeNext, PTL DEF Spec

\* In particular the type invariant that the runs check holds, for any sizes,
\* tasks and sockets.
THEOREM BridgeTypeOK == Spec => []TypeOK
<1>1. TypeInv => TypeOK
  BY DEF TypeInv
<1>. QED
  BY <1>1, BridgeTypes, PTL

-------------------------------------------------------------------------------
(* The mutex.                                                              *)

\* What the proofs below need of the types.
LockTypes ==
    /\ wpc \in [Writers -> {"none", "recv", "take", "copy", "write"}]
    /\ owner \in Writers \cup {"isr", NoTask}
    /\ isr \in {"idle", "drain", "main", "temp", "notify"}

\* Nobody holds the mutex when user_init has created it.
LEMMA LockInit == Init => LockDiscipline
  BY NamesAssumption DEF Init, LockDiscipline

\* The mutex changes hands only where the code takes or gives it.
LEMMA LockNext == LockTypes /\ LockDiscipline /\ [Next]_vars => LockDiscipline'
<1>. SUFFICES ASSUME LockTypes, LockDiscipline, [Next]_vars
              PROVE  LockDiscipline'
  OBVIOUS
<1>. USE NamesAssumption DEF LockDiscipline, LockTypes
<1>1. CASE UartByte
  BY <1>1 DEF UartByte, ringVars, wVars
<1>2. CASE IsrStep
  <2>1. CASE IsrDiscard
    BY <2>1 DEF IsrDiscard, ringVars, wVars
  <2>2. CASE IsrEnter
    BY <2>2 DEF IsrEnter, wVars
  <2>3. CASE IsrDrain
    BY <2>3 DEF IsrDrain, wVars
  <2>4. CASE IsrMain
    BY <2>4 DEF IsrMain, wVars
  <2>5. CASE IsrTemp
    BY <2>5 DEF IsrTemp, wVars
  <2>6. CASE IsrNotify
    BY <2>6 DEF IsrNotify, wVars
  <2>. QED
    BY <1>2, <2>1, <2>2, <2>3, <2>4, <2>5, <2>6 DEF IsrStep
<1>3. ASSUME NEW w \in Writers, WriteStep(w) PROVE LockDiscipline'
  <2>. USE DEF isrVars
  <2>1. CASE WriteRecv(w)
    BY <2>1 DEF WriteRecv
  <2>2. CASE WriteTake(w)
    BY <2>2 DEF WriteTake
  <2>3. CASE WriteCopy(w)
    BY <2>3 DEF WriteCopy
  <2>4. CASE WriteGive(w)
    BY <2>4 DEF WriteGive
  <2>5. CASE WriteOk(w)
    BY <2>5 DEF WriteOk, ringVars
  <2>6. CASE WriteFail(w)
    BY <2>6 DEF WriteFail, ringVars
  <2>. QED
    BY <1>3, <2>1, <2>2, <2>3, <2>4, <2>5, <2>6 DEF WriteStep
<1>4. ASSUME NEW m \in Mains, MainStep(m) PROVE LockDiscipline'
  <2>1. CASE MainConnected(m)
    BY <2>1 DEF MainConnected, isrVars, ringVars
  <2>2. CASE ~MainConnected(m)
    BY <1>4, <2>2 DEF MainStep, MainSocket, MainConnect, MainRefused, MainLoop,
       MainReadFails, MainReset, MainFlag, isrVars, ringVars, wVars
  <2>. QED
    BY <2>1, <2>2
<1>5. CASE WifiGotIp \/ WifiDisconnected \/ \E f \in Fds : ConnectionLost(f)
  BY <1>5 DEF WifiGotIp, WifiDisconnected, ConnectionLost, isrVars, ringVars, wVars
<1>6. CASE UNCHANGED vars
  BY <1>6 DEF vars, isrVars, ringVars, wVars
<1>. QED
  BY <1>1, <1>2, <1>3, <1>4, <1>5, <1>6 DEF Next

\* The handler and the write tasks never work on ringbuf_m at the same time,
\* for any number of write tasks (user_main.c:84-96, 196-208).
THEOREM BridgeLock == Spec => []LockDiscipline
<1>1. TypeInv => LockTypes
  BY DEF TypeInv, TypeOK, LockTypes
<1>. QED
  BY <1>1, LockInit, LockNext, BridgeTypes, PTL DEF Spec

-------------------------------------------------------------------------------
(* The contract with FreeRTOS.                                             *)

\* Each step that calls the kernel is a step of BridgeSync; the discipline of
\* the mutex tells who gives it back.
LEMMA SyncNext == LockTypes /\ LockDiscipline /\ [Next]_vars => [Sync!Next]_(Sync!vars)
<1>. SUFFICES ASSUME LockTypes, LockDiscipline, [Next]_vars
              PROVE  Sync!Next \/ UNCHANGED <<tx_queue, owner, wpc>>
  BY DEF Sync!vars
<1>. USE DEF Sync!Next
<1>1. CASE UartByte
  BY <1>1 DEF UartByte, ringVars, wVars
<1>2. CASE IsrStep
  <2>1. CASE IsrEnter
    BY <2>1 DEF IsrEnter, wVars, Sync!IsrTake
  <2>2. CASE IsrMain
    BY <2>2 DEF IsrMain, wVars, LockDiscipline, Sync!IsrGive
  <2>3. CASE IsrNotify
    BY <2>3 DEF IsrNotify, wVars, Sync!Notify
  <2>4. CASE IsrDiscard \/ IsrDrain \/ IsrTemp
    BY <2>4 DEF IsrDiscard, IsrDrain, IsrTemp, ringVars, wVars
  <2>. QED
    BY <1>2, <2>1, <2>2, <2>3, <2>4 DEF IsrStep
<1>3. ASSUME NEW w \in Writers, WriteStep(w)
      PROVE  Sync!Next \/ UNCHANGED <<tx_queue, owner, wpc>>
  <2>. USE DEF Sync!Goes
  <2>1. CASE WriteRecv(w)
    BY <2>1 DEF WriteRecv, Sync!Receive
  <2>2. CASE WriteTake(w)
    BY <2>2 DEF WriteTake, Sync!Take
  <2>3. CASE WriteCopy(w)
    BY <2>3 DEF WriteCopy
  <2>4. CASE WriteGive(w)
    BY <2>4 DEF WriteGive, LockDiscipline, Sync!Give
  <2>5. CASE WriteOk(w)
    BY <2>5 DEF WriteOk, ringVars, Sync!Again
  <2>6. CASE WriteFail(w)
    BY <2>6 DEF WriteFail, ringVars, Sync!Delete
  <2>. QED
    BY <1>3, <2>1, <2>2, <2>3, <2>4, <2>5, <2>6 DEF WriteStep
<1>4. ASSUME NEW m \in Mains, MainStep(m)
      PROVE  Sync!Next \/ UNCHANGED <<tx_queue, owner, wpc>>
  <2>1. CASE MainConnected(m)
    <3>1. tx_queue' = tx_queue /\ owner' = owner
      BY <2>1 DEF MainConnected, ringVars
    <3>2. CASE \E w \in Writers : wpc[w] = "none"
      <4>1. PICK w \in Writers : wpc[w] = "none" /\ wpc' = [wpc EXCEPT ![w] = "recv"]
        BY <2>1, <3>2 DEF MainConnected
      <4>. QED
        BY <3>1, <4>1 DEF Sync!Create, Sync!Goes
    <3>3. CASE ~\E w \in Writers : wpc[w] = "none"
      BY <2>1, <3>1, <3>3 DEF MainConnected
    <3>. QED
      BY <3>2, <3>3
  <2>2. CASE ~MainConnected(m)
    BY <1>4, <2>2 DEF MainStep, MainSocket, MainConnect, MainRefused, MainLoop,
       MainReadFails, MainReset, MainFlag, ringVars, wVars
  <2>. QED
    BY <2>1, <2>2
<1>5. CASE WifiGotIp \/ WifiDisconnected \/ \E f \in Fds : ConnectionLost(f)
  BY <1>5 DEF WifiGotIp, WifiDisconnected, ConnectionLost, ringVars, wVars
<1>6. CASE UNCHANGED vars
  BY <1>6 DEF vars, ringVars, wVars
<1>. QED
  BY <1>1, <1>2, <1>3, <1>4, <1>5, <1>6 DEF Next

\* The tasks and the handler use the queue and the mutex as BridgeSync allows,
\* for any number of write tasks (user_main.c:83-98, 196-224).
THEOREM BridgeUsesSync == Spec => UsesSync
<1>1. Init => Sync!Init
  BY DEF Init, Sync!Init
<1>2. TypeInv => LockTypes
  BY DEF TypeInv, TypeOK, LockTypes
<1>. QED
  BY <1>1, <1>2, SyncNext, BridgeTypes, BridgeLock, PTL DEF Spec, UsesSync, Sync!Spec

-------------------------------------------------------------------------------
(* The copy.                                                               *)

\* While w copies, the ring holds what w has still to fetch.
Counted(w) == wi[w] <= wlen[w] /\ ringM.fill_cnt = wlen[w] - wi[w]

\* While w copies bytes that did not wrap, those already stored and those still
\* to be fetched are the bytes taken.  The place w stores to never runs ahead
\* of the place it reads from, which is why the shared storage does no harm.
Faithful(w) ==
    from[w] + wlen[w] <= MSize =>
        /\ taken[w] \in [1 .. wlen[w] -> Nat]
        /\ \A k \in 0 .. MSize - 1 : k < wi[w] => ringM.mem[k] = taken[w][k + 1]
        /\ \A k \in 0 .. MSize - 1 :
               (wi[w] <= k /\ k < wlen[w]) => ringM.mem[from[w] + k] = taken[w][k + 1]
        /\ wi[w] < wlen[w] => ringM.p_r = from[w] + wi[w]

CopyInv == \A w \in Writers : wpc[w] = "copy" => Counted(w) /\ Faithful(w)

\* What a successful get and the store after it change.
LEMMA GetStoreFields ==
    ASSUME NEW r \in RingSet(MSize, Nat), get_ret(r) = 0,
           NEW a \in 0 .. MSize - 1, NEW c \in Nat
    PROVE  LET new == [ringbuf_get(r) EXCEPT !.mem[a] = c]
           IN  /\ new.mem = [r.mem EXCEPT ![a] = c]
               /\ new.p_r = Step(r.p_r, MSize)
               /\ new.fill_cnt = r.fill_cnt - 1
<1>1. r.size = MSize
  BY DEF RingSet
<1>2. ringbuf_get(r) = [mem |-> r.mem, p_r |-> Step(r.p_r, MSize), p_w |-> r.p_w,
                        fill_cnt |-> r.fill_cnt - 1, size |-> MSize]
  BY <1>1 DEF ringbuf_get, RingSet
<1>. QED
  BY <1>2

\* Taking the mutex establishes the invariant.
LEMMA TakeCopyInv ==
    ASSUME TypeInv, LockDiscipline, CopyInv, NEW w \in Writers, WriteTake(w)
    PROVE  CopyInv'
<1>1. /\ ringM \in RingSet(MSize, Nat) /\ MSize \in Nat /\ MSize >= 2
      /\ wpc \in [Writers -> {"none", "recv", "take", "copy", "write"}]
      /\ wi \in [Writers -> 0 .. MSize] /\ wlen \in [Writers -> 0 .. MSize]
      /\ from \in [Writers -> 0 .. MSize - 1] /\ taken \in [Writers -> Seq(Nat)]
  BY SizesAssumption DEF TypeInv, TypeOK
<1>2. /\ ringM' = ringM /\ wpc' = [wpc EXCEPT ![w] = "copy"]
      /\ wi'[w] = 0 /\ wlen'[w] = ringM.fill_cnt
      /\ from'[w] = ringM.p_r /\ taken'[w] = Unread(ringM)
  BY <1>1 DEF WriteTake
<1>3. \A v \in Writers : wpc[v] # "copy"
  BY NamesAssumption DEF WriteTake, LockDiscipline
<1>4. /\ Unread(ringM) \in Seq(Nat) /\ Len(Unread(ringM)) = ringM.fill_cnt
      /\ \A k \in 1 .. ringM.fill_cnt :
            Unread(ringM)[k] = ringM.mem[Slot(ringM, k - 1)]
  BY <1>1, UnreadIsSeq
<1>5. /\ ringM.fill_cnt \in 0 .. MSize /\ ringM.p_r \in 0 .. MSize - 1
      /\ ringM.size = MSize
  BY <1>1 DEF RingSet
<1>6. Counted(w)'
  BY <1>1, <1>2, <1>5 DEF Counted
<1>7. Faithful(w)'
  <2>. SUFFICES ASSUME ringM.p_r + ringM.fill_cnt <= MSize
                PROVE  /\ Unread(ringM) \in [1 .. ringM.fill_cnt -> Nat]
                       /\ \A k \in 0 .. MSize - 1 : k < ringM.fill_cnt =>
                            ringM.mem[ringM.p_r + k] = Unread(ringM)[k + 1]
    BY <1>1, <1>2, <1>5 DEF Faithful
  <2>1. Unread(ringM) \in [1 .. ringM.fill_cnt -> Nat]
    BY <1>4, LenProperties
  <2>2. ASSUME NEW k \in 0 .. MSize - 1, k < ringM.fill_cnt
        PROVE  ringM.mem[ringM.p_r + k] = Unread(ringM)[k + 1]
    <3>1. k + 1 \in 1 .. ringM.fill_cnt /\ (k + 1) - 1 = k
      BY <1>1, <1>5, <2>2
    <3>2. Slot(ringM, k) = ringM.p_r + k
      BY <1>1, <1>5, <2>2 DEF Slot
    <3>. QED
      BY <1>4, <3>1, <3>2
  <2>. QED
    BY <2>1, <2>2
<1>8. ASSUME NEW v \in Writers, wpc'[v] = "copy" PROVE v = w
  BY <1>1, <1>2, <1>3, <1>8
<1>. QED
  BY <1>6, <1>7, <1>8 DEF CopyInv

\* One turn of the copy loop keeps it.
LEMMA StepCopyInv ==
    ASSUME TypeInv, LockDiscipline, CopyInv, NEW w \in Writers, WriteCopy(w)
    PROVE  CopyInv'
<1>1. /\ ringM \in RingSet(MSize, Nat) /\ RingConsistent(ringM)
      /\ MSize \in Nat /\ MSize >= 2
      /\ wi \in [Writers -> 0 .. MSize] /\ wlen \in [Writers -> 0 .. MSize]
      /\ from \in [Writers -> 0 .. MSize - 1] /\ taken \in [Writers -> Seq(Nat)]
  BY SizesAssumption DEF TypeInv, TypeOK
<1>2. /\ wpc[w] = "copy" /\ wpc' = wpc /\ wlen' = wlen /\ from' = from
      /\ taken' = taken /\ wi' = [wi EXCEPT ![w] = @ + 1]
      /\ wi[w] < wlen[w] /\ wi[w] < MSize /\ get_ret(ringM) = 0
      /\ ringM' = [ringbuf_get(ringM) EXCEPT !.mem[wi[w]] = get_byte(ringM)]
  BY DEF WriteCopy
<1>3. \A v \in Writers : wpc[v] = "copy" => v = w
  BY <1>2 DEF LockDiscipline
<1>4. get_byte(ringM) \in Nat /\ wi[w] \in 0 .. MSize - 1 /\ wi'[w] = wi[w] + 1
  <2>1. get_byte(ringM) \in Nat
    BY <1>1, GetGood
  <2>2. wi[w] \in 0 .. MSize
    BY <1>1
  <2>. QED
    BY <1>1, <1>2, <2>1, <2>2
<1>5. /\ ringM'.mem = [ringM.mem EXCEPT ![wi[w]] = get_byte(ringM)]
      /\ ringM'.p_r = Step(ringM.p_r, MSize)
      /\ ringM'.fill_cnt = ringM.fill_cnt - 1
  <2>. DEFINE a == wi[w]
              c == get_byte(ringM)
  <2>1. /\ ringM \in RingSet(MSize, Nat) /\ get_ret(ringM) = 0
        /\ a \in 0 .. MSize - 1 /\ c \in Nat
        /\ ringM' = [ringbuf_get(ringM) EXCEPT !.mem[a] = c]
    BY <1>1, <1>2, <1>4
  <2>. HIDE DEF a, c
  <2>2. LET new == [ringbuf_get(ringM) EXCEPT !.mem[a] = c]
        IN  /\ new.mem = [ringM.mem EXCEPT ![a] = c]
            /\ new.p_r = Step(ringM.p_r, MSize)
            /\ new.fill_cnt = ringM.fill_cnt - 1
    BY <2>1, GetStoreFields
  <2>3. /\ ringM'.mem = [ringM.mem EXCEPT ![a] = c]
        /\ ringM'.p_r = Step(ringM.p_r, MSize)
        /\ ringM'.fill_cnt = ringM.fill_cnt - 1
    BY <2>1, <2>2
  <2>. QED
    BY <2>3 DEF a, c
<1>6. /\ ringM.mem \in [0 .. MSize - 1 -> Nat] /\ ringM.p_r \in 0 .. MSize - 1
      /\ ringM.fill_cnt \in 0 .. MSize
  BY <1>1 DEF RingSet
<1>7. Counted(w) /\ Faithful(w)
  BY <1>2 DEF CopyInv
<1>8. Counted(w)'
  <2>1. wlen[w] \in 0 .. MSize /\ wlen' = wlen /\ MSize \in Nat
    BY <1>1, <1>2
  <2>2. wi[w] < wlen[w] /\ ringM.fill_cnt = wlen[w] - wi[w]
    BY <1>2, <1>7 DEF Counted
  <2>. QED
    BY <1>4, <1>5, <2>1, <2>2 DEF Counted
<1>9. Faithful(w)'
  <2>. DEFINE i == wi[w]
              n == wlen[w]
              r0 == from[w]
              t == taken[w]
              m == ringM.mem
  <2>0. /\ i \in 0 .. MSize - 1 /\ n \in 0 .. MSize /\ r0 \in 0 .. MSize - 1
        /\ i < n /\ m \in [0 .. MSize - 1 -> Nat]
    BY <1>1, <1>2, <1>4, <1>6
  <2>. SUFFICES ASSUME r0 + n <= MSize
                PROVE  /\ t \in [1 .. n -> Nat]
                       /\ \A k \in 0 .. MSize - 1 :
                             k < i + 1 => ringM'.mem[k] = t[k + 1]
                       /\ \A k \in 0 .. MSize - 1 : (i + 1 <= k /\ k < n) =>
                             ringM'.mem[r0 + k] = t[k + 1]
                       /\ i + 1 < n => ringM'.p_r = r0 + (i + 1)
    BY <1>2, <1>4 DEF Faithful
  <2>1. /\ t \in [1 .. n -> Nat]
        /\ \A k \in 0 .. MSize - 1 : k < i => m[k] = t[k + 1]
        /\ \A k \in 0 .. MSize - 1 : (i <= k /\ k < n) => m[r0 + k] = t[k + 1]
        /\ ringM.p_r = r0 + i
    BY <1>2, <1>7 DEF Faithful
  <2>2. ringM'.mem = [m EXCEPT ![i] = m[r0 + i]]
    BY <1>5, <2>1 DEF get_byte
  <2>. HIDE DEF i, n, r0, t, m
  <2>3. m[r0 + i] = t[i + 1]
    BY <2>0, <2>1
  <2>4. ASSUME NEW k \in 0 .. MSize - 1, k < i + 1 PROVE ringM'.mem[k] = t[k + 1]
    <3>1. CASE k = i
      BY <2>0, <2>2, <2>3, <3>1
    <3>2. CASE k < i
      BY <2>0, <2>1, <2>2, <3>2
    <3>. QED
      BY <2>0, <2>4, <3>1, <3>2
  <2>5. ASSUME NEW k \in 0 .. MSize - 1, i + 1 <= k, k < n
        PROVE  ringM'.mem[r0 + k] = t[k + 1]
    <3>1. r0 + k \in 0 .. MSize - 1 /\ r0 + k # i /\ i <= k
      BY <1>1, <2>0, <2>5
    <3>2. m[r0 + k] = t[k + 1]
      BY <2>1, <2>5, <3>1
    <3>. QED
      BY <2>0, <2>2, <3>1, <3>2
  <2>6. i + 1 < n => ringM'.p_r = r0 + (i + 1)
    BY <1>1, <1>5, <2>0, <2>1 DEF Step
  <2>. QED
    BY <2>1, <2>4, <2>5, <2>6
<1>. QED
  BY <1>2, <1>3, <1>8, <1>9 DEF CopyInv

\* No task copies in the initial state.
LEMMA CopyInit == Init => CopyInv
  BY DEF Init, CopyInv

\* A step by the interrupt handler leaves a copy alone, because it does not get
\* the mutex; a step by the copying task moves one byte.
LEMMA CopyNext ==
    TypeInv /\ LockDiscipline /\ CopyInv /\ [Next]_vars => CopyInv'
<1>. SUFFICES ASSUME TypeInv, LockDiscipline, CopyInv, [Next]_vars
              PROVE  CopyInv'
  OBVIOUS
<1>0. wpc \in [Writers -> {"none", "recv", "take", "copy", "write"}]
  BY DEF TypeInv, TypeOK
<1>1. ASSUME UNCHANGED <<ringM, wi, wlen, from, taken>>,
             \A w \in Writers : wpc'[w] = "copy" => wpc[w] = "copy"
      PROVE  CopyInv'
  BY <1>1 DEF CopyInv, Counted, Faithful
<1>2. CASE UartByte
  BY <1>1, <1>2 DEF UartByte, ringVars, wVars
<1>3. CASE IsrStep
  <2>1. CASE IsrDrain \/ IsrMain
    <3>1. owner = "isr" /\ wpc' = wpc
      BY <2>1 DEF IsrDrain, IsrMain, LockDiscipline, wVars
    <3>2. \A w \in Writers : wpc'[w] # "copy"
      BY <3>1, NamesAssumption DEF LockDiscipline
    <3>. QED
      BY <3>2 DEF CopyInv
  <2>2. CASE IsrDiscard \/ IsrEnter \/ IsrTemp \/ IsrNotify
    BY <1>1, <2>2 DEF IsrDiscard, IsrEnter, IsrTemp, IsrNotify, ringVars, wVars
  <2>. QED
    BY <1>3, <2>1, <2>2 DEF IsrStep
<1>4. ASSUME NEW w \in Writers, WriteStep(w) PROVE CopyInv'
  <2>1. CASE WriteTake(w)
    BY <2>1, TakeCopyInv
  <2>2. CASE WriteCopy(w)
    BY <2>2, StepCopyInv
  <2>3. CASE WriteRecv(w) \/ WriteGive(w) \/ WriteOk(w) \/ WriteFail(w)
    BY <1>0, <1>1, <2>3 DEF WriteRecv, WriteGive, WriteOk, WriteFail, ringVars
  <2>. QED
    BY <1>4, <2>1, <2>2, <2>3 DEF WriteStep
<1>5. ASSUME NEW m \in Mains, MainStep(m) PROVE CopyInv'
  <2>1. CASE MainConnected(m)
    BY <1>0, <1>1, <2>1 DEF MainConnected, ringVars
  <2>2. CASE ~MainConnected(m)
    BY <1>1, <1>5, <2>2 DEF MainStep, MainSocket, MainConnect, MainRefused,
       MainLoop, MainReadFails, MainReset, MainFlag, ringVars, wVars
  <2>. QED
    BY <2>1, <2>2
<1>6. CASE WifiGotIp \/ WifiDisconnected \/ \E f \in Fds : ConnectionLost(f)
  BY <1>1, <1>6 DEF WifiGotIp, WifiDisconnected, ConnectionLost, ringVars, wVars
<1>7. CASE UNCHANGED vars
  BY <1>1, <1>7 DEF vars, ringVars, wVars
<1>. QED
  BY <1>2, <1>3, <1>4, <1>5, <1>6, <1>7 DEF Next

\* Throughout the copy of write_task the bytes it has still to get are in the
\* ring and, unless they wrapped, those it has got are in place (85-95).
THEOREM CopyInvariant == Spec => []CopyInv
  BY CopyInit, CopyNext, BridgeTypes, BridgeLock, PTL DEF Spec

\* For any number of write tasks, no write task ever finds the ring emptier than
\* it counted: "buffer error!" cannot be printed (user_main.c:85-95).
THEOREM BridgeCopyFindsItsBytes == Spec => []CopyFindsItsBytes
<1>1. CopyInv => CopyFindsItsBytes
  BY DEF CopyInv, Counted, CopyFindsItsBytes
<1>. QED
  BY <1>1, CopyInvariant, PTL

\* The copy of the ring into its own storage is exact whenever the unread bytes
\* do not wrap, for every buffer size (user_main.c:85-95, 317).
THEOREM BridgeCopyExact == Spec => []CopyExactUnlessWrapped
<1>1. TypeInv /\ CopyInv => CopyExactUnlessWrapped
  <2>. SUFFICES ASSUME TypeInv, CopyInv, NEW w \in Writers, wpc[w] = "copy",
                       wi[w] = wlen[w], from[w] + wlen[w] <= MSize
                PROVE  Chunk(w) = taken[w]
    BY DEF CopyExactUnlessWrapped
  <2>1. wi[w] \in 0 .. MSize /\ MSize \in Nat
    BY SizesAssumption DEF TypeInv, TypeOK
  <2>2. /\ taken[w] \in [1 .. wi[w] -> Nat]
        /\ \A k \in 0 .. MSize - 1 : k < wi[w] => ringM.mem[k] = taken[w][k + 1]
    BY DEF CopyInv, Faithful
  <2>3. ASSUME NEW k \in 1 .. wi[w] PROVE ringM.mem[k - 1] = taken[w][k]
    <3>1. k - 1 \in 0 .. MSize - 1 /\ k - 1 < wi[w] /\ (k - 1) + 1 = k
      BY <2>1
    <3>. QED
      BY <2>2, <3>1
  <2>. QED
    BY <2>2, <2>3 DEF Chunk
<1>. QED
  BY <1>1, BridgeTypes, CopyInvariant, PTL

-------------------------------------------------------------------------------
(* The notification.                                                       *)

\* NoLostWakeup with what the interrupt handler is about to do.
Notified ==
    ringM.fill_cnt > 0
        => \/ tx_queue
           \/ \E w \in Writers : wpc[w] \in {"take", "copy"}
           \/ isr \in {"drain", "main", "notify"}

\* Nothing is in the ring in the initial state.
LEMMA NotifiedInit == Init => Notified
  BY DEF Init, Notified, ringbuf_init

\* Whoever puts a byte into the ring is going to send to the queue, and whoever
\* takes the item out of it is going to empty the ring.
LEMMA NotifiedNext ==
    TypeInv /\ LockDiscipline /\ CopyInv /\ Notified /\ [Next]_vars => Notified'
<1>. SUFFICES ASSUME TypeInv, LockDiscipline, CopyInv, Notified, [Next]_vars
              PROVE  Notified'
  OBVIOUS
<1>0. /\ wpc \in [Writers -> {"none", "recv", "take", "copy", "write"}]
      /\ isr \in {"idle", "drain", "main", "temp", "notify"}
  BY DEF TypeInv, TypeOK
<1>1. ASSUME UNCHANGED <<ringM, tx_queue, isr>>,
             \A w \in Writers :
                wpc[w] \in {"take", "copy"} => wpc'[w] \in {"take", "copy"}
      PROVE  Notified'
  BY <1>1 DEF Notified
<1>2. CASE UartByte
  BY <1>1, <1>2 DEF UartByte, ringVars, wVars
<1>3. CASE IsrStep
  <2>1. CASE IsrDrain \/ IsrMain
    BY <2>1 DEF IsrDrain, IsrMain, Notified
  <2>2. CASE IsrNotify
    BY <2>2 DEF IsrNotify, Notified
  <2>3. CASE IsrDiscard
    BY <1>1, <2>3 DEF IsrDiscard, ringVars, wVars
  <2>4. CASE IsrEnter \/ IsrTemp
    BY <2>4 DEF IsrEnter, IsrTemp, Notified, wVars
  <2>. QED
    BY <1>3, <2>1, <2>2, <2>3, <2>4 DEF IsrStep
<1>4. ASSUME NEW w \in Writers, WriteStep(w) PROVE Notified'
  <2>. USE DEF isrVars
  <2>1. CASE WriteRecv(w)
    <3>1. wpc'[w] = "take"
      BY <1>0, <2>1 DEF WriteRecv
    <3>. QED
      BY <3>1 DEF Notified
  <2>2. CASE WriteTake(w)
    <3>1. wpc'[w] = "copy"
      BY <1>0, <2>2 DEF WriteTake
    <3>. QED
      BY <3>1 DEF Notified
  <2>3. CASE WriteCopy(w)
    BY <2>3 DEF WriteCopy, Notified
  <2>4. CASE WriteGive(w)
    <3>1. /\ wi[w] \in 0 .. MSize /\ wlen[w] \in 0 .. MSize /\ MSize \in Nat
          /\ wi[w] <= wlen[w] /\ ringM.fill_cnt = wlen[w] - wi[w]
      BY <2>4, SizesAssumption DEF WriteGive, CopyInv, Counted, TypeInv, TypeOK
    <3>2. ~(wi[w] < wlen[w] /\ wi[w] < MSize /\ get_ret(ringM) = 0)
          /\ ringM' = ringM
      BY <2>4 DEF WriteGive
    <3>3. ringM.fill_cnt = 0
      BY <3>1, <3>2 DEF get_ret
    <3>. QED
      BY <3>2, <3>3 DEF Notified
  <2>5. CASE WriteOk(w) \/ WriteFail(w)
    BY <1>0, <1>1, <2>5 DEF WriteOk, WriteFail, ringVars
  <2>. QED
    BY <1>4, <2>1, <2>2, <2>3, <2>4, <2>5 DEF WriteStep
<1>5. ASSUME NEW m \in Mains, MainStep(m) PROVE Notified'
  <2>1. CASE MainConnected(m)
    BY <1>0, <1>1, <2>1 DEF MainConnected, isrVars, ringVars
  <2>2. CASE ~MainConnected(m)
    BY <1>1, <1>5, <2>2 DEF MainStep, MainSocket, MainConnect, MainRefused,
       MainLoop, MainReadFails, MainReset, MainFlag, isrVars, ringVars, wVars
  <2>. QED
    BY <2>1, <2>2
<1>6. CASE WifiGotIp \/ WifiDisconnected \/ \E f \in Fds : ConnectionLost(f)
  BY <1>1, <1>6 DEF WifiGotIp, WifiDisconnected, ConnectionLost, isrVars,
     ringVars, wVars
<1>7. CASE UNCHANGED vars
  BY <1>1, <1>7 DEF vars, isrVars, ringVars, wVars
<1>. QED
  BY <1>2, <1>3, <1>4, <1>5, <1>6, <1>7 DEF Next

\* Between interrupts, bytes in ringbuf_m always have a notification pending or
\* a write task on its way to them, for any number of write tasks and however
\* often the connection is lost (user_main.c:83-96, 224).
THEOREM BridgeNoLostWakeup == Spec => []NoLostWakeup
<1>1. Notified => NoLostWakeup
  BY DEF Notified, NoLostWakeup
<1>. QED
  BY <1>1, NotifiedInit, NotifiedNext, BridgeTypes, BridgeLock, CopyInvariant, PTL
     DEF Spec

-------------------------------------------------------------------------------
(* The order of bytes.  A byte passes the receive FIFO, often the temporary *)
(* ring, the main ring and the copy, and reaches the wire.  The lemmas are  *)
(* about any sequences of numbers.                                          *)

Upto(x, n)   == \A i \in 1 .. Len(x) : x[i] \in 1 .. n
Incr(x)      == \A i, j \in 1 .. Len(x) : i < j => x[i] < x[j]
Before(x, y) == \A i \in 1 .. Len(x), j \in 1 .. Len(y) : x[i] < y[j]

\* The stages from the wire back to the FIFO, after n bytes were sent: every
\* byte is older than those behind it in its stage and in the stages after it.
Ordered(w, h, m, t, f, n) ==
    /\ Upto(w, n) /\ Upto(h, n) /\ Upto(m, n) /\ Upto(t, n) /\ Upto(f, n)
    /\ Incr(w) /\ Incr(h) /\ Incr(m) /\ Incr(t) /\ Incr(f)
    /\ Before(w, h) /\ Before(w, m) /\ Before(w, t) /\ Before(w, f)
    /\ Before(h, m) /\ Before(h, t) /\ Before(h, f)
    /\ Before(m, t) /\ Before(m, f)
    /\ Before(t, f)

\* Nothing is said of an empty stage.
LEMMA EmptyOrdered ==
    ASSUME NEW x \in Seq(Nat), NEW n
    PROVE  /\ Upto(<<>>, n) /\ Incr(<<>>)
           /\ Before(<<>>, x) /\ Before(x, <<>>)
  BY EmptySeq DEF Upto, Incr, Before

\* Without its oldest byte a stage is in order as before.
LEMMA TailOrdered ==
    ASSUME NEW x \in Seq(Nat), x # <<>>, NEW n
    PROVE  /\ Tail(x) \in Seq(Nat)
           /\ Upto(x, n) => Upto(Tail(x), n)
           /\ Incr(x) => Incr(Tail(x))
           /\ \A y \in Seq(Nat) : Before(x, y) => Before(Tail(x), y)
           /\ \A y \in Seq(Nat) : Before(y, x) => Before(y, Tail(x))
<1>. DEFINE u == Tail(x)
<1>1. /\ u \in Seq(Nat) /\ Len(u) = Len(x) - 1 /\ Len(x) \in Nat
      /\ \A i \in 1 .. Len(u) : u[i] = x[i + 1]
  BY HeadTailProperties, LenProperties
<1>. HIDE DEF u
<1>2. \A i \in 1 .. Len(u) : i + 1 \in 1 .. Len(x)
  BY <1>1
<1>3. Upto(x, n) => Upto(u, n)
  BY <1>1, <1>2 DEF Upto
<1>4. Incr(x) => Incr(u)
  <2>. SUFFICES ASSUME Incr(x), NEW i \in 1 .. Len(u), NEW j \in 1 .. Len(u), i < j
                PROVE  u[i] < u[j]
    BY DEF Incr
  <2>1. i + 1 \in 1 .. Len(x) /\ j + 1 \in 1 .. Len(x) /\ i + 1 < j + 1
    BY <1>1
  <2>2. x[i + 1] < x[j + 1]
    BY <2>1 DEF Incr
  <2>. QED
    BY <1>1, <2>2
<1>5. \A y \in Seq(Nat) : Before(x, y) => Before(u, y)
  BY <1>1, <1>2 DEF Before
<1>6. \A y \in Seq(Nat) : Before(y, x) => Before(y, u)
  BY <1>1, <1>2 DEF Before
<1>. QED
  BY <1>1, <1>3, <1>4, <1>5, <1>6 DEF u

\* A byte that comes after those of a stage may be appended to it.
LEMMA AppendOrdered ==
    ASSUME NEW x \in Seq(Nat), NEW c \in Nat, NEW n
    PROVE  /\ Append(x, c) \in Seq(Nat)
           /\ Upto(x, n) /\ c \in 1 .. n => Upto(Append(x, c), n)
           /\ Incr(x) /\ (\A i \in 1 .. Len(x) : x[i] < c) => Incr(Append(x, c))
           /\ \A y \in Seq(Nat) :
                 Before(x, y) /\ (\A j \in 1 .. Len(y) : c < y[j])
                    => Before(Append(x, c), y)
           /\ \A y \in Seq(Nat) :
                 Before(y, x) /\ (\A j \in 1 .. Len(y) : y[j] < c)
                    => Before(y, Append(x, c))
<1>. DEFINE u == Append(x, c)
            l == Len(x) + 1
<1>1. /\ u \in Seq(Nat) /\ Len(u) = l /\ Len(x) \in Nat
      /\ \A i \in 1 .. Len(x) : u[i] = x[i]
      /\ u[l] = c
  BY AppendProperties, LenProperties
<1>2. \A i \in 1 .. l : i \in 1 .. Len(x) \/ i = l
  BY <1>1
<1>. HIDE DEF u
<1>3. Upto(x, n) /\ c \in 1 .. n => Upto(u, n)
  BY <1>1, <1>2 DEF Upto
<1>4. Incr(x) /\ (\A i \in 1 .. Len(x) : x[i] < c) => Incr(u)
  <2>. SUFFICES ASSUME Incr(x), \A i \in 1 .. Len(x) : x[i] < c,
                       NEW i \in 1 .. l, NEW j \in 1 .. l, i < j
                PROVE  u[i] < u[j]
    BY <1>1 DEF Incr
  <2>1. i \in 1 .. Len(x)
    BY <1>1
  <2>. QED
    BY <1>1, <1>2, <2>1 DEF Incr
<1>5. \A y \in Seq(Nat) :
         Before(x, y) /\ (\A j \in 1 .. Len(y) : c < y[j]) => Before(u, y)
  BY <1>1, <1>2 DEF Before
<1>6. \A y \in Seq(Nat) :
         Before(y, x) /\ (\A j \in 1 .. Len(y) : y[j] < c) => Before(y, u)
  BY <1>1, <1>2 DEF Before
<1>. QED
  BY <1>1, <1>3, <1>4, <1>5, <1>6 DEF u

\* The oldest byte of stage y moves to the end of the stage x before it.
LEMMA MoveOrdered ==
    ASSUME NEW x \in Seq(Nat), NEW y \in Seq(Nat), y # <<>>, NEW n,
           Upto(x, n), Upto(y, n), Incr(x), Incr(y), Before(x, y)
    PROVE  /\ Append(x, Head(y)) \in Seq(Nat) /\ Tail(y) \in Seq(Nat)
           /\ Upto(Append(x, Head(y)), n) /\ Upto(Tail(y), n)
           /\ Incr(Append(x, Head(y))) /\ Incr(Tail(y))
           /\ Before(Append(x, Head(y)), Tail(y))
           /\ \A z \in Seq(Nat) : Before(z, x) /\ Before(z, y) =>
                 Before(z, Append(x, Head(y))) /\ Before(z, Tail(y))
           /\ \A z \in Seq(Nat) : Before(x, z) /\ Before(y, z) =>
                 Before(Append(x, Head(y)), z) /\ Before(Tail(y), z)
<1>. DEFINE c == Head(y)
<1>1. /\ c \in Nat /\ c = y[1] /\ Len(y) \in Nat /\ Len(y) >= 1
      /\ Len(Tail(y)) = Len(y) - 1
      /\ \A i \in 1 .. Len(Tail(y)) : Tail(y)[i] = y[i + 1]
  BY HeadTailProperties, LenProperties, EmptySeq
<1>. HIDE DEF c
<1>2. c \in 1 .. n
  BY <1>1 DEF Upto
<1>3. \A i \in 1 .. Len(x) : x[i] < c
  BY <1>1 DEF Before
<1>4. \A j \in 1 .. Len(Tail(y)) : c < Tail(y)[j]
  BY <1>1 DEF Incr
<1>5. ASSUME NEW z \in Seq(Nat), Before(z, y) PROVE \A j \in 1 .. Len(z) : z[j] < c
  BY <1>1, <1>5 DEF Before
<1>6. ASSUME NEW z \in Seq(Nat), Before(y, z) PROVE \A j \in 1 .. Len(z) : c < z[j]
  BY <1>1, <1>6 DEF Before
<1>7. Tail(y) \in Seq(Nat) /\ Upto(Tail(y), n) /\ Incr(Tail(y)) /\ Before(x, Tail(y))
  BY TailOrdered
<1>8. /\ Append(x, c) \in Seq(Nat) /\ Upto(Append(x, c), n) /\ Incr(Append(x, c))
      /\ Before(Append(x, c), Tail(y))
  BY <1>1, <1>2, <1>3, <1>4, <1>7, AppendOrdered
<1>9. ASSUME NEW z \in Seq(Nat), Before(z, x), Before(z, y)
      PROVE  Before(z, Append(x, c)) /\ Before(z, Tail(y))
  BY <1>1, <1>5, <1>9, AppendOrdered, TailOrdered
<1>10. ASSUME NEW z \in Seq(Nat), Before(x, z), Before(y, z)
       PROVE  Before(Append(x, c), z) /\ Before(Tail(y), z)
  BY <1>1, <1>6, <1>10, AppendOrdered, TailOrdered
<1>. QED
  BY <1>7, <1>8, <1>9, <1>10 DEF c

\* A stage that comes wholly after another may be put behind it.
LEMMA JoinOrdered ==
    ASSUME NEW x \in Seq(Nat), NEW y \in Seq(Nat), NEW n,
           Upto(x, n), Upto(y, n), Incr(x), Incr(y), Before(x, y)
    PROVE  /\ x \o y \in Seq(Nat) /\ Upto(x \o y, n) /\ Incr(x \o y)
           /\ \A z \in Seq(Nat) : Before(x, z) /\ Before(y, z) => Before(x \o y, z)
<1>. DEFINE u == x \o y
<1>1. /\ u \in Seq(Nat) /\ Len(u) = Len(x) + Len(y)
      /\ Len(x) \in Nat /\ Len(y) \in Nat
      /\ \A i \in 1 .. Len(x) + Len(y) :
            u[i] = IF i <= Len(x) THEN x[i] ELSE y[i - Len(x)]
  BY ConcatProperties, LenProperties
<1>. HIDE DEF u
<1>2. \A i \in 1 .. Len(u) :
         \/ i \in 1 .. Len(x) /\ u[i] = x[i]
         \/ i > Len(x) /\ i - Len(x) \in 1 .. Len(y) /\ u[i] = y[i - Len(x)]
  BY <1>1
<1>3. Upto(u, n)
  BY <1>2 DEF Upto
<1>4. Incr(u)
  <2>. SUFFICES ASSUME NEW i \in 1 .. Len(u), NEW j \in 1 .. Len(u), i < j
                PROVE  u[i] < u[j]
    BY DEF Incr
  <2>1. CASE j \in 1 .. Len(x)
    <3>1. i \in 1 .. Len(x) /\ u[i] = x[i] /\ u[j] = x[j]
      BY <1>1, <2>1
    <3>. QED
      BY <2>1, <3>1 DEF Incr
  <2>2. CASE i > Len(x)
    <3>. DEFINE i1 == i - Len(x)
                j1 == j - Len(x)
    <3>1. i > Len(x) /\ j > Len(x) /\ i1 < j1
      BY <1>1, <2>2
    <3>2. i1 \in 1 .. Len(y) /\ u[i] = y[i1]
      BY <1>1, <1>2, <3>1
    <3>3. j1 \in 1 .. Len(y) /\ u[j] = y[j1]
      BY <1>1, <1>2, <3>1
    <3>. HIDE DEF i1, j1
    <3>. QED
      BY <3>1, <3>2, <3>3 DEF Incr
  <2>3. CASE i <= Len(x) /\ j > Len(x)
    <3>. DEFINE j1 == j - Len(x)
    <3>1. i \in 1 .. Len(x) /\ j > Len(x)
      BY <1>1, <2>3
    <3>2. u[i] = x[i]
      BY <1>2, <3>1
    <3>3. j1 \in 1 .. Len(y) /\ u[j] = y[j1]
      BY <1>1, <1>2, <3>1
    <3>. HIDE DEF j1
    <3>. QED
      BY <3>1, <3>2, <3>3 DEF Before
  <2>. QED
    BY <1>1, <2>1, <2>2, <2>3
<1>5. \A z \in Seq(Nat) : Before(x, z) /\ Before(y, z) => Before(u, z)
  BY <1>2 DEF Before
<1>. QED
  BY <1>1, <1>3, <1>4, <1>5 DEF u


\* What may happen to the stages: a new byte arrives, ...
LEMMA OrderedArrival ==
    ASSUME NEW w \in Seq(Nat), NEW h \in Seq(Nat), NEW m \in Seq(Nat),
           NEW t \in Seq(Nat), NEW f \in Seq(Nat), NEW n \in Nat,
           Ordered(w, h, m, t, f, n)
    PROVE  /\ Ordered(w, h, m, t, f, n + 1)
           /\ Ordered(w, h, m, t, Append(f, n + 1), n + 1)
<1>1. ASSUME NEW x \in Seq(Nat), Upto(x, n)
      PROVE  Upto(x, n + 1) /\ \A i \in 1 .. Len(x) : x[i] < n + 1
  BY <1>1, SMTT(30) DEF Upto
<1>2. Ordered(w, h, m, t, f, n + 1)
  BY <1>1, SMTT(30) DEF Ordered
<1>3. n + 1 \in Nat /\ n + 1 \in 1 .. n + 1
  OBVIOUS
<1>4. /\ Upto(Append(f, n + 1), n + 1) /\ Incr(Append(f, n + 1))
      /\ \A y \in Seq(Nat) : Before(y, f) /\ Upto(y, n) => Before(y, Append(f, n + 1))
  BY <1>1, <1>3, AppendOrdered DEF Ordered
<1>. QED
  BY <1>2, <1>4 DEF Ordered

\* ... the oldest byte of the FIFO or of the temporary ring is lost, ...
LEMMA OrderedLoss ==
    ASSUME NEW w \in Seq(Nat), NEW h \in Seq(Nat), NEW m \in Seq(Nat),
           NEW t \in Seq(Nat), NEW f \in Seq(Nat), NEW n \in Nat,
           Ordered(w, h, m, t, f, n)
    PROVE  /\ f # <<>> => Ordered(w, h, m, t, Tail(f), n)
           /\ t # <<>> => Tail(t) \in Seq(Nat) /\ Ordered(w, h, m, Tail(t), f, n)
  BY TailOrdered DEF Ordered

\* ... or moves on: from the FIFO to the temporary ring, ...
LEMMA OrderedParked ==
    ASSUME NEW w \in Seq(Nat), NEW h \in Seq(Nat), NEW m \in Seq(Nat),
           NEW t \in Seq(Nat), NEW f \in Seq(Nat), NEW n \in Nat,
           Ordered(w, h, m, t, f, n), f # <<>>
    PROVE  Ordered(w, h, m, Append(t, Head(f)), Tail(f), n)
  BY MoveOrdered DEF Ordered

\* ... from the temporary ring to the main ring, ...
LEMMA OrderedDrained ==
    ASSUME NEW w \in Seq(Nat), NEW h \in Seq(Nat), NEW m \in Seq(Nat),
           NEW t \in Seq(Nat), NEW f \in Seq(Nat), NEW n \in Nat,
           Ordered(w, h, m, t, f, n), t # <<>>
    PROVE  Ordered(w, h, Append(m, Head(t)), Tail(t), f, n)
  BY MoveOrdered DEF Ordered

\* ... from the FIFO to the main ring, if it overtakes nothing parked, ...
LEMMA OrderedStored ==
    ASSUME NEW w \in Seq(Nat), NEW h \in Seq(Nat), NEW m \in Seq(Nat),
           NEW f \in Seq(Nat), NEW n \in Nat,
           Ordered(w, h, m, <<>>, f, n), f # <<>>
    PROVE  Ordered(w, h, Append(m, Head(f)), <<>>, Tail(f), n)
<1>1. /\ Append(m, Head(f)) \in Seq(Nat) /\ Tail(f) \in Seq(Nat)
      /\ Upto(Append(m, Head(f)), n) /\ Upto(Tail(f), n)
      /\ Incr(Append(m, Head(f))) /\ Incr(Tail(f))
      /\ Before(Append(m, Head(f)), Tail(f))
      /\ Before(w, Append(m, Head(f))) /\ Before(w, Tail(f))
      /\ Before(h, Append(m, Head(f))) /\ Before(h, Tail(f))
  BY MoveOrdered DEF Ordered
<1>2. /\ Before(Append(m, Head(f)), <<>>) /\ Before(<<>>, Tail(f))
  BY <1>1, EmptyOrdered
<1>. QED
  BY <1>1, <1>2 DEF Ordered

\* ... from the main ring to the copy, ...
LEMMA OrderedCopied ==
    ASSUME NEW w \in Seq(Nat), NEW h \in Seq(Nat), NEW m \in Seq(Nat),
           NEW t \in Seq(Nat), NEW f \in Seq(Nat), NEW n \in Nat,
           Ordered(w, h, m, t, f, n), m # <<>>
    PROVE  Ordered(w, Append(h, Head(m)), Tail(m), t, f, n)
  BY MoveOrdered DEF Ordered

\* ... and the whole copy to the wire or away.
LEMMA OrderedWritten ==
    ASSUME NEW w \in Seq(Nat), NEW h \in Seq(Nat), NEW m \in Seq(Nat),
           NEW t \in Seq(Nat), NEW f \in Seq(Nat), NEW n \in Nat,
           Ordered(w, h, m, t, f, n)
    PROVE  /\ w \o h \in Seq(Nat) /\ Ordered(w \o h, <<>>, m, t, f, n)
           /\ Ordered(w, <<>>, m, t, f, n)
<1>1. /\ w \o h \in Seq(Nat) /\ Upto(w \o h, n) /\ Incr(w \o h)
      /\ Before(w \o h, m) /\ Before(w \o h, t) /\ Before(w \o h, f)
  BY JoinOrdered DEF Ordered
<1>2. /\ Before(w \o h, <<>>) /\ Before(w, <<>>)
      /\ Before(<<>>, m) /\ Before(<<>>, t) /\ Before(<<>>, f)
      /\ Upto(<<>>, n) /\ Incr(<<>>)
  BY <1>1, EmptyOrdered
<1>. QED
  BY <1>1, <1>2 DEF Ordered

\* The task that copies or writes holds bytes of its own, at most one does.
Busy(w) == wpc[w] \in {"copy", "write"}

Held ==
    IF \E w \in Writers : Busy(w)
    THEN Chunk(CHOOSE w \in Writers : Busy(w))
    ELSE <<>>

\* No write task was created while another one existed.
Uncrowded == ~crowded

OneWriter ==
    Uncrowded =>
        \A v, w \in Writers : wpc[v] # "none" /\ wpc[w] # "none" => v = w

\* The handler fills the main ring only after the temporary ring is drained.
Drained == isr = "main" => ringT.fill_cnt = 0

At(k) == IF k = MSize THEN 0 ELSE k

\* put bytes have gone into the main ring so far, into as many different places;
\* the copy, which starts anew at the beginning of the storage, is not longer
\* than what was taken out.
StraightBy(put) ==
    /\ put + ringT.fill_cnt + Len(fifo) <= sent
    /\ ringM.fill_cnt <= put
    /\ ringM.p_w = At(put) /\ ringM.p_r = At(put - ringM.fill_cnt)
    /\ \A w \in Writers : Busy(w) => wi[w] <= put - ringM.fill_cnt

Straight == \E put \in 0 .. MSize : StraightBy(put)

InOrder == Ordered(wire, Held, Unread(ringM), Unread(ringT), fifo, sent)

OrderInv == (Uncrowded /\ sent <= MSize) => Straight /\ InOrder

\* What tx_buffer_m holds for a task are wi[w] numbers.
LEMMA ChunkIsSeq ==
    ASSUME TypeInv, NEW w \in Writers
    PROVE  /\ Chunk(w) \in Seq(Nat) /\ Len(Chunk(w)) = wi[w]
           /\ \A k \in 1 .. wi[w] : Chunk(w)[k] = ringM.mem[k - 1]
<1>1. /\ wi[w] \in 0 .. MSize /\ MSize \in Nat
      /\ ringM.mem \in [0 .. MSize - 1 -> Nat]
  BY SizesAssumption DEF TypeInv, TypeOK, RingSet
<1>2. Chunk(w) \in [1 .. wi[w] -> Nat] /\ wi[w] \in Nat
  <2>1. ASSUME NEW k \in 1 .. wi[w] PROVE ringM.mem[k - 1] \in Nat
    <3>1. k - 1 \in 0 .. MSize - 1
      BY <1>1
    <3>. QED
      BY <1>1, <3>1
  <2>. QED
    BY <1>1, <2>1 DEF Chunk
<1>3. Chunk(w) \in Seq(Nat)
  BY <1>2, SeqDef
<1>4. Len(Chunk(w)) = wi[w]
  BY <1>2, <1>3, LenProperties
<1>. QED
  BY <1>3, <1>4 DEF Chunk

HeldFacts ==
    /\ Held \in Seq(Nat)
    /\ \A w \in Writers : Busy(w) => Held = Chunk(w)
    /\ (\A w \in Writers : ~Busy(w)) => Held = <<>>

\* With one writer, what is held is its copy.
LEMMA HeldIs == TypeInv /\ OneWriter /\ Uncrowded => HeldFacts
<1>. SUFFICES ASSUME TypeInv, OneWriter, Uncrowded PROVE HeldFacts
  OBVIOUS
<1>1. \A v, w \in Writers : Busy(v) /\ Busy(w) => v = w
  BY DEF OneWriter, Busy
<1>2. ASSUME NEW w \in Writers, Busy(w) PROVE Held = Chunk(w) /\ Held \in Seq(Nat)
  <2>. DEFINE u == CHOOSE v \in Writers : Busy(v)
  <2>1. u \in Writers /\ Busy(u)
    BY <1>2
  <2>2. Held = Chunk(u)
    BY <1>2 DEF Held
  <2>. HIDE DEF u
  <2>3. u = w
    BY <1>1, <1>2, <2>1
  <2>. QED
    BY <2>2, <2>3, ChunkIsSeq
<1>3. (\A w \in Writers : ~Busy(w)) => Held = <<>>
  BY DEF Held
<1>. QED
  BY <1>2, <1>3, EmptySeq DEF HeldFacts

\* So it is after a step.
LEMMA HeldIsPrime == TypeInv' /\ OneWriter' /\ Uncrowded' => HeldFacts'
  BY HeldIs, PTL

\* Only MainConnected creates a write task, and it records a second one.
LEMMA OneWriterNext == TypeInv /\ OneWriter /\ [Next]_vars => OneWriter'
<1>. SUFFICES ASSUME TypeInv, OneWriter, [Next]_vars PROVE OneWriter'
  OBVIOUS
<1>0. wpc \in [Writers -> {"none", "recv", "take", "copy", "write"}]
  BY DEF TypeInv, TypeOK
<1>1. ASSUME crowded' = crowded,
             \A w \in Writers : wpc[w] = "none" => wpc'[w] = "none"
      PROVE  OneWriter'
  BY <1>1 DEF OneWriter, Uncrowded
<1>2. CASE UartByte
  BY <1>1, <1>2 DEF UartByte, wVars, mVars
<1>3. CASE IsrStep
  BY <1>1, <1>3 DEF IsrStep, IsrDiscard, IsrEnter, IsrDrain, IsrMain, IsrTemp,
     IsrNotify, wVars, mVars
<1>4. ASSUME NEW w \in Writers, WriteStep(w) PROVE OneWriter'
  BY <1>0, <1>1, <1>4 DEF WriteStep, WriteRecv, WriteTake, WriteCopy, WriteGive,
     WriteOk, WriteFail, mVars
<1>5. ASSUME NEW m \in Mains, MainStep(m) PROVE OneWriter'
  <2>1. CASE MainConnected(m)
    <3>1. CASE \E w \in Writers : wpc[w] = "none"
      <4>. SUFFICES ASSUME ~crowded' PROVE OneWriter'
        BY DEF OneWriter, Uncrowded
      <4>1. \A w \in Writers : wpc[w] = "none"
        BY <2>1, <3>1 DEF MainConnected
      <4>2. PICK w \in Writers : wpc' = [wpc EXCEPT ![w] = "recv"]
        BY <2>1, <3>1 DEF MainConnected
      <4>. QED
        BY <1>0, <4>1, <4>2 DEF OneWriter
    <3>2. CASE ~\E w \in Writers : wpc[w] = "none"
      BY <1>1, <2>1, <3>2 DEF MainConnected
    <3>. QED
      BY <3>1, <3>2
  <2>2. CASE ~MainConnected(m)
    BY <1>1, <1>5, <2>2 DEF MainStep, MainSocket, MainConnect, MainRefused,
       MainLoop, MainReadFails, MainReset, MainFlag, wVars
  <2>. QED
    BY <2>1, <2>2
<1>6. CASE WifiGotIp \/ WifiDisconnected \/ \E f \in Fds : ConnectionLost(f)
  BY <1>1, <1>6 DEF WifiGotIp, WifiDisconnected, ConnectionLost, wVars, mVars
<1>7. CASE UNCHANGED vars
  BY <1>1, <1>7 DEF vars, wVars, mVars
<1>. QED
  BY <1>2, <1>3, <1>4, <1>5, <1>6, <1>7 DEF Next

\* The temporary ring stays empty while the handler fills the main ring.
LEMMA DrainedNext == TypeInv /\ Drained /\ [Next]_vars => Drained'
<1>. SUFFICES ASSUME TypeInv, Drained, [Next]_vars PROVE Drained'
  OBVIOUS
<1>1. ASSUME UNCHANGED <<isr, ringT>> PROVE Drained'
  BY <1>1 DEF Drained
<1>2. CASE UartByte
  BY <1>1, <1>2 DEF UartByte, ringVars
<1>3. CASE IsrStep
  <2>1. CASE IsrDiscard
    BY <1>1, <2>1 DEF IsrDiscard, ringVars
  <2>2. CASE IsrEnter \/ IsrTemp \/ IsrNotify \/ IsrMain
    BY <2>2 DEF IsrEnter, IsrTemp, IsrNotify, IsrMain, Drained
  <2>3. CASE IsrDrain
    <3>1. CASE get_ret(ringT) = 0
      BY <2>3, <3>1 DEF IsrDrain, Drained
    <3>2. CASE get_ret(ringT) # 0
      <4>1. ringT.fill_cnt = 0
        BY <3>2, SizesAssumption, SMTT(30) DEF TypeInv, TypeOK, RingSet, get_ret
      <4>2. ringT' = ringT
        BY <2>3, <3>2 DEF IsrDrain
      <4>. QED
        BY <4>1, <4>2 DEF Drained
    <3>. QED
      BY <3>1, <3>2
  <2>. QED
    BY <1>3, <2>1, <2>2, <2>3 DEF IsrStep
<1>4. ASSUME NEW w \in Writers, WriteStep(w) PROVE Drained'
  BY <1>1, <1>4 DEF WriteStep, WriteRecv, WriteTake, WriteCopy, WriteGive,
     WriteOk, WriteFail, isrVars, ringVars
<1>5. ASSUME NEW m \in Mains, MainStep(m) PROVE Drained'
  BY <1>1, <1>5 DEF MainStep, MainSocket, MainConnect, MainConnected, MainRefused,
     MainLoop, MainReadFails, MainReset, MainFlag, isrVars, ringVars
<1>6. CASE WifiGotIp \/ WifiDisconnected \/ \E f \in Fds : ConnectionLost(f)
  BY <1>1, <1>6 DEF WifiGotIp, WifiDisconnected, ConnectionLost, isrVars, ringVars
<1>7. CASE UNCHANGED vars
  BY <1>1, <1>7 DEF vars, isrVars, ringVars
<1>. QED
  BY <1>2, <1>3, <1>4, <1>5, <1>6, <1>7 DEF Next


\* What the steps below need of the types.
LEMMA OrderTypes ==
    ASSUME TypeInv
    PROVE  /\ MSize \in Nat /\ MSize >= 2 /\ TSize \in Nat /\ TSize >= 2
           /\ ringM \in RingSet(MSize, Nat) /\ RingConsistent(ringM)
           /\ ringT \in RingSet(TSize, Nat) /\ RingConsistent(ringT)
           /\ fifo \in Seq(Nat) /\ Len(fifo) \in Nat /\ wire \in Seq(Nat)
           /\ sent \in Nat
           /\ wi \in [Writers -> 0 .. MSize]
           /\ wpc \in [Writers -> {"none", "recv", "take", "copy", "write"}]
           /\ ringM.mem \in [0 .. MSize - 1 -> Nat] /\ ringM.fill_cnt \in 0 .. MSize
           /\ ringT.fill_cnt \in 0 .. TSize
           /\ Unread(ringM) \in Seq(Nat) /\ Len(Unread(ringM)) = ringM.fill_cnt
           /\ Unread(ringT) \in Seq(Nat) /\ Len(Unread(ringT)) = ringT.fill_cnt
           /\ ringT.fill_cnt = 0 => Unread(ringT) = <<>>
<1>1. /\ MSize \in Nat /\ MSize >= 2 /\ TSize \in Nat /\ TSize >= 2
      /\ ringM \in RingSet(MSize, Nat) /\ RingConsistent(ringM)
      /\ ringT \in RingSet(TSize, Nat) /\ RingConsistent(ringT)
      /\ fifo \in Seq(Nat) /\ wire \in Seq(Nat)
      /\ sent \in Nat
      /\ wi \in [Writers -> 0 .. MSize]
      /\ wpc \in [Writers -> {"none", "recv", "take", "copy", "write"}]
  BY SizesAssumption, BoundsAssumption DEF TypeInv, TypeOK
<1>2. Len(fifo) \in Nat
  BY <1>1, LenProperties
<1>3. /\ ringM.mem \in [0 .. MSize - 1 -> Nat] /\ ringM.fill_cnt \in 0 .. MSize
      /\ ringT.fill_cnt \in 0 .. TSize
  BY <1>1 DEF RingSet
<1>4. /\ Unread(ringM) \in Seq(Nat) /\ Len(Unread(ringM)) = ringM.fill_cnt
      /\ Unread(ringT) \in Seq(Nat) /\ Len(Unread(ringT)) = ringT.fill_cnt
  BY <1>1, UnreadIsSeq
<1>5. ringT.fill_cnt = 0 => Unread(ringT) = <<>>
  BY <1>4, EmptySeq
<1>. QED
  BY <1>1, <1>2, <1>3, <1>4, <1>5

\* What is held stays what it is when neither the storage below its end nor the
\* writers change.
LEMMA HeldSame ==
    ASSUME TypeInv, TypeInv', OneWriter, OneWriter', Uncrowded, Uncrowded',
           wi' = wi, \A w \in Writers : Busy(w)' <=> Busy(w),
           \A w \in Writers : Busy(w) =>
              \A k \in 1 .. wi[w] : ringM'.mem[k - 1] = ringM.mem[k - 1]
    PROVE  Held' = Held
<1>1. HeldFacts /\ HeldFacts'
  BY HeldIs, HeldIsPrime
<1>2. CASE \E w \in Writers : Busy(w)
  <2>1. PICK w \in Writers : Busy(w)
    BY <1>2
  <2>2. Held = Chunk(w) /\ Held' = Chunk(w)'
    BY <1>1, <2>1 DEF HeldFacts
  <2>3. Chunk(w)' = Chunk(w)
    BY <2>1 DEF Chunk
  <2>. QED
    BY <2>2, <2>3
<1>3. CASE ~\E w \in Writers : Busy(w)
  BY <1>1, <1>3 DEF HeldFacts
<1>. QED
  BY <1>2, <1>3

\* Most steps move no byte.
LEMMA OrderQuiet ==
    ASSUME TypeInv, TypeInv', OneWriter, OneWriter', OrderInv,
           UNCHANGED <<ringM, ringT, fifo, wire, sent, wi>>, Uncrowded' => Uncrowded,
           \A w \in Writers : Busy(w)' <=> Busy(w)
    PROVE  OrderInv'
<1>. SUFFICES ASSUME Uncrowded', sent <= MSize PROVE Straight' /\ InOrder'
  BY DEF OrderInv, Uncrowded
<1>1. Uncrowded /\ Straight /\ InOrder
  BY DEF OrderInv, Uncrowded
<1>2. Held' = Held
  BY <1>1, HeldSame
<1>3. Unread(ringM)' = Unread(ringM) /\ Unread(ringT)' = Unread(ringT)
  BY DEF Unread, Slot
<1>4. InOrder'
  BY <1>1, <1>2, <1>3 DEF InOrder
<1>5. Straight'
  BY <1>1 DEF Straight, StraightBy
<1>. QED
  BY <1>4, <1>5

\* What a step that stores c in the main ring does, as long as it never wrapped.
LEMMA StoreStraight ==
    ASSUME TypeInv, TypeInv', OneWriter, OneWriter', Uncrowded, Uncrowded',
           NEW put \in 0 .. MSize, StraightBy(put), put < MSize,
           NEW c \in Nat, ringM' = ringbuf_owr(ringM, c), wi' = wi, wpc' = wpc
    PROVE  /\ Held' = Held
           /\ Unread(ringM)' = Append(Unread(ringM), c)
           /\ ringM'.fill_cnt = ringM.fill_cnt + 1
           /\ ringM'.p_w = At(put + 1)
           /\ ringM'.p_r = At((put + 1) - ringM'.fill_cnt)
           /\ \A w \in Writers : Busy(w)' => wi'[w] <= (put + 1) - ringM'.fill_cnt
<1>1. /\ MSize \in Nat /\ MSize >= 2
      /\ ringM \in RingSet(MSize, Nat) /\ RingConsistent(ringM)
      /\ wi \in [Writers -> 0 .. MSize]
      /\ ringM.mem \in [0 .. MSize - 1 -> Nat] /\ ringM.fill_cnt \in 0 .. MSize
  BY OrderTypes
<1>2. /\ ringM.fill_cnt <= put
      /\ ringM.p_w = put /\ ringM.p_r = At(put - ringM.fill_cnt)
      /\ \A w \in Writers : Busy(w) => wi[w] <= put - ringM.fill_cnt
  BY <1>1 DEF StraightBy, At
<1>3. /\ Unread(ringM') = Append(Unread(ringM), c)
      /\ ringM'.mem = [ringM.mem EXCEPT ![put] = c]
      /\ ringM'.p_r = ringM.p_r
      /\ ringM'.p_w = Step(put, MSize)
      /\ ringM'.fill_cnt = ringM.fill_cnt + 1
  <2>1. /\ MSize \in Nat /\ MSize >= 2 /\ ringM \in RingSet(MSize, Nat)
        /\ RingConsistent(ringM) /\ ringM.p_w = put
    BY <1>1, <1>2
  <2>2. put_ret(ringM) = 0
    BY <1>1, <1>2 DEF put_ret, RingSet
  <2>3. Unread(ringbuf_owr(ringM, c)) = Append(Unread(ringM), c)
    BY <2>1, <2>2, OwrAppends
  <2>4. ringM' = [mem |-> [ringM.mem EXCEPT ![put] = c], p_r |-> ringM.p_r,
                  p_w |-> Step(put, MSize), fill_cnt |-> ringM.fill_cnt + 1,
                  size |-> MSize]
    BY <2>1, <2>2, OwrFields
  <2>. QED
    BY <2>3, <2>4
<1>4. \A w \in Writers : Busy(w)' <=> Busy(w)
  BY DEF Busy
<1>5. ASSUME NEW w \in Writers, Busy(w), NEW k \in 1 .. wi[w]
      PROVE  ringM'.mem[k - 1] = ringM.mem[k - 1]
  <2>1. k - 1 \in 0 .. MSize - 1 /\ k - 1 # put
    <3>1. wi[w] \in 0 .. MSize /\ wi[w] <= put
      BY <1>1, <1>2, <1>5
    <3>. QED
      BY <1>1, <3>1
  <2>. QED
    BY <1>1, <1>3, <2>1
<1>6. Held' = Held
  BY <1>4, <1>5, HeldSame
<1>7. ringM'.p_w = At(put + 1)
  <2>1. MSize \in Nat /\ ringM'.p_w = Step(put, MSize)
    BY <1>1, <1>3
  <2>2. Step(put, MSize) = At(put + 1)
    BY <2>1 DEF Step, At
  <2>. QED
    BY <2>1, <2>2
<1>8. (put + 1) - ringM'.fill_cnt = put - ringM.fill_cnt
  <2>1. put \in Nat /\ ringM.fill_cnt \in Nat /\ ringM'.fill_cnt = ringM.fill_cnt + 1
    BY <1>1, <1>3
  <2>. QED
    BY <2>1
<1>9. Unread(ringM)' = Append(Unread(ringM), c)
  <2>1. Unread(ringM)' = Unread(ringM')
    BY DEF Unread, Slot
  <2>. QED
    BY <1>3, <2>1
<1>. QED
  BY <1>2, <1>3, <1>4, <1>6, <1>7, <1>8, <1>9

\* The UART and the interrupt handler keep the order, including the detour of
\* parked bytes.
LEMMA OrderIsr ==
    ASSUME TypeInv, TypeInv', OneWriter, OneWriter', Drained, OrderInv,
           UartByte \/ IsrStep
    PROVE  OrderInv'
<1>1. /\ wi' = wi /\ wpc' = wpc /\ wire' = wire /\ crowded' = crowded
      /\ sent' \in {sent, sent + 1} /\ sent \in Nat
  BY OrderTypes DEF UartByte, IsrStep, IsrDiscard, IsrEnter, IsrDrain, IsrMain, IsrTemp,
     IsrNotify, wVars, mVars
<1>2. \A w \in Writers : Busy(w)' <=> Busy(w)
  BY <1>1 DEF Busy
<1>. SUFFICES ASSUME Uncrowded', sent' <= MSize PROVE Straight' /\ InOrder'
  BY DEF OrderInv, Uncrowded
<1>3. Uncrowded /\ sent <= MSize /\ Uncrowded'
  BY <1>1, SizesAssumption DEF Uncrowded
<1>4. Straight /\ InOrder
  BY <1>3 DEF OrderInv, Uncrowded
<1>5. PICK put \in 0 .. MSize : StraightBy(put)
  BY <1>4 DEF Straight, StraightBy
<1>6. ASSUME NEW q \in 0 .. MSize, StraightBy(q)' PROVE Straight'
  BY <1>6 DEF Straight, StraightBy
<1>7. HeldFacts
  BY <1>3, HeldIs
<1>. USE DEF InOrder
<1>8. ASSUME ringM' = ringM
      PROVE  Held' = Held /\ Unread(ringM)' = Unread(ringM)
  BY <1>1, <1>2, <1>3, <1>8, HeldSame DEF Unread, Slot
<1>9. ASSUME ringT' = ringT
      PROVE  Unread(ringT)' = Unread(ringT)
  BY <1>9 DEF Unread, Slot
<1>10. CASE UartByte
  <2>1. /\ ringM' = ringM /\ ringT' = ringT /\ sent' = sent + 1
        /\ fifo' = IF Len(fifo) < FifoCap THEN Append(fifo, sent + 1) ELSE fifo
    BY <1>10 DEF UartByte, ringVars
  <2>2. /\ Ordered(wire, Held, Unread(ringM), Unread(ringT), fifo, sent + 1)
        /\ Ordered(wire, Held, Unread(ringM), Unread(ringT), Append(fifo, sent + 1),
                   sent + 1)
    BY <1>1, <1>4, <1>7, OrderTypes, OrderedArrival DEF HeldFacts
  <2>3. InOrder'
    BY <1>1, <1>8, <1>9, <2>1, <2>2
  <2>4. Len(fifo') <= Len(fifo) + 1 /\ Len(fifo') \in Nat /\ Len(fifo) \in Nat
    <3>1. Len(fifo) \in Nat /\ fifo \in Seq(Nat)
      BY OrderTypes
    <3>2. Len(Append(fifo, sent + 1)) = Len(fifo) + 1
      BY <1>1, <3>1, AppendProperties
    <3>. QED
      BY <2>1, <3>1, <3>2
  <2>5. StraightBy(put)'
    <3>1. ringT.fill_cnt \in Nat
      BY OrderTypes
    <3>. QED
      BY <1>1, <1>2, <1>5, <2>1, <2>4, <3>1 DEF StraightBy
  <2>. QED
    BY <1>6, <2>3, <2>5
<1>11. ASSUME fifo # <<>>
       PROVE  /\ Head(fifo) \in Nat /\ Tail(fifo) \in Seq(Nat)
              /\ Len(Tail(fifo)) = Len(fifo) - 1 /\ Len(fifo) >= 1
  <2>1. fifo \in Seq(Nat)
    BY OrderTypes
  <2>2. Head(fifo) \in Nat /\ Tail(fifo) \in Seq(Nat) /\ Len(Tail(fifo)) = Len(fifo) - 1
    BY <1>11, <2>1, HeadTailProperties
  <2>3. Len(fifo) \in Nat /\ Len(fifo) # 0
    BY <1>11, <2>1, EmptySeq, LenProperties
  <2>. QED
    BY <2>2, <2>3
<1>12. rxlen > 0 => fifo # <<>>
  BY EmptySeq DEF TypeInv, TypeOK
<1>13. CASE IsrDiscard
  <2>1. /\ ringM' = ringM /\ ringT' = ringT /\ sent' = sent
        /\ fifo # <<>> /\ fifo' = Tail(fifo)
    BY <1>13 DEF IsrDiscard, ringVars
  <2>2. Ordered(wire, Held, Unread(ringM), Unread(ringT), Tail(fifo), sent)
    BY <1>4, <1>7, <2>1, OrderTypes, OrderedLoss DEF HeldFacts
  <2>3. InOrder'
    BY <1>1, <1>8, <1>9, <2>1, <2>2
  <2>4. StraightBy(put)'
    <3>1. ringT.fill_cnt \in Nat /\ Len(fifo) \in Nat
      BY OrderTypes
    <3>. QED
      BY <1>1, <1>2, <1>5, <1>11, <2>1, <3>1 DEF StraightBy
  <2>. QED
    BY <1>6, <2>3, <2>4
<1>14. CASE IsrEnter \/ IsrNotify
  <2>1. UNCHANGED <<ringM, ringT, fifo, wire, sent, wi>> /\ (Uncrowded' => Uncrowded)
    BY <1>1, <1>14 DEF IsrEnter, IsrNotify, wVars, Uncrowded
  <2>2. OrderInv'
    BY <1>2, <2>1, OrderQuiet
  <2>. QED
    BY <2>2 DEF OrderInv, Uncrowded
<1>15. CASE IsrDrain
  <2>1. CASE get_ret(ringT) = 0
    <3>. DEFINE c == get_byte(ringT)
    <3>1. /\ ringM' = ringbuf_owr(ringM, c) /\ ringT' = ringbuf_get(ringT)
          /\ sent' = sent /\ fifo' = fifo
      BY <1>15, <2>1 DEF IsrDrain
    <3>2. /\ Unread(ringbuf_get(ringT)) = Tail(Unread(ringT))
          /\ c = Head(Unread(ringT)) /\ Unread(ringT) # <<>> /\ c \in Nat
      BY <2>1, OrderTypes, GetTakesHead, GetGood
    <3>3. ringT'.fill_cnt = ringT.fill_cnt - 1 /\ ringT.fill_cnt >= 1
      BY <2>1, <3>1, OrderTypes, SMTT(30) DEF ringbuf_get, get_ret, RingSet
    <3>. HIDE DEF c
    <3>4. put < MSize
      <4>1. /\ put + ringT.fill_cnt + Len(fifo) <= sent
            /\ ringT.fill_cnt \in Nat /\ Len(fifo) \in Nat /\ MSize \in Nat
        BY <1>5, OrderTypes DEF StraightBy
      <4>. QED
        BY <1>1, <1>3, <3>3, <4>1
    <3>5. /\ Held' = Held
          /\ Unread(ringM)' = Append(Unread(ringM), c)
          /\ ringM'.fill_cnt = ringM.fill_cnt + 1
          /\ ringM'.p_w = At(put + 1)
          /\ ringM'.p_r = At((put + 1) - ringM'.fill_cnt)
          /\ \A w \in Writers : Busy(w)' => wi'[w] <= (put + 1) - ringM'.fill_cnt
      BY <1>1, <1>3, <1>5, <3>1, <3>2, <3>4, StoreStraight
    <3>6. Unread(ringT)' = Tail(Unread(ringT))
      <4>1. Unread(ringT)' = Unread(ringT')
        BY DEF Unread, Slot
      <4>. QED
        BY <3>1, <3>2, <4>1
    <3>7. Ordered(wire, Held, Append(Unread(ringM), c), Tail(Unread(ringT)), fifo, sent)
      BY <1>4, <1>7, <3>2, OrderTypes, OrderedDrained DEF HeldFacts
    <3>8. InOrder'
      BY <1>1, <3>1, <3>5, <3>6, <3>7
    <3>9. put + 1 \in 0 .. MSize /\ StraightBy(put + 1)'
      <4>1. /\ ringT.fill_cnt \in Nat /\ Len(fifo) \in Nat /\ MSize \in Nat
            /\ ringM.fill_cnt \in Nat
            /\ put + ringT.fill_cnt + Len(fifo) <= sent /\ ringM.fill_cnt <= put
        <5>1. /\ ringT.fill_cnt \in Nat /\ Len(fifo) \in Nat /\ MSize \in Nat
              /\ ringM.fill_cnt \in Nat
          BY OrderTypes
        <5>. QED
          BY <1>5, <5>1 DEF StraightBy
      <4>2. /\ (put + 1) + (ringT.fill_cnt - 1) + Len(fifo) <= sent
            /\ ringM.fill_cnt + 1 <= put + 1 /\ put + 1 \in 0 .. MSize
        <5>1. sent \in Nat /\ put \in Nat
          BY OrderTypes
        <5>. QED
          BY <3>4, <4>1, <5>1, SMTT(30)
      <4>. QED
        BY <3>1, <3>3, <3>5, <4>2 DEF StraightBy
    <3>. QED
      BY <1>6, <3>8, <3>9
  <2>2. CASE get_ret(ringT) # 0
    <3>1. UNCHANGED <<ringM, ringT, fifo, wire, sent, wi>> /\ (Uncrowded' => Uncrowded)
      BY <1>1, <1>15, <2>2 DEF IsrDrain, Uncrowded
    <3>2. OrderInv'
      BY <1>2, <3>1, OrderQuiet
    <3>. QED
      BY <3>2 DEF OrderInv, Uncrowded
  <2>. QED
    BY <2>1, <2>2
<1>16. CASE IsrMain
  <2>1. CASE rxlen > 0
    <3>. DEFINE c == Head(fifo)
    <3>1. /\ ringM' = ringbuf_owr(ringM, c) /\ ringT' = ringT
          /\ sent' = sent /\ fifo' = Tail(fifo) /\ isr = "main"
      BY <1>16, <2>1 DEF IsrMain
    <3>2. c \in Nat /\ Len(fifo') = Len(fifo) - 1 /\ Len(fifo) >= 1 /\ fifo # <<>>
      BY <1>11, <1>12, <2>1, <3>1
    <3>3. ringT.fill_cnt = 0 /\ Unread(ringT) = <<>> /\ Unread(ringT)' = <<>>
      BY <1>9, <3>1, OrderTypes DEF Drained
    <3>. HIDE DEF c
    <3>4. put < MSize
      <4>1. /\ put + ringT.fill_cnt + Len(fifo) <= sent
            /\ ringT.fill_cnt \in Nat /\ Len(fifo) \in Nat /\ MSize \in Nat
        BY <1>5, OrderTypes DEF StraightBy
      <4>. QED
        BY <1>1, <1>3, <3>2, <4>1
    <3>5. /\ Held' = Held
          /\ Unread(ringM)' = Append(Unread(ringM), c)
          /\ ringM'.fill_cnt = ringM.fill_cnt + 1
          /\ ringM'.p_w = At(put + 1)
          /\ ringM'.p_r = At((put + 1) - ringM'.fill_cnt)
          /\ \A w \in Writers : Busy(w)' => wi'[w] <= (put + 1) - ringM'.fill_cnt
      BY <1>1, <1>3, <1>5, <3>1, <3>2, <3>4, StoreStraight
    <3>6. Ordered(wire, Held, Append(Unread(ringM), c), <<>>, Tail(fifo), sent)
      BY <1>4, <1>7, <3>2, <3>3, OrderTypes, OrderedStored DEF HeldFacts, c
    <3>7. InOrder'
      BY <1>1, <3>1, <3>3, <3>5, <3>6
    <3>8. put + 1 \in 0 .. MSize /\ StraightBy(put + 1)'
      <4>1. /\ ringT.fill_cnt \in Nat /\ Len(fifo) \in Nat /\ MSize \in Nat
            /\ ringM.fill_cnt \in Nat
            /\ put + ringT.fill_cnt + Len(fifo) <= sent /\ ringM.fill_cnt <= put
        <5>1. /\ ringT.fill_cnt \in Nat /\ Len(fifo) \in Nat /\ MSize \in Nat
              /\ ringM.fill_cnt \in Nat
          BY OrderTypes
        <5>. QED
          BY <1>5, <5>1 DEF StraightBy
      <4>2. /\ (put + 1) + ringT.fill_cnt + (Len(fifo) - 1) <= sent
            /\ ringM.fill_cnt + 1 <= put + 1 /\ put + 1 \in 0 .. MSize
        <5>1. sent \in Nat /\ put \in Nat
          BY OrderTypes
        <5>. QED
          BY <3>4, <4>1, <5>1, SMTT(30)
      <4>. QED
        BY <3>1, <3>2, <3>5, <4>2 DEF StraightBy
    <3>. QED
      BY <1>6, <3>7, <3>8
  <2>2. CASE ~(rxlen > 0)
    <3>1. UNCHANGED <<ringM, ringT, fifo, wire, sent, wi>> /\ (Uncrowded' => Uncrowded)
      BY <1>1, <1>16, <2>2 DEF IsrMain, Uncrowded
    <3>2. OrderInv'
      BY <1>2, <3>1, OrderQuiet
    <3>. QED
      BY <3>2 DEF OrderInv, Uncrowded
  <2>. QED
    BY <2>1, <2>2
<1>17. CASE IsrTemp
  <2>1. CASE rxlen > 0
    <3>. DEFINE c == Head(fifo)
    <3>1. /\ ringT' = ringbuf_owr(ringT, c) /\ ringM' = ringM
          /\ sent' = sent /\ fifo' = Tail(fifo)
      BY <1>17, <2>1 DEF IsrTemp
    <3>2. /\ c \in Nat /\ Len(fifo') = Len(fifo) - 1 /\ Len(fifo) >= 1
          /\ fifo # <<>> /\ Tail(fifo) \in Seq(Nat)
      BY <1>11, <1>12, <2>1, <3>1
    <3>3. Unread(ringT)' = Unread(ringbuf_owr(ringT, c))
      BY <3>1 DEF Unread, Slot
    <3>4. Ordered(wire, Held, Unread(ringM), Append(Unread(ringT), c), Tail(fifo), sent)
      BY <1>4, <1>7, <3>2, OrderTypes, OrderedParked DEF HeldFacts
    <3>5. Unread(ringT) # <<>> =>
             Ordered(wire, Held, Unread(ringM), Append(Tail(Unread(ringT)), c),
                     Tail(fifo), sent)
      <4>. SUFFICES ASSUME Unread(ringT) # <<>>
                    PROVE  Ordered(wire, Held, Unread(ringM),
                                   Append(Tail(Unread(ringT)), c), Tail(fifo), sent)
        OBVIOUS
      <4>1. /\ Tail(Unread(ringT)) \in Seq(Nat)
            /\ Ordered(wire, Held, Unread(ringM), Tail(Unread(ringT)), fifo, sent)
        BY <1>4, <1>7, OrderTypes, OrderedLoss DEF HeldFacts
      <4>. QED
        BY <1>7, <3>2, <4>1, OrderTypes, OrderedParked DEF HeldFacts
    <3>. HIDE DEF c
    <3>6. /\ \/ Unread(ringbuf_owr(ringT, c)) = Append(Unread(ringT), c)
             \/ /\ Unread(ringbuf_owr(ringT, c)) = Append(Tail(Unread(ringT)), c)
                /\ Unread(ringT) # <<>>
          /\ ringT'.fill_cnt <= ringT.fill_cnt + 1 /\ ringT'.fill_cnt \in Nat
      <4>0. /\ TSize \in Nat /\ TSize >= 2 /\ ringT \in RingSet(TSize, Nat)
            /\ RingConsistent(ringT) /\ ringT.fill_cnt \in 0 .. TSize
        BY OrderTypes
      <4>1. CASE ringT.fill_cnt < TSize
        <5>1. put_ret(ringT) = 0
          BY <4>0, <4>1 DEF put_ret, RingSet
        <5>2. Unread(ringbuf_owr(ringT, c)) = Append(Unread(ringT), c)
          BY <3>2, <4>0, <5>1, OwrAppends
        <5>3. ringbuf_owr(ringT, c) =
                 [mem |-> [ringT.mem EXCEPT ![ringT.p_w] = c], p_r |-> ringT.p_r,
                  p_w |-> Step(ringT.p_w, TSize), fill_cnt |-> ringT.fill_cnt + 1,
                  size |-> TSize]
          BY <3>2, <4>0, <5>1, OwrFields
        <5>. QED
          BY <3>1, <4>0, <5>2, <5>3
      <4>2. CASE ~(ringT.fill_cnt < TSize)
        <5>1. ringT.fill_cnt = TSize
          BY <4>0, <4>2
        <5>2. /\ Unread(ringbuf_owr(ringT, c)) = Append(Tail(Unread(ringT)), c)
              /\ Unread(ringT) # <<>>
              /\ ringbuf_owr(ringT, c).fill_cnt = TSize
          <6>1. c \in Nat
            BY <3>2
          <6>2. /\ TSize \in Nat /\ TSize >= 2 /\ ringT \in RingSet(TSize, Nat)
                /\ RingConsistent(ringT) /\ ringT.fill_cnt = TSize
            BY <4>0, <5>1
          <6>. QED
            BY <6>1, <6>2, OwrShifts, Zenon
        <5>. QED
          BY <3>1, <4>0, <5>1, <5>2
      <4>. QED
        BY <4>1, <4>2
    <3>7. InOrder'
      BY <1>1, <1>8, <3>1, <3>3, <3>4, <3>5, <3>6
    <3>8. StraightBy(put)'
      <4>1. /\ ringT.fill_cnt \in Nat /\ Len(fifo) \in Nat
            /\ put + ringT.fill_cnt + Len(fifo) <= sent
        BY <1>5, OrderTypes DEF StraightBy
      <4>2. put + ringT'.fill_cnt + (Len(fifo) - 1) <= sent
        <5>1. ringT'.fill_cnt <= ringT.fill_cnt + 1 /\ ringT'.fill_cnt \in Nat
          BY <3>6
        <5>2. put \in Nat /\ sent \in Nat
          BY OrderTypes
        <5>. QED
          BY <4>1, <5>1, <5>2
      <4>. QED
        BY <1>1, <1>2, <1>5, <3>1, <3>2, <4>2 DEF StraightBy
    <3>. QED
      BY <1>6, <3>7, <3>8
  <2>2. CASE ~(rxlen > 0)
    <3>1. UNCHANGED <<ringM, ringT, fifo, wire, sent, wi>> /\ (Uncrowded' => Uncrowded)
      BY <1>1, <1>17, <2>2 DEF IsrTemp, Uncrowded
    <3>2. OrderInv'
      BY <1>2, <3>1, OrderQuiet
    <3>. QED
      BY <3>2 DEF OrderInv, Uncrowded
  <2>. QED
    BY <2>1, <2>2
<1>. QED
  BY <1>10, <1>13, <1>14, <1>15, <1>16, <1>17 DEF IsrStep

\* One turn of the copy loop moves a byte from the ring to the copy: the place
\* it is stored to lies below every byte still unread.
LEMMA OrderCopy ==
    ASSUME TypeInv, TypeInv', OneWriter, OneWriter', OrderInv,
           NEW w \in Writers, WriteCopy(w)
    PROVE  OrderInv'
<1>0. /\ wpc[w] = "copy" /\ wi' = [wi EXCEPT ![w] = @ + 1] /\ wi[w] < MSize
      /\ get_ret(ringM) = 0
      /\ ringM' = [ringbuf_get(ringM) EXCEPT !.mem[wi[w]] = get_byte(ringM)]
      /\ ringT' = ringT /\ fifo' = fifo /\ sent' = sent /\ wire' = wire
      /\ crowded' = crowded /\ wpc' = wpc
  BY DEF WriteCopy, isrVars, mVars
<1>. SUFFICES ASSUME Uncrowded, sent <= MSize PROVE Straight' /\ InOrder'
  BY <1>0 DEF OrderInv, Uncrowded
<1>1. Straight /\ InOrder /\ Uncrowded'
  BY <1>0 DEF OrderInv, Uncrowded
<1>2. HeldFacts /\ HeldFacts'
  BY <1>1, HeldIs, HeldIsPrime
<1>3. PICK put \in 0 .. MSize : StraightBy(put)
  BY <1>1 DEF Straight, StraightBy
<1>. DEFINE i == wi[w]
            c == get_byte(ringM)
            n == ringM.fill_cnt
            mid == ringbuf_get(ringM)
<1>4. /\ MSize \in Nat /\ MSize >= 2 /\ ringM \in RingSet(MSize, Nat)
      /\ RingConsistent(ringM) /\ wi \in [Writers -> 0 .. MSize]
      /\ ringM.mem \in [0 .. MSize - 1 -> Nat]
      /\ n \in 1 .. MSize /\ ringM.size = MSize
  <2>1. n \in 0 .. MSize /\ MSize \in Nat
    BY OrderTypes
  <2>2. n \in 1 .. MSize
    BY <1>0, <2>1 DEF get_ret
  <2>. QED
    BY <2>2, OrderTypes DEF RingSet
<1>5. /\ i \in 0 .. MSize - 1 /\ wi'[w] = i + 1 /\ Busy(w) /\ Busy(w)'
      /\ i <= put - n /\ n <= put /\ ringM.p_r = put - n
      /\ \A v \in Writers : Busy(v)' => v = w
  <2>1. Busy(w) /\ Busy(w)'
    BY <1>0 DEF Busy
  <2>2. \A v \in Writers : Busy(v)' => v = w
    BY <1>0, <1>1, <2>1 DEF Busy, OneWriter, Uncrowded
  <2>3. i <= put - n /\ n <= put /\ ringM.p_r = At(put - n)
    BY <1>3, <2>1 DEF StraightBy
  <2>4. ringM.p_r = put - n
    BY <1>4, <2>3 DEF At
  <2>5. i \in 0 .. MSize /\ i < MSize
    BY <1>0, <1>4
  <2>. QED
    BY <1>0, <1>4, <2>1, <2>2, <2>3, <2>4, <2>5
<1>6. /\ Unread(mid) = Tail(Unread(ringM)) /\ c = Head(Unread(ringM))
      /\ Unread(ringM) # <<>> /\ c \in Nat /\ mid \in RingSet(MSize, Nat)
  BY <1>0, <1>4, GetTakesHead, GetGood
<1>7. mid = [mem |-> ringM.mem, p_r |-> Step(ringM.p_r, MSize), p_w |-> ringM.p_w,
             fill_cnt |-> n - 1, size |-> MSize]
  BY <1>0, <1>4 DEF ringbuf_get, RingSet
<1>8. ringM' = [mem |-> [ringM.mem EXCEPT ![i] = c], p_r |-> Step(put - n, MSize),
                p_w |-> ringM.p_w, fill_cnt |-> n - 1, size |-> MSize]
  BY <1>0, <1>5, <1>7
<1>9. ringM' \in RingSet(MSize, Nat)
  BY DEF TypeInv, TypeOK
<1>. HIDE DEF i, c, n, mid
<1>10. Unread(ringM)' = Tail(Unread(ringM))
  <2>1. Unread(ringM)' = Unread(ringM')
    BY DEF Unread, Slot
  <2>2. Unread(ringM') = Unread(mid)
    <3>1. ASSUME NEW k \in 1 .. n - 1
          PROVE  ringM'.mem[Slot(ringM', k - 1)] = mid.mem[Slot(mid, k - 1)]
      <4>1. Slot(ringM', k - 1) = (put - n) + k /\ Slot(mid, k - 1) = (put - n) + k
        BY <1>4, <1>5, <1>7, <1>8 DEF Slot, Step
      <4>2. (put - n) + k \in 0 .. MSize - 1 /\ (put - n) + k # i
        BY <1>4, <1>5
      <4>. QED
        BY <1>4, <1>7, <1>8, <4>1, <4>2
    <3>2. ringM'.fill_cnt = n - 1 /\ mid.fill_cnt = n - 1
      BY <1>7, <1>8
    <3>. QED
      BY <3>1, <3>2 DEF Unread
  <2>. QED
    BY <1>6, <2>1, <2>2
<1>11. Held = Chunk(w) /\ Held' = Chunk(w)'
  BY <1>2, <1>5 DEF HeldFacts
<1>12. Chunk(w)' = Append(Chunk(w), c)
  <2>1. /\ Chunk(w) \in Seq(Nat) /\ Len(Chunk(w)) = i
        /\ \A k \in 1 .. i : Chunk(w)[k] = ringM.mem[k - 1]
    BY ChunkIsSeq DEF i
  <2>2. /\ Append(Chunk(w), c) \in Seq(Nat) /\ Len(Append(Chunk(w), c)) = i + 1
        /\ \A k \in 1 .. i : Append(Chunk(w), c)[k] = Chunk(w)[k]
        /\ Append(Chunk(w), c)[i + 1] = c
    BY <1>6, <2>1, AppendProperties
  <2>3. Chunk(w)' = [k \in 1 .. i + 1 |-> ringM'.mem[k - 1]]
    BY <1>5 DEF Chunk
  <2>4. Append(Chunk(w), c) = [k \in 1 .. i + 1 |-> Append(Chunk(w), c)[k]]
    BY <1>5, <2>2, LenProperties
  <2>5. ASSUME NEW k \in 1 .. i + 1 PROVE ringM'.mem[k - 1] = Append(Chunk(w), c)[k]
    <3>1. ringM'.mem = [ringM.mem EXCEPT ![i] = c]
      BY <1>8
    <3>2. CASE k \in 1 .. i
      <4>1. k - 1 \in 0 .. MSize - 1 /\ k - 1 # i
        BY <1>4, <1>5, <3>2
      <4>. QED
        BY <1>4, <2>1, <2>2, <3>1, <3>2, <4>1
    <3>3. CASE k = i + 1
      <4>1. k - 1 = i
        BY <1>5, <3>3
      <4>. QED
        BY <1>4, <1>5, <2>2, <3>1, <3>3, <4>1
    <3>4. k \in 1 .. i \/ k = i + 1
      BY <1>4, <1>5
    <3>. QED
      BY <3>2, <3>3, <3>4
  <2>. QED
    BY <2>3, <2>4, <2>5
<1>13. Unread(ringT)' = Unread(ringT)
  BY <1>0 DEF Unread, Slot
<1>14. InOrder'
  <2>1. Ordered(wire, Append(Held, c), Tail(Unread(ringM)), Unread(ringT), fifo, sent)
    BY <1>1, <1>2, <1>6, OrderTypes, OrderedCopied DEF HeldFacts, InOrder
  <2>. QED
    BY <1>0, <1>10, <1>11, <1>12, <1>13, <2>1 DEF InOrder
<1>15. StraightBy(put)'
  <2>1. ringM'.p_r = At(put - (n - 1)) /\ n - 1 <= put /\ i + 1 <= put - (n - 1)
    <3>1. /\ MSize \in Nat /\ MSize >= 2 /\ put \in 0 .. MSize /\ n \in 1 .. MSize
          /\ i \in 0 .. MSize - 1 /\ i <= put - n /\ n <= put
      BY <1>4, <1>5
    <3>2. Step(put - n, MSize) = At(put - (n - 1))
      BY <3>1 DEF Step, At
    <3>. QED
      BY <1>8, <3>1, <3>2
  <2>2. ringM'.p_w = At(put) /\ ringM'.fill_cnt = n - 1
    BY <1>3, <1>8 DEF StraightBy
  <2>. QED
    BY <1>0, <1>3, <1>5, <2>1, <2>2 DEF StraightBy
<1>. QED
  BY <1>14, <1>15 DEF Straight, StraightBy

\* A task that takes the mutex holds nothing yet.
LEMMA OrderTake ==
    ASSUME TypeInv, TypeInv', OneWriter, OneWriter', OrderInv,
           NEW w \in Writers, WriteTake(w)
    PROVE  OrderInv'
<1>0. /\ wpc[w] = "take" /\ wi' = [wi EXCEPT ![w] = 0]
      /\ wpc' = [wpc EXCEPT ![w] = "copy"]
      /\ ringM' = ringM /\ ringT' = ringT /\ fifo' = fifo /\ sent' = sent
      /\ wire' = wire /\ crowded' = crowded
  BY DEF WriteTake, isrVars, mVars
<1>. SUFFICES ASSUME Uncrowded, sent <= MSize PROVE Straight' /\ InOrder'
  BY <1>0 DEF OrderInv, Uncrowded
<1>1. Straight /\ InOrder /\ Uncrowded'
  BY <1>0 DEF OrderInv, Uncrowded
<1>2. HeldFacts /\ HeldFacts'
  BY <1>1, HeldIs, HeldIsPrime
<1>3. \A v \in Writers : wpc[v] # "none" => v = w
  BY <1>0 DEF OneWriter, Uncrowded
<1>4. /\ \A v \in Writers : ~Busy(v)
      /\ Busy(w)' /\ wi'[w] = 0 /\ \A v \in Writers : Busy(v)' => v = w
  BY <1>0, <1>3, OrderTypes DEF Busy
<1>5. Held = <<>> /\ Held' = Chunk(w)'
  BY <1>2, <1>4 DEF HeldFacts
<1>6. Chunk(w)' = <<>>
  <2>1. Chunk(w)' = [k \in 1 .. 0 |-> ringM'.mem[k - 1]]
    BY <1>4 DEF Chunk
  <2>2. Held' \in Seq(Nat)
    BY <1>2 DEF HeldFacts
  <2>3. Len(Held') = 0
    BY <1>5, <2>1, <2>2, LenProperties
  <2>. QED
    BY <1>5, <2>2, <2>3, EmptySeq
<1>7. Unread(ringM)' = Unread(ringM) /\ Unread(ringT)' = Unread(ringT)
  BY <1>0 DEF Unread, Slot
<1>8. InOrder'
  <2>1. /\ wire' = wire /\ Held' = Held /\ fifo' = fifo /\ sent' = sent
    BY <1>0, <1>5, <1>6
  <2>2. Ordered(wire', Held', Unread(ringM)', Unread(ringT)', fifo', sent')
    BY <1>1, <1>7, <2>1 DEF InOrder
  <2>. QED
    BY <2>2 DEF InOrder
<1>9. PICK put \in 0 .. MSize : StraightBy(put)
  BY <1>1 DEF Straight, StraightBy
<1>10. StraightBy(put)'
  <2>1. 0 <= put - ringM.fill_cnt
    <3>1. ringM.fill_cnt \in Nat
      BY OrderTypes
    <3>. QED
      BY <1>9, <3>1 DEF StraightBy
  <2>2. /\ put + ringT.fill_cnt + Len(fifo) <= sent /\ ringM.fill_cnt <= put
        /\ ringM.p_w = At(put) /\ ringM.p_r = At(put - ringM.fill_cnt)
    BY <1>9 DEF StraightBy
  <2>3. \A v \in Writers : Busy(v)' => wi'[v] <= put - ringM.fill_cnt
    BY <1>4, <2>1
  <2>. QED
    BY <1>0, <2>2, <2>3 DEF StraightBy
<1>. QED
  BY <1>8, <1>10 DEF Straight, StraightBy

\* A task that writes, or fails to, holds nothing afterwards.
LEMMA OrderWrite ==
    ASSUME TypeInv, TypeInv', OneWriter, OneWriter', OrderInv,
           NEW w \in Writers, WriteOk(w) \/ WriteFail(w)
    PROVE  OrderInv'
<1>0. /\ wpc[w] = "write" /\ wi' = wi
      /\ wpc' = [wpc EXCEPT ![w] = "recv"] \/ wpc' = [wpc EXCEPT ![w] = "none"]
      /\ ringM' = ringM /\ ringT' = ringT /\ fifo' = fifo /\ sent' = sent
      /\ wire' \in {wire, wire \o Chunk(w)} /\ crowded' = crowded
  BY DEF WriteOk, WriteFail, isrVars, ringVars, mVars
<1>. SUFFICES ASSUME Uncrowded, sent <= MSize PROVE Straight' /\ InOrder'
  BY <1>0 DEF OrderInv, Uncrowded
<1>1. Straight /\ InOrder /\ Uncrowded'
  BY <1>0 DEF OrderInv, Uncrowded
<1>2. HeldFacts /\ HeldFacts'
  BY <1>1, HeldIs, HeldIsPrime
<1>3. \A v \in Writers : wpc[v] # "none" => v = w
  BY <1>0 DEF OneWriter, Uncrowded
<1>4. Busy(w) /\ \A v \in Writers : ~Busy(v)'
  BY <1>0, <1>3, OrderTypes DEF Busy
<1>5. Held = Chunk(w) /\ Held' = <<>>
  BY <1>2, <1>4 DEF HeldFacts
<1>6. Unread(ringM)' = Unread(ringM) /\ Unread(ringT)' = Unread(ringT)
  BY <1>0 DEF Unread, Slot
<1>7. /\ Ordered(wire \o Held, <<>>, Unread(ringM), Unread(ringT), fifo, sent)
      /\ Ordered(wire, <<>>, Unread(ringM), Unread(ringT), fifo, sent)
  BY <1>1, <1>2, OrderTypes, OrderedWritten DEF HeldFacts, InOrder
<1>8. InOrder'
  BY <1>0, <1>5, <1>6, <1>7 DEF InOrder
<1>9. Straight'
  BY <1>0, <1>1, <1>4 DEF Straight, StraightBy
<1>. QED
  BY <1>8, <1>9

\* The write tasks keep the order.
LEMMA OrderWriter ==
    ASSUME TypeInv, TypeInv', OneWriter, OneWriter', OrderInv,
           NEW w \in Writers, WriteStep(w)
    PROVE  OrderInv'
<1>1. CASE WriteRecv(w) \/ WriteGive(w)
  <2>1. /\ UNCHANGED <<ringM, ringT, fifo, wire, sent, wi>> /\ crowded' = crowded
        /\ \/ wpc[w] = "recv" /\ wpc' = [wpc EXCEPT ![w] = "take"]
           \/ wpc[w] = "copy" /\ wpc' = [wpc EXCEPT ![w] = "write"]
    BY <1>1 DEF WriteRecv, WriteGive, isrVars, mVars
  <2>2. \A v \in Writers : Busy(v)' <=> Busy(v)
    BY <2>1, OrderTypes DEF Busy
  <2>. QED
    BY <2>1, <2>2, OrderQuiet DEF Uncrowded
<1>2. CASE WriteTake(w)
  BY <1>2, OrderTake
<1>3. CASE WriteCopy(w)
  BY <1>3, OrderCopy
<1>4. CASE WriteOk(w) \/ WriteFail(w)
  BY <1>4, OrderWrite
<1>. QED
  BY <1>1, <1>2, <1>3, <1>4 DEF WriteStep

\* The main tasks and the network move no byte.
LEMMA OrderOthers ==
    ASSUME TypeInv, TypeInv', OneWriter, OneWriter', OrderInv,
           \/ \E m \in Mains : MainStep(m)
           \/ WifiGotIp \/ WifiDisconnected
           \/ \E f \in Fds : ConnectionLost(f)
           \/ UNCHANGED vars
    PROVE  OrderInv'
<1>1. UNCHANGED <<ringM, ringT, fifo, wire, sent, wi>>
  BY DEF MainStep, MainSocket, MainConnect, MainConnected, MainRefused, MainLoop,
     MainReadFails, MainReset, MainFlag, WifiGotIp, WifiDisconnected, ConnectionLost,
     vars, isrVars, ringVars, wVars
<1>2. Uncrowded' => Uncrowded
  BY DEF MainStep, MainSocket, MainConnect, MainConnected, MainRefused, MainLoop,
     MainReadFails, MainReset, MainFlag, WifiGotIp, WifiDisconnected, ConnectionLost,
     vars, mVars, Uncrowded
<1>4. \A w \in Writers : Busy(w)' <=> Busy(w)
  <2>1. CASE \E m \in Mains : MainConnected(m)
    <3>1. PICK m \in Mains : MainConnected(m)
      BY <2>1
    <3>2. \/ wpc' = wpc
          \/ \E v \in Writers : wpc[v] = "none" /\ wpc' = [wpc EXCEPT ![v] = "recv"]
      BY <3>1 DEF MainConnected
    <3>. QED
      BY <3>2, OrderTypes DEF Busy
  <2>2. CASE ~\E m \in Mains : MainConnected(m)
    <3>1. wpc' = wpc
      BY <2>2 DEF MainStep, MainSocket, MainConnect, MainRefused, MainLoop,
         MainReadFails, MainReset, MainFlag, WifiGotIp, WifiDisconnected,
         ConnectionLost, vars, wVars
    <3>. QED
      BY <3>1 DEF Busy
  <2>. QED
    BY <2>1, <2>2
<1>. QED
  BY <1>1, <1>2, <1>4, OrderQuiet

\* No step disturbs the order.
LEMMA OrderNext ==
    TypeInv /\ TypeInv' /\ OneWriter /\ OneWriter' /\ Drained /\ OrderInv /\ [Next]_vars
        => OrderInv'
  BY OrderIsr, OrderWriter, OrderOthers DEF Next

\* Nothing has been sent in the initial state.
LEMMA OrderInit == Init => OneWriter /\ Drained /\ OrderInv
<1>. SUFFICES ASSUME Init PROVE OneWriter /\ Drained /\ OrderInv
  OBVIOUS
<1>. USE DEF Init
<1>1. \A w \in Writers : ~Busy(w) /\ wpc[w] = "none"
  BY DEF Busy
<1>2. OneWriter /\ Drained
  BY <1>1 DEF OneWriter, Drained
<1>3. Held = <<>>
  BY <1>1 DEF Held
<1>4. /\ ringM.fill_cnt = 0 /\ ringM.p_w = 0 /\ ringM.p_r = 0 /\ ringT.fill_cnt = 0
  BY DEF ringbuf_init
<1>5. TypeInv
  BY TypeInit
<1>6. Unread(ringM) = <<>> /\ Unread(ringT) = <<>>
  BY <1>4, <1>5, OrderTypes, EmptySeq
<1>7. InOrder
  <2>1. <<>> \in Seq(Nat)
    BY EmptySeq
  <2>2. Upto(<<>>, 0) /\ Incr(<<>>) /\ Before(<<>>, <<>>)
    BY <2>1, EmptyOrdered
  <2>. QED
    BY <1>3, <1>6, <2>2 DEF InOrder, Ordered
<1>8. Straight
  <2>1. 0 \in 0 .. MSize /\ Len(fifo) = 0 /\ At(0) = 0
    BY SizesAssumption, EmptySeq DEF At
  <2>2. StraightBy(0)
    BY <1>1, <1>4, <2>1 DEF StraightBy
  <2>. QED
    BY <2>1, <2>2 DEF Straight, StraightBy
<1>. QED
  BY <1>2, <1>7, <1>8 DEF OrderInv

\* For every size of the rings and of the FIFO and any number of tasks and of
\* connections: as long as no write task was created beside another one and the
\* sniffer has sent no more bytes than the main ring holds, the server receives
\* them in the order in which the sniffer sent them and none twice.  The detour
\* over the temporary ring reorders nothing, and neither does a reconnection
\* (user_main.c:196-219, 84-118, 149-168).
THEOREM BridgeInOrder == Spec => []InOrderBeforeWrap
<1>1. OrderInv /\ TypeInv => InOrderBeforeWrap
  <2>. SUFFICES ASSUME InOrder, TypeInv PROVE StreamInOrder
    BY DEF OrderInv, InOrderBeforeWrap, Uncrowded
  <2>1. wire \in Seq(Nat) /\ Len(wire) \in Nat /\ DOMAIN wire = 1 .. Len(wire)
    BY OrderTypes, LenProperties
  <2>2. Upto(wire, sent) /\ Incr(wire)
    BY DEF InOrder, Ordered
  <2>3. \A k \in DOMAIN wire : wire[k] \in 1 .. sent
    BY <2>1, <2>2 DEF Upto
  <2>4. ASSUME NEW k \in 1 .. Len(wire) - 1 PROVE wire[k] < wire[k + 1]
    <3>1. k \in 1 .. Len(wire) /\ k + 1 \in 1 .. Len(wire) /\ k < k + 1
      BY <2>1
    <3>. QED
      BY <2>2, <3>1 DEF Incr
  <2>. QED
    BY <2>3, <2>4 DEF StreamInOrder
<1>. QED
  BY <1>1, OrderInit, OneWriterNext, DrainedNext, OrderNext, BridgeTypes, PTL DEF Spec

===============================================================================
