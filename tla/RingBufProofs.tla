----------------------------- MODULE RingBufProofs -----------------------------
(***************************************************************************)
(* What is proved of the ring buffer as a state machine, for every size    *)
(* and every byte set: its invariant, and that it implements LossyFifo.    *)
(***************************************************************************)
EXTENDS RingBuf, RingBufLemmas

Inv == TypeOK /\ PointersAgree

\* No sequence of put, get, overwrite and truncate calls takes a pointer out of
\* the storage or lets fill_cnt and the pointers disagree (ringbuf.c:10-91).
THEOREM RingInvariant == Spec => []Inv
<1>1. Init => Inv
  BY SizeAssumption, ZeroAssumption, InitGood
     DEF Init, Inv, TypeOK, PointersAgree
<1>2. Inv /\ [Next]_vars => Inv'
  <2>. SUFFICES ASSUME Inv, [Next]_vars PROVE Inv'
    OBVIOUS
  <2>. USE SizeAssumption DEF Inv, TypeOK, PointersAgree
  <2>1. CASE Get
    BY <2>1, GetGood DEF Get, get_ret
  <2>2. CASE Truncate
    BY <2>2, TruncateGood DEF Truncate
  <2>3. ASSUME NEW c \in Byte, Put(c) PROVE Inv'
    BY <2>3, PutGood DEF Put, put_ret
  <2>4. ASSUME NEW c \in Byte, Owr(c) PROVE Inv'
    BY <2>4, OwrGood DEF Owr, owr_ret, put_ret
  <2>5. CASE UNCHANGED vars
    BY <2>5 DEF vars
  <2>. QED
    BY <2>1, <2>2, <2>3, <2>4, <2>5 DEF Next
<1>. QED
  BY <1>1, <1>2, PTL DEF Spec

\* No call takes a pointer or a count out of the storage, which ringbuf.c reads
\* and writes without a check (ringbuf.c:43-75), for any size.
THEOREM RingTypes == Spec => []TypeOK
<1>1. Inv => TypeOK
  BY DEF Inv
<1>. QED
  BY <1>1, RingInvariant, PTL

\* fill_cnt is the distance between the pointers in a ring of any size, after
\* any sequence of calls (ringbuf.c:10-91).
THEOREM RingPointersAgree == Spec => []PointersAgree
<1>1. Inv => PointersAgree
  BY DEF Inv
<1>. QED
  BY <1>1, RingInvariant, PTL

\* Whether put reports failure depends on the queue alone.
LEMMA FullMeansFull ==
    ASSUME Inv
    PROVE  /\ Unread(ring) \in Seq(Byte) /\ Len(Unread(ring)) = ring.fill_cnt
           /\ put_ret(ring) = IF Len(Unread(ring)) < Size THEN 0 ELSE -1
           /\ get_ret(ring) = IF Unread(ring) # <<>> THEN 0 ELSE -1
<1>1. /\ Unread(ring) \in Seq(Byte) /\ Len(Unread(ring)) = ring.fill_cnt
      /\ ring.fill_cnt \in 0 .. Size /\ ring.size = Size
  BY SizeAssumption, UnreadIsSeq DEF Inv, TypeOK, RingSet
<1>2. Unread(ring) # <<>> <=> ring.fill_cnt # 0
  BY <1>1, EmptySeq
<1>. QED
  BY <1>1, <1>2, SizeAssumption DEF put_ret, get_ret

\* Each call of ringbuf.c is a call of the queue: pointers, wrap-around and
\* fill_cnt are hidden from a caller.
THEOREM ImplementsLossyFifo == Spec => ImplementsFifo
<1>1. Init => Fifo!Init
  <2>1. ASSUME Init PROVE Unread(ring) = <<>>
    <3>1. ring.fill_cnt = 0 /\ ring \in RingSet(Size, Byte)
      BY <2>1, SizeAssumption, ZeroAssumption, InitGood DEF Init, ringbuf_init
    <3>. QED
      BY <3>1, SizeAssumption, UnreadIsSeq, EmptySeq
  <2>. QED
    BY <2>1, ZeroAssumption DEF Init, Fifo!Init
<1>2. Inv /\ [Next]_vars => [Fifo!Next]_(Fifo!vars)
  <2>. SUFFICES ASSUME Inv, [Next]_vars PROVE [Fifo!Next]_(Fifo!vars)
    OBVIOUS
  <2>. DEFINE s == Unread(ring)
  <2>0. /\ ring \in RingSet(Size, Byte) /\ RingConsistent(ring)
        /\ Size \in Nat /\ Size >= 2
    BY SizeAssumption DEF Inv, TypeOK, PointersAgree
  <2>1. CASE Get
    <3>1. CASE s # <<>>
      <4>1. get_ret(ring) = 0
        BY <3>1, FullMeansFull
      <4>2. Unread(ring)' = Tail(s) /\ out' = Head(s) /\ ret' = 0
        BY <2>0, <2>1, <4>1, GetTakesHead DEF Get
      <4>. QED
        BY <3>1, <4>2 DEF Fifo!Get, Fifo!Next
    <3>2. CASE s = <<>>
      <4>1. get_ret(ring) = -1
        BY <3>2, FullMeansFull
      <4>2. ring' = ring /\ out' = out /\ ret' = -1
        BY <2>1, <4>1 DEF Get, ringbuf_get
      <4>. QED
        BY <3>2, <4>2 DEF Fifo!Get, Fifo!Next
    <3>. QED
      BY <3>1, <3>2
  <2>2. CASE Truncate
    <3>1. ring'.fill_cnt = 0 /\ ring' \in RingSet(Size, Byte)
      BY <2>0, <2>2, TruncateGood DEF Truncate, ringbuf_truncate, RingSet
    <3>2. Unread(ring)' = <<>>
      BY <2>0, <3>1, UnreadIsSeq, EmptySeq
    <3>. QED
      BY <2>2, <3>2 DEF Truncate, Fifo!Truncate, Fifo!Next
  <2>3. ASSUME NEW c \in Byte, Put(c) PROVE Fifo!Next
    <3>1. CASE Len(s) < Size
      <4>1. put_ret(ring) = 0
        BY <3>1, FullMeansFull
      <4>2. Unread(ring)' = Append(s, c) /\ ret' = 0 /\ out' = out
        BY <2>0, <2>3, <4>1, PutAppends DEF Put
      <4>. QED
        BY <3>1, <4>2 DEF Fifo!Put, Fifo!Next
    <3>2. CASE ~(Len(s) < Size)
      <4>1. put_ret(ring) = -1
        BY <3>2, FullMeansFull
      <4>2. ring' = ring /\ ret' = -1 /\ out' = out
        BY <2>3, <4>1 DEF Put, ringbuf_put
      <4>. QED
        BY <3>2, <4>2 DEF Fifo!Put, Fifo!Next
    <3>. QED
      BY <3>1, <3>2
  <2>4. ASSUME NEW c \in Byte, Owr(c) PROVE Fifo!Next
    <3>1. CASE Len(s) < Size
      <4>1. put_ret(ring) = 0
        BY <3>1, FullMeansFull
      <4>2. Unread(ring)' = Append(s, c) /\ ret' = 0 /\ out' = out
        BY <2>0, <2>4, <4>1, PutAppends DEF Owr, owr_ret, ringbuf_owr
      <4>. QED
        BY <3>1, <4>2 DEF Fifo!Overwrite, Fifo!Next
    <3>2. CASE ~(Len(s) < Size)
      <4>. DEFINE mid == ringbuf_get(ring)
      <4>1. /\ put_ret(ring) = -1 /\ get_ret(ring) = 0
            /\ Len(s) = ring.fill_cnt
        BY <3>2, <2>0, FullMeansFull, EmptySeq
      <4>2. /\ mid \in RingSet(Size, Byte) /\ RingConsistent(mid)
            /\ Unread(mid) = Tail(s)
        BY <2>0, <4>1, GetGood, GetTakesHead
      <4>3. put_ret(mid) = 0
        BY <2>0, <4>1 DEF ringbuf_get, put_ret, RingSet
      <4>. HIDE DEF mid
      <4>4. Unread(ringbuf_put(mid, c)) = Append(Tail(s), c)
        BY <2>0, <4>2, <4>3, PutAppends
      <4>5. ring' = ringbuf_put(mid, c) /\ ret' = -1 /\ out' = out
        BY <2>4, <4>1 DEF Owr, owr_ret, ringbuf_owr, mid
      <4>. QED
        BY <3>2, <4>4, <4>5 DEF Fifo!Overwrite, Fifo!Next
    <3>. QED
      BY <3>1, <3>2
  <2>5. CASE UNCHANGED vars
    BY <2>5 DEF vars, Fifo!vars
  <2>. QED
    BY <2>1, <2>2, <2>3, <2>4, <2>5 DEF Next
<1>. QED
  BY <1>1, <1>2, RingInvariant, PTL DEF Spec, ImplementsFifo, Fifo!Spec

================================================================================
