----------------------------- MODULE RingBufLemmas -----------------------------
(***************************************************************************)
(* What one ring buffer operation does to one ring, for every size and     *)
(* every set of bytes: the lemmas that RingBufProofs and BridgeProofs cite.*)
(***************************************************************************)
EXTENDS RingBufOps, SequenceTheorems, TLAPS

\* A pointer moved by one stays inside the storage.
LEMMA StepInRange ==
    ASSUME NEW size \in Nat, size >= 2, NEW p \in 0 .. size - 1
    PROVE  Step(p, size) \in 0 .. size - 1
  BY DEF Step

\* ringbuf_init gives an empty, consistent ring.
LEMMA InitGood ==
    ASSUME NEW size \in Nat, size >= 2, NEW B, NEW zero \in B
    PROVE  /\ ringbuf_init(zero, size) \in RingSet(size, B)
           /\ RingConsistent(ringbuf_init(zero, size))
  BY DEF ringbuf_init, RingSet, RingConsistent

\* ringbuf_put keeps a ring a ring and its pointers consistent with fill_cnt.
LEMMA PutGood ==
    ASSUME NEW size \in Nat, size >= 2, NEW B, NEW c \in B,
           NEW r \in RingSet(size, B), RingConsistent(r)
    PROVE  /\ ringbuf_put(r, c) \in RingSet(size, B)
           /\ RingConsistent(ringbuf_put(r, c))
<1>. DEFINE new == ringbuf_put(r, c)
<1>1. CASE put_ret(r) # 0
  BY <1>1 DEF ringbuf_put
<1>2. CASE put_ret(r) = 0
  <2>1. /\ r.mem \in [0 .. size - 1 -> B] /\ r.p_r \in 0 .. size - 1
        /\ r.p_w \in 0 .. size - 1 /\ r.fill_cnt \in 0 .. size - 1
        /\ r.size = size
    BY <1>2 DEF RingSet, put_ret
  <2>2. new = [mem |-> [r.mem EXCEPT ![r.p_w] = c], p_r |-> r.p_r,
               p_w |-> Step(r.p_w, size), fill_cnt |-> r.fill_cnt + 1,
               size |-> size]
    BY <1>2, <2>1 DEF ringbuf_put, RingSet
  <2>3. Step(r.p_w, size) \in 0 .. size - 1
    BY <2>1, StepInRange
  <2>4. [r.mem EXCEPT ![r.p_w] = c] \in [0 .. size - 1 -> B]
    BY <2>1
  <2>5. new \in RingSet(size, B)
    BY <2>1, <2>2, <2>3, <2>4 DEF RingSet
  <2>6. \/ Step(r.p_w, size) = r.p_r + (r.fill_cnt + 1)
        \/ Step(r.p_w, size) = r.p_r + (r.fill_cnt + 1) - size
    <3>1. /\ r.p_r \in 0 .. size - 1 /\ r.p_w \in 0 .. size - 1
          /\ r.fill_cnt \in 0 .. size - 1 /\ r.size = size
      BY <2>1
    <3>. QED
      BY <3>1 DEF RingConsistent, Step
  <2>. QED
    BY <2>2, <2>5, <2>6 DEF RingConsistent
<1>. QED
  BY <1>1, <1>2 DEF put_ret

\* ringbuf_get likewise, and the byte it hands out is a byte.
LEMMA GetGood ==
    ASSUME NEW size \in Nat, size >= 2, NEW B,
           NEW r \in RingSet(size, B), RingConsistent(r)
    PROVE  /\ ringbuf_get(r) \in RingSet(size, B)
           /\ RingConsistent(ringbuf_get(r))
           /\ get_byte(r) \in B
<1>. DEFINE new == ringbuf_get(r)
<1>1. /\ r.mem \in [0 .. size - 1 -> B] /\ r.p_r \in 0 .. size - 1
      /\ r.p_w \in 0 .. size - 1 /\ r.size = size
  BY DEF RingSet
<1>2. get_byte(r) \in B
  BY <1>1 DEF get_byte
<1>3. CASE get_ret(r) # 0
  BY <1>2, <1>3 DEF ringbuf_get
<1>4. CASE get_ret(r) = 0
  <2>1. r.fill_cnt \in 1 .. size
    BY <1>4 DEF RingSet, get_ret
  <2>2. new = [mem |-> r.mem, p_r |-> Step(r.p_r, size), p_w |-> r.p_w,
               fill_cnt |-> r.fill_cnt - 1, size |-> size]
    BY <1>1, <1>4, <2>1 DEF ringbuf_get, RingSet
  <2>3. Step(r.p_r, size) \in 0 .. size - 1
    BY <1>1, StepInRange
  <2>4. new \in RingSet(size, B)
    BY <1>1, <2>1, <2>2, <2>3 DEF RingSet
  <2>5. \/ r.p_w = Step(r.p_r, size) + (r.fill_cnt - 1)
        \/ r.p_w = Step(r.p_r, size) + (r.fill_cnt - 1) - size
    <3>1. /\ r.p_r \in 0 .. size - 1 /\ r.p_w \in 0 .. size - 1
          /\ r.fill_cnt \in 1 .. size /\ r.size = size
      BY <1>1, <2>1
    <3>. QED
      BY <3>1 DEF RingConsistent, Step
  <2>. QED
    BY <1>2, <2>2, <2>4, <2>5 DEF RingConsistent
<1>. QED
  BY <1>3, <1>4 DEF get_ret

\* ringbuf_owr likewise.
LEMMA OwrGood ==
    ASSUME NEW size \in Nat, size >= 2, NEW B, NEW c \in B,
           NEW r \in RingSet(size, B), RingConsistent(r)
    PROVE  /\ ringbuf_owr(r, c) \in RingSet(size, B)
           /\ RingConsistent(ringbuf_owr(r, c))
  BY PutGood, GetGood DEF ringbuf_owr

\* ringbuf_truncate likewise.
LEMMA TruncateGood ==
    ASSUME NEW size \in Nat, size >= 2, NEW B, NEW r \in RingSet(size, B)
    PROVE  /\ ringbuf_truncate(r) \in RingSet(size, B)
           /\ RingConsistent(ringbuf_truncate(r))
<1>. DEFINE new == ringbuf_truncate(r)
<1>1. 0 \in 0 .. size - 1 /\ 0 \in 0 .. size
  OBVIOUS
<1>2. new \in RingSet(size, B)
  BY <1>1 DEF ringbuf_truncate, RingSet
<1>3. new.p_r = 0 /\ new.p_w = 0 /\ new.fill_cnt = 0
  BY DEF ringbuf_truncate, RingSet
<1>. QED
  BY <1>2, <1>3 DEF RingConsistent

\* The unread bytes form a sequence as long as fill_cnt says.
LEMMA UnreadIsSeq ==
    ASSUME NEW size \in Nat, size >= 2, NEW B, NEW r \in RingSet(size, B)
    PROVE  /\ Unread(r) \in Seq(B)
           /\ Len(Unread(r)) = r.fill_cnt
           /\ \A k \in 1 .. r.fill_cnt : Unread(r)[k] = r.mem[Slot(r, k - 1)]
<1>1. /\ r.mem \in [0 .. size - 1 -> B] /\ r.p_r \in 0 .. size - 1
      /\ r.fill_cnt \in 0 .. size /\ r.size = size
  BY DEF RingSet
<1>2. ASSUME NEW k \in 1 .. r.fill_cnt PROVE Slot(r, k - 1) \in 0 .. size - 1
  BY <1>1, <1>2 DEF Slot
<1>3. Unread(r) \in [1 .. r.fill_cnt -> B]
  BY <1>1, <1>2 DEF Unread
<1>4. r.fill_cnt \in Nat
  BY <1>1
<1>5. Unread(r) \in Seq(B)
  BY <1>3, <1>4, SeqDef
<1>6. Len(Unread(r)) = r.fill_cnt
  BY <1>3, <1>4, <1>5, LenProperties
<1>. QED
  BY <1>5, <1>6 DEF Unread

\* A successful put appends its byte to what is unread.
LEMMA PutAppends ==
    ASSUME NEW size \in Nat, size >= 2, NEW B, NEW c \in B,
           NEW r \in RingSet(size, B), RingConsistent(r), put_ret(r) = 0
    PROVE  Unread(ringbuf_put(r, c)) = Append(Unread(r), c)
<1>. DEFINE new == ringbuf_put(r, c)
            s   == Unread(r)
            t   == Unread(new)
<1>1. /\ r.mem \in [0 .. size - 1 -> B] /\ r.p_r \in 0 .. size - 1
      /\ r.p_w \in 0 .. size - 1 /\ r.fill_cnt \in 0 .. size - 1
      /\ r.size = size
  BY DEF RingSet, put_ret
<1>2. /\ new.mem = [r.mem EXCEPT ![r.p_w] = c] /\ new.p_r = r.p_r
      /\ new.fill_cnt = r.fill_cnt + 1 /\ new.size = size
  BY <1>1 DEF ringbuf_put, put_ret, RingSet
<1>3. new \in RingSet(size, B)
  BY PutGood
<1>. HIDE DEF new
<1>4. /\ s \in Seq(B) /\ Len(s) = r.fill_cnt
      /\ \A k \in 1 .. r.fill_cnt : s[k] = r.mem[Slot(r, k - 1)]
  BY UnreadIsSeq
<1>5. /\ t \in Seq(B) /\ Len(t) = r.fill_cnt + 1
      /\ \A k \in 1 .. r.fill_cnt + 1 : t[k] = new.mem[Slot(new, k - 1)]
  <2>1. /\ t \in Seq(B) /\ Len(t) = new.fill_cnt
        /\ \A k \in 1 .. new.fill_cnt : t[k] = new.mem[Slot(new, k - 1)]
    BY <1>3, UnreadIsSeq
  <2>. QED
    BY <1>2, <2>1
<1>. HIDE DEF s, t
<1>6. ASSUME NEW k \in 1 .. r.fill_cnt PROVE t[k] = s[k]
  <2>1. /\ s[k] = r.mem[Slot(r, k - 1)]
        /\ t[k] = new.mem[Slot(new, k - 1)]
    <3>1. r.fill_cnt \in Nat
      BY <1>1
    <3>2. k \in 1 .. r.fill_cnt + 1
      BY <3>1
    <3>. QED
      BY <3>2, <1>4, <1>5
  <2>2. Slot(new, k - 1) = Slot(r, k - 1)
    BY <1>1, <1>2 DEF Slot
  <2>3. Slot(r, k - 1) \in 0 .. size - 1 /\ Slot(r, k - 1) # r.p_w
    BY <1>1, SMTT(30) DEF Slot, RingConsistent
  <2>. QED
    BY <1>1, <1>2, <2>1, <2>2, <2>3
<1>7. t[r.fill_cnt + 1] = c
  <2>1. t[r.fill_cnt + 1] = new.mem[Slot(new, r.fill_cnt)]
    <3>1. r.fill_cnt \in Nat
      BY <1>1
    <3>2. /\ r.fill_cnt + 1 \in 1 .. r.fill_cnt + 1
          /\ (r.fill_cnt + 1) - 1 = r.fill_cnt
      BY <3>1
    <3>. QED
      BY <3>2, <1>5
  <2>2. Slot(new, r.fill_cnt) = r.p_w
    BY <1>1, <1>2 DEF Slot, RingConsistent
  <2>. QED
    BY <1>1, <1>2, <2>1, <2>2
<1>8. /\ Append(s, c) \in Seq(B) /\ Len(Append(s, c)) = r.fill_cnt + 1
      /\ \A k \in 1 .. r.fill_cnt : Append(s, c)[k] = s[k]
      /\ Append(s, c)[r.fill_cnt + 1] = c
  BY <1>4, AppendProperties
<1>9. \A k \in 1 .. Len(t) : t[k] = Append(s, c)[k]
  BY <1>1, <1>5, <1>6, <1>7, <1>8
<1>10. t = Append(s, c)
  BY <1>5, <1>8, <1>9, SeqEqual
<1>. QED
  BY <1>10 DEF new, s, t

\* A successful get takes the oldest unread byte off and hands it out.
LEMMA GetTakesHead ==
    ASSUME NEW size \in Nat, size >= 2, NEW B,
           NEW r \in RingSet(size, B), RingConsistent(r), get_ret(r) = 0
    PROVE  /\ Unread(ringbuf_get(r)) = Tail(Unread(r))
           /\ get_byte(r) = Head(Unread(r))
           /\ Unread(r) # <<>>
<1>. DEFINE new == ringbuf_get(r)
            s   == Unread(r)
            t   == Unread(new)
<1>1. /\ r.mem \in [0 .. size - 1 -> B] /\ r.p_r \in 0 .. size - 1
      /\ r.fill_cnt \in 1 .. size /\ r.size = size
  BY DEF RingSet, get_ret
<1>2. /\ new.mem = r.mem /\ new.p_r = Step(r.p_r, size)
      /\ new.fill_cnt = r.fill_cnt - 1 /\ new.size = size
  BY <1>1 DEF ringbuf_get, get_ret, RingSet
<1>3. new \in RingSet(size, B)
  BY GetGood
<1>. HIDE DEF new
<1>4. /\ s \in Seq(B) /\ Len(s) = r.fill_cnt
      /\ \A k \in 1 .. r.fill_cnt : s[k] = r.mem[Slot(r, k - 1)]
  BY UnreadIsSeq
<1>5. /\ t \in Seq(B) /\ Len(t) = r.fill_cnt - 1
      /\ \A k \in 1 .. r.fill_cnt - 1 : t[k] = new.mem[Slot(new, k - 1)]
  <2>1. /\ t \in Seq(B) /\ Len(t) = new.fill_cnt
        /\ \A k \in 1 .. new.fill_cnt : t[k] = new.mem[Slot(new, k - 1)]
    BY <1>3, UnreadIsSeq
  <2>. QED
    BY <1>2, <2>1
<1>. HIDE DEF s, t
<1>6. s # <<>>
  BY <1>1, <1>4, EmptySeq
<1>7. ASSUME NEW k \in 1 .. r.fill_cnt - 1 PROVE t[k] = s[k + 1]
  <2>1. /\ s[k + 1] = r.mem[Slot(r, k)]
        /\ t[k] = new.mem[Slot(new, k - 1)]
    BY <1>1, <1>4, <1>5
  <2>2. Slot(new, k - 1) = Slot(r, k)
    BY <1>1, <1>2, SMTT(30) DEF Slot, Step
  <2>. QED
    BY <1>2, <2>1, <2>2
<1>8. /\ Tail(s) \in Seq(B) /\ Len(Tail(s)) = r.fill_cnt - 1
      /\ \A k \in 1 .. r.fill_cnt - 1 : Tail(s)[k] = s[k + 1]
  BY <1>4, <1>6, HeadTailProperties
<1>9. t = Tail(s)
  BY <1>5, <1>7, <1>8, SeqEqual
<1>10. s[1] = r.mem[r.p_r]
  BY <1>1, <1>4 DEF Slot
<1>11. Head(s) = s[1]
  BY <1>4, <1>6
<1>. QED
  BY <1>6, <1>9, <1>10, <1>11 DEF new, s, t, get_byte

\* On a ring with room ringbuf_owr is ringbuf_put.
LEMMA OwrAppends ==
    ASSUME NEW size \in Nat, size >= 2, NEW B, NEW c \in B,
           NEW r \in RingSet(size, B), RingConsistent(r), put_ret(r) = 0
    PROVE  Unread(ringbuf_owr(r, c)) = Append(Unread(r), c)
  BY PutAppends DEF ringbuf_owr

\* What it does to the fields while the ring is not full.
LEMMA OwrFields ==
    ASSUME NEW size \in Nat, size >= 2, NEW B, NEW c \in B,
           NEW r \in RingSet(size, B), put_ret(r) = 0
    PROVE  ringbuf_owr(r, c) =
              [mem |-> [r.mem EXCEPT ![r.p_w] = c], p_r |-> r.p_r,
               p_w |-> Step(r.p_w, size), fill_cnt |-> r.fill_cnt + 1,
               size |-> size]
<1>1. r.size = size
  BY DEF RingSet
<1>2. ringbuf_owr(r, c) = ringbuf_put(r, c)
  BY DEF ringbuf_owr
<1>. QED
  BY <1>1, <1>2 DEF ringbuf_put, RingSet

\* On a full ring it takes the oldest byte off first.
LEMMA OwrShifts ==
    ASSUME NEW size \in Nat, size >= 2, NEW B, NEW c \in B,
           NEW r \in RingSet(size, B), RingConsistent(r), r.fill_cnt = size
    PROVE  /\ Unread(ringbuf_owr(r, c)) = Append(Tail(Unread(r)), c)
           /\ Unread(r) # <<>>
           /\ ringbuf_owr(r, c).fill_cnt = size
<1>. DEFINE mid == ringbuf_get(r)
<1>1. r.size = size
  BY DEF RingSet
<1>2. put_ret(r) # 0 /\ get_ret(r) = 0
  BY <1>1 DEF put_ret, get_ret
<1>3. mid \in RingSet(size, B) /\ RingConsistent(mid)
  BY GetGood
<1>4. Unread(mid) = Tail(Unread(r)) /\ Unread(r) # <<>>
  BY <1>2, GetTakesHead
<1>5. mid.fill_cnt = size - 1 /\ mid.size = size
  BY <1>1, <1>2 DEF ringbuf_get, RingSet
<1>6. ringbuf_owr(r, c) = ringbuf_put(mid, c)
  BY <1>2 DEF ringbuf_owr
<1>. HIDE DEF mid
<1>7. put_ret(mid) = 0
  BY <1>5 DEF put_ret
<1>8. Unread(ringbuf_put(mid, c)) = Append(Unread(mid), c)
  BY <1>3, <1>7, PutAppends
<1>9. ringbuf_put(mid, c).fill_cnt = size
  BY <1>3, <1>5, <1>7 DEF ringbuf_put, RingSet
<1>. QED
  BY <1>4, <1>6, <1>8, <1>9

================================================================================
