-------------------------------- MODULE RingBuf --------------------------------
(***************************************************************************)
(* One ring buffer and a caller that makes any sequence of calls to it:    *)
(* wiloc-master/user/ringbuf.c.                                            *)
(***************************************************************************)
EXTENDS RingBufOps, Sequences

CONSTANTS Size, Byte, Zero

\* ringbuf_init refuses a size below 2; static storage starts as zeroes.
ASSUME SizeAssumption == Size \in Nat /\ Size >= 2
ASSUME ZeroAssumption == Zero \in Byte

VARIABLES ring,     \* the ringbuf object with its storage
          ret,      \* return code of the last call
          out       \* the caller's `unsigned char c`

vars == <<ring, ret, out>>

Init ==
    /\ ring = ringbuf_init(Zero, Size)
    /\ ret = 0
    /\ out = Zero

Put(c) ==
    /\ ring' = ringbuf_put(ring, c)
    /\ ret' = put_ret(ring)
    /\ UNCHANGED out

Get ==
    /\ ring' = ringbuf_get(ring)
    /\ ret' = get_ret(ring)
    /\ out' = IF get_ret(ring) = 0 THEN get_byte(ring) ELSE out

Owr(c) ==
    /\ ring' = ringbuf_owr(ring, c)
    /\ ret' = owr_ret(ring)
    /\ UNCHANGED out

\* Mutant of Truncate: the read pointer keeps its place.
TruncateKeepsReader ==
    /\ ring' = [ring EXCEPT !.fill_cnt = 0, !.p_w = 0]
    /\ ret' = 0
    /\ UNCHANGED out

Truncate ==
    /\ ring' = ringbuf_truncate(ring)
    /\ ret' = 0
    /\ UNCHANGED out

Next == Get \/ Truncate \/ \E c \in Byte : Put(c) \/ Owr(c)

Spec == Init /\ [][Next]_vars

-------------------------------------------------------------------------------
\* Every pointer stays inside the storage and every count inside the size
\* (ringbuf.c dereferences p_r and p_w without a check of its own).
TypeOK ==
    /\ ring \in RingSet(Size, Byte)
    /\ ret \in {-1, 0}
    /\ out \in Byte

\* fill_cnt and the distance between the two pointers never disagree, whatever
\* mix of put, get, overwrite and truncate led here: they are updated by
\* separate statements of ringbuf.c and nothing compares them.
PointersAgree == RingConsistent(ring)

Fifo == INSTANCE LossyFifo WITH q <- Unread(ring)

\* The pointer arithmetic implements the queue: bytes leave in the order they
\* came, each once, only an overwrite of a full ring loses one and that one is
\* the oldest, and each return code tells the caller which of the two happened.
ImplementsFifo == Fifo!Spec

================================================================================
