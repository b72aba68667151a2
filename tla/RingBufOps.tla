------------------------------ MODULE RingBufOps ------------------------------
(***************************************************************************)
(* The byte ring of the bridge (wiloc-master/user/ringbuf.c) as operators  *)
(* on a record.  p_r and p_w are offsets from p_o, so p_o itself is 0.     *)
(* An operation is an operator from the ring before the call to the ring   *)
(* after it; its return code is the operator named ..._ret.                *)
(***************************************************************************)
EXTENDS Integers

\* All rings over `size` bytes of storage that hold values of B.
RingSet(size, B) ==
    [mem: [0 .. size - 1 -> B], p_r: 0 .. size - 1, p_w: 0 .. size - 1,
     fill_cnt: 0 .. size, size: {size}]

\* Mutant of Step: the boundary test is off by one.
StepPast(p, size) == IF p + 1 > size THEN 0 ELSE p + 1

\* A pointer one past p, rolled back when it goes past the physical boundary.
Step(p, size) == IF p + 1 >= size THEN 0 ELSE p + 1

\* The offset of the k-th unread byte (k = 0 is the oldest).
Slot(r, k) == IF r.p_r + k >= r.size THEN r.p_r + k - r.size ELSE r.p_r + k

\* ringbuf_init on a zeroed static array; the caller guarantees size >= 2.
ringbuf_init(zero, size) ==
    [mem |-> [a \in 0 .. size - 1 |-> zero], p_r |-> 0, p_w |-> 0,
     fill_cnt |-> 0, size |-> size]

put_ret(r) == IF r.fill_cnt >= r.size THEN -1 ELSE 0

ringbuf_put(r, c) ==
    IF put_ret(r) # 0
    THEN r
    ELSE [r EXCEPT !.fill_cnt = @ + 1,
                   !.mem      = [@ EXCEPT ![r.p_w] = c],
                   !.p_w      = Step(@, r.size)]

get_ret(r) == IF r.fill_cnt <= 0 THEN -1 ELSE 0

\* What ringbuf_get stores in *c when it succeeds.
get_byte(r) == r.mem[r.p_r]

ringbuf_get(r) ==
    IF get_ret(r) # 0
    THEN r
    ELSE [r EXCEPT !.fill_cnt = @ - 1,
                   !.p_r      = Step(@, r.size)]

owr_ret(r) == put_ret(r)

\* Mutant of ringbuf_owr: the retry after the get was forgotten.
OwrNoRetry(r, c) ==
    IF put_ret(r) # 0 THEN ringbuf_get(r) ELSE ringbuf_put(r, c)

\* On a full ring the oldest byte goes and the new one takes its place.
ringbuf_owr(r, c) ==
    IF put_ret(r) # 0 THEN ringbuf_put(ringbuf_get(r), c) ELSE ringbuf_put(r, c)

ringbuf_truncate(r) == [r EXCEPT !.fill_cnt = 0, !.p_r = 0, !.p_w = 0]

\* The unread bytes, oldest first.
Unread(r) == [k \in 1 .. r.fill_cnt |-> r.mem[Slot(r, k - 1)]]

\* The write pointer is fill_cnt places ahead of the read pointer: the two
\* ways in which the ring knows how much it holds agree.
RingConsistent(r) ==
    \/ r.p_w = r.p_r + r.fill_cnt
    \/ r.p_w = r.p_r + r.fill_cnt - r.size

===============================================================================
