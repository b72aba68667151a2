------------------------------- MODULE LossyFifo -------------------------------
(***************************************************************************)
(* What a ring buffer promises to its callers: a bounded first-in          *)
(* first-out queue in which one operation may push out the oldest byte.    *)
(* Return codes are those of ringbuf.h: 0 for success and -1 for failure.  *)
(***************************************************************************)
EXTENDS Integers, Sequences

CONSTANTS Size,     \* capacity in bytes
          Byte      \* the values a byte can take

VARIABLES q,        \* the bytes held, oldest first
          ret,      \* return code of the last call
          out       \* where get stores the byte it reads

vars == <<q, ret, out>>

Init == q = <<>> /\ ret = 0 /\ out \in Byte

Put(c) ==
    /\ IF Len(q) < Size THEN q' = Append(q, c) /\ ret' = 0
                        ELSE q' = q /\ ret' = -1
    /\ UNCHANGED out

Get ==
    IF q # <<>> THEN q' = Tail(q) /\ out' = Head(q) /\ ret' = 0
                ELSE ret' = -1 /\ UNCHANGED <<q, out>>

Overwrite(c) ==
    /\ IF Len(q) < Size THEN q' = Append(q, c) /\ ret' = 0
                        ELSE q' = Append(Tail(q), c) /\ ret' = -1
    /\ UNCHANGED out

Truncate == q' = <<>> /\ ret' = 0 /\ UNCHANGED out

Next == Get \/ Truncate \/ \E c \in Byte : Put(c) \/ Overwrite(c)

Spec == Init /\ [][Next]_vars

================================================================================
