--------------------------- MODULE ParsePacketProofs --------------------------
(***************************************************************************)
(* A packet of the live plot has its fields from their places in a frame,  *)
(* for any length of frames and blocks and whatever the bridge loses.      *)
(***************************************************************************)
EXTENDS ParsePacket, SequenceTheorems, TLAPS

\* Bytes of the current frame that have passed.
Passed == IF place = 0 THEN FrameLen ELSE place - 1

\* While a frame arrives undamaged, n_packet has either been filled to its end,
\* where it stays too long to be taken, or it was started at c_pos - Passed and
\* ends before c_pos.
Growing ==
    intact =>
        \/ Len(n_packet) = BufLen
        \/ Passed = 0 /\ n_packet = <<>>
        \/ /\ Passed > 0 /\ Passed < c_pos
           /\ Len(n_packet) = c_pos - 1
           /\ c_pos = Passed + 1 => n_packet = [k \in 1 .. Passed |-> k]

Inv == TypeOK /\ Growing /\ PacketInPlace

-------------------------------------------------------------------------------
\* A call starts with a vector that is one byte too long.
LEMMA ZerosType == /\ zeros \in Seq(0 .. FrameLen)
                   /\ Len(zeros) = BufLen
                   /\ BufLen \in Nat /\ BufLen = FrameLen + 1
<1>1. FrameLen \in Nat \ {0} /\ BufLen \in Nat /\ BufLen = FrameLen + 1
  BY LengthsAssumption DEF BufLen
<1>2. \A k \in 1 .. BufLen : 0 \in 0 .. FrameLen
  BY <1>1
<1>. QED
  BY <1>1, <1>2 DEF zeros

\* v(i) = x is a vector that reaches at least to i.
LEMMA AssignedType ==
    ASSUME NEW v \in Seq(0 .. FrameLen), Len(v) <= BufLen,
           NEW i \in 1 .. BufLen, NEW x \in 0 .. FrameLen
    PROVE  /\ Assigned(v, i, x) \in Seq(0 .. FrameLen)
           /\ Len(Assigned(v, i, x)) = IF i > Len(v) THEN i ELSE Len(v)
           /\ \A k \in 1 .. (IF i > Len(v) THEN i ELSE Len(v)) :
                Assigned(v, i, x)[k] = IF k = i THEN x
                                       ELSE IF k <= Len(v) THEN v[k] ELSE 0
<1>. DEFINE n == IF i > Len(v) THEN i ELSE Len(v)
            e(k) == IF k = i THEN x ELSE IF k <= Len(v) THEN v[k] ELSE 0
<1>1. BufLen \in Nat /\ Len(v) \in Nat /\ FrameLen \in Nat
  BY LengthsAssumption, LenProperties DEF BufLen
<1>2. n \in Nat
  BY <1>1
<1>3. \A k \in 1 .. n : e(k) \in 0 .. FrameLen
  <2>. TAKE k \in 1 .. n
  <2>1. CASE k <= Len(v)
    BY <2>1, <1>1, ElementOfSeq
  <2>2. CASE ~(k <= Len(v))
    BY <2>2, <1>1
  <2>. QED
    BY <2>1, <2>2
<1>4. Assigned(v, i, x) = [k \in 1 .. n |-> e(k)]
  BY DEF Assigned
<1>. HIDE DEF n, e
<1>5. /\ [k \in 1 .. n |-> e(k)] \in Seq(0 .. FrameLen)
      /\ Len([k \in 1 .. n |-> e(k)]) = n
  BY <1>2, <1>3
<1>6. \A k \in 1 .. n : Assigned(v, i, x)[k] = e(k)
  BY <1>4
<1>. QED
  BY <1>4, <1>5, <1>6 DEF n, e

\* c_pos stays within the vector.
LEMMA AdvanceType ==
    ASSUME NEW c \in 1 .. BufLen
    PROVE  Advance(c) \in 1 .. BufLen /\ (c < BufLen => Advance(c) = c + 1)
BY LengthsAssumption DEF Advance, BufLen

-------------------------------------------------------------------------------
LEMMA InvInit == Init => Inv
<1>. SUFFICES ASSUME Init PROVE Inv
  OBVIOUS
<1>1. TypeOK
  <2>1. (place = 1) \in BOOLEAN
    OBVIOUS
  <2>2. open \in BOOLEAN /\ lossy \in BOOLEAN /\ complete \in BOOLEAN /\ intact \in BOOLEAN
    BY <2>1, Zenon DEF Init
  <2>3. 0 \in 0 .. BlockLen /\ 1 \in 1 .. BufLen /\ BufLen <= BufLen
    BY LengthsAssumption, ZerosType
  <2>. QED
    BY <2>2, <2>3, ZerosType DEF Init, TypeOK
<1>2. Growing
  BY ZerosType DEF Init, Growing
<1>. QED
  BY <1>1, <1>2 DEF Init, Inv, PacketInPlace

\* What a byte of a frame leaves.
LEMMA InvStore == Inv /\ Store => Inv'
<1>. SUFFICES ASSUME Inv, Store PROVE Inv'
  OBVIOUS
<1>. USE DEF Inv
<1>0. FrameLen \in Nat \ {0} /\ BlockLen \in Nat \ {0} /\ BufLen = FrameLen + 1
  BY LengthsAssumption DEF BufLen
<1>1. /\ place \in 1 .. FrameLen /\ left \in 1 .. BlockLen
      /\ c_pos \in 1 .. BufLen
      /\ n_packet \in Seq(0 .. FrameLen) /\ Len(n_packet) <= BufLen
      /\ Len(n_packet) \in Nat
  BY <1>0, LenProperties DEF TypeOK, Store
<1>2. /\ n_packet' = Assigned(n_packet, c_pos, place)
      /\ c_pos' = Advance(c_pos) /\ place' = NextPlace /\ left' = left - 1
      /\ UNCHANGED <<open, lossy, complete, packet, intact>>
  BY DEF Store
<1>3. place \in 0 .. FrameLen
  BY <1>1
<1>4. /\ n_packet' \in Seq(0 .. FrameLen)
      /\ Len(n_packet') = IF c_pos > Len(n_packet) THEN c_pos ELSE Len(n_packet)
      /\ \A k \in 1 .. (IF c_pos > Len(n_packet) THEN c_pos ELSE Len(n_packet)) :
            n_packet'[k] = IF k = c_pos THEN place
                           ELSE IF k <= Len(n_packet) THEN n_packet[k] ELSE 0
  BY <1>1, <1>2, <1>3, AssignedType
<1>5. c_pos' \in 1 .. BufLen /\ (c_pos < BufLen => c_pos' = c_pos + 1)
  BY <1>1, <1>2, AdvanceType
<1>6. place' \in 0 .. FrameLen /\ Passed' = place /\ Passed = place - 1
  BY <1>0, <1>1, <1>2 DEF Passed, NextPlace
<1>7. TypeOK'
  <2>1. left' \in 0 .. BlockLen
    BY <1>0, <1>1, <1>2
  <2>2. Len(n_packet') <= BufLen
    BY <1>0, <1>1, <1>4
  <2>. QED
    BY <1>2, <1>4, <1>5, <1>6, <2>1, <2>2 DEF TypeOK
<1>8. Growing'
  <2>. SUFFICES ASSUME intact PROVE
           \/ Len(n_packet') = BufLen
           \/ /\ place > 0 /\ place < c_pos'
              /\ Len(n_packet') = c_pos' - 1
              /\ c_pos' = place + 1 => n_packet' = [k \in 1 .. place |-> k]
    BY <1>2, <1>6 DEF Growing, BufLen
  <2>1. CASE Len(n_packet) = BufLen \/ c_pos = BufLen
    <3>1. (IF c_pos > Len(n_packet) THEN c_pos ELSE Len(n_packet)) = BufLen
      BY <2>1, <1>0, <1>1
    <3>. QED
      BY <3>1, <1>4
  <2>2. CASE Len(n_packet) # BufLen /\ c_pos # BufLen
    <3>1. c_pos' = c_pos + 1
      BY <2>2, <1>0, <1>1, <1>5
    <3>2. \/ place - 1 = 0 /\ n_packet = <<>> /\ Len(n_packet) = 0
          \/ /\ place - 1 > 0 /\ place - 1 < c_pos
             /\ Len(n_packet) = c_pos - 1
             /\ c_pos = place => n_packet = [k \in 1 .. place - 1 |-> k]
      <4>1. Passed = place - 1
        BY <1>6
      <4>2. \/ Passed = 0 /\ n_packet = <<>>
            \/ /\ Passed > 0 /\ Passed < c_pos
               /\ Len(n_packet) = c_pos - 1
               /\ c_pos = Passed + 1 => n_packet = [k \in 1 .. Passed |-> k]
        BY <2>2, Zenon DEF Growing
      <4>3. CASE Passed = 0 /\ n_packet = <<>>
        BY <4>1, <4>3, EmptySeq
      <4>4. CASE ~(Passed = 0 /\ n_packet = <<>>)
        BY <4>1, <4>2, <4>4, <1>1
      <4>. QED
        BY <4>3, <4>4
    <3>3. place < c_pos' /\ place > 0 /\ Len(n_packet') = c_pos' - 1
      BY <3>1, <3>2, <1>0, <1>1, <1>4
    <3>4. ASSUME c_pos' = place + 1
          PROVE  n_packet' = [k \in 1 .. place |-> k]
      <4>1. c_pos = place /\ Len(n_packet) = place - 1
        BY <3>4, <3>1, <3>2, <1>0, <1>1
      <4>2. \A k \in 1 .. place - 1 : n_packet[k] = k
        BY <3>2, <4>1, <1>1
      <4>3. \A k \in 1 .. place : n_packet'[k] = k
        BY <4>1, <4>2, <1>1, <1>4
      <4>4. Len(n_packet') = place
        BY <4>1, <1>1, <1>4
      <4>5. n_packet' = [k \in 1 .. place |-> n_packet'[k]]
        BY <4>4, <1>4, LenProperties
      <4>. QED
        BY <4>3, <4>5
    <3>. QED
      BY <3>3, <3>4
  <2>. QED
    BY <2>1, <2>2
<1>9. PacketInPlace'
  BY <1>2 DEF PacketInPlace
<1>. QED
  BY <1>7, <1>8, <1>9

\* What the zero byte leaves: an undamaged frame of the right length is in place.
LEMMA InvEndOfFrame == Inv /\ EndOfFrame => Inv'
<1>. SUFFICES ASSUME Inv, EndOfFrame PROVE Inv'
  OBVIOUS
<1>. USE DEF Inv
<1>0. FrameLen \in Nat \ {0} /\ BlockLen \in Nat \ {0} /\ BufLen = FrameLen + 1
  BY LengthsAssumption DEF BufLen
<1>1. place = 0 /\ left \in 1 .. BlockLen /\ place' = 1 /\ left' = left - 1
  BY <1>0 DEF TypeOK, EndOfFrame, NextPlace
<1>2. /\ n_packet' = <<>> /\ intact' = TRUE /\ c_pos' = c_pos
      /\ open' = open /\ lossy' = lossy
      /\ Take
  BY DEF EndOfFrame
<1>3. Growing'
  BY <1>0, <1>1, <1>2 DEF Growing, Passed
<1>4. \/ packet' = packet
      \/ packet' = [n |-> n_packet, intact |-> intact] /\ Len(n_packet) = FrameLen
  BY <1>2 DEF Take
<1>5. complete' \in BOOLEAN
  BY <1>2 DEF Take, TypeOK
<1>6. TypeOK'
  <2>1. packet' = NoPacket \/ packet' \in [n: Seq(0 .. FrameLen), intact: BOOLEAN]
    BY <1>4 DEF TypeOK
  <2>2. left' \in 0 .. BlockLen /\ place' \in 0 .. FrameLen
    BY <1>0, <1>1
  <2>3. n_packet' \in Seq(0 .. FrameLen) /\ Len(n_packet') <= BufLen
    BY <1>0, <1>2, EmptySeq
  <2>. QED
    BY <1>2, <1>5, <2>1, <2>2, <2>3 DEF TypeOK
<1>7. (intact /\ Len(n_packet) = FrameLen) => n_packet = WholeFrame
  <2>. SUFFICES ASSUME intact, Len(n_packet) = FrameLen
                PROVE  n_packet = WholeFrame
    OBVIOUS
  <2>1. Passed = FrameLen
    BY <1>1 DEF Passed
  <2>2. /\ Len(n_packet) = c_pos - 1
        /\ c_pos = FrameLen + 1 => n_packet = [k \in 1 .. FrameLen |-> k]
    BY <2>1, <1>0 DEF Growing
  <2>. QED
    BY <2>2, <1>0 DEF WholeFrame, TypeOK
<1>8. PacketInPlace'
  BY <1>4, <1>7 DEF PacketInPlace
<1>. QED
  BY <1>3, <1>6, <1>8

\* Every other step starts anew, or leaves the vector alone.
LEMMA InvStep == Inv /\ [Next]_vars => Inv'
<1>. SUFFICES ASSUME Inv, [Next]_vars PROVE Inv'
  OBVIOUS
<1>. USE DEF Inv
<1>0. FrameLen \in Nat \ {0} /\ BlockLen \in Nat \ {0} /\ BufLen = FrameLen + 1
  BY LengthsAssumption DEF BufLen
<1>1. CASE Fread
  BY <1>0, <1>1 DEF Fread, TypeOK, Growing, Passed, PacketInPlace, BufLen
<1>2. CASE Store
  BY <1>2, InvStore
<1>3. CASE EndOfFrame
  BY <1>3, InvEndOfFrame
<1>4. CASE Return
  <2>1. /\ n_packet' = zeros /\ c_pos' = 1 /\ complete' = FALSE /\ packet' = NoPacket
        /\ intact' = (place = 1) /\ UNCHANGED <<open, lossy, place, left>>
    BY <1>4 DEF Return, Call
  <2>2. TypeOK'
    <3>1. (place = 1) \in BOOLEAN
      OBVIOUS
    <3>2. complete' \in BOOLEAN /\ intact' \in BOOLEAN
      BY <2>1, <3>1, Zenon
    <3>3. 1 \in 1 .. BufLen /\ BufLen <= BufLen
      BY <1>0
    <3>. QED
      BY <2>1, <3>2, <3>3, ZerosType DEF TypeOK
  <2>. QED
    BY <2>1, <2>2, ZerosType DEF Growing, PacketInPlace
<1>5. CASE Lose
  <2>1. place' \in 0 .. FrameLen
    BY <1>0, <1>5 DEF Lose, NextPlace, TypeOK
  <2>. QED
    BY <2>1, <1>5 DEF Lose, TypeOK, Growing, PacketInPlace
<1>6. CASE Close
  BY <1>6 DEF Close, parserVars, TypeOK, Growing, Passed, PacketInPlace
<1>7. CASE Calm
  BY <1>7 DEF Calm, parserVars, TypeOK, Growing, Passed, PacketInPlace
<1>8. CASE UNCHANGED vars
  BY <1>8 DEF vars, parserVars, TypeOK, Growing, Passed, PacketInPlace
<1>. QED
  BY <1>1, <1>2, <1>3, <1>4, <1>5, <1>6, <1>7, <1>8 DEF Next

\* The type invariant holds for any lengths of frame and block.
THEOREM PacketTypes == Spec => []TypeOK
<1>1. Inv => TypeOK
  BY DEF Inv
<1>. QED
  BY <1>1, InvInit, InvStep, PTL DEF Spec

\* A packet that was taken from an undamaged frame has its fields from their
\* places in that frame (parse_packet.m:10-35).
THEOREM PacketFromItsFrame == Spec => []PacketInPlace
<1>1. Inv => PacketInPlace
  BY DEF Inv
<1>. QED
  BY <1>1, InvInit, InvStep, PTL DEF Spec

===============================================================================
