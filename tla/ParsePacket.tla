------------------------------ MODULE ParsePacket -----------------------------
(***************************************************************************)
(* The live plot without the server: matlab/w_rt_plot_raw.m calls          *)
(* parse_packet again and again, and each call reads the connection of a   *)
(* node in blocks until it has found a packet.                             *)
(*                                                                         *)
(* A byte is known by its place in its frame, 1 to FrameLen; 0 is the zero *)
(* byte behind a frame, and what MATLAB fills a vector with.               *)
(***************************************************************************)
EXTENDS Integers, Sequences

CONSTANTS
    FrameLen,   \* bytes before the zero byte, 31 in the code
    BlockLen,   \* bytes that fread asks for, 128 in the code
    NoPacket    \* packet before its first assignment

\* c_pos runs from 1 to BufLen, 32 in the code.
BufLen == FrameLen + 1

ASSUME LengthsAssumption == FrameLen \in Nat \ {0} /\ BlockLen \in Nat \ {0}

VARIABLES
    open,           \* t.Status
    lossy,          \* whether the bridge may still lose bytes on the way
    place,          \* place of the next byte of the stream
    left,           \* bytes of data that the for loop has still to see
    n_packet, c_pos, complete,
    packet,         \* n_packet when the fields of packet were assigned, and
                    \*   whether it was an undamaged frame
    intact          \* history: what came since the last zero byte is the
                    \*   beginning of a frame

parserVars == <<left, n_packet, c_pos, complete, packet, intact>>
vars == <<open, lossy, place, parserVars>>

zeros == [k \in 1 .. BufLen |-> 0]

WholeFrame == [k \in 1 .. FrameLen |-> k]

\* A call of parse_packet starts.
Call ==
    /\ n_packet' = zeros /\ c_pos' = 1 /\ complete' = FALSE
    /\ packet' = NoPacket
    /\ intact' = (place = 1)

\* The connection is accepted anywhere in the stream.
Init ==
    /\ open = TRUE /\ lossy = TRUE /\ place \in 0 .. FrameLen /\ left = 0
    /\ n_packet = zeros /\ c_pos = 1 /\ complete = FALSE
    /\ packet = NoPacket /\ intact = (place = 1)

\* fread returns when its block is full or its time is up.
Fread ==
    /\ open /\ ~complete /\ left = 0
    /\ left' \in 1 .. BlockLen
    /\ UNCHANGED <<open, lossy, place, n_packet, c_pos, complete, packet, intact>>

NextPlace == IF place = FrameLen THEN 0 ELSE place + 1

\* v(i) = x, which lengthens v when i is beyond its end.
Assigned(v, i, x) ==
    [k \in 1 .. (IF i > Len(v) THEN i ELSE Len(v)) |->
        IF k = i THEN x ELSE IF k <= Len(v) THEN v[k] ELSE 0]

\* Mutant of Advance: c_pos starts over one place too early.
AdvanceShort(c) == IF c + 1 >= BufLen THEN 1 ELSE c + 1

\* Mutant of Advance: c_pos starts over one place too late.
AdvanceFar(c) == IF c > BufLen THEN 1 ELSE c + 1

Advance(c) == IF c + 1 > BufLen THEN 1 ELSE c + 1

\* A byte of the frame.
Store ==
    /\ left > 0 /\ place # 0
    /\ n_packet' = Assigned(n_packet, c_pos, place)
    /\ c_pos' = Advance(c_pos)
    /\ left' = left - 1
    /\ place' = NextPlace
    /\ UNCHANGED <<open, lossy, complete, packet, intact>>

\* The fields are taken from a vector of the right length; hex2dec may fail on
\* anything but an undamaged frame, which leaves complete as it was.
Take ==
    IF Len(n_packet) = FrameLen
    THEN /\ packet' = [n |-> n_packet, intact |-> intact]
         /\ \/ complete' = TRUE
            \/ n_packet # WholeFrame /\ complete' = complete
    ELSE UNCHANGED <<packet, complete>>

\* Mutant of EndOfFrame: n_packet is not emptied.
EndOfFrameKeeps ==
    /\ left > 0 /\ place = 0
    /\ Take
    /\ left' = left - 1
    /\ place' = NextPlace
    /\ intact' = TRUE
    /\ UNCHANGED <<open, lossy, n_packet, c_pos>>

\* The zero byte: n_packet is emptied, but c_pos stays where it is.
EndOfFrame ==
    /\ left > 0 /\ place = 0
    /\ Take
    /\ n_packet' = <<>>
    /\ left' = left - 1
    /\ place' = NextPlace
    /\ intact' = TRUE
    /\ UNCHANGED <<open, lossy, c_pos>>

\* The call returns a packet and w_rt_plot_raw calls again.
Return ==
    /\ complete /\ left = 0
    /\ Call
    /\ UNCHANGED <<open, lossy, place, left>>

\* A byte is lost before it gets here.
Lose ==
    /\ lossy
    /\ place' = NextPlace
    /\ intact' = FALSE
    /\ UNCHANGED <<open, lossy, left, n_packet, c_pos, complete, packet>>

\* From some moment on nothing is lost any more.
Calm ==
    /\ lossy /\ lossy' = FALSE
    /\ UNCHANGED <<open, place, parserVars>>

\* The node goes: the loop ends after the block it has.
Close ==
    /\ open /\ open' = FALSE
    /\ UNCHANGED <<lossy, place, parserVars>>

Next == Fread \/ Store \/ EndOfFrame \/ Return \/ Lose \/ Calm \/ Close

Spec == Init /\ [][Next]_vars

\* Bytes keep coming from a node that stays, and the program runs.
FairSpec == Spec /\ WF_vars(Fread) /\ WF_vars(Store \/ EndOfFrame) /\ WF_vars(Return)

-------------------------------------------------------------------------------
TypeOK ==
    /\ open \in BOOLEAN /\ lossy \in BOOLEAN /\ complete \in BOOLEAN /\ intact \in BOOLEAN
    /\ place \in 0 .. FrameLen /\ left \in 0 .. BlockLen
    /\ n_packet \in Seq(0 .. FrameLen) /\ Len(n_packet) <= BufLen
    /\ c_pos \in 1 .. BufLen
    /\ packet = NoPacket \/ packet \in [n: Seq(0 .. FrameLen), intact: BOOLEAN]

\* The fields of a packet are taken from their places in a frame, if that frame
\* arrived undamaged, whatever damaged frames left c_pos at: it is not reset
\* between frames, so most frames are stored rotated (parse_packet.m:10-35).
PacketInPlace == (packet # NoPacket /\ packet.intact) => packet.n = WholeFrame

\* Whatever losses left behind, once the stream is undamaged every call returns,
\* although it skips all frames that do not happen to start at c_pos = 1
\* (parse_packet.m:7-37).
CallReturns == (open /\ ~lossy /\ ~complete) ~> (complete \/ ~open)

===============================================================================
