-------------------------------- MODULE Framing -------------------------------
(***************************************************************************)
(* How the server cuts what a connection brings into frames: the 'data'    *)
(* listener of app.js, 71-81.  TCP delivers the bytes in segments whose    *)
(* borders mean nothing; the bridge may have lost some of them.  Every     *)
(* segment is converted to characters, split at zero bytes, and a piece of *)
(* FrameChars characters is decoded; nothing is kept for the next segment. *)
(*                                                                         *)
(* Bytes are known by their position in what the sniffer sent.  A frame is *)
(* a control byte, a count, an identifier, FrameChars - 3 digits and a     *)
(* zero byte; the count and the identifier may be any byte but zero, and   *)
(* the conversion reads them as UTF-8.  Leads of three and four bytes are  *)
(* left out: decoders do not agree on them when a digit follows.           *)
(***************************************************************************)
EXTENDS Integers, Sequences, FiniteSets

CONSTANTS
    FrameChars,     \* 31 in the code
    MaxFrames,      \* bound: frames sent
    MaxLost,        \* bound: bytes lost
    Kinds,          \* what counts are in UTF-8: "ascii", "lead", "cont"
    IdKind          \* what the identifier of this node is

ASSUME FrameCharsAssumption == FrameChars \in Nat /\ FrameChars >= 3
ASSUME CutBoundsAssumption == MaxFrames \in Nat /\ MaxLost \in Nat
ASSUME KindsAssumption == Kinds \cup {IdKind} \subseteq {"ascii", "lead", "cont"}

VARIABLES
    countKind,      \* of each frame
    next,           \* position of the next byte
    lost,           \* positions of lost bytes
    segment,        \* bytes of the segment under way
    data,           \* history: the last segment
    decoded         \* pieces of it that were decoded

cutVars == <<countKind, next, lost, segment, data, decoded>>

FrameBytes == FrameChars + 1
Frame(p)   == (p - 1) \div FrameBytes + 1
Place(p)   == ((p - 1) % FrameBytes) + 1
IsZero(p)  == Place(p) = FrameBytes
Kind(p)    == CASE Place(p) = 2 -> countKind[Frame(p)]
                [] Place(p) = 3 -> IdKind
                [] OTHER        -> "ascii"

CutInit ==
    /\ countKind \in [1 .. MaxFrames -> Kinds]
    /\ next = 1 /\ lost = {} /\ segment = <<>> /\ data = <<>> /\ decoded = {}

Transmit ==
    /\ next <= MaxFrames * FrameBytes
    /\ segment' = Append(segment, next)
    /\ next' = next + 1
    /\ UNCHANGED <<countKind, lost, data, decoded>>

Lose ==
    /\ next <= MaxFrames * FrameBytes /\ Cardinality(lost) < MaxLost
    /\ lost' = lost \cup {next}
    /\ next' = next + 1
    /\ UNCHANGED <<countKind, segment, data, decoded>>

\* split('\0')
Split(s) ==
    {SubSeq(s, ij[1], ij[2]) : ij \in
        {x \in (DOMAIN s) \X (DOMAIN s) :
            /\ x[1] = 1 \/ IsZero(s[x[1] - 1])
            /\ x[2] = Len(s) \/ IsZero(s[x[2] + 1])
            /\ \A k \in x[1] .. x[2] : ~IsZero(s[k])}}

\* chunks[i].length: a lead and the continuation behind it are one character,
\* any other byte is one, if only the replacement character.
Length(piece) ==
    Len(piece) - Cardinality({k \in 1 .. Len(piece) - 1 :
                                Kind(piece[k]) = "lead" /\ Kind(piece[k + 1]) = "cont"})

\* Mutant of Data: the length of a piece is not looked at.
DataAnyLength ==
    /\ segment # <<>>
    /\ decoded' = Split(segment)
    /\ data' = segment
    /\ segment' = <<>>
    /\ UNCHANGED <<countKind, next, lost>>

Data ==
    /\ segment # <<>>
    /\ decoded' = {c \in Split(segment) : Length(c) = FrameChars}
    /\ data' = segment
    /\ segment' = <<>>
    /\ UNCHANGED <<countKind, next, lost>>

CutNext == Transmit \/ Lose \/ Data

CutSpec == CutInit /\ [][CutNext]_cutVars

-------------------------------------------------------------------------------
WholeFrame(f) == [k \in 1 .. FrameChars |-> (f - 1) * FrameBytes + k]

\* What is decoded is one frame, complete and in place, wherever the segments
\* end, unless the zero byte between two frames was lost (app.js:72-79).
DecodesFrames ==
    \A c \in decoded :
        \/ c = WholeFrame(Frame(c[1]))
        \/ \E p \in lost : IsZero(p) /\ c[1] < p /\ p < c[Len(c)]

\* "ignore first three characters": a frame that lies within one segment has
\* its 31 characters and is decoded.
UnsplitFrameDecoded ==
    \A f \in 1 .. MaxFrames :
        (\E c \in Split(data) : c = WholeFrame(f)) => WholeFrame(f) \in decoded

===============================================================================
