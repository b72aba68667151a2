------------------------------ MODULE UartParser ------------------------------
(***************************************************************************)
(* The receiving side of the sniffer ESP8266, wiloc/user/user_main.c: the  *)
(* interrupt handler uart_rx gives uart_parse one byte after the other.  A *)
(* frame is a control byte, a payload without zero bytes, and a zero byte. *)
(***************************************************************************)
EXTENDS Integers, Sequences

CONSTANTS
    Bytes,      \* bytes on the line
    DevIds,     \* values assign_dev_id may have chosen
    IdSize,     \* sizeof(dev_id_struct.bytes), 1 in the code
    MaxRun      \* bound: bytes between two zero bytes

DEVICE_IDENTIFIER == 2

\* The values of an unsigned char.
UnsignedChar == 0 .. 255

ASSUME BytesAssumption == {0, DEVICE_IDENTIFIER} \subseteq Bytes /\ Bytes \subseteq UnsignedChar
ASSUME DevIdsAssumption == DevIds \subseteq UnsignedChar
ASSUME SizeAssumption == IdSize \in Nat \ {0} /\ MaxRun \in Nat

VARIABLES
    state,          \* CTRL_BYTE, DATA or END
    uart_ctrl,      \* control byte of the frame being received
    current_pos,    \* payload bytes stored
    dev_id_struct,  \* their storage
    dev_id,         \* the identifier that uart_tx puts into its frames
    handled,        \* history: the last step made uart_rx_complete run
    run             \* history: bytes since the last zero byte

rxVars == <<state, uart_ctrl, current_pos, dev_id_struct, dev_id, handled, run>>

RxInit ==
    /\ state = "CTRL_BYTE" /\ uart_ctrl = 0 /\ current_pos = 0
    /\ dev_id_struct = [k \in 1 .. IdSize |-> 0]
    /\ dev_id \in DevIds
    /\ handled = FALSE /\ run = <<>>

\* One more byte on the line.
Arrives(c) ==
    /\ c = 0 \/ Len(run) < MaxRun
    /\ run' = IF c = 0 THEN <<>> ELSE Append(run, c)

\* Zero bytes between frames are ignored; any other byte starts a frame.
ParseCtrl(c) ==
    /\ state = "CTRL_BYTE"
    /\ Arrives(c)
    /\ IF c = 0
       THEN UNCHANGED <<state, uart_ctrl, current_pos>>
       ELSE uart_ctrl' = c /\ current_pos' = 0 /\ state' = "DATA"
    /\ handled' = FALSE
    /\ UNCHANGED <<dev_id_struct, dev_id>>

\* Mutant of ParseZero: a payload that is too short is handled as well.
ParseZeroAnyLength ==
    /\ state = "DATA"
    /\ Arrives(0)
    /\ handled' = (uart_ctrl = DEVICE_IDENTIFIER)
    /\ dev_id' = IF handled' /\ dev_id = 0 THEN 1 ELSE dev_id
    /\ state' = "CTRL_BYTE"
    /\ UNCHANGED <<uart_ctrl, current_pos, dev_id_struct>>

\* The zero byte ends a frame.  uart_rx_complete does not take the identifier
\* over, it only replaces an identifier 0 by 1.
ParseZero ==
    /\ state = "DATA"
    /\ Arrives(0)
    /\ handled' = (uart_ctrl = DEVICE_IDENTIFIER /\ current_pos = IdSize)
    /\ dev_id' = IF handled' /\ dev_id = 0 THEN 1 ELSE dev_id
    /\ state' = "CTRL_BYTE"
    /\ UNCHANGED <<uart_ctrl, current_pos, dev_id_struct>>

\* Mutant of ParseData: one byte too many fits.
ParseDataOneTooMany(c) ==
    /\ state = "DATA" /\ c # 0
    /\ Arrives(c)
    /\ IF uart_ctrl = DEVICE_IDENTIFIER /\ current_pos <= IdSize
       THEN /\ dev_id_struct' = [dev_id_struct EXCEPT ![current_pos + 1] = c]
            /\ current_pos' = current_pos + 1
            /\ UNCHANGED state
       ELSE state' = "END" /\ UNCHANGED <<dev_id_struct, current_pos>>
    /\ handled' = FALSE
    /\ UNCHANGED <<uart_ctrl, dev_id>>

\* A payload byte.  The payload of an unknown frame and what is too long for a
\* known one is skipped.
ParseData(c) ==
    /\ state = "DATA" /\ c # 0
    /\ Arrives(c)
    /\ IF uart_ctrl = DEVICE_IDENTIFIER /\ current_pos < IdSize
       THEN /\ dev_id_struct' = [dev_id_struct EXCEPT ![current_pos + 1] = c]
            /\ current_pos' = current_pos + 1
            /\ UNCHANGED state
       ELSE state' = "END" /\ UNCHANGED <<dev_id_struct, current_pos>>
    /\ handled' = FALSE
    /\ UNCHANGED <<uart_ctrl, dev_id>>

\* Mutant of ParseEnd: the next byte is taken for a control byte.
ParseEndEarly(c) ==
    /\ state = "END"
    /\ Arrives(c)
    /\ state' = "CTRL_BYTE"
    /\ handled' = FALSE
    /\ UNCHANGED <<uart_ctrl, current_pos, dev_id_struct, dev_id>>

\* At the zero byte the enumerator CTRL_BYTE, which is 0, goes to uart_ctrl and
\* not to state.
ParseEnd(c) ==
    /\ state = "END"
    /\ Arrives(c)
    /\ uart_ctrl' = IF c = 0 THEN 0 ELSE uart_ctrl
    /\ handled' = FALSE
    /\ UNCHANGED <<state, current_pos, dev_id_struct, dev_id>>

uart_parse(c) ==
    \/ ParseCtrl(c)
    \/ c = 0 /\ ParseZero
    \/ ParseData(c)
    \/ ParseEnd(c)

RxNext == \E c \in Bytes : uart_parse(c)

RxSpec == RxInit /\ [][RxNext]_rxVars

-------------------------------------------------------------------------------
TypeOK ==
    /\ state \in {"CTRL_BYTE", "DATA", "END"}
    /\ uart_ctrl \in Bytes
    /\ current_pos \in 0 .. IdSize
    /\ dev_id_struct \in [1 .. IdSize -> Bytes]
    /\ dev_id \in UnsignedChar
    /\ handled \in BOOLEAN
    /\ run \in Seq(Bytes \ {0})

IsIdFrame(r) == Len(r) = IdSize + 1 /\ r[1] = DEVICE_IDENTIFIER

\* uart_rx_complete runs at the zero byte of a complete device identifier frame
\* and at no other byte, and what is then stored is the payload of that frame,
\* whatever truncated, overlong or unknown frames the line brought
\* before (user_main.c:218-262) - until the parser has once entered END.
HandlesIdFrames ==
    [][(handled' \/ (state # "END" /\ run # <<>> /\ run' = <<>>))
        => (handled' <=> (IsIdFrame(run) /\ run' = <<>>
                            /\ \A k \in 1 .. IdSize : dev_id_struct[k] = run[k + 1]))]_rxVars

\* Between frames the parser has nothing in hand: it stores the payload of a
\* frame only while that frame lasts, so a control byte is the first byte after
\* a zero byte (user_main.c:220-227).
FrameStartsAfterZero ==
    /\ state = "CTRL_BYTE" => run = <<>>
    /\ state = "DATA" => run # <<>> /\ run[1] = uart_ctrl

\* A zero byte ends any frame: the next byte starts a new one.
ZeroResynchronizes == [][run' = <<>> => state' = "CTRL_BYTE"]_rxVars

===============================================================================
