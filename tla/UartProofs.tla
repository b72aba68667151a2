------------------------------- MODULE UartProofs -------------------------------
(***************************************************************************)
(* What is proved of the serial line: its driver, for any number of        *)
(* printing tasks, any depth of the FIFOs and any thresholds that leave    *)
(* the handler two characters; the parser of the sniffer behind it, for    *)
(* every alphabet, payload size and length of the line; and the frames     *)
(* the sniffer sends, for every packet, station and contents of the stack. *)
(***************************************************************************)
EXTENDS UartDriver, Sniffer, FiniteSetTheorems, SequenceTheorems, TLAPS

-------------------------------------------------------------------------------
(* The driver.                                                             *)

\* What makes NothingDropped inductive: the last context to pass the test saw
\* room for one, and no more than most were to write by then.
TxInv ==
    /\ tx \in Nat /\ tx <= TxDepth /\ lost \in BOOLEAN /\ most \in Nat
    /\ pc \in [Contexts -> {"looks", "writes"}]
    /\ Cardinality(Past) <= most
    /\ tx + Cardinality(Past) <= TxLimit - 1 + most
    /\ NothingDropped

LEMMA PastFinite ==
    /\ IsFiniteSet(Past) /\ Cardinality(Past) \in Nat
    /\ IsFiniteSet(Past') /\ Cardinality(Past') \in Nat
<1>1. IsFiniteSet(Contexts) BY TasksAssumption, FS_AddElement DEF Contexts
<1>2. Past \subseteq Contexts /\ Past' \subseteq Contexts BY DEF Past
<1> QED BY <1>1, <1>2, FS_Subset, FS_CardinalityType

LEMMA TxInit == DriverInit => TxInv
<1> SUFFICES ASSUME DriverInit PROVE TxInv OBVIOUS
<1>1. Past = {} BY DEF DriverInit, Past
<1>2. Cardinality(Past) = 0 BY <1>1, FS_EmptySet
<1>3. Cardinality(Past) <= most /\ tx + Cardinality(Past) <= TxLimit - 1 + most
  BY <1>2, FifoAssumption DEF DriverInit
<1>4. pc \in [Contexts -> {"looks", "writes"}] BY DEF DriverInit
<1>5. tx \in Nat /\ tx <= TxDepth /\ most \in Nat BY FifoAssumption DEF DriverInit
<1>6. lost \in BOOLEAN /\ NothingDropped BY Zenon DEF DriverInit, NothingDropped
<1> QED BY <1>3, <1>4, <1>5, <1>6 DEF TxInv

\* The test and the write, whichever context takes them.
LEMMA TxSteps ==
    ASSUME TxInv, NEW c \in Contexts, TxLook(c) \/ TxWrite(c)
    PROVE  TxInv'
<1> USE FifoAssumption
<1>1. CASE TxLook(c)
  <2>1. pc' \in [Contexts -> {"looks", "writes"}] BY <1>1 DEF TxInv, TxLook
  <2>2. most' \in Nat /\ most <= most' /\ Cardinality(Past') <= most'
    BY <1>1, PastFinite DEF TxInv, TxLook
  <2>3. tx' + Cardinality(Past') <= TxLimit - 1 + most'
    BY <1>1, <2>2, PastFinite DEF TxInv, TxLook, Room
  <2>4. NothingDropped' BY <1>1, <2>2 DEF TxInv, TxLook, NothingDropped
  <2> QED BY <1>1, <2>1, <2>2, <2>3, <2>4 DEF TxInv, TxLook
<1>2. CASE TxWrite(c)
  <2>1. pc' \in [Contexts -> {"looks", "writes"}] BY <1>2 DEF TxInv, TxWrite
  <2>2. c \in Past BY <1>2 DEF Past, TxWrite
  <2>3. Past' = Past \ {c} BY <1>2 DEF TxInv, TxWrite, Past
  <2>4. Cardinality(Past') = Cardinality(Past) - 1
    BY <2>2, <2>3, PastFinite, FS_RemoveElement
  <2>5. tx' \in Nat /\ tx' <= TxDepth /\ tx' <= tx + 1 /\ most' = most
    BY <1>2 DEF TxInv, TxWrite
  <2>6. /\ Cardinality(Past') <= most'
        /\ tx' + Cardinality(Past') <= TxLimit - 1 + most'
    BY <2>4, <2>5, PastFinite DEF TxInv
  <2>7. lost' \in BOOLEAN BY <1>2 DEF TxInv, TxWrite
  <2>8. NothingDropped'
    <3>1. CASE tx < TxDepth
      BY <1>2, <2>5, <3>1 DEF TxInv, TxWrite, NothingDropped
    <3>2. CASE ~(tx < TxDepth)
      <4>1. Cardinality(Past) >= 1
        BY <2>2, PastFinite, FS_EmptySet
      <4>2. ~(most <= TxDepth - TxLimit + 1)
        BY <3>2, <4>1, PastFinite DEF TxInv
      <4> QED BY <2>5, <4>2 DEF NothingDropped
    <3> QED BY <3>1, <3>2
  <2> QED BY <2>1, <2>5, <2>6, <2>7, <2>8 DEF TxInv
<1> QED BY <1>1, <1>2

LEMMA TxNext == TxInv /\ [DriverNext]_driverVars => TxInv'
<1> SUFFICES ASSUME TxInv, [DriverNext]_driverVars PROVE TxInv' OBVIOUS
<1>1. CASE \E t \in Tasks : TxLook(t) \/ TxWrite(t)
  BY <1>1, TxSteps DEF Contexts
<1>2. CASE TxLook("isr") \/ TxWrite("isr")
  BY <1>2, TxSteps DEF Contexts
<1>3. CASE TxChar
  <2>1. Past' = Past BY <1>3 DEF TxChar, Past
  <2> QED BY <1>3, <2>1, PastFinite, FifoAssumption
          DEF TxChar, TxInv, NothingDropped
<1>4. ASSUME UNCHANGED <<tx, pc, lost, most>> PROVE TxInv'
  BY <1>4 DEF TxInv, Past, NothingDropped
<1>5. CASE RxChar \/ (\E c \in Causes : Raise(c)) \/ Reconnect \/ UNCHANGED driverVars
  BY <1>4, <1>5 DEF RxChar, Raise, Reconnect, driverVars
<1>6. CASE Interrupt \/ ReadStatus \/ CallUartRx \/ SayEmpty
  BY <1>4, <1>6 DEF Interrupt, ReadStatus, CallUartRx, SayEmpty
<1>7. CASE ReadChar \/ CallReturns \/ ClearCause \/ DisableEmpty
  BY <1>4, <1>7 DEF ReadChar, CallReturns, ClearCause, DisableEmpty
<1> QED BY <1>1, <1>2, <1>3, <1>5, <1>6, <1>7 DEF DriverNext, Handler

\* For any number of tasks that print beside the handler: a character is written
\* to a full transmit FIFO only after more contexts were between the test and the
\* write of uart_tx_one_char at once than its margin has room for.
THEOREM UartNothingDropped == DriverSpec => []NothingDropped
<1>1. TxInv => NothingDropped BY DEF TxInv
<1> QED BY <1>1, TxInit, TxNext, PTL DEF DriverSpec

-------------------------------------------------------------------------------
\* Cause c has been served and is about to be cleared.
Done(c) == cause = c /\ (hpc = "clear" \/ (hpc = "call" /\ todo = 0))

RxTypes ==
    /\ rx \in Nat /\ todo \in Nat
    /\ raw \subseteq Causes /\ Causes \ {"EMPTY"} \subseteq ena
    /\ cause \in Causes /\ sock_connected \in BOOLEAN
    /\ hpc \in {"out", "status", "branch", "call", "clear", "disable"}

\* The control of the handler.
Control ==
    /\ hpc \in {"branch", "call", "clear"} => cause \in raw
    /\ hpc # "call" => todo = 0
    /\ todo > 0 => cause \in {"FULL", "TOUT"}
    /\ ~sock_connected => todo <= 1

\* Without a connection, and between two interrupts, a pending cause tells of
\* characters that still wait: a timeout of one, a full FIFO of FullThresh or,
\* when a timeout has been served since, one less.
CauseTells ==
    (hpc = "out" \/ ~sock_connected) =>
        /\ "TOUT" \in raw => rx >= 1 \/ Done("TOUT")
        /\ "FULL" \in raw => rx >= FullThresh - 1
                             \/ (Done("FULL") /\ rx >= FullThresh - 2)
        /\ "FULL" \in raw /\ cause = "TOUT" /\ hpc \in {"branch", "call"}
              => rx >= FullThresh \/ Done("TOUT")

RxInv == RxTypes /\ Control /\ CauseTells /\ ReadFindsChar

LEMMA ReadInit == DriverInit => RxInv
<1> SUFFICES ASSUME DriverInit PROVE RxInv OBVIOUS
<1>1. sock_connected \in BOOLEAN BY Zenon DEF DriverInit
<1>2. RxTypes BY <1>1 DEF DriverInit, RxTypes, Causes
<1>3. Control /\ CauseTells /\ ReadFindsChar
  BY DEF DriverInit, Control, CauseTells, ReadFindsChar
<1> QED BY <1>2, <1>3 DEF RxInv

LEMMA ReadNext == RxInv /\ [DriverNext]_driverVars => RxInv'
<1> SUFFICES ASSUME RxInv, [DriverNext]_driverVars PROVE RxInv' OBVIOUS
<1> USE ThreshAssumption
        DEF RxInv, RxTypes, Control, CauseTells, ReadFindsChar, Done, Causes
<1>1. CASE RxChar BY <1>1 DEF RxChar, handlerVars
<1>2. CASE \E c \in Causes : Raise(c)
  BY <1>2 DEF Raise, Level, handlerVars, lineVars
<1>3. CASE Reconnect BY <1>3 DEF Reconnect, handlerVars, lineVars
<1>4. CASE Interrupt BY <1>4 DEF Interrupt, lineVars
<1>5. CASE ReadStatus
  <2>1. CASE Status = {}
    BY <1>5, <2>1 DEF ReadStatus, Status, lineVars
  <2>2. CASE Status # {}
    <3>1. First \in raw BY <2>2 DEF First, Status
    <3>2. First = "TOUT" => "FULL" \notin raw BY DEF First, Status
    <3> QED BY <1>5, <2>2, <3>1, <3>2 DEF ReadStatus, lineVars
  <2> QED BY <2>1, <2>2
<1>6. CASE CallUartRx BY <1>6 DEF CallUartRx, lineVars
<1>7. CASE SayEmpty BY <1>7 DEF SayEmpty, lineVars
<1>8. CASE ReadChar BY <1>8 DEF ReadChar
<1>9. CASE CallReturns BY <1>9 DEF CallReturns, lineVars
<1>10. CASE ClearCause BY <1>10 DEF ClearCause, Cleared, lineVars
<1>11. CASE DisableEmpty BY <1>11 DEF DisableEmpty, lineVars
<1>12. ASSUME UNCHANGED <<rx, todo, raw, ena, cause, sock_connected, hpc>>
       PROVE  RxInv'
  BY <1>12
<1>13. CASE TxChar \/ UNCHANGED driverVars
  BY <1>12, <1>13 DEF TxChar, driverVars, lineVars, handlerVars
<1>14. CASE \E c \in Contexts : TxLook(c) \/ TxWrite(c)
  BY <1>12, <1>14 DEF TxLook, TxWrite, lineVars, handlerVars
<1>15. CASE Handler
  BY <1>4, <1>5, <1>6, <1>7, <1>8, <1>9, <1>10, <1>11, <1>14, <1>15
     DEF Handler, Contexts
<1> QED BY <1>1, <1>2, <1>3, <1>13, <1>14, <1>15 DEF DriverNext, Contexts

\* uart_rx never asks an empty receive FIFO for a character, for any
\* threshold of at least three.
THEOREM UartReadFindsChar == DriverSpec => []ReadFindsChar
<1>1. RxInv => ReadFindsChar BY DEF RxInv
<1> QED BY <1>1, ReadInit, ReadNext, PTL DEF DriverSpec

-------------------------------------------------------------------------------
(* The parser.                                                             *)

\* The proofs below keep the interval opaque and cite this where they compute.
LEMMA CharValues == \A x : x \in UnsignedChar <=> x \in Int /\ 0 <= x /\ x <= 255
  BY DEF UnsignedChar

\* In DATA the history holds the control byte and, for a device identifier
\* frame, as many bytes as are stored.
Stored ==
    state = "DATA" =>
        IF uart_ctrl = DEVICE_IDENTIFIER
        THEN /\ Len(run) = current_pos + 1
             /\ \A k \in 1 .. current_pos : dev_id_struct[k] = run[k + 1]
        ELSE Len(run) = 1

Inv == TypeOK /\ FrameStartsAfterZero /\ Stored

\* The initial state satisfies the invariant.
LEMMA RxInitInv == RxInit => Inv
  <1> SUFFICES ASSUME RxInit PROVE Inv
    OBVIOUS
  <1>1. run \in Seq(Bytes \ {0})
    BY DEF RxInit
  <1>2. dev_id_struct \in [1 .. IdSize -> Bytes]
    BY BytesAssumption DEF RxInit
  <1>3. current_pos \in 0 .. IdSize
    BY SizeAssumption DEF RxInit
  <1>4. TypeOK
    BY <1>1, <1>2, <1>3, BytesAssumption, DevIdsAssumption DEF RxInit, TypeOK
  <1> QED BY <1>4 DEF RxInit, Inv, FrameStartsAfterZero, Stored

\* A byte that starts a frame, or is ignored between two.
LEMMA ParseCtrlInv ==
    ASSUME Inv, NEW c \in Bytes, ParseCtrl(c)
    PROVE  Inv'
  <1>1. CASE c = 0
    BY <1>1 DEF Inv, TypeOK, FrameStartsAfterZero, Stored, ParseCtrl, Arrives
  <1>2. CASE c # 0
    <2>1. run' = <<c>> /\ uart_ctrl' = c /\ current_pos' = 0 /\ state' = "DATA"
      BY <1>2 DEF Inv, TypeOK, FrameStartsAfterZero, ParseCtrl, Arrives
    <2>2. TypeOK'
      <3>1. run' \in Seq(Bytes \ {0})
        BY <1>2 DEF Inv, TypeOK, ParseCtrl, Arrives
      <3>2. 0 \in 0 .. IdSize
        BY SizeAssumption
      <3> QED BY <2>1, <3>1, <3>2 DEF Inv, TypeOK, ParseCtrl
    <2>3. FrameStartsAfterZero' /\ Stored'
      BY <2>1 DEF FrameStartsAfterZero, Stored
    <2> QED BY <2>2, <2>3 DEF Inv
  <1> QED BY <1>1, <1>2

\* The zero byte behind a payload.
LEMMA ParseZeroInv ==
    ASSUME Inv, ParseZero
    PROVE  Inv'
<1>1. dev_id' \in UnsignedChar
  <2>1. 1 \in UnsignedChar
    BY CharValues
  <2>. QED
    BY <2>1 DEF Inv, TypeOK, ParseZero
<1>. QED
  BY <1>1, BytesAssumption, SizeAssumption
  DEF Inv, TypeOK, FrameStartsAfterZero, Stored, ParseZero, Arrives,
      DEVICE_IDENTIFIER

\* A payload byte is stored in its place, or ends the payload.
LEMMA ParseDataInv ==
    ASSUME Inv, NEW c \in Bytes, ParseData(c)
    PROVE  Inv'
  <1>0. /\ run' \in Seq(Bytes \ {0}) /\ run' = Append(run, c)
        /\ Len(run') = Len(run) + 1 /\ run' # <<>>
        /\ \A k \in 1 .. Len(run) : run'[k] = run[k]
        /\ run'[Len(run) + 1] = c
    BY DEF Inv, TypeOK, ParseData, Arrives
  <1>01. run \in Seq(Bytes \ {0}) /\ Len(run) >= 1 /\ run[1] = uart_ctrl
    BY DEF Inv, TypeOK, FrameStartsAfterZero, ParseData
  <1>1. CASE uart_ctrl = DEVICE_IDENTIFIER /\ current_pos < IdSize
    <2>1. current_pos + 1 \in 1 .. IdSize
      BY <1>1, SizeAssumption DEF Inv, TypeOK
    <2>2. /\ dev_id_struct' = [dev_id_struct EXCEPT ![current_pos + 1] = c]
          /\ current_pos' = current_pos + 1 /\ state' = "DATA"
          /\ uart_ctrl' = uart_ctrl
      BY <1>1 DEF ParseData
    <2>3. TypeOK'
      <3>1. dev_id_struct' \in [1 .. IdSize -> Bytes]
        BY <2>1, <2>2 DEF Inv, TypeOK
      <3>2. current_pos' \in 0 .. IdSize
        BY <1>1, <2>2, SizeAssumption DEF Inv, TypeOK
      <3> QED BY <1>0, <2>2, <3>1, <3>2 DEF Inv, TypeOK, ParseData
    <2>4. FrameStartsAfterZero'
      BY <1>0, <1>01, <2>2 DEF FrameStartsAfterZero
    <2>5. Stored'
      <3>1. Len(run) = current_pos + 1 /\ current_pos \in Nat
        BY <1>1, SizeAssumption DEF Inv, TypeOK, Stored, ParseData
      <3>2. ASSUME NEW k \in 1 .. current_pos PROVE dev_id_struct'[k] = run'[k + 1]
        <4>1. dev_id_struct[k] = run[k + 1]
          BY <1>1 DEF Inv, Stored, ParseData
        <4>2. dev_id_struct'[k] = dev_id_struct[k]
          BY <2>1, <2>2, <3>1 DEF Inv, TypeOK
        <4>3. k + 1 \in 1 .. Len(run)
          BY <3>1
        <4> QED BY <1>0, <4>1, <4>2, <4>3
      <3>3. dev_id_struct'[current_pos + 1] = run'[current_pos + 2]
        BY <1>0, <2>1, <2>2, <3>1 DEF Inv, TypeOK
      <3>4. \A k \in 1 .. current_pos + 1 :
                k \in 1 .. current_pos \/ (k = current_pos + 1 /\ k + 1 = current_pos + 2)
        BY <3>1
      <3>5. \A k \in 1 .. current_pos + 1 : dev_id_struct'[k] = run'[k + 1]
        BY <3>2, <3>3, <3>4
      <3>6. Len(run') = current_pos' + 1
        BY <1>0, <2>2, <3>1
      <3> QED BY <1>1, <2>2, <3>5, <3>6 DEF Stored
    <2> QED BY <2>3, <2>4, <2>5 DEF Inv
  <1>2. CASE ~(uart_ctrl = DEVICE_IDENTIFIER /\ current_pos < IdSize)
    BY <1>0, <1>2 DEF Inv, TypeOK, FrameStartsAfterZero, Stored, ParseData
  <1> QED BY <1>1, <1>2

\* A byte that is skipped.
LEMMA ParseEndInv ==
    ASSUME Inv, NEW c \in Bytes, ParseEnd(c)
    PROVE  Inv'
  <1>1. run' \in Seq(Bytes \ {0}) /\ uart_ctrl' \in Bytes
    BY BytesAssumption DEF Inv, TypeOK, ParseEnd, Arrives
  <1> QED BY <1>1 DEF Inv, TypeOK, FrameStartsAfterZero, Stored, ParseEnd

\* The invariant is inductive.
LEMMA RxNextInv == Inv /\ [RxNext]_rxVars => Inv'
  <1> SUFFICES ASSUME Inv, [RxNext]_rxVars PROVE Inv'
    OBVIOUS
  <1>1. ASSUME NEW c \in Bytes, uart_parse(c) PROVE Inv'
    BY <1>1, ParseCtrlInv, ParseZeroInv, ParseDataInv, ParseEndInv DEF uart_parse
  <1>2. CASE UNCHANGED rxVars
    BY <1>2 DEF rxVars, Inv, TypeOK, FrameStartsAfterZero, Stored
  <1> QED BY <1>1, <1>2 DEF RxNext

\* Type correctness: no payload, however long, is stored beyond dev_id_struct.
THEOREM ParserTypes == RxSpec => []TypeOK
  <1>1. Inv => TypeOK
    BY DEF Inv
  <1> QED BY RxInitInv, RxNextInv, <1>1, PTL DEF RxSpec

\* A control byte is the first byte after a zero byte.
THEOREM ParserStartsAfterZero == RxSpec => []FrameStartsAfterZero
  <1>1. Inv => FrameStartsAfterZero
    BY DEF Inv
  <1> QED BY RxInitInv, RxNextInv, <1>1, PTL DEF RxSpec

\* What HandlesIdFrames says of a step.
HandledIffFrame ==
    (handled' \/ (state # "END" /\ run # <<>> /\ run' = <<>>))
        => (handled' <=> (IsIdFrame(run) /\ run' = <<>>
                            /\ \A k \in 1 .. IdSize : dev_id_struct[k] = run[k + 1]))

\* A step from a state of the invariant handles exactly the complete frames.
LEMMA StepHandles == Inv /\ RxNext => (UNCHANGED rxVars \/ HandledIffFrame)
  <1> SUFFICES ASSUME Inv, NEW c \in Bytes, uart_parse(c)
               PROVE  HandledIffFrame
    BY DEF RxNext
  <1>1. CASE ParseCtrl(c)
    BY <1>1 DEF ParseCtrl, Inv, FrameStartsAfterZero, HandledIffFrame
  <1>2. CASE ParseZero
    <2>1. run' = <<>> /\ run # <<>> /\ run[1] = uart_ctrl /\ run \in Seq(Bytes \ {0})
      BY <1>2 DEF ParseZero, Arrives, Inv, TypeOK, FrameStartsAfterZero
    <2>2. handled' <=> (uart_ctrl = DEVICE_IDENTIFIER /\ current_pos = IdSize)
      BY <1>2 DEF ParseZero
    <2>3. CASE uart_ctrl # DEVICE_IDENTIFIER
      BY <2>1, <2>2, <2>3 DEF IsIdFrame, HandledIffFrame
    <2>4. CASE uart_ctrl = DEVICE_IDENTIFIER
      <3>1. /\ Len(run) = current_pos + 1
            /\ \A k \in 1 .. current_pos : dev_id_struct[k] = run[k + 1]
        BY <1>2, <2>4 DEF ParseZero, Inv, Stored
      <3>2. (Len(run) = IdSize + 1) <=> (current_pos = IdSize)
        BY <3>1, SizeAssumption DEF Inv, TypeOK
      <3> QED BY <2>1, <2>2, <2>4, <3>1, <3>2 DEF IsIdFrame, HandledIffFrame
    <2> QED BY <2>3, <2>4
  <1>3. CASE ParseData(c)
    <2>1. run' # <<>>
      BY <1>3 DEF ParseData, Arrives, Inv, TypeOK
    <2> QED BY <1>3, <2>1 DEF ParseData, HandledIffFrame
  <1>4. CASE ParseEnd(c)
    BY <1>4 DEF ParseEnd, HandledIffFrame
  <1> QED BY <1>1, <1>2, <1>3, <1>4 DEF uart_parse

\* Until the parser has entered END, uart_rx_complete runs for the complete
\* device identifier frames on the line, for each of them and with its payload,
\* and for nothing else.
THEOREM ParserHandlesIdFrames == RxSpec => HandlesIdFrames
  <1>1. Inv /\ [RxNext]_rxVars => [HandledIffFrame]_rxVars
    BY StepHandles
  <1> QED BY RxInitInv, RxNextInv, <1>1, PTL
          DEF RxSpec, HandlesIdFrames, HandledIffFrame

-------------------------------------------------------------------------------
(* Conversion to hexadecimal digits, itstr.                               *)

\* The powers of 16 that occur.
Weight(i) ==
    CASE i = 0 -> 1 [] i = 1 -> 16 [] i = 2 -> 256 [] i = 3 -> 4096
      [] i = 4 -> 65536 [] i = 5 -> 1048576 [] i = 6 -> 16777216
      [] i = 7 -> 268435456 [] i = 8 -> 4294967296

\* They are what the loop of powi computes.
LEMMA Powi == ASSUME NEW e \in 0 .. 7 PROVE powi(16, e) = Weight(e)
<1>. DEFINE IsLoop(r) == r = [i \in 0 .. e |-> IF i = 0 THEN 1 ELSE r[i - 1] * 16]
            r0 == CHOOSE r : IsLoop(r)
            w  == [i \in 0 .. e |-> Weight(i)]
<1>1. powi(16, e) = r0[e]
  BY DEF powi
<1>2. \A i \in 1 .. 7 : Weight(i) = Weight(i - 1) * 16
  <2>. SUFFICES ASSUME NEW i \in 1 .. 7 PROVE Weight(i) = Weight(i - 1) * 16
    OBVIOUS
  <2>1. i = 1 \/ i = 2 \/ i = 3 \/ i = 4 \/ i = 5 \/ i = 6 \/ i = 7
    OBVIOUS
  <2>. QED
    BY <2>1 DEF Weight
<1>3. Weight(0) = 1
  BY DEF Weight
<1>4. IsLoop(w)
  <2>1. \A i \in 0 .. e : w[i] = IF i = 0 THEN 1 ELSE w[i - 1] * 16
    BY <1>2, <1>3, SMTT(30)
  <2>. QED
    BY <2>1
<1>5. IsLoop(r0)
  <2>. HIDE DEF IsLoop, w
  <2>. QED
    BY <1>4
<1>. HIDE DEF r0
<1>6. /\ r0[0] = Weight(0)
      /\ \A i \in 1 .. e : r0[i] = r0[i - 1] * 16
  BY <1>3, <1>5
<1>. HIDE DEF IsLoop
<1>7. \A i \in 1 .. e : r0[i - 1] = Weight(i - 1) => r0[i] = Weight(i)
  BY <1>2, <1>6
<1>8. /\ e >= 1 => r0[1] = Weight(1)
      /\ e >= 2 => r0[2] = Weight(2)
      /\ e >= 3 => r0[3] = Weight(3)
      /\ e >= 4 => r0[4] = Weight(4)
      /\ e >= 5 => r0[5] = Weight(5)
      /\ e >= 6 => r0[6] = Weight(6)
      /\ e >= 7 => r0[7] = Weight(7)
  <2>1. e >= 1 => r0[1] = Weight(1)
    BY <1>6, <1>7
  <2>2. e >= 2 => r0[2] = Weight(2)
    BY <1>7, <2>1
  <2>3. e >= 3 => r0[3] = Weight(3)
    BY <1>7, <2>2
  <2>4. e >= 4 => r0[4] = Weight(4)
    BY <1>7, <2>3
  <2>5. e >= 5 => r0[5] = Weight(5)
    BY <1>7, <2>4
  <2>6. e >= 6 => r0[6] = Weight(6)
    BY <1>7, <2>5
  <2>7. e >= 7 => r0[7] = Weight(7)
    BY <1>7, <2>6
  <2>. QED
    BY <2>1, <2>2, <2>3, <2>4, <2>5, <2>6, <2>7
<1>9. e = 0 \/ e = 1 \/ e = 2 \/ e = 3 \/ e = 4 \/ e = 5 \/ e = 6 \/ e = 7
  OBVIOUS
<1>. QED
  BY <1>1, <1>6, <1>8, <1>9

\* An int is less than 16^8.
LEMMA IntBounds ==
    ASSUME NEW n \in Ints
    PROVE  n \in Int /\ 0 - Weight(8) <= n /\ n < Weight(8)
<1>1. IntMin \in Int /\ IntMax \in Int
  BY DEF IntMin, IntMax
<1>2. n \in Int /\ IntMin <= n /\ n <= IntMax
  BY <1>1 DEF Ints
<1>. QED
  BY <1>2, SMT DEF IntMin, IntMax, Weight

\* Dividing by 16 again and again is dividing by a power of 16.
LEMMA DividedAgain ==
    ASSUME NEW n \in Int, NEW i \in 1 .. 8
    PROVE  n \div Weight(i) = (n \div Weight(i - 1)) \div 16
<1>1. i = 1 \/ i = 2 \/ i = 3 \/ i = 4 \/ i = 5 \/ i = 6 \/ i = 7 \/ i = 8
  OBVIOUS
<1>2. CASE i = 1
  BY <1>2 DEF Weight
<1>3. CASE i = 2
  <2>1. Weight(i) = 256 /\ Weight(i - 1) = 16
    BY <1>3 DEF Weight
  <2>2. n \div 256 = (n \div 16) \div 16
    OBVIOUS
  <2>. QED
    BY <2>1, <2>2
<1>4. CASE i = 3
  <2>1. Weight(i) = 4096 /\ Weight(i - 1) = 256
    BY <1>4 DEF Weight
  <2>2. n \div 4096 = (n \div 256) \div 16
    OBVIOUS
  <2>. QED
    BY <2>1, <2>2
<1>5. CASE i = 4
  <2>1. Weight(i) = 65536 /\ Weight(i - 1) = 4096
    BY <1>5 DEF Weight
  <2>2. n \div 65536 = (n \div 4096) \div 16
    OBVIOUS
  <2>. QED
    BY <2>1, <2>2
<1>6. CASE i = 5
  <2>1. Weight(i) = 1048576 /\ Weight(i - 1) = 65536
    BY <1>6 DEF Weight
  <2>2. n \div 1048576 = (n \div 65536) \div 16
    OBVIOUS
  <2>. QED
    BY <2>1, <2>2
<1>7. CASE i = 6
  <2>1. Weight(i) = 16777216 /\ Weight(i - 1) = 1048576
    BY <1>7 DEF Weight
  <2>2. n \div 16777216 = (n \div 1048576) \div 16
    OBVIOUS
  <2>. QED
    BY <2>1, <2>2
<1>8. CASE i = 7
  <2>1. Weight(i) = 268435456 /\ Weight(i - 1) = 16777216
    BY <1>8 DEF Weight
  <2>2. n \div 268435456 = (n \div 16777216) \div 16
    OBVIOUS
  <2>. QED
    BY <2>1, <2>2
<1>9. CASE i = 8
  <2>1. Weight(i) = 4294967296 /\ Weight(i - 1) = 268435456
    BY <1>9 DEF Weight
  <2>2. n \div 4294967296 = (n \div 268435456) \div 16
    OBVIOUS
  <2>. QED
    BY <2>1, <2>2
<1>. QED
  BY <1>1, <1>2, <1>3, <1>4, <1>5, <1>6, <1>7, <1>8, <1>9

\* The weights are numbers, and grow.
LEMMA Weights ==
    /\ \A i \in 0 .. 8 : Weight(i) \in Nat /\ Weight(i) >= 1
    /\ \A i, j \in 0 .. 8 : i <= j => Weight(i) <= Weight(j)
<1>1. Weight(0) = 1 /\ Weight(1) = 16 /\ Weight(2) = 256 /\ Weight(3) = 4096
      /\ Weight(4) = 65536 /\ Weight(5) = 1048576 /\ Weight(6) = 16777216
      /\ Weight(7) = 268435456 /\ Weight(8) = 4294967296
  BY DEF Weight
<1>2. \A i \in 0 .. 8 : i = 0 \/ i = 1 \/ i = 2 \/ i = 3 \/ i = 4 \/ i = 5 \/ i = 6 \/ i = 7
                        \/ i = 8
  OBVIOUS
<1>3. \A i \in 0 .. 8 : Weight(i) \in Nat /\ Weight(i) >= 1
  BY <1>1, <1>2
<1>4. ASSUME NEW i \in 0 .. 8, NEW j \in 0 .. 8, i <= j PROVE Weight(i) <= Weight(j)
  <2>1. CASE i = 0 \/ i = 1 \/ i = 2
    BY <1>1, <1>2, <1>4, <2>1
  <2>2. CASE i = 3 \/ i = 4 \/ i = 5
    BY <1>1, <1>2, <1>4, <2>2
  <2>3. CASE i = 6 \/ i = 7 \/ i = 8
    BY <1>1, <1>2, <1>4, <2>3
  <2>. QED
    BY <1>2, <2>1, <2>2, <2>3
<1>. QED
  BY <1>3, <1>4

\* A quotient is zero as soon as the divisor is greater.
LEMMA SmallQuotient ==
    ASSUME NEW n \in Int, NEW i \in 0 .. 8
    PROVE  n \div Weight(i) \in Int /\ (n \div Weight(i) > 0 <=> n >= Weight(i))
<1>. DEFINE w == Weight(i)
<1>1. w \in Nat /\ w >= 1
  BY Weights
<1>. HIDE DEF w
<1>2. n \div w \in Int /\ w * (n \div w) <= n /\ n < w * (n \div w) + w
  BY <1>1
<1>. DEFINE q == n \div w
<1>3. q \in Int /\ w * q <= n /\ n < w * q + w
  BY <1>2
<1>. HIDE DEF q
<1>4. CASE q > 0
  <2>1. w * q >= w
    BY <1>1, <1>3, <1>4
  <2>2. w * q \in Int
    BY <1>1, <1>3
  <2>3. n >= w
    BY <1>1, <1>3, <2>1, <2>2
  <2>. QED
    BY <1>3, <1>4, <2>3 DEF q, w
<1>5. CASE ~(q > 0)
  <2>1. w * q <= 0 /\ w * q \in Int
    BY <1>1, <1>3, <1>5
  <2>2. n < w
    BY <1>1, <1>3, <2>1
  <2>3. ~(n >= w)
    BY <1>1, <2>2
  <2>. QED
    BY <1>3, <1>5, <2>3 DEF q, w
<1>. QED
  BY <1>4, <1>5

\* The rounds of the loop of logi, for base 16.
LEMMA DividedBy16 ==
    ASSUME NEW n \in Ints
    PROVE  \A i \in 0 .. 8 : Divided(n, 16)[i] = n \div Weight(i)
<1>. DEFINE IsLoop(v) == v = [i \in 0 .. Bits |-> IF i = 0 THEN n ELSE v[i - 1] \div 16]
            v0 == CHOOSE v : IsLoop(v)
            rest == IF n >= 0 THEN 0 ELSE -1
            w == [i \in 0 .. Bits |-> IF i <= 8 THEN n \div Weight(i) ELSE rest]
<1>1. Divided(n, 16) = v0
  BY DEF Divided
<1>2. n \in Int /\ 0 - Weight(8) <= n /\ n < Weight(8)
  BY IntBounds
<1>3. n \div Weight(0) = n
  <2>1. n \div 1 = n
    BY <1>2
  <2>. QED
    BY <2>1 DEF Weight
<1>4. n \div Weight(8) = rest /\ rest \div 16 = rest
  <2>1. n \div 4294967296 = rest
    BY <1>2, SMT DEF Weight
  <2>2. rest = 0 \/ rest = -1
    OBVIOUS
  <2>3. rest \div 16 = rest
    BY <2>2
  <2>. QED
    BY <2>1, <2>3 DEF Weight
<1>5. \A i \in 1 .. 8 : n \div Weight(i) = (n \div Weight(i - 1)) \div 16
  BY <1>2, DividedAgain
<1>. HIDE DEF rest
<1>6. IsLoop(w)
  <2>1. ASSUME NEW i \in 0 .. Bits PROVE w[i] = IF i = 0 THEN n ELSE w[i - 1] \div 16
    <3>1. CASE i = 0
      BY <1>3, <3>1 DEF Bits
    <3>2. CASE i \in 1 .. 8
      BY <1>5, <3>2 DEF Bits
    <3>3. CASE i \in 9 .. Bits
      <4>1. w[i - 1] = rest
        BY <1>4, <3>3 DEF Bits
      <4>2. w[i] = rest
        BY <3>3 DEF Bits
      <4>3. i # 0
        BY <3>3
      <4>. HIDE DEF w
      <4>. QED
        BY <1>4, <4>1, <4>2, <4>3
    <3>. QED
      BY <3>1, <3>2, <3>3 DEF Bits
  <2>. QED
    BY <2>1
<1>7. IsLoop(v0)
  <2>. HIDE DEF IsLoop, w
  <2>. QED
    BY <1>6
<1>. HIDE DEF v0
<1>8. v0[0] = n /\ \A i \in 1 .. 8 : v0[i] = v0[i - 1] \div 16
  BY <1>7 DEF Bits
<1>. HIDE DEF IsLoop, w
<1>9. v0[0] = n \div Weight(0)
  BY <1>3, <1>8
<1>10. \A i \in 1 .. 8 : v0[i - 1] = n \div Weight(i - 1) => v0[i] = n \div Weight(i)
  BY <1>5, <1>8
<1>11. v0[1] = n \div Weight(1)
  BY <1>9, <1>10
<1>12. v0[2] = n \div Weight(2)
  BY <1>10, <1>11
<1>13. v0[3] = n \div Weight(3)
  BY <1>10, <1>12
<1>14. v0[4] = n \div Weight(4)
  BY <1>10, <1>13
<1>15. v0[5] = n \div Weight(5)
  BY <1>10, <1>14
<1>16. v0[6] = n \div Weight(6)
  BY <1>10, <1>15
<1>17. v0[7] = n \div Weight(7)
  BY <1>10, <1>16
<1>18. v0[8] = n \div Weight(8)
  BY <1>10, <1>17
<1>19. \A i \in 0 .. 8 : i = 0 \/ i = 1 \/ i = 2 \/ i = 3 \/ i = 4 \/ i = 5 \/ i = 6 \/ i = 7
                         \/ i = 8
  OBVIOUS
<1>. QED
  BY <1>1, <1>9, <1>11, <1>12, <1>13, <1>14, <1>15, <1>16, <1>17, <1>18, <1>19

\* logi counts the hexadecimal digits of a positive int.
LEMMA Log16 ==
    ASSUME NEW n \in Ints
    PROVE  /\ logi(n, 16) \in 0 .. 8
           /\ n <= 0 => logi(n, 16) = 0
           /\ n > 0 => logi(n, 16) >= 1 /\ n < Weight(logi(n, 16))
           /\ \A j \in 0 .. logi(n, 16) - 1 : n >= Weight(j)
<1>. DEFINE Ends(i) == /\ Divided(n, 16)[i] <= 0
                       /\ \A j \in 0 .. i - 1 : Divided(n, 16)[j] > 0
            s == CHOOSE i \in 0 .. Bits : Ends(i)
<1>1. logi(n, 16) = s
  BY DEF logi
<1>2. n \in Int /\ n < Weight(8)
  BY IntBounds
<1>3. \A i \in 0 .. 8 : /\ Divided(n, 16)[i] \in Int
                        /\ Divided(n, 16)[i] > 0 <=> n >= Weight(i)
  <2>. TAKE i \in 0 .. 8
  <2>1. Divided(n, 16)[i] = n \div Weight(i)
    BY DividedBy16
  <2>2. n \div Weight(i) \in Int /\ (n \div Weight(i) > 0 <=> n >= Weight(i))
    BY <1>2, SmallQuotient
  <2>. QED
    BY <2>1, <2>2
<1>4. \A i \in 0 .. 8 : i \in 0 .. Bits /\ \A j \in 0 .. i - 1 : j \in 0 .. 8
  BY DEF Bits
<1>5. \A i \in 0 .. 8 : Ends(i) <=> (~(n >= Weight(i)) /\ \A j \in 0 .. i - 1 : n >= Weight(j))
  BY <1>3, <1>4
<1>6. /\ Weight(0) = 1 /\ Weight(1) = 16 /\ Weight(2) = 256 /\ Weight(3) = 4096
      /\ Weight(4) = 65536 /\ Weight(5) = 1048576 /\ Weight(6) = 16777216
      /\ Weight(7) = 268435456 /\ Weight(8) = 4294967296
  BY DEF Weight
<1>7. \E i \in 0 .. 8 : Ends(i)
  <2>. HIDE DEF Ends
  <2>1. CASE n < 1
    <3>1. Ends(0)
      BY <1>2, <1>5, <1>6, <2>1
    <3>. QED
      BY <3>1
  <2>2. ASSUME NEW i \in 1 .. 8, Weight(i - 1) <= n, n < Weight(i)
        PROVE  \E k \in 0 .. 8 : Ends(k)
    <3>1. i \in 0 .. 8 /\ i - 1 \in 0 .. 8
      OBVIOUS
    <3>2. \A j \in 0 .. i - 1 : j \in 0 .. 8 /\ j <= i - 1
      OBVIOUS
    <3>3. \A j \in 0 .. i - 1 : Weight(j) <= Weight(i - 1) /\ Weight(j) \in Int
      BY <3>1, <3>2, Weights
    <3>4. Weight(i) \in Int /\ Weight(i - 1) \in Int
      BY <3>1, Weights
    <3>5. \A j \in 0 .. i - 1 : n >= Weight(j)
      BY <1>2, <2>2, <3>3, <3>4
    <3>6. ~(n >= Weight(i))
      BY <1>2, <2>2, <3>4
    <3>7. Ends(i)
      BY <1>5, <3>1, <3>5, <3>6
    <3>. QED
      BY <3>1, <3>7
  <2>3. \/ n < 1
        \/ (Weight(1 - 1) <= n /\ n < Weight(1))
        \/ (Weight(2 - 1) <= n /\ n < Weight(2))
        \/ (Weight(3 - 1) <= n /\ n < Weight(3))
        \/ (Weight(4 - 1) <= n /\ n < Weight(4))
        \/ (Weight(5 - 1) <= n /\ n < Weight(5))
        \/ (Weight(6 - 1) <= n /\ n < Weight(6))
        \/ (Weight(7 - 1) <= n /\ n < Weight(7))
        \/ (Weight(8 - 1) <= n /\ n < Weight(8))
    BY <1>2, <1>6
  <2>4. \E i \in 1 .. 8 : n < 1 \/ (Weight(i - 1) <= n /\ n < Weight(i))
    BY <2>3
  <2>. QED
    BY <2>1, <2>2, <2>4
<1>8. s \in 0 .. Bits /\ Ends(s)
  <2>. HIDE DEF Ends
  <2>. QED
    BY <1>4, <1>7
<1>. HIDE DEF s
<1>9. s \in 0 .. 8
  <2>. SUFFICES ASSUME s > 8 PROVE FALSE
    BY <1>8 DEF Bits
  <2>1. 8 \in 0 .. s - 1
    BY <1>8 DEF Bits
  <2>2. Divided(n, 16)[8] > 0
    BY <1>8, <2>1
  <2>3. n >= Weight(8) /\ Weight(8) \in Int
    BY <1>3, <2>2, Weights
  <2>. QED
    BY <1>2, <2>3
<1>10. ~(n >= Weight(s)) /\ \A j \in 0 .. s - 1 : n >= Weight(j)
  BY <1>5, <1>8, <1>9
<1>11. n <= 0 => s = 0
  <2>. SUFFICES ASSUME n <= 0, s # 0 PROVE FALSE
    OBVIOUS
  <2>1. 0 \in 0 .. s - 1
    BY <1>9
  <2>2. n >= 1
    BY <1>6, <1>10, <2>1
  <2>. QED
    BY <1>2, <2>2
<1>12. n > 0 => s >= 1 /\ n < Weight(s)
  <2>. SUFFICES ASSUME n > 0 PROVE s >= 1 /\ n < Weight(s)
    OBVIOUS
  <2>1. Weight(s) \in Int
    BY <1>9, Weights
  <2>2. n < Weight(s)
    BY <1>2, <1>10, <2>1
  <2>3. s # 0
    BY <1>2, <1>6, <2>2
  <2>. QED
    BY <1>9, <2>2, <2>3
<1>. QED
  BY <1>1, <1>9, <1>10, <1>11, <1>12

\* Removing the multiples of one weight from what is left by the next one.
LEMMA RemainderAgain ==
    ASSUME NEW n \in Int, NEW j \in 1 .. 7
    PROVE  (n % Weight(j + 1)) - ((n % Weight(j + 1)) \div Weight(j)) * Weight(j) = n % Weight(j)
<1>1. j = 1 \/ j = 2 \/ j = 3 \/ j = 4 \/ j = 5 \/ j = 6 \/ j = 7
  OBVIOUS
<1>2. CASE j = 1
  <2>1. Weight(j) = 16 /\ Weight(j + 1) = 256
    BY <1>2, SMT DEF Weight
  <2>2. (n % 256) - ((n % 256) \div 16) * 16 = n % 16
    BY SMT
  <2>. QED
    BY <2>1, <2>2, SMT
<1>3. CASE j = 2
  <2>1. Weight(j) = 256 /\ Weight(j + 1) = 4096
    BY <1>3, SMT DEF Weight
  <2>2. (n % 4096) - ((n % 4096) \div 256) * 256 = n % 256
    BY SMT
  <2>. QED
    BY <2>1, <2>2, SMT
<1>4. CASE j = 3
  <2>1. Weight(j) = 4096 /\ Weight(j + 1) = 65536
    BY <1>4, SMT DEF Weight
  <2>2. (n % 65536) - ((n % 65536) \div 4096) * 4096 = n % 4096
    BY SMT
  <2>. QED
    BY <2>1, <2>2, SMT
<1>5. CASE j = 4
  <2>1. Weight(j) = 65536 /\ Weight(j + 1) = 1048576
    BY <1>5, SMT DEF Weight
  <2>2. (n % 1048576) - ((n % 1048576) \div 65536) * 65536 = n % 65536
    BY SMT
  <2>. QED
    BY <2>1, <2>2, SMT
<1>6. CASE j = 5
  <2>1. Weight(j) = 1048576 /\ Weight(j + 1) = 16777216
    BY <1>6, SMT DEF Weight
  <2>2. (n % 16777216) - ((n % 16777216) \div 1048576) * 1048576 = n % 1048576
    BY SMT
  <2>. QED
    BY <2>1, <2>2, SMT
<1>7. CASE j = 6
  <2>1. Weight(j) = 16777216 /\ Weight(j + 1) = 268435456
    BY <1>7, SMT DEF Weight
  <2>2. (n % 268435456) - ((n % 268435456) \div 16777216) * 16777216 = n % 16777216
    BY SMT
  <2>. QED
    BY <2>1, <2>2, SMT
<1>8. CASE j = 7
  <2>1. Weight(j) = 268435456 /\ Weight(j + 1) = 4294967296
    BY <1>8, SMT DEF Weight
  <2>2. (n % 4294967296) - ((n % 4294967296) \div 268435456) * 268435456 = n % 268435456
    BY SMT
  <2>. QED
    BY <2>1, <2>2, SMT
<1>. QED
  BY <1>1, <1>2, <1>3, <1>4, <1>5, <1>6, <1>7, <1>8

\* What is left for the digit of weight 16^i has lost all higher digits.
LEMMA Remainders ==
    ASSUME NEW n \in Ints, n > 0
    PROVE  \A i \in 0 .. logi(n, 16) - 1 :
              Remainder(n, 16, logi(n, 16))[i] = n % Weight(i + 1)
<1>. DEFINE s == logi(n, 16)
            IsLoop(r) == r = [i \in 0 .. s - 1 |->
                IF i = s - 1 THEN n
                ELSE r[i + 1] - (r[i + 1] \div powi(16, i + 1)) * powi(16, i + 1)]
            r0 == CHOOSE r : IsLoop(r)
            w  == [i \in 0 .. s - 1 |-> n % Weight(i + 1)]
<1>1. Remainder(n, 16, s) = r0
  BY DEF Remainder
<1>2. n \in Int /\ s \in 1 .. 8 /\ n < Weight(s)
  BY Log16, IntBounds
<1>. HIDE DEF s
<1>3. \A i \in 0 .. 7 : powi(16, i) = Weight(i)
  BY Powi
<1>4. \A i \in 0 .. s - 1 : i \in 0 .. 7 /\ i + 1 \in 1 .. 8 /\ (i # s - 1 => i + 1 \in 0 .. s - 1 /\ i + 1 \in 1 .. 7)
  BY <1>2
<1>5. n % Weight((s - 1) + 1) = n
  <2>1. (s - 1) + 1 = s
    BY <1>2
  <2>2. Weight(s) \in Nat /\ Weight(s) >= 1
    BY <1>2, Weights
  <2>3. n % Weight(s) = n
    BY <1>2, <2>2
  <2>. QED
    BY <2>1, <2>3
<1>6. ASSUME NEW j \in 1 .. 7
      PROVE  (n % Weight(j + 1)) - ((n % Weight(j + 1)) \div Weight(j)) * Weight(j) = n % Weight(j)
  BY <1>2, RemainderAgain
<1>7. IsLoop(w)
  <2>1. ASSUME NEW i \in 0 .. s - 1
        PROVE  w[i] = IF i = s - 1 THEN n
                      ELSE w[i + 1] - (w[i + 1] \div powi(16, i + 1)) * powi(16, i + 1)
    <3>1. CASE i = s - 1
      BY <1>5, <3>1
    <3>2. CASE i # s - 1
      <4>1. /\ i + 1 \in 0 .. s - 1 /\ i + 1 \in 1 .. 7 /\ i + 1 \in 0 .. 7
            /\ w[i + 1] = n % Weight((i + 1) + 1) /\ w[i] = n % Weight(i + 1)
        BY <1>4, <3>2
      <4>2. powi(16, i + 1) = Weight(i + 1)
        BY <1>3, <4>1
      <4>. HIDE DEF w
      <4>. QED
        BY <1>6, <3>2, <4>1, <4>2
    <3>. QED
      BY <3>1, <3>2
  <2>. QED
    BY <2>1
<1>8. IsLoop(r0)
  <2>. HIDE DEF IsLoop, w
  <2>. QED
    BY <1>7
<1>. HIDE DEF r0, w
<1>9. /\ r0[s - 1] = n
      /\ \A i \in 0 .. s - 1 : i # s - 1 =>
            r0[i] = r0[i + 1] - (r0[i + 1] \div powi(16, i + 1)) * powi(16, i + 1)
  BY <1>2, <1>8
<1>. HIDE DEF IsLoop
<1>10. r0[s - 1] = n % Weight((s - 1) + 1)
  BY <1>5, <1>9
<1>11. ASSUME NEW i \in 0 .. s - 1, i # s - 1, r0[i + 1] = n % Weight((i + 1) + 1)
       PROVE  r0[i] = n % Weight(i + 1)
  <2>1. i + 1 \in 1 .. 7 /\ i + 1 \in 0 .. 7
    BY <1>4, <1>11
  <2>2. powi(16, i + 1) = Weight(i + 1)
    BY <1>3, <2>1
  <2>. QED
    BY <1>6, <1>9, <1>11, <2>1, <2>2
<1>. DEFINE Right(i) == i < s => r0[i] = n % Weight(i + 1)
<1>12. \A i \in 0 .. 6 : Right(i + 1) => Right(i)
  <2>. SUFFICES ASSUME NEW i \in 0 .. 6, Right(i + 1), i < s PROVE r0[i] = n % Weight(i + 1)
    OBVIOUS
  <2>1. CASE i = s - 1
    BY <1>10, <2>1
  <2>2. CASE i # s - 1
    BY <1>2, <1>11, <2>2
  <2>. QED
    BY <2>1, <2>2
<1>13. Right(7)
  <2>. SUFFICES ASSUME 7 < s PROVE r0[7] = n % Weight(7 + 1)
    OBVIOUS
  <2>1. s - 1 = 7
    BY <1>2
  <2>. QED
    BY <1>10, <2>1
<1>. HIDE DEF Right
<1>14. Right(6)
  BY <1>12, <1>13
<1>15. Right(5)
  BY <1>12, <1>14
<1>16. Right(4)
  BY <1>12, <1>15
<1>17. Right(3)
  BY <1>12, <1>16
<1>18. Right(2)
  BY <1>12, <1>17
<1>19. Right(1)
  BY <1>12, <1>18
<1>20. Right(0)
  BY <1>12, <1>19
<1>21. \A i \in 0 .. s - 1 : Right(i)
  BY <1>2, <1>13, <1>14, <1>15, <1>16, <1>17, <1>18, <1>19, <1>20
<1>22. \A i \in 0 .. s - 1 : r0[i] = n % Weight(i + 1)
  BY <1>2, <1>21 DEF Right
<1>. QED
  BY <1>1, <1>22 DEF s

\* The digit of weight 16^i that is printed for n; zero for a negative one.
Digit(n, i) == IF n > 0 THEN (n \div Weight(i)) % 16 ELSE 0

\* The highest digit of what the loop has left is that digit of n.
LEMMA DigitOfRemainder ==
    ASSUME NEW n \in Int, NEW i \in 0 .. 7
    PROVE  (n % Weight(i + 1)) \div Weight(i) = (n \div Weight(i)) % 16
<1>1. i = 0 \/ i = 1 \/ i = 2 \/ i = 3 \/ i = 4 \/ i = 5 \/ i = 6 \/ i = 7
  OBVIOUS
<1>2. CASE i = 0
  <2>1. Weight(i) = 1 /\ Weight(i + 1) = 16
    BY <1>2, SMT DEF Weight
  <2>2. (n % 16) \div 1 = (n \div 1) % 16
    BY SMT
  <2>. QED
    BY <2>1, <2>2, SMT
<1>3. CASE i = 1
  <2>1. Weight(i) = 16 /\ Weight(i + 1) = 256
    BY <1>3, SMT DEF Weight
  <2>2. (n % 256) \div 16 = (n \div 16) % 16
    BY SMT
  <2>. QED
    BY <2>1, <2>2, SMT
<1>4. CASE i = 2
  <2>1. Weight(i) = 256 /\ Weight(i + 1) = 4096
    BY <1>4, SMT DEF Weight
  <2>2. (n % 4096) \div 256 = (n \div 256) % 16
    BY SMT
  <2>. QED
    BY <2>1, <2>2, SMT
<1>5. CASE i = 3
  <2>1. Weight(i) = 4096 /\ Weight(i + 1) = 65536
    BY <1>5, SMT DEF Weight
  <2>2. (n % 65536) \div 4096 = (n \div 4096) % 16
    <3>. DEFINE q == n \div 65536
                r == n % 65536
                t == r \div 4096
    <3>1. q \in Int /\ r \in Int /\ n = 65536 * q + r /\ 0 <= r /\ r < 65536
      BY SMT
    <3>. HIDE DEF q, r
    <3>2. t \in Int /\ 4096 * t <= r /\ r < 4096 * t + 4096
      BY <3>1, SMT
    <3>. HIDE DEF t
    <3>3. n \div 4096 = 16 * q + t /\ 0 <= t /\ t < 16
      BY <3>1, <3>2, SMT
    <3>4. (16 * q + t) % 16 = t
      BY <3>1, <3>2, <3>3, SMT
    <3>. QED
      BY <3>3, <3>4, SMT DEF r, t
  <2>. QED
    BY <2>1, <2>2, SMT
<1>6. CASE i = 4
  <2>1. Weight(i) = 65536 /\ Weight(i + 1) = 1048576
    BY <1>6, SMT DEF Weight
  <2>2. (n % 1048576) \div 65536 = (n \div 65536) % 16
    <3>. DEFINE q == n \div 1048576
                r == n % 1048576
                t == r \div 65536
    <3>1. q \in Int /\ r \in Int /\ n = 1048576 * q + r /\ 0 <= r /\ r < 1048576
      BY SMT
    <3>. HIDE DEF q, r
    <3>2. t \in Int /\ 65536 * t <= r /\ r < 65536 * t + 65536
      BY <3>1, SMT
    <3>. HIDE DEF t
    <3>3. n \div 65536 = 16 * q + t /\ 0 <= t /\ t < 16
      BY <3>1, <3>2, SMT
    <3>4. (16 * q + t) % 16 = t
      BY <3>1, <3>2, <3>3, SMT
    <3>. QED
      BY <3>3, <3>4, SMT DEF r, t
  <2>. QED
    BY <2>1, <2>2, SMT
<1>7. CASE i = 5
  <2>1. Weight(i) = 1048576 /\ Weight(i + 1) = 16777216
    BY <1>7, SMT DEF Weight
  <2>2. (n % 16777216) \div 1048576 = (n \div 1048576) % 16
    <3>. DEFINE q == n \div 16777216
                r == n % 16777216
                t == r \div 1048576
    <3>1. q \in Int /\ r \in Int /\ n = 16777216 * q + r /\ 0 <= r /\ r < 16777216
      BY SMT
    <3>. HIDE DEF q, r
    <3>2. t \in Int /\ 1048576 * t <= r /\ r < 1048576 * t + 1048576
      BY <3>1, SMT
    <3>. HIDE DEF t
    <3>3. n \div 1048576 = 16 * q + t /\ 0 <= t /\ t < 16
      BY <3>1, <3>2, SMT
    <3>4. (16 * q + t) % 16 = t
      BY <3>1, <3>2, <3>3, SMT
    <3>. QED
      BY <3>3, <3>4, SMT DEF r, t
  <2>. QED
    BY <2>1, <2>2, SMT
<1>8. CASE i = 6
  <2>1. Weight(i) = 16777216 /\ Weight(i + 1) = 268435456
    BY <1>8, SMT DEF Weight
  <2>2. (n % 268435456) \div 16777216 = (n \div 16777216) % 16
    <3>. DEFINE q == n \div 268435456
                r == n % 268435456
                t == r \div 16777216
    <3>1. q \in Int /\ r \in Int /\ n = 268435456 * q + r /\ 0 <= r /\ r < 268435456
      BY SMT
    <3>. HIDE DEF q, r
    <3>2. t \in Int /\ 16777216 * t <= r /\ r < 16777216 * t + 16777216
      BY <3>1, SMT
    <3>. HIDE DEF t
    <3>3. n \div 16777216 = 16 * q + t /\ 0 <= t /\ t < 16
      BY <3>1, <3>2, SMT
    <3>4. (16 * q + t) % 16 = t
      BY <3>1, <3>2, <3>3, SMT
    <3>. QED
      BY <3>3, <3>4, SMT DEF r, t
  <2>. QED
    BY <2>1, <2>2, SMT
<1>9. CASE i = 7
  <2>1. Weight(i) = 268435456 /\ Weight(i + 1) = 4294967296
    BY <1>9, SMT DEF Weight
  <2>2. (n % 4294967296) \div 268435456 = (n \div 268435456) % 16
    <3>. DEFINE q == n \div 4294967296
                r == n % 4294967296
                t == r \div 268435456
    <3>1. q \in Int /\ r \in Int /\ n = 4294967296 * q + r /\ 0 <= r /\ r < 4294967296
      BY SMT
    <3>. HIDE DEF q, r
    <3>2. t \in Int /\ 268435456 * t <= r /\ r < 268435456 * t + 268435456
      BY <3>1, SMT
    <3>. HIDE DEF t
    <3>3. n \div 268435456 = 16 * q + t /\ 0 <= t /\ t < 16
      BY <3>1, <3>2, SMT
    <3>4. (16 * q + t) % 16 = t
      BY <3>1, <3>2, <3>3, SMT
    <3>. QED
      BY <3>3, <3>4, SMTT(30) DEF r, t
  <2>. QED
    BY <2>1, <2>2, SMT
<1>. QED
  BY <1>1, <1>2, <1>3, <1>4, <1>5, <1>6, <1>7, <1>8, <1>9

\* Digits are digits, and those beyond the number are zero.
LEMMA Digits ==
    ASSUME NEW n \in Ints, NEW i \in 0 .. 8
    PROVE  /\ Digit(n, i) \in 0 .. 15
           /\ n < Weight(i) => Digit(n, i) = 0
<1>1. n \in Int
  BY IntBounds
<1>2. n \div Weight(i) \in Int /\ (n \div Weight(i) > 0 <=> n >= Weight(i))
  BY <1>1, SmallQuotient
<1>3. Weight(i) \in Nat /\ Weight(i) >= 1
  BY Weights
<1>4. n > 0 => n \div Weight(i) >= 0
  BY <1>1, <1>3
<1>. DEFINE q == n \div Weight(i)
<1>5. q \in Int /\ (n > 0 => q >= 0) /\ (q > 0 <=> n >= Weight(i))
  BY <1>2, <1>4
<1>6. Digit(n, i) = IF n > 0 THEN q % 16 ELSE 0
  BY DEF Digit
<1>. HIDE DEF q
<1>7. n > 0 /\ n < Weight(i) => q = 0
  BY <1>1, <1>3, <1>5
<1>. QED
  BY <1>5, <1>6, <1>7

\* The storage after n has been written with w characters at offset at.
Printed(mem, at, w, n) ==
    [p \in DOMAIN mem |->
        IF p \in at .. at + w - 1 THEN tokenChars(Digit(n, at + w - 1 - p))
        ELSE IF p = at + w THEN 0 ELSE mem[p]]

\* This is what itstr does with an int that fits.
LEMMA ItstrPrints ==
    ASSUME NEW n \in Ints, NEW w \in 2 .. 8, n < Weight(w),
           NEW at \in Nat, NEW mem, DOMAIN mem \subseteq Int
    PROVE  itstr(mem, at, w, n, 16, w) = Printed(mem, at, w, n)
<1>. DEFINE s == logi(n, 16)
<1>1. /\ s \in 0 .. 8 /\ (n <= 0 => s = 0) /\ (n > 0 => s >= 1 /\ n < Weight(s))
      /\ \A j \in 0 .. s - 1 : n >= Weight(j)
  BY Log16
<1>2. n \in Int /\ \A i \in 0 .. 8 : Weight(i) \in Int
  BY IntBounds, Weights
<1>3. n > 0 => \A i \in 0 .. s - 1 : Remainder(n, 16, s)[i] = n % Weight(i + 1)
  BY Remainders
<1>. HIDE DEF s
<1>4. s <= w
  <2>. SUFFICES ASSUME s > w PROVE FALSE
    BY <1>1
  <2>1. w \in 0 .. s - 1 /\ w \in 0 .. 8
    BY <1>1
  <2>. QED
    BY <1>1, <1>2, <2>1
<1>5. larger(w, s) = w
  BY <1>1, <1>4 DEF larger
<1>6. itstr_ret(w, n, 16, w)
  BY <1>5 DEF itstr_ret, s
<1>. DEFINE k(i) == Remainder(n, 16, s)[i] \div powi(16, i)
<1>7. ASSUME NEW i \in 0 .. s - 1 PROVE k(i) = Digit(n, i)
  <2>1. i \in 0 .. 7 /\ n > 0
    BY <1>1, <1>2
  <2>2. powi(16, i) = Weight(i)
    BY <2>1, Powi
  <2>3. k(i) = (n % Weight(i + 1)) \div Weight(i)
    BY <1>3, <2>1, <2>2
  <2>. QED
    BY <1>2, <2>1, <2>3, DigitOfRemainder DEF Digit
<1>. HIDE DEF k
<1>8. ASSUME NEW i \in s .. 8 PROVE Digit(n, i) = 0
  <2>1. CASE n > 0
    <3>1. Weight(s) <= Weight(i)
      BY <1>1, Weights
    <3>2. n < Weight(i)
      BY <1>1, <1>2, <2>1, <3>1
    <3>. QED
      BY <1>1, <3>2, Digits
  <2>2. CASE ~(n > 0)
    BY <2>2 DEF Digit
  <2>. QED
    BY <2>1, <2>2
<1>9. tokenChars(0) = 48
  BY DEF tokenChars
<1>10. itstr(mem, at, w, n, 16, w) =
         [p \in DOMAIN mem |->
            CASE p \in at .. at + w - s - 1     -> 48
              [] p \in at + w - s .. at + w - 1 -> tokenChars(k(at + w - 1 - p))
              [] p = at + w                     -> 0
              [] OTHER                          -> mem[p]]
  BY <1>5, <1>6 DEF itstr, s, k
<1>11. ASSUME NEW p \in DOMAIN mem
       PROVE  (CASE p \in at .. at + w - s - 1     -> 48
                 [] p \in at + w - s .. at + w - 1 -> tokenChars(k(at + w - 1 - p))
                 [] p = at + w                     -> 0
                 [] OTHER                          -> mem[p])
              = Printed(mem, at, w, n)[p]
  <2>1. p \in Int
    OBVIOUS
  <2>2. CASE p \in at .. at + w - s - 1
    <3>1. /\ at + w - 1 - p \in s .. 8 /\ p \in at .. at + w - 1
          /\ p \notin at + w - s .. at + w - 1 /\ p # at + w
      BY <1>1, <1>4, <2>2
    <3>2. Printed(mem, at, w, n)[p] = 48
      BY <1>8, <1>9, <3>1 DEF Printed
    <3>. QED
      BY <2>2, <3>1, <3>2
  <2>3. CASE p \in at + w - s .. at + w - 1
    <3>1. /\ at + w - 1 - p \in 0 .. s - 1 /\ p \in at .. at + w - 1
          /\ p \notin at .. at + w - s - 1
      BY <1>1, <1>4, <2>3
    <3>2. Printed(mem, at, w, n)[p] = tokenChars(k(at + w - 1 - p))
      BY <1>7, <3>1 DEF Printed
    <3>. QED
      <4>1. (CASE p \in at .. at + w - s - 1     -> 48
               [] p \in at + w - s .. at + w - 1 -> tokenChars(k(at + w - 1 - p))
               [] p = at + w                     -> 0
               [] OTHER                          -> mem[p])
              = tokenChars(k(at + w - 1 - p))
        BY <2>3, <3>1
      <4>. QED
        BY <3>2, <4>1
  <2>4. CASE ~(p \in at .. at + w - s - 1) /\ ~(p \in at + w - s .. at + w - 1)
    <3>1. p \notin at .. at + w - 1
      BY <1>1, <1>4, <2>1, <2>4
    <3>. QED
      BY <1>1, <2>1, <2>4, <3>1 DEF Printed
  <2>. QED
    BY <2>2, <2>3, <2>4
<1>. QED
  BY <1>10, <1>11 DEF Printed

-------------------------------------------------------------------------------
(* The frames of the sniffer.                                              *)

\* Where the j-th field starts, how wide it is, and what it holds.
Start(j) == IF j = 1 THEN 2 ELSE 6 + 2 * j
Width(j) == IF j = 1 THEN 8 ELSE 2
Value(p, j) ==
    CASE j = 1 -> p.timestamp [] j = 2 -> p.channel [] j = 3 -> p.rssi % 256
      [] j = 10 -> p.byte1 [] j = 11 -> p.byte2
      [] OTHER -> p.mac[j - 3]

\* What is sniffed has the types of the structure.
LEMMA SightingBytes ==
    ASSUME NEW p \in Sightings
    PROVE  /\ p.channel \in UnsignedChar /\ p.byte1 \in UnsignedChar /\ p.byte2 \in UnsignedChar
           /\ p.mac \in [1 .. 6 -> UnsignedChar] /\ \A i \in 1 .. 6 : p.mac[i] \in UnsignedChar
<1>1. p.channel \in UnsignedChar
  BY SightingsAssumption, SMT
<1>2. p.byte1 \in UnsignedChar
  BY SightingsAssumption, SMT
<1>3. p.byte2 \in UnsignedChar
  BY SightingsAssumption, SMT
<1>4. p.mac \in [1 .. 6 -> UnsignedChar]
  BY SightingsAssumption, SMT
<1>5. \A i \in 1 .. 6 : p.mac[i] \in UnsignedChar
  BY <1>4, SMT
<1>. QED
  BY <1>1, <1>2, <1>3, <1>4, <1>5, SMT

LEMMA RssiValues == \A x : x \in SignedRssi <=> x \in Int /\ -128 <= x /\ x <= 127
  BY DEF SignedRssi

\* A strength is a signed byte.
LEMMA SightingRssi ==
    ASSUME NEW p \in Sightings
    PROVE  /\ p.rssi \in Int /\ p.rssi % 256 \in UnsignedChar /\ p.rssi % 256 >= 0
           /\ p.rssi = IF p.rssi % 256 >= 128 THEN (p.rssi % 256) - 256 ELSE p.rssi % 256
<1>1. p.rssi \in SignedRssi
  BY SightingsAssumption, SMT
<1>. DEFINE r == p.rssi
<1>2. r \in Int /\ -128 <= r /\ r <= 127
  BY <1>1, RssiValues
<1>. HIDE DEF r
<1>3. /\ r % 256 \in Int /\ 0 <= r % 256 /\ r % 256 <= 255
      /\ r = IF r % 256 >= 128 THEN (r % 256) - 256 ELSE r % 256
  BY <1>2
<1>4. r % 256 \in UnsignedChar
  BY <1>3, CharValues
<1>. QED
  BY <1>2, <1>3, <1>4 DEF r

LEMMA SightingInts ==
    ASSUME NEW p \in Sightings
    PROVE  /\ p.timestamp \in Ints /\ p.timestamp \in Int
           /\ p.rssi \in Int /\ p.rssi % 256 \in Int
           /\ p.channel \in Int /\ p.byte1 \in Int /\ p.byte2 \in Int
           /\ \A i \in 1 .. 6 : p.mac[i] \in Int
<1>1. p.timestamp \in Ints
  BY SightingsAssumption
<1>2. p.timestamp \in Int
  BY <1>1, IntBounds
<1>3. p.rssi \in Int /\ p.rssi % 256 \in Int
  BY SightingRssi
<1>. DEFINE Char(x) == x \in UnsignedChar
<1>4. /\ Char(p.channel) /\ Char(p.byte1) /\ Char(p.byte2)
      /\ \A i \in 1 .. 6 : Char(p.mac[i])
  BY SightingBytes
<1>5. \A x : Char(x) => x \in Int
  BY CharValues
<1>. HIDE DEF Char
<1>6. p.channel \in Int /\ p.byte1 \in Int /\ p.byte2 \in Int
  BY <1>4, <1>5, Zenon
<1>7. \A i \in 1 .. 6 : p.mac[i] \in Int
  BY <1>4, <1>5, Zenon
<1>. QED
  BY <1>1, <1>2, <1>3, <1>6, <1>7

\* The fields follow one another without a gap.
LEMMA FieldsAre ==
    ASSUME NEW p \in Sightings
    PROVE  /\ Len(Fields(p)) = 11
           /\ \A j \in 1 .. 11 : Fields(p)[j] = <<Start(j), Width(j), Value(p, j)>>
<1>. DEFINE a == <<<<2, 8, p.timestamp>>, <<10, 2, p.channel>>, <<12, 2, p.rssi % 256>>>>
            b == [i \in 1 .. 6 |-> <<14 + 2 * (i - 1), 2, p.mac[i]>>]
            c == <<<<26, 2, p.byte1>>, <<28, 2, p.byte2>>>>
            S == Int \X Int \X Int
<1>1. Fields(p) = (a \o b) \o c
  BY DEF Fields, Offset, unsigned_char
<1>2. /\ p.timestamp \in Int /\ p.rssi % 256 \in Int /\ p.channel \in Int
      /\ p.byte1 \in Int /\ p.byte2 \in Int /\ \A i \in 1 .. 6 : p.mac[i] \in Int
  BY SightingInts
<1>3. a \in Seq(S) /\ Len(a) = 3
  BY <1>2
<1>4. b \in Seq(S) /\ Len(b) = 6
  BY <1>2
<1>5. c \in Seq(S) /\ Len(c) = 2
  BY <1>2
<1>6. a[1] = <<2, 8, p.timestamp>> /\ a[2] = <<10, 2, p.channel>> /\ a[3] = <<12, 2, p.rssi % 256>>
  OBVIOUS
<1>7. \A i \in 1 .. 6 : b[i] = <<14 + 2 * (i - 1), 2, p.mac[i]>>
  OBVIOUS
<1>8. c[1] = <<26, 2, p.byte1>> /\ c[2] = <<28, 2, p.byte2>>
  OBVIOUS
<1>. HIDE DEF a, b, c, S
<1>. DEFINE ab == a \o b
<1>9. /\ ab \in Seq(S) /\ Len(ab) = 9
      /\ \A j \in 1 .. 9 : ab[j] = IF j <= 3 THEN a[j] ELSE b[j - 3]
  <2>1. /\ ab \in Seq(S) /\ Len(ab) = Len(a) + Len(b)
        /\ \A j \in 1 .. Len(a) + Len(b) :
              ab[j] = IF j <= Len(a) THEN a[j] ELSE b[j - Len(a)]
    BY <1>3, <1>4, ConcatProperties
  <2>. HIDE DEF ab
  <2>. QED
    BY <1>3, <1>4, <2>1
<1>. HIDE DEF ab
<1>. DEFINE f == ab \o c
<1>10. /\ Len(f) = 11
       /\ \A j \in 1 .. 11 : f[j] = IF j <= 9 THEN ab[j] ELSE c[j - 9]
  <2>1. /\ Len(f) = Len(ab) + Len(c)
        /\ \A j \in 1 .. Len(ab) + Len(c) :
              f[j] = IF j <= Len(ab) THEN ab[j] ELSE c[j - Len(ab)]
    BY <1>5, <1>9, ConcatProperties
  <2>. HIDE DEF f
  <2>. QED
    BY <1>5, <1>9, <2>1
<1>. HIDE DEF f
<1>11. ASSUME NEW j \in 1 .. 11
       PROVE  f[j] = <<Start(j), Width(j), Value(p, j)>>
  <2>1. CASE j \in 1 .. 3
    <3>1. f[j] = a[j] /\ (j = 1 \/ j = 2 \/ j = 3)
      BY <1>9, <1>10, <2>1
    <3>2. <<Start(1), Width(1), Value(p, 1)>> = a[1]
      BY <1>6 DEF Start, Width, Value
    <3>3. <<Start(2), Width(2), Value(p, 2)>> = a[2]
      BY <1>6 DEF Start, Width, Value
    <3>4. <<Start(3), Width(3), Value(p, 3)>> = a[3]
      BY <1>6 DEF Start, Width, Value
    <3>. QED
      BY <3>1, <3>2, <3>3, <3>4
  <2>2. CASE j \in 4 .. 9
    <3>1. f[j] = b[j - 3] /\ j - 3 \in 1 .. 6
      BY <1>9, <1>10, <2>2
    <3>2. b[j - 3] = <<14 + 2 * ((j - 3) - 1), 2, p.mac[j - 3]>>
      BY <1>7, <3>1
    <3>3. Start(j) = 14 + 2 * ((j - 3) - 1) /\ Width(j) = 2
      BY <2>2 DEF Start, Width
    <3>4. Value(p, j) = p.mac[j - 3]
      BY <2>2 DEF Value
    <3>. QED
      BY <3>1, <3>2, <3>3, <3>4
  <2>3. CASE j \in 10 .. 11
    <3>1. f[j] = c[j - 9] /\ (j = 10 \/ j = 11)
      BY <1>10, <2>3
    <3>2. <<Start(10), Width(10), Value(p, 10)>> = c[1]
      BY <1>8 DEF Start, Width, Value
    <3>3. <<Start(11), Width(11), Value(p, 11)>> = c[2]
      BY <1>8 DEF Start, Width, Value
    <3>. QED
      BY <3>1, <3>2, <3>3
  <2>4. j \in 1 .. 3 \/ j \in 4 .. 9 \/ j \in 10 .. 11
    OBVIOUS
  <2>. QED
    BY <2>1, <2>2, <2>3, <2>4
<1>. QED
  BY <1>1, <1>10, <1>11 DEF ab, f

\* The values fit into their fields.
LEMMA ValuesFit ==
    ASSUME NEW p \in Sightings, NEW j \in 1 .. 11
    PROVE  /\ Value(p, j) \in Ints /\ Value(p, j) < Weight(Width(j))
           /\ j # 1 => Value(p, j) \in UnsignedChar
           /\ Start(j) \in 2 .. 28 /\ Width(j) \in 2 .. 8 /\ Start(j) + Width(j) \in 10 .. 30
           /\ \A l \in 1 .. j - 1 : l \in 1 .. 11 /\ Start(l) + Width(l) <= Start(j)
<1>1. /\ p.channel \in UnsignedChar /\ p.byte1 \in UnsignedChar /\ p.byte2 \in UnsignedChar
      /\ \A i \in 1 .. 6 : p.mac[i] \in UnsignedChar
  BY SightingBytes
<1>2. /\ Start(j) \in 2 .. 28 /\ Width(j) \in 2 .. 8 /\ Start(j) + Width(j) \in 10 .. 30
      /\ \A l \in 1 .. j - 1 : l \in 1 .. 11 /\ Start(l) + Width(l) <= Start(j)
  BY DEF Start, Width
<1>3. CASE j = 1
  <2>1. Value(p, j) = p.timestamp /\ Width(j) = 8
    BY <1>3 DEF Value, Width
  <2>2. p.timestamp \in Ints
    BY SightingInts
  <2>. QED
    BY <1>2, <1>3, <2>1, <2>2, IntBounds
<1>4. CASE j # 1
  <2>1. Value(p, j) \in UnsignedChar
    <3>1. CASE j \in 4 .. 9
      <4>1. Value(p, j) = p.mac[j - 3] /\ j - 3 \in 1 .. 6
        BY <3>1 DEF Value
      <4>. QED
        BY <1>1, <4>1
    <3>2. CASE j = 2 \/ j = 3 \/ j = 10 \/ j = 11
      <4>1. Value(p, j) \in {p.channel, p.rssi % 256, p.byte1, p.byte2}
        BY <3>2 DEF Value
      <4>2. p.rssi % 256 \in UnsignedChar
        BY SightingRssi
      <4>. QED
        BY <1>1, <4>1, <4>2, SMT
    <3>. QED
      BY <1>4, <3>1, <3>2
  <2>2. Width(j) = 2 /\ Weight(2) = 256
    BY <1>4 DEF Width, Weight
  <2>3. Value(p, j) \in Int /\ 0 <= Value(p, j) /\ Value(p, j) <= 255
    BY <2>1, CharValues
  <2>4. Value(p, j) \in Ints
    <3>1. IntMin \in Int /\ IntMax \in Int /\ IntMin <= 0 /\ 255 <= IntMax
      BY SMT DEF IntMin, IntMax
    <3>. QED
      BY <2>3, <3>1 DEF Ints
  <2>. QED
    BY <1>2, <2>1, <2>2, <2>3, <2>4
<1>. QED
  BY <1>3, <1>4

\* uart_data_struct and the byte behind it.
Storage == [0 .. TxSize -> UnsignedChar]

\* The first j fields of m hold the digits of what was sighted.
HoldsFields(m, p, j) ==
    \A l \in 1 .. j : \A o \in 0 .. Width(l) - 1 :
        m[Start(l) + o] = tokenChars(Digit(Value(p, l), Width(l) - 1 - o))

\* A character is a digit, and no zero byte.
LEMMA TokenChars ==
    ASSUME NEW k \in 0 .. 15
    PROVE  /\ tokenChars(k) \in UnsignedChar /\ tokenChars(k) # 0 /\ tokenChars(k) < 128
           /\ DigitOf(tokenChars(k)) = k
<1>1. /\ tokenChars(k) \in Int /\ 48 <= tokenChars(k) /\ tokenChars(k) <= 102
      /\ DigitOf(tokenChars(k)) = k
  BY DEF tokenChars, DigitOf
<1>. QED
  BY <1>1, CharValues

\* One more conversion keeps what is in front of it.
Convert(m, p, j) ==
    itstr(m, Fields(p)[j][1], Fields(p)[j][2], Fields(p)[j][3], 16, Fields(p)[j][2])

LEMMA ConvertFills ==
    ASSUME NEW p \in Sightings, NEW j \in 1 .. 11, NEW m \in Storage,
           HoldsFields(m, p, j - 1)
    PROVE  /\ Convert(m, p, j) \in Storage
           /\ Convert(m, p, j)[0] = m[0] /\ Convert(m, p, j)[1] = m[1]
           /\ HoldsFields(Convert(m, p, j), p, j)
<1>. DEFINE a == Start(j)
            w == Width(j)
            v == Value(p, j)
            n == Convert(m, p, j)
<1>1. /\ v \in Ints /\ v < Weight(w) /\ a \in 2 .. 28 /\ w \in 2 .. 8 /\ a + w \in 10 .. 30
      /\ \A l \in 1 .. j - 1 : l \in 1 .. 11 /\ Start(l) + Width(l) <= a
  BY ValuesFit
<1>2. n = itstr(m, a, w, v, 16, w)
  <2>1. Fields(p)[j] = <<a, w, v>>
    BY FieldsAre
  <2>. HIDE DEF a, w, v
  <2>. QED
    BY <2>1 DEF Convert
<1>. HIDE DEF a, w, v, n
<1>3. DOMAIN m = 0 .. 30
  BY DEF Storage, TxSize
<1>4. n = Printed(m, a, w, v)
  BY <1>1, <1>2, <1>3, ItstrPrints
<1>5. \A i \in 0 .. 8 : tokenChars(Digit(v, i)) \in UnsignedChar
  BY <1>1, Digits, TokenChars
<1>6. /\ DOMAIN n = 0 .. 30
      /\ \A x \in 0 .. 30 : n[x] = IF x \in a .. a + w - 1
                                   THEN tokenChars(Digit(v, a + w - 1 - x))
                                   ELSE IF x = a + w THEN 0 ELSE m[x]
  BY <1>3, <1>4 DEF Printed
<1>7. \A x \in 0 .. 30 : n[x] \in UnsignedChar
  <2>. TAKE x \in 0 .. 30
  <2>1. m[x] \in UnsignedChar
    BY DEF Storage, TxSize
  <2>2. CASE x \in a .. a + w - 1
    <3>1. a + w - 1 - x \in 0 .. 8
      BY <1>1, <2>2
    <3>2. n[x] = tokenChars(Digit(v, a + w - 1 - x))
      BY <1>6, <2>2
    <3>. QED
      BY <1>5, <3>1, <3>2
  <2>3. CASE x \notin a .. a + w - 1
    <3>1. 0 \in UnsignedChar
      BY CharValues
    <3>. QED
      BY <1>6, <2>1, <2>3, <3>1
  <2>. QED
    BY <2>2, <2>3
<1>8. n \in Storage
  <2>1. n = [x \in 0 .. 30 |-> n[x]]
    BY <1>3, <1>4 DEF Printed
  <2>2. n \in [0 .. 30 -> UnsignedChar]
    BY <1>7, <2>1
  <2>. QED
    BY <2>2 DEF Storage, TxSize
<1>9. n[0] = m[0] /\ n[1] = m[1]
  BY <1>1, <1>6
<1>10. ASSUME NEW l \in 1 .. j, NEW o \in 0 .. Width(l) - 1
       PROVE  n[Start(l) + o] = tokenChars(Digit(Value(p, l), Width(l) - 1 - o))
  <2>1. CASE l = j
    <3>1. o \in 0 .. w - 1
      BY <1>10, <2>1 DEF w
    <3>2. /\ a + o \in a .. a + w - 1 /\ a + o \in 0 .. 30
          /\ a + w - 1 - (a + o) = w - 1 - o
      BY <1>1, <3>1
    <3>3. n[a + o] = tokenChars(Digit(v, w - 1 - o))
      BY <1>6, <3>2
    <3>. QED
      BY <2>1, <3>3 DEF a, w, v
  <2>2. CASE l # j
    <3>1. l \in 1 .. j - 1 /\ l \in 1 .. 11
      BY <2>2
    <3>2. Start(l) \in 2 .. 28 /\ Width(l) \in 2 .. 8 /\ Start(l) + Width(l) <= a
      BY <1>1, <3>1, ValuesFit
    <3>3. /\ Start(l) + o \in 0 .. 30 /\ Start(l) + o \notin a .. a + w - 1
          /\ Start(l) + o # a + w
      BY <1>1, <3>2
    <3>4. n[Start(l) + o] = m[Start(l) + o]
      BY <1>6, <3>3
    <3>. QED
      BY <3>1, <3>4 DEF HoldsFields
  <2>. QED
    BY <2>1, <2>2
<1>. QED
  BY <1>8, <1>9, <1>10 DEF HoldsFields, n

\* What uart_tx fills in, from whatever the stack held.
LEMMA FilledHolds ==
    ASSUME NEW p \in Sightings, NEW stack \in Storage,
           packet_cnt \in UnsignedChar, dev_id \in UnsignedChar
    PROVE  /\ Filled(stack, p) \in Storage
           /\ Filled(stack, p)[0] = packet_cnt /\ Filled(stack, p)[1] = dev_id
           /\ HoldsFields(Filled(stack, p), p, 11)
<1>. DEFINE m0  == [stack EXCEPT ![Offset.count] = packet_cnt, ![Offset.identifier] = dev_id]
            m1  == Convert(m0, p, 1)
            m2  == Convert(m1, p, 2)
            m3  == Convert(m2, p, 3)
            m4  == Convert(m3, p, 4)
            m5  == Convert(m4, p, 5)
            m6  == Convert(m5, p, 6)
            m7  == Convert(m6, p, 7)
            m8  == Convert(m7, p, 8)
            m9  == Convert(m8, p, 9)
            m10 == Convert(m9, p, 10)
            m11 == Convert(m10, p, 11)
            w   == [j \in 0 .. 11 |->
                      CASE j = 0 -> m0 [] j = 1 -> m1 [] j = 2 -> m2 [] j = 3 -> m3
                        [] j = 4 -> m4 [] j = 5 -> m5 [] j = 6 -> m6 [] j = 7 -> m7
                        [] j = 8 -> m8 [] j = 9 -> m9 [] j = 10 -> m10 [] j = 11 -> m11]
            IsLoop(v) == v = [j \in 0 .. 11 |-> IF j = 0 THEN m0 ELSE Convert(v[j - 1], p, j)]
            v0  == CHOOSE v : IsLoop(v)
<1>1. Filling(stack, p) = v0 /\ Filled(stack, p) = v0[11]
  <2>1. Len(Fields(p)) = 11
    BY FieldsAre
  <2>. QED
    BY <2>1, SMTT(30) DEF Filling, Filled, Convert
<1>2. /\ m0 \in Storage /\ m0[0] = packet_cnt /\ m0[1] = dev_id
      /\ HoldsFields(m0, p, 0)
  BY SMTT(30) DEF Storage, TxSize, Offset, HoldsFields
<1>. HIDE DEF m0
<1>3. IsLoop(w)
  <2>1. /\ w[0] = m0 /\ w[1] = m1 /\ w[2] = m2 /\ w[3] = m3 /\ w[4] = m4 /\ w[5] = m5
        /\ w[6] = m6 /\ w[7] = m7 /\ w[8] = m8 /\ w[9] = m9 /\ w[10] = m10 /\ w[11] = m11
        /\ w = [j \in 0 .. 11 |-> w[j]]
    <3>. HIDE DEF m1, m2, m3, m4, m5, m6, m7, m8, m9, m10, m11
    <3>. QED
      OBVIOUS
  <2>. HIDE DEF w
  <2>2. /\ w[1] = Convert(w[0], p, 1) /\ w[2] = Convert(w[1], p, 2)
        /\ w[3] = Convert(w[2], p, 3) /\ w[4] = Convert(w[3], p, 4)
        /\ w[5] = Convert(w[4], p, 5) /\ w[6] = Convert(w[5], p, 6)
        /\ w[7] = Convert(w[6], p, 7) /\ w[8] = Convert(w[7], p, 8)
        /\ w[9] = Convert(w[8], p, 9) /\ w[10] = Convert(w[9], p, 10)
        /\ w[11] = Convert(w[10], p, 11)
    BY <2>1
  <2>. HIDE DEF m1, m2, m3, m4, m5, m6, m7, m8, m9, m10, m11
  <2>3. \A j \in 1 .. 11 : w[j] = Convert(w[j - 1], p, j)
    <3>1. \A j \in 1 .. 11 : j = 1 \/ j = 2 \/ j = 3 \/ j = 4 \/ j = 5 \/ j = 6 \/ j = 7
                             \/ j = 8 \/ j = 9 \/ j = 10 \/ j = 11
      OBVIOUS
    <3>. QED
      BY <2>2, <3>1
  <2>4. \A j \in 0 .. 11 : w[j] = IF j = 0 THEN m0 ELSE Convert(w[j - 1], p, j)
    BY <2>1, <2>3
  <2>5. w = [j \in 0 .. 11 |-> IF j = 0 THEN m0 ELSE Convert(w[j - 1], p, j)]
    BY <2>1, <2>4
  <2>. QED
    BY <2>5
<1>4. IsLoop(v0)
  <2>. HIDE DEF IsLoop, w
  <2>. QED
    BY <1>3
<1>. HIDE DEF v0
<1>5. v0[0] = m0 /\ \A j \in 1 .. 11 : v0[j] = Convert(v0[j - 1], p, j)
  BY <1>4
<1>. HIDE DEF IsLoop, w
<1>. DEFINE Right(j) == /\ v0[j] \in Storage /\ v0[j][0] = packet_cnt /\ v0[j][1] = dev_id
                        /\ HoldsFields(v0[j], p, j)
<1>6. Right(0)
  BY <1>2, <1>5
<1>7. \A j \in 1 .. 11 : Right(j - 1) => Right(j)
  BY <1>5, ConvertFills
<1>. HIDE DEF Right
<1>8. Right(1)
  BY <1>6, <1>7
<1>9. Right(2)
  BY <1>7, <1>8
<1>10. Right(3)
  BY <1>7, <1>9
<1>11. Right(4)
  BY <1>7, <1>10
<1>12. Right(5)
  BY <1>7, <1>11
<1>13. Right(6)
  BY <1>7, <1>12
<1>14. Right(7)
  BY <1>7, <1>13
<1>15. Right(8)
  BY <1>7, <1>14
<1>16. Right(9)
  BY <1>7, <1>15
<1>17. Right(10)
  BY <1>7, <1>16
<1>18. Right(11)
  BY <1>7, <1>17
<1>. QED
  BY <1>1, <1>18 DEF Right

-------------------------------------------------------------------------------
(* The way back.                                                           *)

\* parseInt returns the number whose digits it is given.
LEMMA ParseIntReads ==
    ASSUME NEW n \in Ints, NEW w \in 1 .. 8, 0 <= n, n < Weight(w),
           NEW from \in Nat, NEW chunk,
           \A i \in 1 .. w : DigitOf(chunk[from + i]) = Digit(n, w - i)
    PROVE  parseInt(chunk, from, from + w) = n
<1>. DEFINE to == from + w
            IsLoop(v) == v = [i \in from .. to |->
                IF i = from THEN 0 ELSE 16 * v[i - 1] + DigitOf(chunk[i])]
            v0 == CHOOSE v : IsLoop(v)
            High(t) == n \div Weight(t)
            u  == [i \in from .. to |-> High(to - i)]
<1>1. parseInt(chunk, from, to) = v0[to]
  BY DEF parseInt
<1>2. n \in Int /\ to \in Nat /\ from \in Nat /\ to - from = w
  BY IntBounds
<1>3. High(0) = n /\ High(w) = 0
  <2>1. Weight(0) = 1 /\ n \div 1 = n
    BY <1>2 DEF Weight
  <2>2. w \in 0 .. 8 /\ Weight(w) \in Nat /\ Weight(w) >= 1
    BY Weights
  <2>3. n \div Weight(w) = 0
    BY <1>2, <2>2
  <2>. QED
    BY <2>1, <2>3
<1>4. \A t \in 0 .. 7 : High(t) = 16 * High(t + 1) + Digit(n, t)
  <2>. TAKE t \in 0 .. 7
  <2>. DEFINE q == High(t)
  <2>1. q \in Int
    <3>1. t \in 0 .. 8
      OBVIOUS
    <3>. QED
      BY <1>2, <3>1, SmallQuotient
  <2>2. High(t + 1) = q \div 16
    <3>1. t + 1 \in 1 .. 8 /\ (t + 1) - 1 = t
      OBVIOUS
    <3>. QED
      BY <1>2, <3>1, DividedAgain
  <2>3. Digit(n, t) = q % 16
    <3>1. CASE n > 0
      BY <3>1 DEF Digit
    <3>2. CASE n = 0
      <4>1. Weight(t) \in Nat /\ Weight(t) >= 1
        BY Weights
      <4>2. 0 \div Weight(t) = 0
        BY <4>1
      <4>3. q = 0
        BY <3>2, <4>2
      <4>. QED
        BY <3>2, <4>3 DEF Digit
    <3>. QED
      BY <1>2, <3>1, <3>2
  <2>. HIDE DEF q
  <2>4. q = 16 * (q \div 16) + (q % 16)
    BY <2>1
  <2>. QED
    BY <2>2, <2>3, <2>4 DEF q
<1>. HIDE DEF High, to
<1>5. ASSUME NEW i \in from + 1 .. to
      PROVE  High(to - i) = 16 * High(to - (i - 1)) + DigitOf(chunk[i])
  <2>1. /\ i - from \in 1 .. w /\ from + (i - from) = i
        /\ w - (i - from) = to - i /\ to - i \in 0 .. 7 /\ (to - i) + 1 = to - (i - 1)
    BY <1>2
  <2>2. DigitOf(chunk[i]) = Digit(n, to - i)
    BY <2>1
  <2>. QED
    BY <1>4, <2>1, <2>2
<1>6. IsLoop(u)
  <2>1. ASSUME NEW i \in from .. to
        PROVE  u[i] = IF i = from THEN 0 ELSE 16 * u[i - 1] + DigitOf(chunk[i])
    <3>1. CASE i = from
      BY <1>2, <1>3, <3>1
    <3>2. CASE i # from
      <4>1. i \in from + 1 .. to /\ i - 1 \in from .. to
        BY <1>2, <3>2
      <4>2. u[i] = High(to - i) /\ u[i - 1] = High(to - (i - 1))
        BY <4>1
      <4>. HIDE DEF u
      <4>. QED
        BY <1>5, <3>2, <4>1, <4>2
    <3>. QED
      BY <3>1, <3>2
  <2>. QED
    BY <2>1
<1>7. IsLoop(v0)
  <2>. HIDE DEF IsLoop, u
  <2>. QED
    BY <1>6
<1>. HIDE DEF v0, u
<1>8. v0[from] = 0 /\ \A i \in from + 1 .. to : v0[i] = 16 * v0[i - 1] + DigitOf(chunk[i])
  BY <1>2, <1>7
<1>. HIDE DEF IsLoop
<1>. DEFINE Right(k) == k <= w => v0[from + k] = High(w - k)
<1>9. Right(0)
  BY <1>2, <1>3, <1>8
<1>10. \A k \in 1 .. 8 : Right(k - 1) => Right(k)
  <2>. SUFFICES ASSUME NEW k \in 1 .. 8, Right(k - 1), k <= w
                PROVE  v0[from + k] = High(w - k)
    OBVIOUS
  <2>1. /\ from + k \in from + 1 .. to /\ (from + k) - 1 = from + (k - 1)
        /\ to - (from + k) = w - k /\ to - ((from + k) - 1) = w - (k - 1)
    BY <1>2
  <2>2. v0[from + (k - 1)] = High(w - (k - 1))
    OBVIOUS
  <2>3. v0[from + k] = 16 * v0[(from + k) - 1] + DigitOf(chunk[from + k])
    BY <1>8, <2>1
  <2>4. High(w - k) = 16 * High(w - (k - 1)) + DigitOf(chunk[from + k])
    BY <1>5, <2>1
  <2>. QED
    BY <2>1, <2>2, <2>3, <2>4
<1>. HIDE DEF Right
<1>11. Right(1)
  BY <1>9, <1>10
<1>12. Right(2)
  BY <1>10, <1>11
<1>13. Right(3)
  BY <1>10, <1>12
<1>14. Right(4)
  BY <1>10, <1>13
<1>15. Right(5)
  BY <1>10, <1>14
<1>16. Right(6)
  BY <1>10, <1>15
<1>17. Right(7)
  BY <1>10, <1>16
<1>18. Right(8)
  BY <1>10, <1>17
<1>19. w = 1 \/ w = 2 \/ w = 3 \/ w = 4 \/ w = 5 \/ w = 6 \/ w = 7 \/ w = 8
  OBVIOUS
<1>20. Right(w)
  BY <1>11, <1>12, <1>13, <1>14, <1>15, <1>16, <1>17, <1>18, <1>19
<1>21. v0[from + w] = n
  BY <1>3, <1>20 DEF Right
<1>. QED
  BY <1>1, <1>21 DEF to

-------------------------------------------------------------------------------
(* The identifier.                                                         *)

\* A set of bits is a byte, and different ones are different bytes.
LEMMA NumberRange == ASSUME NEW w PROVE NumberOf(w) \in UnsignedChar
<1>1. NumberOf(w) \in Int /\ 0 <= NumberOf(w) /\ NumberOf(w) <= 255
  BY DEF NumberOf, PlaceValue
<1>. QED
  BY <1>1, CharValues

LEMMA NumberInjective ==
    ASSUME NEW v, NEW w, NumberOf(v) = NumberOf(w)
    PROVE  \A i \in 1 .. 8 : i \in v <=> i \in w
<1>. DEFINE a(i) == IF i \in v THEN 1 ELSE 0
            b(i) == IF i \in w THEN 1 ELSE 0
<1>1. /\ NumberOf(v) = a(1) + 2 * a(2) + 4 * a(3) + 8 * a(4) + 16 * a(5) + 32 * a(6)
                        + 64 * a(7) + 128 * a(8)
      /\ NumberOf(w) = b(1) + 2 * b(2) + 4 * b(3) + 8 * b(4) + 16 * b(5) + 32 * b(6)
                        + 64 * b(7) + 128 * b(8)
  BY DEF NumberOf, PlaceValue
<1>2. \A i \in 1 .. 8 : a(i) \in 0 .. 1 /\ b(i) \in 0 .. 1
  OBVIOUS
<1>. HIDE DEF a, b
<1>3. /\ a(1) \in 0 .. 1 /\ a(2) \in 0 .. 1 /\ a(3) \in 0 .. 1 /\ a(4) \in 0 .. 1
      /\ a(5) \in 0 .. 1 /\ a(6) \in 0 .. 1 /\ a(7) \in 0 .. 1 /\ a(8) \in 0 .. 1
      /\ b(1) \in 0 .. 1 /\ b(2) \in 0 .. 1 /\ b(3) \in 0 .. 1 /\ b(4) \in 0 .. 1
      /\ b(5) \in 0 .. 1 /\ b(6) \in 0 .. 1 /\ b(7) \in 0 .. 1 /\ b(8) \in 0 .. 1
  BY <1>2
<1>4. a(1) + 2 * a(2) + 4 * a(3) + 8 * a(4) + 16 * a(5) + 32 * a(6) + 64 * a(7) + 128 * a(8)
        = b(1) + 2 * b(2) + 4 * b(3) + 8 * b(4) + 16 * b(5) + 32 * b(6) + 64 * b(7) + 128 * b(8)
  BY <1>1
<1>5. /\ a(1) = b(1) /\ a(2) = b(2) /\ a(3) = b(3) /\ a(4) = b(4)
      /\ a(5) = b(5) /\ a(6) = b(6) /\ a(7) = b(7) /\ a(8) = b(8)
  <2>1. a(8) = b(8)
    BY <1>3, <1>4, SMTT(30)
  <2>2. a(7) = b(7)
    BY <1>3, <1>4, <2>1
  <2>3. a(6) = b(6)
    BY <1>3, <1>4, <2>1, <2>2
  <2>4. a(5) = b(5)
    BY <1>3, <1>4, <2>1, <2>2, <2>3
  <2>5. a(4) = b(4)
    BY <1>3, <1>4, <2>1, <2>2, <2>3, <2>4
  <2>6. a(3) = b(3)
    BY <1>3, <1>4, <2>1, <2>2, <2>3, <2>4, <2>5
  <2>7. a(2) = b(2)
    BY <1>3, <1>4, <2>1, <2>2, <2>3, <2>4, <2>5, <2>6
  <2>8. a(1) = b(1)
    BY <1>3, <1>4, <2>1, <2>2, <2>3, <2>4, <2>5, <2>6, <2>7
  <2>. QED
    BY <2>1, <2>2, <2>3, <2>4, <2>5, <2>6, <2>7, <2>8
<1>6. \A i \in 1 .. 8 : a(i) = b(i)
  <2>1. \A i \in 1 .. 8 : i = 1 \/ i = 2 \/ i = 3 \/ i = 4 \/ i = 5 \/ i = 6 \/ i = 7 \/ i = 8
    OBVIOUS
  <2>. QED
    BY <1>5, <2>1
<1>. QED
  BY <1>6 DEF a, b

\* Different bytes have different bits.
LEMMA BitsInjective ==
    ASSUME NEW m \in UnsignedChar, NEW n \in UnsignedChar, BitsOf(m) = BitsOf(n)
    PROVE  m = n
<1>. DEFINE bit(x, i) == (x \div PlaceValue[i]) % 2
<1>0. m \in Int /\ 0 <= m /\ m <= 255 /\ n \in Int /\ 0 <= n /\ n <= 255
  BY CharValues
<1>1. \A i \in 1 .. 8 : bit(m, i) = 1 <=> bit(n, i) = 1
  BY DEF BitsOf, ByteBits
<1>2. ASSUME NEW x \in Int, 0 <= x, x <= 255
      PROVE  /\ x = bit(x, 1) + 2 * bit(x, 2) + 4 * bit(x, 3) + 8 * bit(x, 4) + 16 * bit(x, 5)
                     + 32 * bit(x, 6) + 64 * bit(x, 7) + 128 * bit(x, 8)
             /\ \A i \in 1 .. 8 : bit(x, i) \in 0 .. 1
  <2>1. /\ bit(x, 1) = (x \div 1) % 2  /\ bit(x, 2) = (x \div 2) % 2
        /\ bit(x, 3) = (x \div 4) % 2  /\ bit(x, 4) = (x \div 8) % 2
        /\ bit(x, 5) = (x \div 16) % 2 /\ bit(x, 6) = (x \div 32) % 2
        /\ bit(x, 7) = (x \div 64) % 2 /\ bit(x, 8) = (x \div 128) % 2
    BY DEF PlaceValue
  <2>2. /\ x \div 1 = x /\ x \div 2 = (x \div 1) \div 2 /\ x \div 4 = (x \div 2) \div 2
        /\ x \div 8 = (x \div 4) \div 2 /\ x \div 16 = (x \div 8) \div 2
        /\ x \div 32 = (x \div 16) \div 2 /\ x \div 64 = (x \div 32) \div 2
        /\ x \div 128 = (x \div 64) \div 2 /\ x \div 128 \in 0 .. 1
    BY <1>2
  <2>. DEFINE h(k) == x \div k
  <2>3. \A y \in Int : y = 2 * (y \div 2) + (y % 2) /\ y % 2 \in 0 .. 1
    OBVIOUS
  <2>4. /\ h(1) \in Int /\ h(2) \in Int /\ h(4) \in Int /\ h(8) \in Int
        /\ h(16) \in Int /\ h(32) \in Int /\ h(64) \in Int /\ h(128) \in 0 .. 1
    BY <2>2
  <2>5. /\ h(1) = x /\ h(1) = 2 * h(2) + bit(x, 1) /\ h(2) = 2 * h(4) + bit(x, 2)
        /\ h(4) = 2 * h(8) + bit(x, 3) /\ h(8) = 2 * h(16) + bit(x, 4)
        /\ h(16) = 2 * h(32) + bit(x, 5) /\ h(32) = 2 * h(64) + bit(x, 6)
        /\ h(64) = 2 * h(128) + bit(x, 7)
    BY <2>1, <2>2, <2>3, <2>4
  <2>6. h(128) = bit(x, 8)
    BY <2>1, <2>4
  <2>7. /\ bit(x, 1) \in 0 .. 1 /\ bit(x, 2) \in 0 .. 1 /\ bit(x, 3) \in 0 .. 1
        /\ bit(x, 4) \in 0 .. 1 /\ bit(x, 5) \in 0 .. 1 /\ bit(x, 6) \in 0 .. 1
        /\ bit(x, 7) \in 0 .. 1 /\ bit(x, 8) \in 0 .. 1
    BY <2>1, <2>3, <2>4
  <2>. HIDE DEF bit, h
  <2>8. \A i \in 1 .. 8 : i = 1 \/ i = 2 \/ i = 3 \/ i = 4 \/ i = 5 \/ i = 6 \/ i = 7 \/ i = 8
    OBVIOUS
  <2>9. \A i \in 1 .. 8 : bit(x, i) \in 0 .. 1
    BY <2>7, <2>8
  <2>10. /\ h(32) = bit(x, 6) + 2 * bit(x, 7) + 4 * bit(x, 8)
         /\ h(32) \in Int
    BY <2>4, <2>5, <2>6, <2>7
  <2>11. h(8) = bit(x, 4) + 2 * bit(x, 5) + 4 * h(32)
    <3>1. h(8) = 2 * h(16) + bit(x, 4) /\ h(16) = 2 * h(32) + bit(x, 5)
      BY <2>5
    <3>2. /\ h(8) \in Int /\ h(16) \in Int /\ h(32) \in Int
          /\ bit(x, 4) \in Int /\ bit(x, 5) \in Int
      BY <2>4, <2>7
    <3>. QED
      BY <3>1, <3>2
  <2>12. x = bit(x, 1) + 2 * bit(x, 2) + 4 * bit(x, 3) + 8 * h(8)
    <3>1. /\ x = 2 * h(2) + bit(x, 1) /\ h(2) = 2 * h(4) + bit(x, 2)
          /\ h(4) = 2 * h(8) + bit(x, 3)
      BY <2>5
    <3>2. /\ h(2) \in Int /\ h(4) \in Int /\ h(8) \in Int
          /\ bit(x, 1) \in Int /\ bit(x, 2) \in Int /\ bit(x, 3) \in Int
      BY <2>4, <2>7
    <3>3. h(2) = bit(x, 2) + 2 * bit(x, 3) + 4 * h(8)
      BY <3>1, <3>2
    <3>. QED
      BY <3>1, <3>2, <3>3
  <2>13. h(8) = bit(x, 4) + 2 * bit(x, 5) + 4 * bit(x, 6) + 8 * bit(x, 7) + 16 * bit(x, 8)
    <3>1. /\ bit(x, 4) \in Int /\ bit(x, 5) \in Int /\ bit(x, 6) \in Int
          /\ bit(x, 7) \in Int /\ bit(x, 8) \in Int
      BY <2>7
    <3>2. 4 * h(32) = 4 * bit(x, 6) + 8 * bit(x, 7) + 16 * bit(x, 8)
      BY <2>10, <3>1
    <3>. QED
      BY <2>11, <3>1, <3>2
  <2>14. x = bit(x, 1) + 2 * bit(x, 2) + 4 * bit(x, 3) + 8 * bit(x, 4) + 16 * bit(x, 5)
             + 32 * bit(x, 6) + 64 * bit(x, 7) + 128 * bit(x, 8)
    BY <2>7, <2>12, <2>13
  <2>. QED
    BY <2>9, <2>14
<1>. HIDE DEF bit
<1>3. \A i \in 1 .. 8 : bit(m, i) \in 0 .. 1 /\ bit(n, i) \in 0 .. 1
  BY <1>0, <1>2
<1>4. \A i \in 1 .. 8 : bit(m, i) = bit(n, i)
  BY <1>1, <1>3
<1>5. /\ bit(m, 1) = bit(n, 1) /\ bit(m, 2) = bit(n, 2) /\ bit(m, 3) = bit(n, 3)
      /\ bit(m, 4) = bit(n, 4) /\ bit(m, 5) = bit(n, 5) /\ bit(m, 6) = bit(n, 6)
      /\ bit(m, 7) = bit(n, 7) /\ bit(m, 8) = bit(n, 8)
  BY <1>4
<1>. QED
  BY <1>0, <1>2, <1>5

\* A round of the CRC loses nothing of the byte: what it makes of two bytes
\* differs in the low byte.
LEMMA RoundInjective ==
    ASSUME NEW crc, NEW c \in SUBSET ByteBits, NEW d \in SUBSET ByteBits,
           \A i \in 1 .. 8 : i \in calcCRC16r(crc, c) <=> i \in calcCRC16r(crc, d)
    PROVE  c = d
<1>. DEFINE swapped == (Shr(crc, 8) \cap ByteBits) \cup Shl(crc, 8)
            x1(e) == Xor(swapped, e)
            s2(e) == Shr(x1(e) \cap ByteBits, 4)
            x2(e) == Xor(x1(e), s2(e))
            s3(e) == Shl(Shl(x2(e), 8), 4)
            x3(e) == Xor(x2(e), s3(e))
            s4(e) == Shl(Shl(x3(e) \cap ByteBits, 4), 1)
<1>1. \A e : calcCRC16r(crc, e) = Xor(x3(e), s4(e))
  BY DEF calcCRC16r
<1>2. \A x, y, i : i \in Xor(x, y) <=> ~(i \in x <=> i \in y)
  BY DEF Xor
<1>3. \A x, k, i : i \in Shl(x, k) <=> i \in 1 .. 16 /\ i - k \in x
  BY DEF Shl, WordBits
<1>4. \A x, k, i : i \in Shr(x, k) <=> i \in 1 .. 16 /\ i + k \in x
  BY DEF Shr, WordBits
<1>5. \A e \in SUBSET ByteBits : x2(e) \in SUBSET (1 .. 16)
  <2>1. swapped \in SUBSET (1 .. 16)
    BY <1>3, <1>4 DEF ByteBits
  <2>. HIDE DEF swapped
  <2>2. \A e \in SUBSET ByteBits : x1(e) \in SUBSET (1 .. 16)
    <3>1. \A e \in SUBSET ByteBits : \A i \in e : i \in 1 .. 16
      BY DEF ByteBits
    <3>. QED
      BY <2>1, <3>1 DEF Xor
  <2>. HIDE DEF x1
  <2>3. \A e : s2(e) \in SUBSET (1 .. 16)
    BY <1>4
  <2>. HIDE DEF s2
  <2>. QED
    BY <2>2, <2>3, <1>2
<1>. HIDE DEF swapped
\* what the shifts bring to the low byte
<1>6. \A e : \A i \in 5 .. 8 : i \notin s2(e)
  <2>. HIDE DEF x1
  <2>1. \A i \in 5 .. 8 : i + 4 \notin ByteBits
    BY DEF ByteBits
  <2>. QED
    BY <1>4, <2>1
<1>7. \A e : \A i \in 1 .. 4 : i \in s2(e) <=> i + 4 \in x1(e)
  <2>. HIDE DEF x1
  <2>1. \A i \in 1 .. 4 : i + 4 \in ByteBits /\ i \in 1 .. 16
    BY DEF ByteBits
  <2>. QED
    BY <1>4, <2>1
<1>8. \A e \in SUBSET ByteBits : \A i \in 1 .. 8 : i \notin s3(e)
  <2>. HIDE DEF x2
  <2>1. \A i \in 1 .. 8 : (i - 4) - 8 \notin 1 .. 16
    OBVIOUS
  <2>. QED
    BY <1>3, <1>5, <2>1
<1>9. \A e : \A i \in 1 .. 5 : i \notin s4(e)
  <2>. HIDE DEF x3
  <2>1. \A i \in 1 .. 5 : ((i - 1) - 4) \notin ByteBits
    BY DEF ByteBits
  <2>. QED
    BY <1>3, <2>1
<1>10. \A e : \A i \in 6 .. 8 : i \in s4(e) <=> i - 5 \in x3(e)
  <2>. HIDE DEF x3
  <2>1. \A i \in 6 .. 8 : /\ (i - 1) - 4 = i - 5 /\ i - 5 \in ByteBits
                          /\ i \in 1 .. 16 /\ i - 1 \in 1 .. 16
    BY DEF ByteBits
  <2>. QED
    BY <1>3, <2>1
\* how the low byte of a step is that of the one before it
<1>11. \A e, i : i \in x1(e) <=> ~(i \in swapped <=> i \in e)
  BY <1>2
<1>12. \A e, i : i \in x2(e) <=> ~(i \in x1(e) <=> i \in s2(e))
  <2>. HIDE DEF x1, s2
  <2>. QED
    BY <1>2
<1>13. \A e, i : i \in x3(e) <=> ~(i \in x2(e) <=> i \in s3(e))
  <2>. HIDE DEF x2, s3
  <2>. QED
    BY <1>2
<1>14. \A e, i : i \in calcCRC16r(crc, e) <=> ~(i \in x3(e) <=> i \in s4(e))
  <2>. HIDE DEF x3, s4
  <2>. QED
    BY <1>1, <1>2
<1>. HIDE DEF x1, x2, x3, s2, s3, s4
\* and so back to the byte, five, three, four and four bits at a time
<1>15. \A i \in 1 .. 5 : i \in x3(c) <=> i \in x3(d)
  <2>1. \A i \in 1 .. 5 : i \in 1 .. 8
    OBVIOUS
  <2>. QED
    BY <1>9, <1>14, <2>1
<1>16. \A i \in 6 .. 8 : i \in x3(c) <=> i \in x3(d)
  <2>1. \A i \in 6 .. 8 : i \in 1 .. 8 /\ i - 5 \in 1 .. 5
    OBVIOUS
  <2>. QED
    BY <1>10, <1>14, <1>15, <2>1
<1>17. \A i \in 1 .. 8 : i \in x2(c) <=> i \in x2(d)
  <2>1. \A i \in 1 .. 8 : i \in 1 .. 5 \/ i \in 6 .. 8
    OBVIOUS
  <2>. QED
    BY <1>8, <1>13, <1>15, <1>16, <2>1
<1>18. \A i \in 5 .. 8 : i \in x1(c) <=> i \in x1(d)
  <2>1. \A i \in 5 .. 8 : i \in 1 .. 8
    OBVIOUS
  <2>. QED
    BY <1>6, <1>12, <1>17, <2>1
<1>19. \A i \in 1 .. 4 : i \in x1(c) <=> i \in x1(d)
  <2>1. \A i \in 1 .. 4 : i \in 1 .. 8 /\ i + 4 \in 5 .. 8
    OBVIOUS
  <2>. QED
    BY <1>7, <1>12, <1>17, <1>18, <2>1
<1>20. \A i \in 1 .. 8 : i \in c <=> i \in d
  <2>1. \A i \in 1 .. 8 : i \in 1 .. 4 \/ i \in 5 .. 8
    OBVIOUS
  <2>. QED
    BY <1>11, <1>18, <1>19, <2>1
<1>. QED
  BY <1>20 DEF ByteBits

\* What the recursion of Rounds says.
LEMMA RoundsAre ==
    ASSUME NEW a
    PROVE  /\ Rounds(a)[1] = BitsOf(a[1])
           /\ \A i \in 2 .. 6 : Rounds(a)[i] = calcCRC16r(Rounds(a)[i - 1], BitsOf(a[i]))
<1>. DEFINE IsLoop(v) == v = [i \in 1 .. 6 |-> IF i = 1 THEN BitsOf(a[1])
                                              ELSE calcCRC16r(v[i - 1], BitsOf(a[i]))]
            v0 == CHOOSE v : IsLoop(v)
            c1 == BitsOf(a[1])
            c2 == calcCRC16r(c1, BitsOf(a[2]))
            c3 == calcCRC16r(c2, BitsOf(a[3]))
            c4 == calcCRC16r(c3, BitsOf(a[4]))
            c5 == calcCRC16r(c4, BitsOf(a[5]))
            c6 == calcCRC16r(c5, BitsOf(a[6]))
            w  == [i \in 1 .. 6 |-> CASE i = 1 -> c1 [] i = 2 -> c2 [] i = 3 -> c3
                                      [] i = 4 -> c4 [] i = 5 -> c5 [] i = 6 -> c6]
<1>1. Rounds(a) = v0
  BY DEF Rounds
<1>2. IsLoop(w)
  <2>1. /\ w[1] = c1 /\ w[2] = c2 /\ w[3] = c3 /\ w[4] = c4 /\ w[5] = c5 /\ w[6] = c6
        /\ w = [i \in 1 .. 6 |-> w[i]]
    <3>. HIDE DEF c1, c2, c3, c4, c5, c6
    <3>. QED
      OBVIOUS
  <2>. HIDE DEF w
  <2>2. /\ w[1] = BitsOf(a[1])
        /\ w[2] = calcCRC16r(w[1], BitsOf(a[2])) /\ w[3] = calcCRC16r(w[2], BitsOf(a[3]))
        /\ w[4] = calcCRC16r(w[3], BitsOf(a[4])) /\ w[5] = calcCRC16r(w[4], BitsOf(a[5]))
        /\ w[6] = calcCRC16r(w[5], BitsOf(a[6]))
    BY <2>1
  <2>. HIDE DEF c1, c2, c3, c4, c5, c6
  <2>3. \A i \in 1 .. 6 : w[i] = IF i = 1 THEN BitsOf(a[1])
                                 ELSE calcCRC16r(w[i - 1], BitsOf(a[i]))
    <3>1. \A i \in 1 .. 6 : i = 1 \/ i = 2 \/ i = 3 \/ i = 4 \/ i = 5 \/ i = 6
      OBVIOUS
    <3>. QED
      BY <2>2, <3>1
  <2>4. w = [i \in 1 .. 6 |-> IF i = 1 THEN BitsOf(a[1])
                              ELSE calcCRC16r(w[i - 1], BitsOf(a[i]))]
    BY <2>1, <2>3
  <2>. QED
    BY <2>4
<1>3. IsLoop(v0)
  <2>. HIDE DEF IsLoop, w
  <2>. QED
    BY <1>2
<1>. HIDE DEF v0
<1>4. /\ v0[1] = BitsOf(a[1])
      /\ \A i \in 2 .. 6 : v0[i] = calcCRC16r(v0[i - 1], BitsOf(a[i]))
  BY <1>3
<1>. QED
  BY <1>1, <1>4

LEMMA BitsOfType == ASSUME NEW n PROVE BitsOf(n) \in SUBSET ByteBits
  BY DEF BitsOf

\* Addresses that differ in the last byte get different identifiers.
LEMMA IdsDiffer ==
    ASSUME NEW a, NEW b, \A i \in 1 .. 5 : a[i] = b[i],
           a[6] \in UnsignedChar, b[6] \in UnsignedChar, a[6] # b[6]
    PROVE  assign_dev_id(a) # assign_dev_id(b)
<1>. SUFFICES ASSUME assign_dev_id(a) = assign_dev_id(b) PROVE FALSE
  OBVIOUS
<1>. DEFINE r == Rounds(a)
            s == Rounds(b)
<1>1. /\ r[1] = BitsOf(a[1]) /\ r[2] = calcCRC16r(r[1], BitsOf(a[2]))
      /\ r[3] = calcCRC16r(r[2], BitsOf(a[3])) /\ r[4] = calcCRC16r(r[3], BitsOf(a[4]))
      /\ r[5] = calcCRC16r(r[4], BitsOf(a[5])) /\ r[6] = calcCRC16r(r[5], BitsOf(a[6]))
  BY RoundsAre
<1>2. /\ s[1] = BitsOf(b[1]) /\ s[2] = calcCRC16r(s[1], BitsOf(b[2]))
      /\ s[3] = calcCRC16r(s[2], BitsOf(b[3])) /\ s[4] = calcCRC16r(s[3], BitsOf(b[4]))
      /\ s[5] = calcCRC16r(s[4], BitsOf(b[5])) /\ s[6] = calcCRC16r(s[5], BitsOf(b[6]))
  BY RoundsAre
<1>3. NumberOf(r[6]) = NumberOf(s[6])
  BY DEF assign_dev_id
<1>. HIDE DEF r, s
<1>4. a[1] = b[1] /\ a[2] = b[2] /\ a[3] = b[3] /\ a[4] = b[4] /\ a[5] = b[5]
  OBVIOUS
<1>5. r[5] = s[5]
  BY <1>1, <1>2, <1>4
<1>6. \A i \in 1 .. 8 : i \in r[6] <=> i \in s[6]
  BY <1>3, NumberInjective
<1>7. BitsOf(a[6]) \in SUBSET ByteBits /\ BitsOf(b[6]) \in SUBSET ByteBits
  BY BitsOfType
<1>8. BitsOf(a[6]) = BitsOf(b[6])
  <2>. DEFINE x == BitsOf(a[6])
              y == BitsOf(b[6])
  <2>1. r[6] = calcCRC16r(r[5], x) /\ s[6] = calcCRC16r(r[5], y)
    BY <1>1, <1>2, <1>5
  <2>2. x \in SUBSET ByteBits /\ y \in SUBSET ByteBits
    BY <1>7
  <2>. HIDE DEF x, y
  <2>3. \A i \in 1 .. 8 : i \in calcCRC16r(r[5], x) <=> i \in calcCRC16r(r[5], y)
    BY <1>6, <2>1
  <2>4. x = y
    BY <2>2, <2>3, RoundInjective
  <2>. QED
    BY <2>4 DEF x, y
<1>9. a[6] = b[6]
  BY <1>8, BitsInjective, SMT
<1>. QED
  BY <1>9

-------------------------------------------------------------------------------
(* The sniffer.                                                            *)

\* The line holds the fields of the packet it was made from, between a control
\* byte and a zero byte.
LineHolds ==
    packet # NoPacket =>
        /\ packet.p \in Sightings
        /\ line \in Seq(UnsignedChar) /\ Len(line) = 32
        /\ line[1] = 1 /\ line[2] \in UnsignedChar \ {0} /\ line[3] = packet.id /\ line[32] = 0
        /\ \A l \in 1 .. 11 : \A o \in 0 .. Width(l) - 1 :
              line[Start(l) + o + 2] =
                  tokenChars(Digit(Value(packet.p, l), Width(l) - 1 - o))

\* What makes the properties of the sniffer inductive.
SnifferInv ==
    /\ Inv
    /\ station \in Stations /\ packet_cnt \in 1 .. CountMod - 1
    /\ LineHolds

\* A function on 1 .. n is a sequence of length n.
LEMMA SeqOfFun ==
    ASSUME NEW S, NEW n \in Nat, NEW g \in [1 .. n -> S]
    PROVE  g \in Seq(S) /\ Len(g) = n
<1>1. g \in Seq(S)
  BY SeqDef
<1>2. Len(g) \in Nat /\ DOMAIN g = 1 .. Len(g)
  BY <1>1, LenProperties
<1>3. 1 .. Len(g) = 1 .. n
  BY <1>2
<1>. QED
  BY <1>1, <1>2, <1>3

\* The frame around a storage.
Framed(mem) == <<CTRL_DATA>> \o [k \in 1 .. TxSize |-> mem[k - 1]] \o <<0>>

LEMMA FramedIs ==
    ASSUME NEW mem \in Storage
    PROVE  /\ Framed(mem) \in Seq(UnsignedChar) /\ Len(Framed(mem)) = 32
           /\ Framed(mem)[1] = 1 /\ Framed(mem)[32] = 0
           /\ \A x \in 0 .. 29 : Framed(mem)[x + 2] = mem[x]
<1>. DEFINE f == Framed(mem)
            a == <<CTRL_DATA>>
            b == [k \in 1 .. 30 |-> mem[k - 1]]
            c == <<0>>
            S == UnsignedChar
            ab == a \o b
<1>1. f = ab \o c
  BY DEF TxSize, Framed
<1>. HIDE DEF f
<1>0. 0 \in S /\ 1 \in S
  BY CharValues
<1>. HIDE DEF S
<1>2. a \in Seq(S) /\ Len(a) = 1 /\ a[1] = 1
  BY <1>0 DEF CTRL_DATA
<1>3. \A k \in 1 .. 30 : mem[k - 1] \in S
  <2>1. \A x \in 0 .. 30 : mem[x] \in S
    BY DEF S, Storage, TxSize
  <2>2. \A k \in 1 .. 30 : k - 1 \in 0 .. 30
    OBVIOUS
  <2>. QED
    BY <2>1, <2>2
<1>4. b \in [1 .. 30 -> S] /\ \A k \in 1 .. 30 : b[k] = mem[k - 1]
  BY <1>3
<1>5. c \in Seq(S) /\ Len(c) = 1 /\ c[1] = 0
  BY <1>0
<1>. HIDE DEF a, b, c
<1>6. b \in Seq(S) /\ Len(b) = 30
  <2>1. 30 \in Nat /\ b \in [1 .. 30 -> S]
    BY <1>4
  <2>2. \A n \in Nat : \A g \in [1 .. n -> S] : g \in Seq(S) /\ Len(g) = n
    BY SeqOfFun
  <2>. QED
    BY <2>1, <2>2, Zenon
<1>7. /\ ab \in Seq(S) /\ Len(ab) = 31
      /\ \A i \in 1 .. 31 : ab[i] = IF i <= 1 THEN a[i] ELSE b[i - 1]
  <2>1. /\ ab \in Seq(S) /\ Len(ab) = Len(a) + Len(b)
        /\ \A i \in 1 .. Len(a) + Len(b) :
              ab[i] = IF i <= Len(a) THEN a[i] ELSE b[i - Len(a)]
    BY <1>2, <1>6, ConcatProperties
  <2>. HIDE DEF ab
  <2>. QED
    BY <1>2, <1>6, <2>1
<1>8. /\ f \in Seq(S) /\ Len(f) = 32
      /\ \A i \in 1 .. 32 : f[i] = IF i <= 31 THEN ab[i] ELSE c[i - 31]
  <2>1. /\ f \in Seq(S) /\ Len(f) = Len(ab) + Len(c)
        /\ \A i \in 1 .. Len(ab) + Len(c) :
              f[i] = IF i <= Len(ab) THEN ab[i] ELSE c[i - Len(ab)]
    <3>. HIDE DEF ab
    <3>. QED
      BY <1>1, <1>5, <1>7, ConcatProperties
  <2>. HIDE DEF ab
  <2>. QED
    BY <1>5, <1>7, <2>1
<1>. HIDE DEF ab
<1>9. f[1] = 1 /\ f[32] = 0
  BY <1>2, <1>5, <1>7, <1>8
<1>10. ASSUME NEW x \in 0 .. 29 PROVE f[x + 2] = mem[x]
  <2>1. f[x + 2] = ab[x + 2] /\ ab[x + 2] = b[(x + 2) - 1]
    <3>. DEFINE i == x + 2
    <3>1. i \in 1 .. 32 /\ i \in 1 .. 31 /\ i <= 31 /\ ~(i <= 1)
      OBVIOUS
    <3>. HIDE DEF i
    <3>2. f[i] = ab[i] /\ ab[i] = b[i - 1]
      BY <1>7, <1>8, <3>1
    <3>. QED
      BY <3>2 DEF i
  <2>2. (x + 2) - 1 \in 1 .. 30 /\ ((x + 2) - 1) - 1 = x
    OBVIOUS
  <2>. QED
    BY <1>4, <2>1, <2>2
<1>. QED
  BY <1>8, <1>9, <1>10 DEF S, f

\* A packet is put on the line whatever the stack held.
LEMMA SniffHolds ==
    ASSUME SnifferInv, NEW p \in Sightings, NEW j \in Junk,
           Sniff(p, [o \in 0 .. TxSize |-> j])
    PROVE  LineHolds'
<1>. DEFINE stack == [o \in 0 .. TxSize |-> j]
            mem == Filled(stack, p)
<1>1. stack \in Storage
  BY DomainsAssumption DEF Storage
<1>2. packet_cnt \in UnsignedChar \ {0} /\ dev_id \in UnsignedChar
  <2>1. packet_cnt \in Int /\ 1 <= packet_cnt /\ packet_cnt <= 255
    BY DomainsAssumption DEF SnifferInv
  <2>. QED
    BY <2>1, CharValues DEF SnifferInv, Inv, TypeOK
<1>3. line' = Framed(mem) /\ packet' = [p |-> p, id |-> dev_id]
  BY DEF Sniff, Framed
<1>. HIDE DEF stack
<1>4. mem \in Storage /\ mem[0] = packet_cnt /\ mem[1] = dev_id /\ HoldsFields(mem, p, 11)
  BY <1>1, <1>2, FilledHolds
<1>. HIDE DEF mem
<1>5. /\ line' \in Seq(UnsignedChar) /\ Len(line') = 32 /\ line'[1] = 1 /\ line'[32] = 0
      /\ \A x \in 0 .. 29 : line'[x + 2] = mem[x]
  BY <1>3, <1>4, FramedIs
<1>6. line'[2] = packet_cnt /\ line'[3] = dev_id
  <2>1. line'[0 + 2] = mem[0] /\ line'[1 + 2] = mem[1]
    BY <1>5
  <2>. QED
    BY <1>4, <2>1
<1>7. ASSUME NEW l \in 1 .. 11, NEW o \in 0 .. Width(l) - 1
      PROVE  line'[Start(l) + o + 2] = tokenChars(Digit(Value(p, l), Width(l) - 1 - o))
  <2>1. Start(l) + o \in 0 .. 29
    <3>1. Start(l) \in 2 .. 28 /\ Width(l) \in 2 .. 8 /\ Start(l) + Width(l) \in 10 .. 30
      BY ValuesFit
    <3>. DEFINE a == Start(l)
                w == Width(l)
    <3>2. a \in 2 .. 28 /\ w \in 2 .. 8 /\ a + w \in 10 .. 30 /\ o \in 0 .. w - 1
      BY <1>7, <3>1
    <3>. HIDE DEF a, w
    <3>3. a + o \in 0 .. 29
      BY <3>2
    <3>. QED
      BY <3>3 DEF a
  <2>2. line'[Start(l) + o + 2] = mem[Start(l) + o]
    BY <1>5, <2>1
  <2>. QED
    BY <1>4, <2>2 DEF HoldsFields
<1>8. packet'.p = p /\ packet'.id = dev_id
  BY <1>3
<1>. QED
  BY <1>2, <1>5, <1>6, <1>7, <1>8 DEF LineHolds

\* Before the first packet there is nothing on the line.
LEMMA SnifferInitInv == Init => SnifferInv
  BY RxInitInv, DomainsAssumption DEF Init, SnifferInv, LineHolds

\* assign_dev_id replaces the identifier by another byte.
LEMMA AssignInv ==
    ASSUME SnifferInv, Assign
    PROVE  SnifferInv'
<1>1. dev_id' \in UnsignedChar
  BY NumberRange DEF Assign, assign_dev_id
<1>2. Inv'
  BY <1>1 DEF SnifferInv, Inv, TypeOK, FrameStartsAfterZero, Stored, Assign
<1>3. LineHolds'
  BY DEF SnifferInv, LineHolds, Assign
<1>. QED
  BY <1>2, <1>3 DEF SnifferInv, Assign

\* Every step keeps the invariant.
LEMMA SnifferNextInv == SnifferInv /\ [Next]_vars => SnifferInv'
<1>. SUFFICES ASSUME SnifferInv, [Next]_vars PROVE SnifferInv'
  OBVIOUS
<1>1. UNCHANGED rxVars => Inv'
  BY RxNextInv DEF SnifferInv
<1>2. UNCHANGED txVars => station' \in Stations /\ packet_cnt' \in 1 .. CountMod - 1 /\ LineHolds'
  BY DEF txVars, SnifferInv, LineHolds
<1>3. CASE Assign
  BY <1>3, AssignInv
<1>4. ASSUME NEW p \in Sightings, Ignore(p) PROVE SnifferInv'
  BY <1>1, <1>4 DEF Ignore, SnifferInv, LineHolds
<1>5. ASSUME NEW p \in Sightings, NEW j \in Junk, Sniff(p, [o \in 0 .. TxSize |-> j])
      PROVE  SnifferInv'
  <2>1. LineHolds'
    BY <1>5, SniffHolds
  <2>2. packet_cnt' \in 1 .. CountMod - 1
    BY <1>5, DomainsAssumption DEF Sniff, NextCount, SnifferInv
  <2>. QED
    BY <1>1, <1>5, <2>1, <2>2 DEF Sniff, SnifferInv
<1>6. CASE Receive
  BY <1>2, <1>6, RxNextInv DEF Receive, SnifferInv
<1>7. CASE UNCHANGED vars
  BY <1>1, <1>2, <1>7 DEF vars, SnifferInv
<1>. QED
  BY <1>3, <1>4, <1>5, <1>6, <1>7 DEF Next

\* The identifier frames of the bridge are handled, and no others, also while
\* user_init assigns an identifier and frames are sent.
LEMMA SnifferStepHandles ==
    SnifferInv /\ [Next]_vars => [HandledIffFrame]_rxVars
<1>. SUFFICES ASSUME SnifferInv, [Next]_vars PROVE HandledIffFrame \/ UNCHANGED rxVars
  OBVIOUS
<1>1. CASE Assign
  BY <1>1 DEF Assign, HandledIffFrame
<1>2. CASE Receive
  BY <1>2, StepHandles DEF Receive, SnifferInv
<1>3. CASE \E p \in Sightings : Ignore(p) \/ \E j \in Junk : Sniff(p, [o \in 0 .. TxSize |-> j])
  BY <1>3 DEF Ignore, Sniff
<1>. QED
  BY <1>1, <1>2, <1>3 DEF Next, vars

\* The characters of the fields, and where they are.
LEMMA FieldAt ==
    ASSUME NEW k \in 4 .. 31
    PROVE  \E l \in 1 .. 11 : \E o \in 0 .. Width(l) - 1 : k = Start(l) + o + 2
<1>. DEFINE At(l, o) == l \in 1 .. 11 /\ o \in 0 .. Width(l) - 1 /\ k = Start(l) + o + 2
<1>1. CASE k <= 11
  <2>1. At(1, k - 4)
    BY <1>1 DEF Start, Width
  <2>. QED
    BY <2>1
<1>2. CASE k > 11
  <2>. DEFINE l == (k - 8) \div 2
              o == (k - 8) % 2
  <2>1. l \in 2 .. 11 /\ o \in 0 .. 1 /\ k - 8 = 2 * l + o
    BY <1>2
  <2>. HIDE DEF l, o
  <2>2. At(l, o)
    BY <2>1 DEF Start, Width
  <2>. QED
    BY <2>2
<1>. QED
  BY <1>1, <1>2

\* Behind the identifier a frame is digits up to its zero byte.
LEMMA LineDigits ==
    ASSUME SnifferInv, packet # NoPacket, NEW k \in 4 .. 31
    PROVE  \E d \in 0 .. 15 : line[k] = tokenChars(d)
<1>. DEFINE p == packet.p
<1>1. /\ p \in Sightings
      /\ \A l \in 1 .. 11 : \A o \in 0 .. Width(l) - 1 :
            line[Start(l) + o + 2] = tokenChars(Digit(Value(p, l), Width(l) - 1 - o))
  BY DEF SnifferInv, LineHolds
<1>. HIDE DEF p
<1>2. PICK l \in 1 .. 11 : \E o \in 0 .. Width(l) - 1 : k = Start(l) + o + 2
  BY FieldAt
<1>3. PICK o \in 0 .. Width(l) - 1 : k = Start(l) + o + 2
  BY <1>2
<1>4. Value(p, l) \in Ints /\ Width(l) \in 2 .. 8
  BY <1>1, ValuesFit
<1>5. Width(l) - 1 - o \in 0 .. 8
  BY <1>4
<1>6. Digit(Value(p, l), Width(l) - 1 - o) \in 0 .. 15
  BY <1>4, <1>5, Digits
<1>7. line[k] = tokenChars(Digit(Value(p, l), Width(l) - 1 - o))
  BY <1>1, <1>3
<1>. QED
  BY <1>6, <1>7

LEMMA LineNotZero == SnifferInv => FrameEndsAtZero
<1>. SUFFICES ASSUME SnifferInv, packet # NoPacket, packet.id # 0
              PROVE  Len(line) = 32 /\ line[32] = 0 /\ \A k \in 1 .. 31 : line[k] # 0
  BY DEF FrameEndsAtZero
<1>1. /\ Len(line) = 32 /\ line[1] = 1 /\ line[2] # 0 /\ line[3] = packet.id
      /\ line[32] = 0
  BY DEF SnifferInv, LineHolds
<1>2. ASSUME NEW k \in 4 .. 31 PROVE line[k] # 0
  BY LineDigits, TokenChars
<1>. QED
  BY <1>1, <1>2

\* How the server cuts frames, with the 31 characters of the code.  What a
\* frame is does not depend on the other parameters.
Cut == INSTANCE Framing WITH
           FrameChars <- 31, MaxFrames <- 0, MaxLost <- 0, Kinds <- {}, IdKind <- "ascii",
           countKind <- <<>>, next <- 1, lost <- {}, segment <- <<>>, data <- <<>>,
           decoded <- {}

\* A frame as Framing has it: as long, zero where it is, and ASCII but for the
\* count and the identifier.
IsFramingFrame(s) ==
    /\ Len(s) = Cut!FrameBytes
    /\ \A k \in 1 .. Cut!FrameBytes :
          /\ s[k] = 0 <=> Cut!IsZero(k)
          /\ k \in {2, 3} \/ s[k] < 128

LEMMA LineIsFrame ==
    ASSUME SnifferInv, packet # NoPacket, packet.id # 0
    PROVE  IsFramingFrame(line)
<1>1. Cut!FrameBytes = 32
  BY DEF Cut!FrameBytes
<1>2. \A k \in 1 .. 32 : Cut!IsZero(k) <=> k = 32
  BY <1>1 DEF Cut!IsZero, Cut!Place
<1>3. Len(line) = 32 /\ line[32] = 0 /\ \A k \in 1 .. 31 : line[k] # 0
  BY LineNotZero DEF FrameEndsAtZero
<1>4. line[1] = 1
  BY DEF SnifferInv, LineHolds
<1>5. ASSUME NEW k \in 4 .. 31 PROVE line[k] < 128
  BY LineDigits, TokenChars
<1>6. \A k \in 1 .. 32 : k \in {2, 3} \/ line[k] < 128
  <2>1. \A k \in 1 .. 32 : k = 1 \/ k \in {2, 3} \/ k \in 4 .. 31 \/ k = 32
    OBVIOUS
  <2>2. line[1] < 128 /\ line[32] < 128
    BY <1>3, <1>4
  <2>. QED
    BY <1>5, <2>1, <2>2
<1>7. \A k \in 1 .. 32 : line[k] = 0 <=> Cut!IsZero(k)
  BY <1>2, <1>3
<1>. QED
  BY <1>1, <1>3, <1>6, <1>7 DEF IsFramingFrame

\* The server gets the number of each field back.
LEMMA FieldReads ==
    ASSUME SnifferInv, packet # NoPacket, NEW l \in 1 .. 11,
           Value(packet.p, l) >= 0
    PROVE  parseInt(Chunk, Start(l) - 2, Start(l) - 2 + Width(l)) = Value(packet.p, l)
<1>. DEFINE p == packet.p
            n == Value(p, l)
            w == Width(l)
            a == Start(l) - 2
            c == Chunk
<1>1. /\ p \in Sightings /\ line \in Seq(UnsignedChar) /\ Len(line) = 32
      /\ \A o \in 0 .. w - 1 :
            line[Start(l) + o + 2] = tokenChars(Digit(n, w - 1 - o))
  BY DEF SnifferInv, LineHolds
<1>. HIDE DEF p
<1>2. /\ n \in Ints /\ n < Weight(w) /\ w \in 2 .. 8
      /\ Start(l) \in 2 .. 28 /\ Start(l) + w \in 10 .. 30
  BY <1>1, ValuesFit
<1>3. n \in Int /\ 0 <= n
  BY <1>2, IntBounds DEF p
<1>4. \A x \in 1 .. 28 : c[x] = line[x + 3]
  <2>1. ASSUME NEW i \in 4 .. 31 PROVE line[i] \in UnsignedChar
    <3>1. i \in 1 .. Len(line)
      BY <1>1
    <3>. QED
      BY <1>1, <3>1, ElementOfSeq
  <2>2. \A x \in 1 .. 31 - 4 + 1 : SubSeq(line, 4, 31)[x] = line[4 + x - 1]
    BY <2>1, SubSeqProperties
  <2>3. \A x \in 1 .. 28 : x \in 1 .. 31 - 4 + 1 /\ 4 + x - 1 = x + 3
    OBVIOUS
  <2>. QED
    BY <2>2, <2>3 DEF Chunk
<1>5. Start(l) = a + 2 /\ a \in 0 .. 26 /\ a + w \in 8 .. 28
  BY <1>2
<1>. HIDE DEF a, n, w, c
<1>6. ASSUME NEW i \in 1 .. w PROVE DigitOf(c[a + i]) = Digit(n, w - i)
  <2>1. /\ a + i \in 1 .. 28 /\ i - 1 \in 0 .. w - 1 /\ w - i \in 0 .. 8
        /\ (a + i) + 3 = (a + 2) + (i - 1) + 2 /\ w - 1 - (i - 1) = w - i
    BY <1>2, <1>5
  <2>2. line[(a + 2) + (i - 1) + 2] = tokenChars(Digit(n, w - 1 - (i - 1)))
    BY <1>1, <1>5, <2>1
  <2>3. c[a + i] = tokenChars(Digit(n, w - i))
    BY <1>4, <2>1, <2>2
  <2>. QED
    BY <1>2, <2>1, <2>3, Digits, TokenChars
<1>7. w \in 1 .. 8 /\ a \in Nat
  BY <1>2, <1>5
<1>8. parseInt(c, a, a + w) = n
  BY <1>2, <1>3, <1>6, <1>7, ParseIntReads
<1>. QED
  BY <1>8 DEF a, c, n, p, w

LEMMA LineDecodes == SnifferInv => ServerDecodesPacket
<1>. SUFFICES ASSUME SnifferInv, packet # NoPacket
              PROVE  /\ Rssi(Chunk) = packet.p.rssi
                     /\ Channel(Chunk) = packet.p.channel
                     /\ Mac(Chunk) = packet.p.mac
                     /\ packet.p.timestamp >= 0 => Timestamp(Chunk) = packet.p.timestamp
  BY SMTT(30) DEF ServerDecodesPacket
<1>. DEFINE p == packet.p
<1>1. p \in Sightings
  BY DEF SnifferInv, LineHolds
<1>. HIDE DEF p
<1>2. /\ p.channel \in UnsignedChar
      /\ p.mac \in [1 .. 6 -> UnsignedChar] /\ \A i \in 1 .. 6 : p.mac[i] \in UnsignedChar
  BY <1>1, SightingBytes
<1>3. \A l \in 1 .. 11 : Value(p, l) >= 0 =>
        parseInt(Chunk, Start(l) - 2, Start(l) - 2 + Width(l)) = Value(p, l)
  BY FieldReads DEF p
<1>4. Timestamp(Chunk) = p.timestamp \/ ~(p.timestamp >= 0)
  <2>1. Start(1) - 2 = 0 /\ Start(1) - 2 + Width(1) = 8 /\ Value(p, 1) = p.timestamp
    BY DEF Start, Width, Value
  <2>. QED
    BY <1>3, <2>1 DEF Timestamp
<1>5. Channel(Chunk) = p.channel
  <2>1. Start(2) - 2 = 8 /\ Start(2) - 2 + Width(2) = 10 /\ Value(p, 2) = p.channel
    BY DEF Start, Width, Value
  <2>2. Value(p, 2) >= 0
    <3>. QED
      BY <1>2, <2>1, CharValues
  <2>. QED
    BY <1>3, <2>1, <2>2 DEF Channel
<1>6. Rssi(Chunk) = p.rssi
  <2>1. Start(3) - 2 = 10 /\ Start(3) - 2 + Width(3) = 12 /\ Value(p, 3) = p.rssi % 256
    BY DEF Start, Width, Value
  <2>2. /\ p.rssi % 256 >= 0
        /\ p.rssi = IF p.rssi % 256 >= 128 THEN (p.rssi % 256) - 256 ELSE p.rssi % 256
    BY <1>1, SightingRssi
  <2>3. parseInt(Chunk, 10, 12) = p.rssi % 256
    BY <1>3, <2>1, <2>2
  <2>. QED
    BY <2>2, <2>3 DEF Rssi
<1>7. ASSUME NEW i \in 1 .. 6
      PROVE  parseInt(Chunk, 10 + 2 * i, 12 + 2 * i) = p.mac[i]
  <2>1. /\ i + 3 \in 1 .. 11 /\ Start(i + 3) - 2 = 10 + 2 * i
        /\ Start(i + 3) - 2 + Width(i + 3) = 12 + 2 * i
    BY DEF Start, Width
  <2>2. Value(p, i + 3) = p.mac[i]
    <3>1. i + 3 \in 4 .. 9 /\ (i + 3) - 3 = i
      OBVIOUS
    <3>. QED
      BY <3>1 DEF Value
  <2>3. Value(p, i + 3) >= 0
    <3>. QED
      BY <1>2, <2>2, CharValues
  <2>. QED
    BY <1>3, <2>1, <2>2, <2>3
<1>8. Mac(Chunk) = p.mac
  <2>1. Mac(Chunk) = [i \in 1 .. 6 |-> p.mac[i]]
    BY <1>7 DEF Mac
  <2>. QED
    BY <1>2, <2>1
<1>. QED
  BY <1>4, <1>5, <1>6, <1>8 DEF p

\* Type correctness of the parser while the sniffer runs.
THEOREM SnifferTypes == Spec => []TypeOK
<1>1. SnifferInv => TypeOK
  BY DEF SnifferInv, Inv
<1>. QED
  BY SnifferInitInv, SnifferNextInv, <1>1, PTL DEF Spec

\* A control byte is the first byte after a zero byte.
THEOREM SnifferStartsAfterZero == Spec => []FrameStartsAfterZero
<1>1. SnifferInv => FrameStartsAfterZero
  BY DEF SnifferInv, Inv
<1>. QED
  BY SnifferInitInv, SnifferNextInv, <1>1, PTL DEF Spec

\* The identifier frames are handled, and nothing else is.
THEOREM SnifferHandlesIdFrames == Spec => HandlesIdFrames
<1>. QED
  BY SnifferInitInv, SnifferNextInv, SnifferStepHandles, PTL
     DEF Spec, HandlesIdFrames, HandledIffFrame

\* No conversion leaves a zero byte inside a frame, for any packet, identifier
\* but 0 and contents of the stack: the server cuts a frame where it ends.
THEOREM SnifferFrameEndsAtZero == Spec => []FrameEndsAtZero
<1>. QED
  BY SnifferInitInv, SnifferNextInv, LineNotZero, PTL DEF Spec

\* What the sniffer sends is a frame as Framing assumes it: its zero byte is
\* where the server splits, and nothing but the count and the identifier can be
\* part of a UTF-8 sequence (user_main.c:114-148, app.js:71-81).
THEOREM SnifferSendsFrames ==
    Spec => [](packet # NoPacket /\ packet.id # 0 => IsFramingFrame(line))
<1>. QED
  BY SnifferInitInv, SnifferNextInv, LineIsFrame, PTL DEF Spec

\* What was sniffed is what the server decodes: for every packet, its channel,
\* address and strength, and every time that is not negative.
THEOREM SnifferServerDecodes == Spec => []ServerDecodesPacket
<1>. QED
  BY SnifferInitInv, SnifferNextInv, LineDecodes, PTL DEF Spec

\* Assigning gives the station what no other one of its batch has.
LEMMA AssignDiffers ==
    ASSUME SnifferInv, Assign, NEW b \in LastBytes \ {station[6]}
    PROVE  BatchIds[station][b] # dev_id'
<1>. DEFINE other == [station EXCEPT ![6] = b]
<1>1. station \in Stations /\ station \in Seq(UnsignedChar) /\ Len(station) = 6
  BY StationsAssumption DEF SnifferInv
<1>2. /\ station[6] \in UnsignedChar /\ b \in UnsignedChar /\ station[6] # b
      /\ other[6] = b /\ \A i \in 1 .. 5 : other[i] = station[i]
  <2>1. DOMAIN station = 1 .. 6
    BY <1>1
  <2>2. station[6] \in UnsignedChar
    <3>1. 6 \in 1 .. Len(station)
      BY <1>1
    <3>. QED
      BY <1>1, <3>1, ElementOfSeq
  <2>3. b \in UnsignedChar /\ station[6] # b
    BY DomainsAssumption
  <2>4. other[6] = b /\ \A i \in 1 .. 5 : other[i] = station[i]
    BY <2>1
  <2>. QED
    BY <2>2, <2>3, <2>4
<1>. HIDE DEF other
<1>3. assign_dev_id(other) # assign_dev_id(station)
  BY <1>2, IdsDiffer
<1>4. BatchIds[station][b] = assign_dev_id(other)
  BY <1>1 DEF BatchIds, other
<1>. QED
  BY <1>3, <1>4 DEF Assign

\* Stations of a batch get different identifiers, whatever their addresses.
THEOREM SnifferOneIdPerStation == Spec => OneIdPerStation
<1>. DEFINE A == assigned' # assigned
                    => \A b \in LastBytes \ {station[6]} : BatchIds[station][b] # dev_id'
<1>1. SnifferInv /\ [Next]_vars => [A]_vars
  <2>. SUFFICES ASSUME SnifferInv, Next, assigned' # assigned PROVE A
    OBVIOUS
  <2>1. Assign
    BY DEF Next, Ignore, Sniff, Receive, txVars
  <2>. QED
    BY <2>1, AssignDiffers
<1>. QED
  BY SnifferInitInv, SnifferNextInv, <1>1, PTL DEF Spec, OneIdPerStation
===============================================================================
