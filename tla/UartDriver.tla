------------------------------ MODULE UartDriver ------------------------------
(***************************************************************************)
(* driver/uart.c of the bridge on UART0: tasks and the interrupt handler   *)
(* share the transmit FIFO through uart_tx_one_char, and the handler       *)
(* uart0_rx_intr_handler serves the causes of an interrupt one by one.     *)
(*                                                                         *)
(* The FIFOs are counts: which characters they hold matters to Bridge and  *)
(* to DevIdSync only.  The hardware raises RXFIFO_FULL and TXFIFO_EMPTY    *)
(* while the count is at its threshold, and RXFIFO_TOUT while characters   *)
(* wait; a cause stays in raw until it is cleared, whatever the count does *)
(* meanwhile.  The handler is not interrupted by tasks.                    *)
(***************************************************************************)
EXTENDS Integers, FiniteSets

CONSTANTS
    Tasks,        \* tasks that print: init, main, write tasks, Wi-Fi events
    TxDepth,      \* places of the transmit FIFO, 128 in the chip
    TxLimit,      \* uart_tx_one_char waits while the count is not below, 126
    RxDepth,      \* places of the receive FIFO, 128
    FullThresh,   \* UART_RX_FifoFullIntrThresh, 10
    EmptyThresh,  \* UART_TX_FifoEmptyIntrThresh, 20
    EmptyChars,   \* characters that printf("empty\n\r") makes, 7
    SayChars,     \* bound: characters the callback prints
    MaxBytes      \* bound: characters that arrive

ASSUME FifoAssumption ==
    /\ TxLimit \in Nat \ {0} /\ TxDepth \in Nat /\ TxLimit <= TxDepth
    /\ RxDepth \in Nat /\ EmptyThresh \in Nat /\ MaxBytes \in Nat
    /\ EmptyChars \in Nat /\ SayChars \in Nat
ASSUME ThreshAssumption == FullThresh \in Nat /\ FullThresh >= 3
ASSUME TasksAssumption == IsFiniteSet(Tasks) /\ "isr" \notin Tasks

VARIABLES
    tx,         \* characters in the transmit FIFO
    pc,         \* whether a context is past the test of uart_tx_one_char
    lost,       \* history: a character was written to a full transmit FIFO
    most,       \* history: most contexts that were past the test at once
    rx,         \* characters in the receive FIFO
    arrived,    \* characters arrived so far, for the bound
    raw, ena,   \* UART_INT_RAW and UART_INT_ENA; UART_INT_ST is their meet
    hpc,        \* where the handler is, "out" when it does not run
    cause,      \* the branch it is in
    todo, say,  \* characters it still has to read and to print
    sock_connected

lineVars    == <<rx, arrived>>
handlerVars == <<hpc, cause, todo, say>>
driverVars ==
    <<tx, pc, lost, most, lineVars, raw, ena, handlerVars, sock_connected>>

Contexts == Tasks \cup {"isr"}
Causes == {"FRM_ERR", "FULL", "TOUT", "EMPTY"}

\* uart_init_new: both FIFOs reset, no cause pending, four causes enabled.
DriverInit ==
    /\ tx = 0 /\ pc = [c \in Contexts |-> "looks"] /\ lost = FALSE /\ most = 0
    /\ rx = 0 /\ arrived = 0
    /\ raw = {} /\ ena = Causes
    /\ hpc = "out" /\ cause = "FULL" /\ todo = 0 /\ say = 0
    /\ sock_connected = FALSE

-------------------------------------------------------------------------------
(* The hardware.                                                           *)

\* A character arrives, with a framing error or without; a full FIFO drops it.
RxChar ==
    /\ arrived < MaxBytes
    /\ arrived' = arrived + 1
    /\ rx' = IF rx < RxDepth THEN rx + 1 ELSE rx
    /\ raw' \in {raw, raw \cup {"FRM_ERR"}}
    /\ UNCHANGED <<tx, pc, lost, most, ena, handlerVars, sock_connected>>

\* The line takes a character out of the transmit FIFO.
TxChar ==
    /\ tx > 0
    /\ tx' = tx - 1
    /\ UNCHANGED <<pc, lost, most, lineVars, raw, ena, handlerVars,
                   sock_connected>>

\* Whether the level of cause c is there.
Level(c) == \/ c = "FULL"  /\ rx >= FullThresh
            \/ c = "TOUT"  /\ rx > 0
            \/ c = "EMPTY" /\ tx < EmptyThresh

Raise(c) ==
    /\ Level(c) /\ c \notin raw
    /\ raw' = raw \cup {c}
    /\ UNCHANGED <<tx, pc, lost, most, lineVars, ena, handlerVars,
                   sock_connected>>

-------------------------------------------------------------------------------
(* uart_tx_one_char, called by tasks and by the handler.                   *)

\* Who may take a step: a task outside the handler, the handler when it
\* prints.
Runs(c) == IF c = "isr" THEN hpc = "call" /\ say > 0 ELSE hpc = "out"

\* Mutant of Room: one character too many passes the test.
RoomOneMore == tx <= TxLimit

\* The test that ends the loop of uart_tx_one_char.
Room == tx < TxLimit

\* Contexts between the test and the write.
Past == {c \in Contexts : pc[c] = "writes"}

\* The loop reads the count until there is room.
TxLook(c) ==
    /\ Runs(c) /\ pc[c] = "looks"
    /\ Room
    /\ pc' = [pc EXCEPT ![c] = "writes"]
    /\ most' = IF Cardinality(Past') > most THEN Cardinality(Past') ELSE most
    /\ UNCHANGED <<tx, lost, lineVars, raw, ena, handlerVars, sock_connected>>

\* The write to UART_FIFO, whatever the count is by now.
TxWrite(c) ==
    /\ Runs(c) /\ pc[c] = "writes"
    /\ pc' = [pc EXCEPT ![c] = "looks"]
    /\ IF tx < TxDepth THEN tx' = tx + 1 /\ lost' = lost
                       ELSE tx' = tx /\ lost' = TRUE
    /\ say' = IF c = "isr" THEN say - 1 ELSE say
    /\ UNCHANGED <<most, lineVars, raw, ena, hpc, cause, todo, sock_connected>>

-------------------------------------------------------------------------------
(* uart0_rx_intr_handler and the callback uart_rx.                         *)

Status == raw \cap ena

\* An enabled cause interrupts the running task.
Interrupt ==
    /\ hpc = "out" /\ Status # {}
    /\ hpc' = "status"
    /\ UNCHANGED <<tx, pc, lost, most, lineVars, raw, ena, cause, todo, say,
                   sock_connected>>

\* The branch the handler takes: the first cause in the order of the tests.
First == IF "FRM_ERR" \in Status THEN "FRM_ERR"
         ELSE IF "FULL" \in Status THEN "FULL"
         ELSE IF "TOUT" \in Status THEN "TOUT"
         ELSE "EMPTY"

\* UART_INT_ST is read; the loop ends when no cause is left.
ReadStatus ==
    /\ hpc = "status"
    /\ IF Status = {}
       THEN hpc' = "out" /\ UNCHANGED cause
       ELSE /\ cause' = First
            /\ hpc' = IF First = "FRM_ERR" THEN "clear" ELSE "branch"
    /\ UNCHANGED <<tx, pc, lost, most, lineVars, raw, ena, todo, say,
                   sock_connected>>

\* The branches FULL and TOUT: the count of waiting characters is passed to
\* uart_rx, which reads as many, and may print a message or two; without a
\* connection it reads a single one.
CallUartRx ==
    /\ hpc = "branch" /\ cause \in {"FULL", "TOUT"}
    /\ hpc' = "call"
    /\ \/ sock_connected  /\ todo' = rx /\ say' \in 0 .. SayChars
       \/ ~sock_connected /\ todo' = 1  /\ say' = 0
    /\ UNCHANGED <<tx, pc, lost, most, lineVars, raw, ena, cause,
                   sock_connected>>

\* The branch EMPTY prints its name.
SayEmpty ==
    /\ hpc = "branch" /\ cause = "EMPTY"
    /\ hpc' = "call" /\ say' = EmptyChars
    /\ UNCHANGED <<tx, pc, lost, most, lineVars, raw, ena, cause, todo,
                   sock_connected>>

\* uart_rx_one_char; an empty FIFO has nothing to give.
ReadChar ==
    /\ hpc = "call" /\ todo > 0
    /\ todo' = todo - 1
    /\ rx' = IF rx > 0 THEN rx - 1 ELSE rx
    /\ UNCHANGED <<tx, pc, lost, most, arrived, raw, ena, hpc, cause, say,
                   sock_connected>>

CallReturns ==
    /\ hpc = "call" /\ todo = 0 /\ say = 0
    /\ hpc' = "clear"
    /\ UNCHANGED <<tx, pc, lost, most, lineVars, raw, ena, cause, todo, say,
                   sock_connected>>

\* Mutant of Cleared: a timeout is never cleared.
ClearedButTimeout == raw \ ({cause} \ {"TOUT"})

\* The write to UART_INT_CLR.
Cleared == raw \ {cause}

ClearCause ==
    /\ hpc = "clear"
    /\ raw' = Cleared
    /\ hpc' = IF cause = "EMPTY" THEN "disable" ELSE "status"
    /\ UNCHANGED <<tx, pc, lost, most, lineVars, ena, cause, todo, say,
                   sock_connected>>

\* Mutant of DisableEmpty: the cause stays enabled.
EmptyStaysEnabled ==
    /\ hpc = "disable"
    /\ hpc' = "status"
    /\ UNCHANGED <<tx, pc, lost, most, lineVars, raw, ena, cause, todo, say,
                   sock_connected>>

\* The branch EMPTY is taken once: its cause is disabled for good.
DisableEmpty ==
    /\ hpc = "disable"
    /\ ena' = ena \ {"EMPTY"}
    /\ hpc' = "status"
    /\ UNCHANGED <<tx, pc, lost, most, lineVars, raw, cause, todo, say,
                   sock_connected>>

\* A task of the bridge connects or loses the connection.
Reconnect ==
    /\ hpc = "out"
    /\ sock_connected' = ~sock_connected
    /\ UNCHANGED <<tx, pc, lost, most, lineVars, raw, ena, handlerVars>>

-------------------------------------------------------------------------------
Handler ==
    \/ Interrupt \/ ReadStatus \/ CallUartRx \/ SayEmpty \/ ReadChar
    \/ CallReturns \/ ClearCause \/ DisableEmpty
    \/ TxLook("isr") \/ TxWrite("isr")

DriverNext ==
    \/ RxChar
    \/ TxChar
    \/ \E c \in Causes : Raise(c)
    \/ \E t \in Tasks : TxLook(t) \/ TxWrite(t)
    \/ Handler
    \/ Reconnect

\* The processor takes a pending interrupt and goes on with the handler; the
\* line sends; a level that stays is noticed.  Tasks need not print.
Fairness ==
    /\ WF_driverVars(Handler)
    /\ WF_driverVars(TxChar)
    /\ \A c \in Causes : WF_driverVars(Raise(c))

DriverSpec == DriverInit /\ [][DriverNext]_driverVars /\ Fairness

-------------------------------------------------------------------------------
(* Properties.                                                             *)

\* What is written fits, although the count is read in one step and the
\* character written in another, by any number of tasks and a handler that
\* interrupts them: a character is lost only after more contexts were between
\* the two at once than the margin of uart_tx_one_char has room for, three with
\* 126 of 128 places.  How many there are in all does not matter
\* (uart.c:33-40).
NothingDropped == most <= TxDepth - TxLimit + 1 => ~lost

\* The handler reads no more characters than wait, whichever causes are
\* pending and in whatever order they came: also the single character that
\* uart_rx reads without a connection is there, although the count may be 0
\* when a timeout that was noticed earlier is served.
ReadFindsChar == hpc = "call" => todo <= rx

\* Characters that wait are read and the handler comes to its end: no cause is
\* served again and again, and none is left out.
WaitingCharsServed == rx > 0 ~> (rx = 0 /\ hpc = "out")
===============================================================================
