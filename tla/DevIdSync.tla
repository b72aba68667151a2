------------------------------ MODULE DevIdSync -------------------------------
(***************************************************************************)
(* The bridge tells the sniffer its identifier: user_init of wiloc-master  *)
(* prints a few lines, which UART_SetPrintPort(UART0) sends down the same  *)
(* line as the frames, and then calls synchronize_dev_id.  The sniffer     *)
(* parses what arrives as UartParser describes.                            *)
(***************************************************************************)
EXTENDS UartParser

CONSTANTS
    Text,       \* what user_init prints, a sequence of nonzero bytes
    Identifier  \* dev_id of the bridge, 0xef in the code

VARIABLES
    pending,    \* what user_init has still to send
    line        \* bytes on their way to the sniffer

\* synchronize_dev_id
IdFrame == <<DEVICE_IDENTIFIER, Identifier, 0>>

Init == RxInit /\ pending = Text \o IdFrame /\ line = <<>>

\* uart_tx_one_char
Send ==
    /\ pending # <<>>
    /\ line' = Append(line, Head(pending))
    /\ pending' = Tail(pending)
    /\ UNCHANGED rxVars

Receive ==
    /\ line # <<>>
    /\ uart_parse(Head(line))
    /\ line' = Tail(line)
    /\ UNCHANGED pending

Next == Send \/ Receive

FairSpec ==
    /\ Init /\ [][Next]_<<rxVars, pending, line>>
    /\ WF_<<rxVars, pending, line>>(Send) /\ WF_<<rxVars, pending, line>>(Receive)

===============================================================================
