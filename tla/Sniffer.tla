-------------------------------- MODULE Sniffer -------------------------------
(***************************************************************************)
(* The sniffer ESP8266, wiloc/user/user_main.c: it chooses an identifier,  *)
(* sends a frame for every Wi-Fi packet (promisc_cb, uart_tx), which the   *)
(* server takes apart again (app.js:90-103), and meanwhile the receive     *)
(* interrupt of UartParser may replace the identifier.                     *)
(*                                                                         *)
(* The storage of uart_data_struct, and the byte behind it that the last   *)
(* terminator of itstr overwrites, is on the stack and not initialised:    *)
(* every call finds some byte or other in it.                              *)
(***************************************************************************)
EXTENDS UartParser, ItStr, DevId

CONSTANTS
    Stations,       \* addresses a station may have
    LastBytes,      \* last bytes of the addresses of its batch
    Sightings,      \* packets, with the channel and the system_get_time()
                    \*   (as the int that itstr gets) at which they are heard
    Junk,           \* what the stack may hold
    CountMod,       \* values of an unsigned char, 256 in the code
    NoPacket

CTRL_DATA == 1

\* A signal strength: signed rssi:8.
SignedRssi == -128 .. 127

ASSUME StationsAssumption ==
    \A s \in Stations : s \in Seq(UnsignedChar) /\ Len(s) = 6
ASSUME SightingsAssumption ==
    \A p \in Sightings :
        /\ p.timestamp \in Ints /\ p.rssi \in SignedRssi
        /\ p.channel \in UnsignedChar /\ p.mac \in [1 .. 6 -> UnsignedChar]
        /\ p.byte1 \in UnsignedChar /\ p.byte2 \in UnsignedChar
ASSUME DomainsAssumption ==
    LastBytes \subseteq UnsignedChar /\ Junk \subseteq UnsignedChar /\ CountMod \in 2 .. 256

VARIABLES
    station,        \* this station's address
    assigned,       \* user_init has run assign_dev_id
    packet_cnt,
    line,           \* the frame the last call sent, if it sent one
    packet          \* history: what it was sent for, and the identifier then

txVars == <<station, assigned, packet_cnt, line, packet>>
vars   == <<rxVars, txVars>>

\* Offsets of the fields in uart_data_struct.
TxSize == 30
Offset == [count |-> 0, identifier |-> 1, timestamp |-> 2, channel |-> 10,
           rssi |-> 12, mac |-> 14, byte1 |-> 26, byte2 |-> 28]

\* (unsigned char) rssi
unsigned_char(x) == x % 256

\* Mutant of Fields: the timestamp is converted last.
FieldsReordered(p) ==
    <<<<Offset.channel, 2, p.channel>>,
      <<Offset.rssi, 2, unsigned_char(p.rssi)>>>>
    \o [i \in 1 .. 6 |-> <<Offset.mac + 2 * (i - 1), 2, p.mac[i]>>]
    \o <<<<Offset.byte1, 2, p.byte1>>, <<Offset.byte2, 2, p.byte2>>,
         <<Offset.timestamp, 8, p.timestamp>>>>

\* The calls of itstr, in order: <<offset, width, value>>.
Fields(p) ==
    <<<<Offset.timestamp, 8, p.timestamp>>,
      <<Offset.channel, 2, p.channel>>,
      <<Offset.rssi, 2, unsigned_char(p.rssi)>>>>
    \o [i \in 1 .. 6 |-> <<Offset.mac + 2 * (i - 1), 2, p.mac[i]>>]
    \o <<<<Offset.byte1, 2, p.byte1>>, <<Offset.byte2, 2, p.byte2>>>>

\* The storage after the first j conversions.  Every one of them puts a zero
\* byte behind its field.
Filling(stack, p) ==
    LET mem[j \in 0 .. Len(Fields(p))] ==
          IF j = 0
          THEN [stack EXCEPT ![Offset.count] = packet_cnt, ![Offset.identifier] = dev_id]
          ELSE LET f == Fields(p)[j] IN itstr(mem[j - 1], f[1], f[2], f[3], 16, f[2])
    IN  mem

Filled(stack, p) == Filling(stack, p)[Len(Fields(p))]

\* packet_cnt++ in a byte, skipping zero.
NextCount == IF packet_cnt + 1 = CountMod THEN 1 ELSE packet_cnt + 1

\* The identifier before user_init has run is 1.
Init ==
    /\ RxInit
    /\ station \in Stations /\ assigned = FALSE /\ packet_cnt = 1
    /\ line = <<>> /\ packet = NoPacket

\* assign_dev_id, in user_init; the interrupt is already enabled.
Assign ==
    /\ ~assigned
    /\ assigned' = TRUE
    /\ dev_id' = assign_dev_id(station)
    /\ handled' = FALSE
    /\ UNCHANGED <<state, uart_ctrl, current_pos, dev_id_struct, run,
                   station, packet_cnt, line, packet>>

\* promisc_cb and uart_tx, for a packet that carries more than its RxControl.
Sniff(p, stack) ==
    /\ assigned /\ p.len # 12
    /\ LET tx == Filled(stack, p)
       IN  line' = <<CTRL_DATA>> \o [k \in 1 .. TxSize |-> tx[k - 1]] \o <<0>>
    /\ packet_cnt' = NextCount
    /\ packet' = [p |-> p, id |-> dev_id]
    /\ UNCHANGED <<station, assigned, rxVars>>

\* A packet of length 12 is ignored.
Ignore(p) ==
    /\ assigned /\ p.len = 12
    /\ line' = <<>> /\ packet' = NoPacket
    /\ UNCHANGED <<station, assigned, packet_cnt, rxVars>>

\* uart_rx, on a byte from the bridge.
Receive == RxNext /\ UNCHANGED txVars

Next ==
    \/ Assign
    \/ \E p \in Sightings :
        Ignore(p) \/ \E j \in Junk : Sniff(p, [o \in 0 .. TxSize |-> j])
    \/ Receive

Spec == Init /\ [][Next]_vars

-------------------------------------------------------------------------------
(* The server's decode.                                                    *)

DigitOf(c) == IF c \in 48 .. 57 THEN c - 48 ELSE c - 87

\* parseInt(chunk.substring(from, to), 16)
parseInt(chunk, from, to) ==
    LET v[i \in from .. to] == IF i = from THEN 0 ELSE 16 * v[i - 1] + DigitOf(chunk[i])
    IN  v[to]

\* The chunk decode gets: without the zero byte and the first three characters.
Chunk == SubSeq(line, 4, 31)

Rssi(chunk) ==
    LET rssi == parseInt(chunk, 10, 12)
    IN  IF rssi >= 128 THEN rssi - 256 ELSE rssi

Channel(chunk) == parseInt(chunk, 8, 10)

Mac(chunk) == [i \in 1 .. 6 |-> parseInt(chunk, 10 + 2 * i, 12 + 2 * i)]

Timestamp(chunk) == parseInt(chunk, 0, 8)

-------------------------------------------------------------------------------
\* A frame is cut at its zero byte, so there is none inside it, although every
\* conversion writes one behind its field, into the next field: the fields are
\* filled from the left and each of them completely, and neither the count nor
\* an identifier other than 0 is zero (user_main.c:114-148, itstr.c:109).
FrameEndsAtZero ==
    (packet # NoPacket /\ packet.id # 0)
        => /\ Len(line) = 32 /\ line[32] = 0
           /\ \A k \in 1 .. 31 : line[k] # 0

\* What the server decodes is what was sniffed: channel, address, and a signal
\* strength that was made unsigned, printed in hexadecimal, parsed and made
\* signed again; the time only for the 35 minutes for which it is not negative
\* as an int (user_main.c:121-131, itstr.c:82-115, app.js:94-112).
ServerDecodesPacket ==
    packet # NoPacket =>
        /\ Rssi(Chunk) = packet.p.rssi
        /\ Channel(Chunk) = packet.p.channel
        /\ Mac(Chunk) = packet.p.mac
        /\ packet.p.timestamp >= 0 => Timestamp(Chunk) = packet.p.timestamp

\* The identifiers of a batch, whose addresses differ in the last byte only.
BatchIds ==
    [s \in Stations |-> [b \in LastBytes |-> assign_dev_id([s EXCEPT ![6] = b])]]

\* Stations of one batch are assigned different identifiers
\* (user_main.c:274-297).
OneIdPerStation ==
    [][assigned' # assigned
        => \A b \in LastBytes \ {station[6]} : BatchIds[station][b] # dev_id']_vars

===============================================================================
