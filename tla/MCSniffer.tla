------------------------------- MODULE MCSniffer ------------------------------
(* Instances of Sniffer for TLC.                                            *)
EXTENDS Sniffer

\* Stations of two batches of Espressif's range 18:FE:34; the identifier of the
\* first is 0.
Espressif == {<<24, 254, 52, 0, 0, 206>>, <<24, 254, 52, 158, 17, 240>>}
\* Every low and every high half of a byte.
HalfBytes == (0 .. 15) \cup {16 * h : h \in 1 .. 15}

Heard(len, rssi, mac, channel, timestamp) ==
    [len |-> len, rssi |-> rssi, mac |-> mac, byte1 |-> 128, byte2 |-> 0,
     channel |-> channel, timestamp |-> timestamp]

\* Both ends of a signal strength and of an address byte, and the microsecond
\* counter at its start, before and after it wraps into negative ints.
Boundaries == {
    Heard(128, -128, <<0, 1, 15, 16, 200, 255>>, 1, 0),
    Heard(60, -14, <<24, 254, 52, 0, 0, 9>>, 13, 2147483647),
    Heard(60, 127, <<255, 255, 255, 255, 255, 255>>, 10, -1),
    Heard(12, 0, <<0, 0, 0, 0, 0, 0>>, 10, 270544960)}
===============================================================================
