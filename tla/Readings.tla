------------------------------- MODULE Readings -------------------------------
(***************************************************************************)
(* What the server promises to whoever watches a device: a record it sends *)
(* out holds at most one signal strength per node, each of which that node *)
(* reported of that device less than a window ago.                         *)
(***************************************************************************)
EXTENDS Integers

CONSTANTS Nodes, Macs, Rssi, NoRssi,
          Window        \* length of the window in ticks

VARIABLES heard,        \* readings less than a window old
          out           \* records sent out by the last step

vars == <<heard, out>>

Reading == [mac: Macs, node: Nodes, rssi: Rssi, age: 0 .. Window - 1]
Record  == [mac: Macs, rssi: [Nodes -> Rssi \cup {NoRssi}]]

\* Every entry of record e was heard.
Supported(e, readings) ==
    \A n \in Nodes : e.rssi[n] # NoRssi =>
        \E r \in readings : r.mac = e.mac /\ r.node = n /\ r.rssi = e.rssi[n]

Init == heard = {} /\ out = {}

\* A reading comes in and may send out one record of its device.
Hear(m, n, r) ==
    /\ heard' = heard \cup {[mac |-> m, node |-> n, rssi |-> r, age |-> 0]}
    /\ \/ out' = {}
       \/ \E e \in Record : e.mac = m /\ Supported(e, heard') /\ out' = {e}

\* Readings grow older and leave the window.
Tick ==
    /\ heard' = {[r EXCEPT !.age = @ + 1] : r \in {x \in heard : x.age + 1 < Window}}
    /\ out' = {}

Quiet == heard' = heard /\ out' = {}

Next == Tick \/ Quiet \/ \E m \in Macs, n \in Nodes, r \in Rssi : Hear(m, n, r)

Spec == Init /\ [][Next]_vars

===============================================================================
