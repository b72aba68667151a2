------------------------------- MODULE WebClient -------------------------------
(***************************************************************************)
(* One browser of the server: dataService.js, which owns the socket.io     *)
(* connection, and monitorSingleCtrl.js, the page of one device with a     *)
(* window of `limit` values for every node that hears the device.          *)
(*                                                                         *)
(* Each visit of a page subscribes once more and registers one more        *)
(* listener of 'data' on the only socket; none is ever removed, so a page  *)
(* that was left goes on counting, and every record reaches all pages.     *)
(* The connection keeps the order of messages; when it is lost, what is    *)
(* under way is lost with it, and what the browser emits before the next   *)
(* one is buffered.  The server's list of the old socket is of no use to   *)
(* the new one: list counts the entries of the current socket.             *)
(*                                                                         *)
(* The values of the n-th emission are n, so that loss, repetition and     *)
(* order show; a window starts with zeros.                                 *)
(***************************************************************************)
EXTENDS Integers, Sequences, FiniteSets

CONSTANTS
    Macs,         \* devices
    Nodes,        \* keys of a record's rssi object
    limit,        \* values in a window, 600 in the code
    MaxVisits,    \* bound: visits of a page
    MaxEmits,     \* bound: emissions of a record
    MaxLosses     \* bound: losses of the connection

ASSUME LimitAssumption == limit \in Nat
ASSUME BoundsAssumption ==
    MaxVisits \in Nat /\ MaxEmits \in Nat /\ MaxLosses \in Nat

VARIABLES
    up,         \* the browser has a connection
    conn,       \* number of the current, or else the next, connection
    toServer,   \* 'subscribe' messages under way or buffered
    list,       \* server: entries of this socket in subscription[mac]
    emits,      \* records emitted so far
    toBrowser,  \* 'data' messages under way
    pages,      \* the listeners of 'data' in order: a page's device and its
                \*   groups, a window for each node; `conn` of its visit
    got         \* history: the records each listener was called with

netVars == <<up, conn>>
vars == <<netVars, toServer, list, emits, toBrowser, pages, got>>

Init ==
    /\ up = FALSE /\ conn = 1
    /\ toServer = <<>> /\ toBrowser = <<>>
    /\ list = [m \in Macs |-> 0] /\ emits = 0
    /\ pages = <<>> /\ got = <<>>

-------------------------------------------------------------------------------
(* The connection.                                                         *)

Connect ==
    /\ ~up
    /\ up' = TRUE
    /\ UNCHANGED <<conn, toServer, list, emits, toBrowser, pages, got>>

\* The network, the browser's sleep or a restart of the server.
Lose ==
    /\ up /\ conn <= MaxLosses
    /\ up' = FALSE /\ conn' = conn + 1
    /\ toServer' = <<>> /\ toBrowser' = <<>>
    /\ list' = [m \in Macs |-> 0]
    /\ UNCHANGED <<emits, pages, got>>

-------------------------------------------------------------------------------
(* The server's part in it.                                                *)

\* Mutant of Listed: every subscription makes a new list.
ListedAnew(m) == [list EXCEPT ![m] = 1]

\* subscription[msg].push(socket), to a new list for a new device only
Listed(m) == [list EXCEPT ![m] = @ + 1]

Subscribe ==
    /\ up /\ toServer # <<>>
    /\ list' = Listed(Head(toServer))
    /\ toServer' = Tail(toServer)
    /\ UNCHANGED <<netVars, emits, toBrowser, pages, got>>

\* decode: a complete record goes once to every entry of the list.
Emit ==
    /\ up /\ emits < MaxEmits
    /\ \E m \in Macs, S \in (SUBSET Nodes) \ {{}} :
        /\ list[m] > 0
        /\ toBrowser' = toBrowser \o
               [i \in 1 .. list[m] |-> [mac |-> m,
                                        rssi |-> [k \in S |-> emits + 1]]]
    /\ emits' = emits + 1
    /\ UNCHANGED <<netVars, toServer, list, pages, got>>

-------------------------------------------------------------------------------
(* The pages.                                                              *)

zeros == [i \in 1 .. limit |-> 0]

\* The controller of '/monitor/:mac' starts: subscribe emits and registers.
Visit(m) ==
    /\ Len(pages) < MaxVisits
    /\ toServer' = Append(toServer, m)
    /\ pages' = Append(pages, [mac |-> m, conn |-> conn, groups |-> <<>>])
    /\ got' = Append(got, <<>>)
    /\ UNCHANGED <<netVars, list, emits, toBrowser>>

\* Array.shift
shift(d) == IF d = <<>> THEN d ELSE Tail(d)

\* For every key of the record its group, made with zeros if it is new, gets
\* the value.
Pushed(groups, rssi) ==
    [k \in DOMAIN groups \cup DOMAIN rssi |->
        LET data == IF k \in DOMAIN groups THEN groups[k] ELSE zeros
        IN  IF k \in DOMAIN rssi THEN Append(data, rssi[k]) ELSE data]

\* Mutant of Shown: only the groups that got a value lose their oldest one.
ShownAligned(groups, rssi) ==
    LET p == Pushed(groups, rssi)
    IN  [k \in DOMAIN p |-> IF k \in DOMAIN rssi THEN shift(p[k]) ELSE p[k]]

\* The callback: then every group loses its oldest value, those of nodes that
\* are not in the record, too.
Shown(groups, rssi) ==
    LET p == Pushed(groups, rssi) IN [k \in DOMAIN p |-> shift(p[k])]

\* socket.on('data'): every listener, whatever its device.
Data ==
    /\ up /\ toBrowser # <<>>
    /\ LET msg == Head(toBrowser)
       IN  /\ pages' = [i \in DOMAIN pages |->
                          [pages[i] EXCEPT !.groups = Shown(@, msg.rssi)]]
           /\ got' = [i \in DOMAIN got |-> Append(got[i], msg)]
    /\ toBrowser' = Tail(toBrowser)
    /\ UNCHANGED <<netVars, toServer, list, emits>>

Next ==
    \/ Connect \/ Lose
    \/ Subscribe \/ Emit
    \/ Data \/ \E m \in Macs : Visit(m)

Spec == Init /\ [][Next]_vars

-------------------------------------------------------------------------------
(* Properties.                                                             *)

\* The records of s that name node k.
Hits(s, k) == {p \in DOMAIN s : k \in DOMAIN s[p].rssi}

\* Those without it behind the first of them.
Gaps(s, k) == {p \in DOMAIN s \ Hits(s, k) : \E q \in Hits(s, k) : q < p}

\* Whether d is what a window should hold after the records s: the newest of
\* the zeros and the node's values, and for each record without the node one
\* fewer of them for good; the page was visited on whichever connection, and
\* the records come from any device and repeat.
IsWindow(d, s, k) ==
    /\ Len(d) = IF Cardinality(Gaps(s, k)) < limit
                THEN limit - Cardinality(Gaps(s, k)) ELSE 0
    /\ \A x \in 1 .. Len(d) :
        LET rank == Len(d) - x + 1      \* 1 for the newest value
        IN  \/ rank > Cardinality(Hits(s, k)) /\ d[x] = 0
            \/ \E p \in Hits(s, k) :
                  /\ Cardinality({q \in Hits(s, k) : q >= p}) = rank
                  /\ d[x] = s[p].rssi[k]

\* Every window of every page, of a device or a connection that was left, too,
\* holds the newest values of its node, in order and none twice that was not
\* sent twice; it shrinks with every record without the node (the shift of
\* monitorSingleCtrl.js:101-103 is not conditional) and, once empty, shows
\* nothing more.  A page has a window for each node it has been told of.
WindowHoldsNewest ==
    \A i \in DOMAIN pages :
        LET groups == pages[i].groups
        IN  /\ DOMAIN groups = {k \in Nodes : Hits(got[i], k) # {}}
            /\ \A k \in DOMAIN groups : IsWindow(groups[k], got[i], k)

\* How often a device is subscribed: once for every visit on this connection or
\* before it came up, counting subscriptions under way, so that a record comes
\* that many times; a page visited on an earlier connection counts no more, and
\* lives on what later visits of its device bring.
OneEntryPerVisit ==
    \A m \in Macs :
        list[m] + Cardinality({i \in DOMAIN toServer : toServer[i] = m})
            = Cardinality({i \in DOMAIN pages :
                              pages[i].mac = m /\ pages[i].conn = conn})
===============================================================================
