-------------------------------- MODULE Server --------------------------------
(***************************************************************************)
(* The server, server/app.js: nodes report frames over TCP, the server     *)
(* gathers what several nodes heard of one device into a record, and sends *)
(* the record to the browsers that subscribed to the device.               *)
(*                                                                         *)
(* One event handler of the Node process is one step.  Time is counted in  *)
(* ticks of which Window make 1000 ms; ages are kept instead of a clock    *)
(* and stop growing at Window, because the code only asks whether 1000 ms  *)
(* have passed.  A data event brings one decoded frame or none: a segment  *)
(* with several frames is the same as several events of the same tick.     *)
(* How a segment becomes frames is modelled in Framing.                    *)
(***************************************************************************)
EXTENDS Integers, Sequences, FiniteSets

CONSTANTS
    Nodes,          \* last octets of the nodes' addresses
    Conns,          \* names for TCP connections, used again once closed
    Browsers,       \* names for socket.io connections
    Macs,           \* devices
    Rssi,           \* signal strengths
    NoRssi,         \* no entry for a node
    NoRecord,       \* no record for a device
    NoNode,         \* no connection
    Window,         \* 1000 ms in ticks
    MaxSubs         \* bound: entries in one subscription list

ASSUME WindowAssumption == Window \in Nat \ {0}
ASSUME BoundsAssumption == MaxSubs \in Nat
ASSUME FinitenessAssumption == IsFiniteSet(Conns)
ASSUME ValuesAssumption ==
    /\ NoRssi \notin Rssi /\ NoNode \notin Nodes
    /\ NoRecord \notin [age: 0 .. Window, rssi: [Nodes -> Rssi \cup {NoRssi}]]

VARIABLES
    up,             \* the process runs
    nodeOf,         \* which node an open connection comes from, or NoNode
    alive,          \* its peer is still there
    idle,           \* ticks since its last activity (socket.setTimeout)
    nodeCount,
    currentMacs,    \* devices heard since the process started
    packets,        \* the record of each device
    subscription,   \* who subscribed to each device, in order
    connected,      \* socket.io connections that are up
    sent,           \* records emitted by the last step, with their receivers
    heard,          \* history: readings less than Window old
    stable          \* history: no connection came or went since the record of
                    \*   a device was started

netVars  == <<nodeOf, alive, idle, nodeCount>>
aggVars  == <<currentMacs, packets>>
webVars  == <<subscription, connected>>
histVars == <<heard, stable>>
vars     == <<up, netVars, aggVars, webVars, sent, histVars>>

Open == {c \in Conns : nodeOf[c] # NoNode}

\* The keys of a record's rssi object.
Keys(rssi) == {n \in Nodes : rssi[n] # NoRssi}

NoEntries == [n \in Nodes |-> NoRssi]

Init ==
    /\ up = TRUE
    /\ nodeOf = [c \in Conns |-> NoNode]
    /\ alive = [c \in Conns |-> FALSE] /\ idle = [c \in Conns |-> 0]
    /\ nodeCount = 0
    /\ currentMacs = {} /\ packets = [m \in Macs |-> NoRecord]
    /\ subscription = [m \in Macs |-> <<>>] /\ connected = {}
    /\ sent = {} /\ heard = {} /\ stable = [m \in Macs |-> FALSE]

-------------------------------------------------------------------------------
(* Connections of nodes: the listener of net.createServer.                 *)

Unsettle == stable' = [m \in Macs |-> FALSE]

\* Mutant of Accept: a node is not counted.
AcceptUncounted(c, n) ==
    /\ up /\ nodeOf[c] = NoNode
    /\ nodeOf' = [nodeOf EXCEPT ![c] = n]
    /\ alive' = [alive EXCEPT ![c] = TRUE]
    /\ idle' = [idle EXCEPT ![c] = 0]
    /\ sent' = {} /\ Unsettle
    /\ UNCHANGED <<up, nodeCount, aggVars, webVars, heard>>

\* A node connects; the timeout of 1000 ms starts.
Accept(c, n) ==
    /\ up /\ nodeOf[c] = NoNode
    /\ nodeOf' = [nodeOf EXCEPT ![c] = n]
    /\ alive' = [alive EXCEPT ![c] = TRUE]
    /\ idle' = [idle EXCEPT ![c] = 0]
    /\ nodeCount' = nodeCount + 1
    /\ sent' = {} /\ Unsettle
    /\ UNCHANGED <<up, aggVars, webVars, heard>>

Release(c) ==
    /\ nodeOf' = [nodeOf EXCEPT ![c] = NoNode]
    /\ alive' = [alive EXCEPT ![c] = FALSE]
    /\ idle' = [idle EXCEPT ![c] = 0]

\* Mutant of End: the count is left alone.
EndUncounted(c) ==
    /\ up /\ c \in Open /\ alive[c]
    /\ Release(c)
    /\ sent' = {} /\ Unsettle
    /\ UNCHANGED <<up, nodeCount, aggVars, webVars, heard>>

\* Mutant of End: the listener of 'timeout' runs as well.
EndCountedTwice(c) ==
    /\ up /\ c \in Open /\ alive[c]
    /\ Release(c)
    /\ nodeCount' = nodeCount - 2
    /\ sent' = {} /\ Unsettle
    /\ UNCHANGED <<up, aggVars, webVars, heard>>

\* The peer closes its side: 'end', after which the server's side closes too
\* (allowHalfOpen is false).
End(c) ==
    /\ up /\ c \in Open /\ alive[c]
    /\ Release(c)
    /\ nodeCount' = nodeCount - 1
    /\ sent' = {} /\ Unsettle
    /\ UNCHANGED <<up, aggVars, webVars, heard>>

\* Mutant of Timeout: the socket is not destroyed.
TimeoutKeepsSocket(c) ==
    /\ up /\ c \in Open /\ idle[c] = Window
    /\ idle' = [idle EXCEPT ![c] = 0]
    /\ sent' = {} /\ Unsettle
    /\ UNCHANGED <<up, nodeOf, alive, nodeCount, aggVars, webVars, heard>>

\* Nothing came for 1000 ms: 'timeout' destroys the socket.
Timeout(c) ==
    /\ up /\ c \in Open /\ idle[c] = Window
    /\ Release(c)
    /\ nodeCount' = nodeCount - 1
    /\ sent' = {} /\ Unsettle
    /\ UNCHANGED <<up, aggVars, webVars, heard>>

-------------------------------------------------------------------------------
(* Data of nodes: the 'data' listener and decode.                          *)

\* A segment without a chunk of 31 characters: only the timeout is restarted.
DataWithoutFrame(c) ==
    /\ up /\ c \in Open /\ alive[c]
    /\ idle' = [idle EXCEPT ![c] = 0]
    /\ sent' = {}
    /\ UNCHANGED <<up, nodeOf, alive, nodeCount, aggVars, webVars, histVars>>

\* Mutant of Fresh: the age of the record is not looked at.
FreshForever(m) == packets[m] # NoRecord

Fresh(m) == packets[m] # NoRecord /\ packets[m].age < Window

\* Mutant of Joined: the last report of a node stands.
JoinedLast(m, n, r) == [packets[m].rssi EXCEPT ![n] = r]

\* The entries of m's record once node n has reported r: the first report stands.
Joined(m, n, r) ==
    IF packets[m].rssi[n] = NoRssi THEN [packets[m].rssi EXCEPT ![n] = r]
                                   ELSE packets[m].rssi

\* How many times a record of m is emitted to each browser: once per entry of
\* the list whose socket is connected.
Emits(m) ==
    [b \in Browsers |-> Cardinality({k \in DOMAIN subscription[m] :
                                        subscription[m][k] = b /\ b \in connected})]

\* A chunk of 31 characters is decoded: node nodeOf[c] heard device m at r.
\* Joining a fresh record may complete it; a new record is never complete.
DataWithFrame(c, m, r) ==
    LET n == nodeOf[c]
        reading == [mac |-> m, node |-> n, rssi |-> r, age |-> 0]
    IN  /\ up /\ c \in Open /\ alive[c]
        /\ idle' = [idle EXCEPT ![c] = 0]
        /\ currentMacs' = currentMacs \cup {m}
        /\ heard' = heard \cup {reading}
        /\ IF Fresh(m)
           THEN /\ packets' = [packets EXCEPT ![m].rssi = Joined(m, n, r)]
                /\ sent' = IF /\ Cardinality(Keys(Joined(m, n, r))) = nodeCount
                              /\ subscription[m] # <<>>
                           THEN {[mac |-> m, rssi |-> Joined(m, n, r),
                                  to |-> Emits(m)]}
                           ELSE {}
                /\ UNCHANGED stable
           ELSE /\ packets' = [packets EXCEPT
                        ![m] = [age |-> 0, rssi |-> [NoEntries EXCEPT ![n] = r]]]
                /\ sent' = {}
                /\ stable' = [stable EXCEPT ![m] = TRUE]
        /\ UNCHANGED <<up, nodeOf, alive, nodeCount, webVars>>

-------------------------------------------------------------------------------
(* Browsers: the 'connection' listener of socket.io.                       *)

BrowserConnect(b) ==
    /\ up /\ b \notin connected
    /\ \A m \in Macs : \A k \in DOMAIN subscription[m] : subscription[m][k] # b
    /\ connected' = connected \cup {b}
    /\ sent' = {}
    /\ UNCHANGED <<up, netVars, aggVars, subscription, histVars>>

\* 'disconnect' only writes a log line: the socket stays in the lists.
BrowserDisconnect(b) ==
    /\ up /\ b \in connected
    /\ connected' = connected \ {b}
    /\ sent' = {}
    /\ UNCHANGED <<up, netVars, aggVars, subscription, histVars>>

\* 'subscribe' appends, whether the socket is in the list or not.
Subscribe(b, m) ==
    /\ up /\ b \in connected
    /\ Len(subscription[m]) < MaxSubs
    /\ subscription' = [subscription EXCEPT ![m] = Append(@, b)]
    /\ sent' = {}
    /\ UNCHANGED <<up, netVars, aggVars, connected, histVars>>

-------------------------------------------------------------------------------
(* The environment.                                                        *)

Older(age) == IF age < Window THEN age + 1 ELSE age

\* Time passes; timers may fire late.
Tick ==
    /\ idle' = [c \in Conns |-> IF c \in Open THEN Older(idle[c]) ELSE 0]
    /\ packets' = [m \in Macs |->
            IF packets[m] = NoRecord THEN NoRecord
            ELSE [packets[m] EXCEPT !.age = Older(@)]]
    /\ heard' = {[x EXCEPT !.age = @ + 1] : x \in {y \in heard : y.age + 1 < Window}}
    /\ sent' = {}
    /\ UNCHANGED <<up, nodeOf, alive, nodeCount, currentMacs, webVars, stable>>

\* A node loses power or its radio link: no segment, not even a FIN, follows.
PeerVanishes(c) ==
    /\ c \in Open /\ alive[c]
    /\ alive' = [alive EXCEPT ![c] = FALSE]
    /\ sent' = {}
    /\ UNCHANGED <<up, nodeOf, idle, nodeCount, aggVars, webVars, histVars>>

\* A reset connection raises 'error', for which no listener is registered: the
\* process dies with everything it knew.
ResetByPeer(c) ==
    /\ up /\ c \in Open
    /\ up' = FALSE
    /\ nodeOf' = [d \in Conns |-> NoNode]
    /\ alive' = [d \in Conns |-> FALSE] /\ idle' = [d \in Conns |-> 0]
    /\ nodeCount' = 0
    /\ currentMacs' = {} /\ packets' = [m \in Macs |-> NoRecord]
    /\ subscription' = [m \in Macs |-> <<>>] /\ connected' = {}
    /\ sent' = {} /\ Unsettle
    /\ UNCHANGED heard

Restart ==
    /\ ~up
    /\ up' = TRUE
    /\ sent' = {}
    /\ UNCHANGED <<netVars, aggVars, webVars, histVars>>

Next ==
    \/ \E c \in Conns :
        \/ \E n \in Nodes : Accept(c, n)
        \/ End(c) \/ Timeout(c) \/ PeerVanishes(c) \/ ResetByPeer(c)
        \/ DataWithoutFrame(c)
        \/ \E m \in Macs, r \in Rssi : DataWithFrame(c, m, r)
    \/ \E b \in Browsers :
        \/ BrowserConnect(b) \/ BrowserDisconnect(b)
        \/ \E m \in Macs : Subscribe(b, m)
    \/ Tick \/ Restart

Spec == Init /\ [][Next]_vars

\* Time passes, and the event loop gets round to an expired timer.
Fairness == WF_vars(Tick) /\ \A c \in Conns : WF_vars(Timeout(c))

FairSpec == Spec /\ Fairness

-------------------------------------------------------------------------------
Entries == [Nodes -> Rssi \cup {NoRssi}]

ConnectedNodes == {nodeOf[c] : c \in Open}

OneSocketEach == \A c, d \in Open : nodeOf[c] = nodeOf[d] => c = d

TypeOK ==
    /\ up \in BOOLEAN
    /\ nodeOf \in [Conns -> Nodes \cup {NoNode}]
    /\ alive \in [Conns -> BOOLEAN]
    /\ idle \in [Conns -> 0 .. Window]
    /\ nodeCount \in Nat
    /\ currentMacs \subseteq Macs
    /\ packets \in [Macs -> [age: 0 .. Window, rssi: Entries] \cup {NoRecord}]
    /\ subscription \in [Macs -> Seq(Browsers)]
    /\ connected \subseteq Browsers
    /\ sent \subseteq [mac: Macs, rssi: Entries, to: [Browsers -> Nat]]
    /\ heard \subseteq [mac: Macs, node: Nodes, rssi: Rssi, age: 0 .. Window - 1]
    /\ stable \in [Macs -> BOOLEAN]

\* nodeCount, which two listeners decrement, is the number of open sockets,
\* through any mix of 'end', 'timeout', silent loss and crash (app.js:53-69).
CountMatchesSockets == nodeCount = Cardinality(Open)

\* As long as the same connections stayed open since a record was started, and
\* no node has two, a record that is sent out holds a signal strength of every
\* connected node and of no other, although the code only compares two numbers
\* (app.js:120).
CompleteMeansEveryNode ==
    \A e \in sent :
        (stable[e.mac] /\ OneSocketEach) => Keys(e.rssi) = ConnectedNodes

\* The other way round, and through any history of connections, also while the
\* record is under way: the report with which a fresh record comes to hold the
\* connected nodes sends it out, unless nobody ever subscribed or a node has two
\* sockets, one of which is waiting for its timeout.  A count that once went
\* wrong would hold back all records from then on (app.js:53-69, 115-121).
CompletedIsSent ==
    [][\A m \in Macs :
        (/\ up' /\ Fresh(m) /\ subscription[m] # <<>> /\ OneSocketEach
         /\ Keys(packets[m].rssi) # ConnectedNodes
         /\ Keys(packets'[m].rssi) = ConnectedNodes)
            => \E e \in sent' : e.mac = m /\ e.rssi = packets'[m].rssi]_vars

\* Within its 1000 ms a record only grows: no entry is changed or lost while the
\* process runs, whatever order the nodes report in (app.js:115-118).
RecordOnlyGrows ==
    [][\A m \in Macs :
        (up' /\ Fresh(m))
            => /\ packets'[m] # NoRecord
               /\ \A n \in Keys(packets[m].rssi) :
                    packets'[m].rssi[n] = packets[m].rssi[n]]_vars

Abstract == INSTANCE Readings WITH
    out <- {[mac |-> e.mac, rssi |-> e.rssi] : e \in sent}

\* The server sends out only what its nodes reported within the last second,
\* never a mixture of devices or of an older record (app.js:107-137).
ImplementsReadings == Abstract!Spec

\* The socket of a node that vanished without a FIN is closed, and no longer
\* counted, after the timeout (app.js:59-64, 69).
VanishedPeerReleased ==
    \A c \in Conns : (c \in Open /\ ~alive[c]) ~> (c \notin Open)

===============================================================================
