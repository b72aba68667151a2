------------------------------ MODULE ServerProofs ------------------------------
(***************************************************************************)
(* What is proved of the server for every number of nodes, connections,    *)
(* devices and browsers and every window: its types, that nodeCount counts *)
(* the open sockets, that a record only grows, that the server implements  *)
(* Readings, that a complete record has an entry of every connected node,  *)
(* and that it goes to the subscribers; and, for every length of frames,   *)
(* that the server decodes nothing but frames, and each that is within one *)
(* segment.                                                                *)
(***************************************************************************)
EXTENDS Server, Framing, FiniteSetTheorems, SequenceTheorems, TLAPS

\* Everything about the connections of nodes.
NetInv ==
    /\ nodeOf \in [Conns -> Nodes \cup {NoNode}]
    /\ nodeCount = Cardinality(Open)

\* The sockets that are open are finitely many, and one opened or closed changes
\* their number by one.
LEMMA OpenFinite == IsFiniteSet(Open) /\ Cardinality(Open) \in Nat
<1>1. Open \subseteq Conns
  BY DEF Open
<1>2. IsFiniteSet(Open)
  BY <1>1, FinitenessAssumption, FS_Subset
<1>. QED
  BY <1>2, FS_CardinalityType

\* No socket is open and none is counted in the initial state.
LEMMA NetInit == Init => NetInv
<1>. SUFFICES ASSUME Init PROVE NetInv
  OBVIOUS
<1>1. Open = {}
  BY DEF Init, Open
<1>. QED
  BY <1>1, FS_EmptySet DEF Init, NetInv

\* An accepted connection is counted.
LEMMA NetAccept ==
    ASSUME NetInv, NEW c \in Conns, NEW n \in Nodes, Accept(c, n)
    PROVE  NetInv'
<1>1. Open' = Open \cup {c} /\ c \notin Open
  BY ValuesAssumption DEF NetInv, Accept, Open
<1>2. Cardinality(Open') = Cardinality(Open) + 1
  BY <1>1, OpenFinite, FS_AddElement
<1>. QED
  BY <1>2 DEF NetInv, Accept

\* A connection that ends or times out is counted off.
LEMMA NetRelease ==
    ASSUME NetInv, NEW c \in Open, Release(c), nodeCount' = nodeCount - 1
    PROVE  NetInv'
<1>0. c \in Conns
  BY DEF Open
<1>1. Open' = Open \ {c}
  BY <1>0, ValuesAssumption DEF NetInv, Release, Open
<1>2. Cardinality(Open') = Cardinality(Open) - 1
  BY <1>1, OpenFinite, FS_RemoveElement
<1>. QED
  BY <1>0, <1>2 DEF NetInv, Release

\* The connection invariant is inductive.
LEMMA NetNext == NetInv /\ [Next]_vars => NetInv'
<1>. SUFFICES ASSUME NetInv, [Next]_vars PROVE NetInv'
  OBVIOUS
<1>1. ASSUME nodeOf' = nodeOf, nodeCount' = nodeCount PROVE NetInv'
  BY <1>1 DEF NetInv, Open
<1>2. ASSUME NEW c \in Conns,
             \/ \E n \in Nodes : Accept(c, n)
             \/ End(c) \/ Timeout(c) \/ PeerVanishes(c) \/ ResetByPeer(c)
             \/ DataWithoutFrame(c)
             \/ \E m \in Macs, r \in Rssi : DataWithFrame(c, m, r)
      PROVE  NetInv'
  <2>1. ASSUME NEW n \in Nodes, Accept(c, n) PROVE NetInv'
    BY <2>1, NetAccept
  <2>2. CASE End(c) \/ Timeout(c)
    BY <2>2, NetRelease DEF End, Timeout
  <2>3. CASE ResetByPeer(c)
    <3>1. Open' = {} /\ nodeCount' = 0 /\ nodeOf' = [d \in Conns |-> NoNode]
      BY <2>3 DEF ResetByPeer, Open
    <3>. QED
      BY <3>1, FS_EmptySet DEF NetInv
  <2>4. CASE PeerVanishes(c) \/ DataWithoutFrame(c)
             \/ \E m \in Macs, r \in Rssi : DataWithFrame(c, m, r)
    BY <1>1, <2>4 DEF PeerVanishes, DataWithoutFrame, DataWithFrame
  <2>. QED
    BY <1>2, <2>1, <2>2, <2>3, <2>4
<1>3. CASE \E b \in Browsers : BrowserConnect(b) \/ BrowserDisconnect(b)
                                 \/ \E m \in Macs : Subscribe(b, m)
  BY <1>1, <1>3 DEF BrowserConnect, BrowserDisconnect, Subscribe, netVars
<1>4. CASE Tick \/ Restart
  BY <1>1, <1>4 DEF Tick, Restart, netVars
<1>5. CASE UNCHANGED vars
  BY <1>1, <1>5 DEF vars, netVars
<1>. QED
  BY <1>2, <1>3, <1>4, <1>5 DEF Next

\* nodeCount agrees with the table of connections in every reachable state.
THEOREM NetInvariant == Spec => []NetInv
  BY NetInit, NetNext, PTL DEF Spec

\* nodeCount is the number of open sockets whatever mix of 'end', 'timeout',
\* silent loss and crash there was, for any number of nodes (app.js:53-69).
THEOREM ServerCount == Spec => []CountMatchesSockets
<1>1. NetInv => CountMatchesSockets
  BY DEF NetInv, CountMatchesSockets
<1>. QED
  BY <1>1, NetInvariant, PTL

-------------------------------------------------------------------------------
(* Types.                                                                  *)

\* One more entry in a subscription list, and what an emission sends to whom.
LEMMA EmitsType ==
    ASSUME NEW m \in Macs, subscription \in [Macs -> Seq(Browsers)]
    PROVE  Emits(m) \in [Browsers -> Nat]
<1>1. ASSUME NEW b \in Browsers
      PROVE  Cardinality({k \in DOMAIN subscription[m] :
                            subscription[m][k] = b /\ b \in connected}) \in Nat
  <2>1. subscription[m] \in Seq(Browsers)
    OBVIOUS
  <2>2. /\ Len(subscription[m]) \in Nat
        /\ DOMAIN subscription[m] = 1 .. Len(subscription[m])
    BY <2>1, LenProperties
  <2>3. IsFiniteSet(1 .. Len(subscription[m]))
    BY <2>2, FS_Interval
  <2>4. {k \in DOMAIN subscription[m] : subscription[m][k] = b /\ b \in connected}
          \subseteq 1 .. Len(subscription[m])
    BY <2>2
  <2>. QED
    BY <2>3, <2>4, FS_Subset, FS_CardinalityType
<1>. QED
  BY <1>1 DEF Emits

TypeInv == TypeOK /\ NetInv

\* The initial state is well typed.
LEMMA TypeInit == Init => TypeOK
<1>. SUFFICES ASSUME Init PROVE TypeOK
  OBVIOUS
<1>. USE DEF Init
<1>1. subscription \in [Macs -> Seq(Browsers)]
  BY EmptySeq
<1>2. idle \in [Conns -> 0 .. Window] /\ nodeCount \in Nat
  BY WindowAssumption
<1>. QED
  BY <1>1, <1>2 DEF TypeOK

\* A record's entries stay entries when a node joins it.
LEMMA JoinedType ==
    ASSUME TypeOK, NEW m \in Macs, NEW n \in Nodes, NEW r \in Rssi, Fresh(m)
    PROVE  Joined(m, n, r) \in Entries
<1>1. packets[m].rssi \in Entries
  BY DEF TypeOK, Fresh
<1>. QED
  BY <1>1 DEF Joined, Entries

\* Types are inductive, given the connection invariant.
LEMMA TypeNext == TypeInv /\ NetInv' /\ [Next]_vars => TypeOK'
<1>. SUFFICES ASSUME TypeOK, NetInv, NetInv', [Next]_vars PROVE TypeOK'
  BY DEF TypeInv
<1>0. nodeCount' \in Nat
  <2>1. Open' \subseteq Conns
    BY DEF Open
  <2>. QED
    BY <2>1, FinitenessAssumption, FS_Subset, FS_CardinalityType DEF NetInv
<1>. USE DEF TypeOK, netVars, aggVars, webVars, histVars
<1>1. ASSUME NEW c \in Conns, NEW n \in Nodes, Accept(c, n) PROVE TypeOK'
  BY <1>0, <1>1, WindowAssumption DEF Accept, Unsettle
<1>2. ASSUME NEW c \in Conns, End(c) \/ Timeout(c) PROVE TypeOK'
  <2>0. Release(c)
    BY <1>2 DEF End, Timeout
  <2>1. /\ idle' \in [Conns -> 0 .. Window] /\ alive' \in [Conns -> BOOLEAN]
        /\ nodeOf' \in [Conns -> Nodes \cup {NoNode}]
    BY <2>0, WindowAssumption DEF Release
  <2>2. stable' \in [Macs -> BOOLEAN] /\ sent' = {}
    BY <1>2 DEF End, Timeout, Unsettle
  <2>. QED
    BY <1>0, <1>2, <2>1, <2>2 DEF End, Timeout
<1>3. ASSUME NEW c \in Conns, PeerVanishes(c) PROVE TypeOK'
  <2>1. alive' \in [Conns -> BOOLEAN]
    BY <1>3 DEF PeerVanishes
  <2>. QED
    BY <1>0, <1>3, <2>1 DEF PeerVanishes
<1>4. ASSUME NEW c \in Conns, ResetByPeer(c) PROVE TypeOK'
  <2>1. subscription' \in [Macs -> Seq(Browsers)]
    BY <1>4, EmptySeq DEF ResetByPeer
  <2>2. idle' \in [Conns -> 0 .. Window]
    BY <1>4, WindowAssumption DEF ResetByPeer
  <2>. QED
    BY <1>0, <1>4, <2>1, <2>2 DEF ResetByPeer, Unsettle
<1>5. ASSUME NEW c \in Conns, DataWithoutFrame(c) PROVE TypeOK'
  <2>1. idle' \in [Conns -> 0 .. Window]
    BY <1>5, WindowAssumption DEF DataWithoutFrame
  <2>. QED
    BY <1>0, <1>5, <2>1 DEF DataWithoutFrame
<1>6. ASSUME NEW c \in Conns, NEW m \in Macs, NEW r \in Rssi,
             DataWithFrame(c, m, r)
      PROVE  TypeOK'
  <2>. DEFINE n == nodeOf[c]
  <2>1. n \in Nodes
    BY <1>6 DEF DataWithFrame, Open
  <2>2. idle' \in [Conns -> 0 .. Window] /\ currentMacs' \subseteq Macs
    BY <1>6, WindowAssumption DEF DataWithFrame
  <2>3. heard' \subseteq [mac: Macs, node: Nodes, rssi: Rssi, age: 0 .. Window - 1]
    <3>1. 0 \in 0 .. Window - 1
      BY WindowAssumption
    <3>. QED
      BY <1>6, <2>1, <3>1 DEF DataWithFrame
  <2>4. CASE Fresh(m)
    <3>1. Joined(m, n, r) \in Entries
      BY <2>1, <2>4, JoinedType
    <3>2. packets[m] \in [age: 0 .. Window, rssi: Entries]
      BY <2>4 DEF Fresh
    <3>3. packets' \in [Macs -> [age: 0 .. Window, rssi: Entries] \cup {NoRecord}]
      <4>. DEFINE j == Joined(m, n, r)
      <4>1. packets' = [packets EXCEPT ![m].rssi = j]
        BY <1>6, <2>4 DEF DataWithFrame
      <4>2. j \in Entries /\ packets \in [Macs -> [age: 0 .. Window, rssi: Entries] \cup {NoRecord}]
        BY <3>1
      <4>. HIDE DEF j, TypeOK
      <4>3. [packets[m] EXCEPT !.rssi = j] \in [age: 0 .. Window, rssi: Entries]
        BY <3>2, <4>2
      <4>. QED
        BY <4>1, <4>2, <4>3
    <3>4. sent' \subseteq [mac: Macs, rssi: Entries, to: [Browsers -> Nat]]
      <4>1. Emits(m) \in [Browsers -> Nat]
        BY EmitsType
      <4>2. \/ sent' = {}
            \/ sent' = {[mac |-> m, rssi |-> Joined(m, n, r), to |-> Emits(m)]}
        BY <1>6, <2>4 DEF DataWithFrame
      <4>. HIDE DEF n
      <4>. QED
        BY <3>1, <4>1, <4>2
    <3>5. /\ up' = up /\ nodeOf' = nodeOf /\ alive' = alive
          /\ nodeCount' = nodeCount /\ subscription' = subscription
          /\ connected' = connected /\ stable' = stable
      BY <1>6, <2>4 DEF DataWithFrame
    <3>. HIDE DEF n
    <3>. QED
      BY <1>0, <2>2, <2>3, <3>3, <3>4, <3>5
  <2>5. CASE ~Fresh(m)
    <3>1. [NoEntries EXCEPT ![n] = r] \in Entries
      BY <2>1 DEF NoEntries, Entries
    <3>2. packets' \in [Macs -> [age: 0 .. Window, rssi: Entries] \cup {NoRecord}]
      <4>1. packets' = [packets EXCEPT
                    ![m] = [age |-> 0, rssi |-> [NoEntries EXCEPT ![n] = r]]]
        BY <1>6, <2>5 DEF DataWithFrame
      <4>2. 0 \in 0 .. Window
        BY WindowAssumption
      <4>3. [age |-> 0, rssi |-> [NoEntries EXCEPT ![n] = r]]
               \in [age: 0 .. Window, rssi: Entries]
        BY <3>1, <4>2
      <4>. QED
        BY <4>1, <4>3
    <3>3. /\ up' = up /\ nodeOf' = nodeOf /\ alive' = alive
          /\ nodeCount' = nodeCount /\ subscription' = subscription
          /\ connected' = connected /\ sent' = {}
          /\ stable' = [stable EXCEPT ![m] = TRUE]
      BY <1>6, <2>5 DEF DataWithFrame
    <3>4. stable' \in [Macs -> BOOLEAN]
      BY <3>3
    <3>. HIDE DEF n
    <3>. QED
      BY <1>0, <2>2, <2>3, <3>2, <3>3, <3>4
  <2>. QED
    BY <2>4, <2>5
<1>7. ASSUME NEW b \in Browsers,
             \/ BrowserConnect(b) \/ BrowserDisconnect(b)
             \/ \E m \in Macs : Subscribe(b, m)
      PROVE  TypeOK'
  <2>1. CASE BrowserConnect(b) \/ BrowserDisconnect(b)
    BY <1>0, <2>1 DEF BrowserConnect, BrowserDisconnect
  <2>2. ASSUME NEW m \in Macs, Subscribe(b, m) PROVE TypeOK'
    <3>1. Append(subscription[m], b) \in Seq(Browsers)
      BY AppendProperties
    <3>2. subscription' \in [Macs -> Seq(Browsers)]
      BY <2>2, <3>1 DEF Subscribe
    <3>. QED
      BY <1>0, <2>2, <3>2 DEF Subscribe
  <2>. QED
    BY <1>7, <2>1, <2>2
<1>8. CASE Tick
  <2>1. \A a \in 0 .. Window : Older(a) \in 0 .. Window
    BY WindowAssumption DEF Older
  <2>2. idle' \in [Conns -> 0 .. Window]
    BY <1>8, <2>1, WindowAssumption DEF Tick
  <2>3. packets' \in [Macs -> [age: 0 .. Window, rssi: Entries] \cup {NoRecord}]
    <3>1. ASSUME NEW m \in Macs, packets[m] # NoRecord
          PROVE  [packets[m] EXCEPT !.age = Older(@)] \in [age: 0 .. Window, rssi: Entries]
      <4>1. packets[m] \in [age: 0 .. Window, rssi: Entries]
        BY <3>1
      <4>. QED
        BY <4>1, <2>1
    <3>. QED
      BY <1>8, <3>1 DEF Tick
  <2>4. heard' \subseteq [mac: Macs, node: Nodes, rssi: Rssi, age: 0 .. Window - 1]
    <3>1. ASSUME NEW x \in heard, x.age + 1 < Window
          PROVE  [x EXCEPT !.age = @ + 1]
                    \in [mac: Macs, node: Nodes, rssi: Rssi, age: 0 .. Window - 1]
      <4>1. x \in [mac: Macs, node: Nodes, rssi: Rssi, age: 0 .. Window - 1]
        OBVIOUS
      <4>2. x.age + 1 \in 0 .. Window - 1
        BY <3>1, <4>1, WindowAssumption
      <4>. QED
        BY <4>1, <4>2
    <3>. QED
      BY <1>8, <3>1 DEF Tick
  <2>. QED
    BY <1>0, <1>8, <2>2, <2>3, <2>4 DEF Tick
<1>9. CASE Restart
  BY <1>0, <1>9 DEF Restart
<1>10. CASE UNCHANGED vars
  BY <1>10 DEF vars
<1>. QED
  BY <1>1, <1>2, <1>3, <1>4, <1>5, <1>6, <1>7, <1>8, <1>9, <1>10 DEF Next

\* Every variable of the server keeps its type; in particular nodeCount never
\* becomes negative, although it is decremented at two places.
THEOREM ServerTypes == Spec => []TypeOK
<1>1. Init => TypeInv
  BY TypeInit, NetInit DEF TypeInv
<1>2. TypeInv /\ [Next]_vars => TypeInv'
  BY TypeNext, NetNext DEF TypeInv
<1>. QED
  BY <1>1, <1>2, PTL DEF Spec, TypeInv

-------------------------------------------------------------------------------
(* Records.                                                                *)

\* A record in packets is one, and setting a component leaves it one.
LEMMA RecordType ==
    ASSUME TypeOK, NEW m \in Macs, packets[m] # NoRecord
    PROVE  /\ packets[m] \in [age: 0 .. Window, rssi: Entries]
           /\ packets[m] = [age |-> packets[m].age, rssi |-> packets[m].rssi]
<1>1. packets[m] \in [age: 0 .. Window, rssi: Entries]
  BY DEF TypeOK
<1>. QED
  BY <1>1

\* What a data event makes of the records.
LEMMA DataRecords ==
    ASSUME TypeOK, NEW c \in Conns, NEW m \in Macs, NEW r \in Rssi,
           DataWithFrame(c, m, r)
    PROVE  /\ nodeOf[c] \in Nodes
           /\ \A d \in Macs : d # m => packets'[d] = packets[d]
           /\ Fresh(m) => packets'[m] = [age  |-> packets[m].age,
                                         rssi |-> Joined(m, nodeOf[c], r)]
           /\ ~Fresh(m) => packets'[m] = [age  |-> 0,
                                          rssi |-> [NoEntries EXCEPT ![nodeOf[c]] = r]]
<1>1. nodeOf[c] \in Nodes
  BY DEF DataWithFrame, Open, TypeOK
<1>2. packets \in [Macs -> [age: 0 .. Window, rssi: Entries] \cup {NoRecord}]
  BY DEF TypeOK
<1>3. CASE Fresh(m)
  <2>1. packets[m] = [age |-> packets[m].age, rssi |-> packets[m].rssi]
    BY <1>3, RecordType DEF Fresh
  <2>2. packets' = [packets EXCEPT ![m].rssi = Joined(m, nodeOf[c], r)]
    BY <1>3 DEF DataWithFrame
  <2>. QED
    BY <1>1, <1>2, <1>3, <2>1, <2>2
<1>4. CASE ~Fresh(m)
  <2>1. packets' = [packets EXCEPT
              ![m] = [age |-> 0, rssi |-> [NoEntries EXCEPT ![nodeOf[c]] = r]]]
    BY <1>4 DEF DataWithFrame
  <2>. QED
    BY <1>1, <1>2, <1>4, <2>1
<1>. QED
  BY <1>3, <1>4

\* What a tick makes of the records.
LEMMA TickRecords ==
    ASSUME TypeOK, Tick, NEW m \in Macs
    PROVE  /\ packets[m] = NoRecord => packets'[m] = NoRecord
           /\ packets[m] # NoRecord =>
                packets'[m] = [age |-> Older(packets[m].age), rssi |-> packets[m].rssi]
<1>1. packets'[m] = IF packets[m] = NoRecord THEN NoRecord
                    ELSE [packets[m] EXCEPT !.age = Older(@)]
  BY DEF Tick
<1>2. CASE packets[m] # NoRecord
  BY <1>1, <1>2, RecordType
<1>. QED
  BY <1>1, <1>2

\* The steps that leave the records, the readings and the open sockets alone,
\* or take the records away: every step but a frame, a tick and a reset.
QuietStep ==
    /\ packets' = packets /\ heard' = heard /\ sent' = {}
    /\ \/ stable' = stable /\ nodeOf' = nodeOf
       \/ stable' = [m \in Macs |-> FALSE]

\* A step is one of four kinds.
LEMMA StepKinds ==
    ASSUME Next
    PROVE  \/ QuietStep
           \/ Tick
           \/ \E c \in Conns : ResetByPeer(c)
           \/ \E c \in Conns, m \in Macs, r \in Rssi : DataWithFrame(c, m, r)
  BY DEF Next, QuietStep, Accept, End, Timeout, PeerVanishes, DataWithoutFrame,
         BrowserConnect, BrowserDisconnect, Subscribe, Restart, Unsettle,
         netVars, aggVars, webVars, histVars

\* What RecordOnlyGrows says of one device.
Grows(m) ==
    (up' /\ Fresh(m))
        => /\ packets'[m] # NoRecord
           /\ \A n \in Keys(packets[m].rssi) :
                packets'[m].rssi[n] = packets[m].rssi[n]

\* A record that is joined keeps its entries.
LEMMA StepGrows ==
    ASSUME TypeOK, TypeOK', Next, NEW m \in Macs
    PROVE  Grows(m)
<1>. SUFFICES ASSUME up', Fresh(m)
              PROVE  /\ packets'[m] # NoRecord
                     /\ \A n \in Keys(packets[m].rssi) :
                            packets'[m].rssi[n] = packets[m].rssi[n]
  BY DEF Grows
<1>0. packets[m] # NoRecord /\ packets[m].rssi \in Entries /\ packets[m].age \in 0 .. Window
  BY RecordType DEF Fresh
<1>1. CASE QuietStep
  BY <1>0, <1>1 DEF QuietStep
<1>2. CASE Tick
  <2>1. packets'[m] = [age |-> Older(packets[m].age), rssi |-> packets[m].rssi]
    BY <1>0, <1>2, TickRecords
  <2>2. Older(packets[m].age) \in 0 .. Window
    BY <1>0, WindowAssumption DEF Older
  <2>3. packets'[m] \in [age: 0 .. Window, rssi: Entries]
    BY <1>0, <2>1, <2>2
  <2>. QED
    BY <2>1, <2>3, ValuesAssumption DEF Entries
<1>3. ASSUME NEW c \in Conns, ResetByPeer(c) PROVE FALSE
  BY <1>3 DEF ResetByPeer
<1>4. ASSUME NEW c \in Conns, NEW d \in Macs, NEW r \in Rssi, DataWithFrame(c, d, r)
      PROVE  /\ packets'[m] # NoRecord
             /\ \A n \in Keys(packets[m].rssi) :
                    packets'[m].rssi[n] = packets[m].rssi[n]
  <2>1. CASE d # m
    BY <1>0, <1>4, <2>1, DataRecords
  <2>2. CASE d = m
    <3>1. nodeOf[c] \in Nodes
      BY <1>4, DataRecords
    <3>2. packets'[m] = [age |-> packets[m].age, rssi |-> Joined(m, nodeOf[c], r)]
      BY <1>4, <2>2, DataRecords
    <3>3. Joined(m, nodeOf[c], r) \in Entries
      BY <3>1, JoinedType
    <3>4. \A n \in Keys(packets[m].rssi) :
              Joined(m, nodeOf[c], r)[n] = packets[m].rssi[n]
      BY <1>0, <3>1 DEF Joined, Keys, Entries
    <3>5. packets'[m] \in [age: 0 .. Window, rssi: Entries]
      BY <1>0, <3>2, <3>3
    <3>. QED
      BY <3>2, <3>4, <3>5, ValuesAssumption DEF Entries
  <2>. QED
    BY <2>1, <2>2
<1>. QED
  BY <1>1, <1>2, <1>3, <1>4, StepKinds

\* While the process runs, no entry of a record younger than 1000 ms is changed
\* or lost, whatever order the nodes report in (app.js:115-118).
THEOREM ServerRecordOnlyGrows == Spec => RecordOnlyGrows
<1>1. TypeOK /\ TypeOK' /\ [Next]_vars => [\A m \in Macs : Grows(m)]_vars
  BY StepGrows
<1>. QED
  BY <1>1, ServerTypes, PTL DEF Spec, RecordOnlyGrows, Grows

-------------------------------------------------------------------------------
(* The server implements Readings.                                         *)

\* Every entry of a record younger than the window was heard since the record
\* was started, and so within the window.
RecordSupported ==
    \A m \in Macs : Fresh(m) =>
        \A n \in Keys(packets[m].rssi) :
            \E x \in heard : /\ x.mac = m /\ x.node = n
                             /\ x.rssi = packets[m].rssi[n]
                             /\ x.age <= packets[m].age

\* In the initial state there is no record.
LEMMA SupportedInit == Init => RecordSupported
  BY DEF Init, RecordSupported, Fresh

\* Only the node that reports gains an entry, and its entry is what it reports
\* or the one it had.
LEMMA JoinedEntries ==
    ASSUME TypeOK, NEW m \in Macs, NEW n \in Nodes, NEW r \in Rssi, Fresh(m),
           NEW k \in Keys(Joined(m, n, r))
    PROVE  \/ k = n /\ Joined(m, n, r)[k] = r
           \/ k \in Keys(packets[m].rssi) /\ Joined(m, n, r)[k] = packets[m].rssi[k]
<1>1. packets[m].rssi \in Entries
  BY RecordType DEF Fresh
<1>. QED
  BY <1>1 DEF Joined, Keys, Entries

\* The entries of a record survive, in the history, as long as the record does.
LEMMA SupportedStep ==
    ASSUME TypeOK, TypeOK', RecordSupported, Next
    PROVE  RecordSupported'
<1>1. CASE QuietStep
  BY <1>1 DEF QuietStep, RecordSupported, Fresh
<1>2. CASE Tick
  <2>. SUFFICES ASSUME NEW m \in Macs, Fresh(m)', NEW n \in Keys(packets'[m].rssi)
                PROVE  \E x \in heard' : /\ x.mac = m /\ x.node = n
                                         /\ x.rssi = packets'[m].rssi[n]
                                         /\ x.age <= packets'[m].age
    BY DEF RecordSupported
  <2>1. packets[m] # NoRecord
    BY <1>2, TickRecords DEF Fresh
  <2>2. packets'[m] = [age |-> Older(packets[m].age), rssi |-> packets[m].rssi]
    BY <1>2, <2>1, TickRecords
  <2>3. packets[m].age \in 0 .. Window /\ Older(packets[m].age) < Window
    <3>1. packets[m] \in [age: 0 .. Window, rssi: Entries]
      BY <2>1, RecordType
    <3>2. packets'[m].age < Window
      BY DEF Fresh
    <3>. QED
      BY <2>2, <3>1, <3>2
  <2>4. packets[m].age < Window /\ Older(packets[m].age) = packets[m].age + 1
    BY <2>3, WindowAssumption DEF Older
  <2>5. PICK x \in heard : /\ x.mac = m /\ x.node = n
                           /\ x.rssi = packets[m].rssi[n]
                           /\ x.age <= packets[m].age
    BY <2>1, <2>2, <2>4 DEF RecordSupported, Fresh
  <2>6. x \in [mac: Macs, node: Nodes, rssi: Rssi, age: 0 .. Window - 1]
    BY DEF TypeOK
  <2>7. x.age + 1 < Window /\ x.age + 1 <= packets[m].age + 1
    BY <2>3, <2>4, <2>5, <2>6, WindowAssumption
  <2>. DEFINE y == [x EXCEPT !.age = @ + 1]
  <2>8. y \in heard'
    BY <1>2, <2>7 DEF Tick
  <2>9. y.mac = m /\ y.node = n /\ y.rssi = packets[m].rssi[n] /\ y.age = x.age + 1
    BY <2>5, <2>6
  <2>10. packets'[m].rssi = packets[m].rssi /\ packets'[m].age = packets[m].age + 1
    BY <2>2, <2>4
  <2>11. y.rssi = packets'[m].rssi[n] /\ y.age <= packets'[m].age
    BY <2>7, <2>9, <2>10
  <2>. HIDE DEF y
  <2>. QED
    BY <2>8, <2>9, <2>11
<1>3. ASSUME NEW c \in Conns, ResetByPeer(c) PROVE RecordSupported'
  BY <1>3 DEF ResetByPeer, RecordSupported, Fresh
<1>4. ASSUME NEW c \in Conns, NEW d \in Macs, NEW r \in Rssi, DataWithFrame(c, d, r)
      PROVE  RecordSupported'
  <2>. SUFFICES ASSUME NEW m \in Macs, Fresh(m)', NEW n \in Keys(packets'[m].rssi)
                PROVE  \E x \in heard' : /\ x.mac = m /\ x.node = n
                                         /\ x.rssi = packets'[m].rssi[n]
                                         /\ x.age <= packets'[m].age
    BY DEF RecordSupported
  <2>. DEFINE reading == [mac |-> d, node |-> nodeOf[c], rssi |-> r, age |-> 0]
  <2>1. heard' = heard \cup {reading}
    BY <1>4 DEF DataWithFrame
  <2>2. reading.mac = d /\ reading.node = nodeOf[c] /\ reading.rssi = r
        /\ reading.age = 0 /\ reading \in heard'
    BY <2>1
  <2>3. packets'[m].age \in 0 .. Window
    BY RecordType DEF Fresh, TypeOK
  <2>. HIDE DEF reading
  <2>4. CASE d # m
    <3>1. packets'[m] = packets[m]
      BY <1>4, <2>4, DataRecords
    <3>. QED
      BY <2>1, <3>1 DEF RecordSupported, Fresh
  <2>5. CASE d = m /\ Fresh(m)
    <3>1. /\ nodeOf[c] \in Nodes
          /\ packets'[m] = [age |-> packets[m].age, rssi |-> Joined(m, nodeOf[c], r)]
      BY <1>4, <2>5, DataRecords
    <3>2. CASE n = nodeOf[c] /\ Joined(m, nodeOf[c], r)[n] = r
      BY <2>2, <2>3, <2>5, <3>1, <3>2
    <3>3. CASE /\ n \in Keys(packets[m].rssi)
               /\ Joined(m, nodeOf[c], r)[n] = packets[m].rssi[n]
      BY <2>1, <2>5, <3>1, <3>3 DEF RecordSupported
    <3>. QED
      BY <2>5, <3>1, <3>2, <3>3, JoinedEntries
  <2>6. CASE d = m /\ ~Fresh(m)
    <3>1. /\ nodeOf[c] \in Nodes
          /\ packets'[m] = [age |-> 0, rssi |-> [NoEntries EXCEPT ![nodeOf[c]] = r]]
      <4>1. /\ nodeOf[c] \in Nodes
            /\ ~Fresh(d) => packets'[d] = [age |-> 0, rssi |-> [NoEntries EXCEPT ![nodeOf[c]] = r]]
        BY <1>4, DataRecords, ZenonT(30)
      <4>. QED
        BY <2>6, <4>1
    <3>2. n = nodeOf[c] /\ packets'[m].rssi[n] = r
      BY <3>1 DEF Keys, NoEntries
    <3>. QED
      BY <2>2, <2>3, <2>6, <3>1, <3>2
  <2>. QED
    BY <2>4, <2>5, <2>6
<1>. QED
  BY <1>1, <1>2, <1>3, <1>4, StepKinds

\* Every record in packets that is young enough to be sent is backed by recent
\* readings.
THEOREM ServerRecordSupported == Spec => [](TypeOK /\ RecordSupported)
<1>1. TypeOK /\ TypeOK' /\ RecordSupported /\ [Next]_vars => RecordSupported'
  <2>1. TypeOK /\ TypeOK' /\ RecordSupported /\ Next => RecordSupported'
    BY SupportedStep
  <2>2. RecordSupported /\ UNCHANGED vars => RecordSupported'
    BY DEF vars, aggVars, histVars, RecordSupported, Fresh
  <2>. QED
    BY <2>1, <2>2
<1>. QED
  BY <1>1, SupportedInit, ServerTypes, PTL DEF Spec

\* A frame is an abstract reading; the record that may go out is backed by the
\* readings so far and this one.
LEMMA DataIsHear ==
    ASSUME TypeOK, RecordSupported, NEW c \in Conns, NEW m \in Macs, NEW r \in Rssi,
           DataWithFrame(c, m, r)
    PROVE  Abstract!Hear(m, nodeOf[c], r)
<1>. DEFINE n == nodeOf[c]
            e == [mac |-> m, rssi |-> Joined(m, n, r)]
            out == {[mac |-> x.mac, rssi |-> x.rssi] : x \in sent}
<1>1. n \in Nodes
  BY DataRecords
<1>2. heard' = heard \cup {[mac |-> m, node |-> n, rssi |-> r, age |-> 0]}
  BY DEF DataWithFrame
<1>3. CASE sent' = {}
  BY <1>2, <1>3 DEF Abstract!Hear
<1>4. CASE /\ Fresh(m)
           /\ sent' = {[mac |-> m, rssi |-> Joined(m, n, r), to |-> Emits(m)]}
  <2>1. Joined(m, n, r) \in Entries
    BY <1>1, <1>4, JoinedType
  <2>2. e \in Abstract!Record
    BY <2>1 DEF Abstract!Record, Entries
  <2>3. ASSUME NEW k \in Nodes, Joined(m, n, r)[k] # NoRssi
        PROVE  \E x \in heard' : x.mac = m /\ x.node = k /\ x.rssi = Joined(m, n, r)[k]
    <3>1. k \in Keys(Joined(m, n, r))
      BY <2>3 DEF Keys
    <3>2. CASE k = n /\ Joined(m, n, r)[k] = r
      <4>. DEFINE reading == [mac |-> m, node |-> n, rssi |-> r, age |-> 0]
      <4>1. /\ reading \in heard' /\ reading.mac = m /\ reading.node = n
            /\ reading.rssi = r
        BY <1>2
      <4>. HIDE DEF reading
      <4>. QED
        BY <3>2, <4>1
    <3>3. CASE k \in Keys(packets[m].rssi) /\ Joined(m, n, r)[k] = packets[m].rssi[k]
      BY <1>2, <1>4, <3>3 DEF RecordSupported
    <3>. QED
      BY <1>1, <1>4, <3>1, <3>2, <3>3, JoinedEntries
  <2>4. Abstract!Supported(e, heard')
    BY <2>3 DEF Abstract!Supported
  <2>5. out' = {e}
    <3>. HIDE DEF n
    <3>. QED
      BY <1>4
  <2>6. e.mac = m
    OBVIOUS
  <2>. HIDE DEF e
  <2>7. \E x \in Abstract!Record :
            x.mac = m /\ Abstract!Supported(x, heard') /\ out' = {x}
    BY <2>2, <2>4, <2>5, <2>6
  <2>. QED
    BY <1>2, <2>7, Zenon DEF Abstract!Hear
<1>5. sent' = {} \/ (Fresh(m)
        /\ sent' = {[mac |-> m, rssi |-> Joined(m, n, r), to |-> Emits(m)]})
  BY DEF DataWithFrame
<1>. QED
  BY <1>3, <1>4, <1>5

\* Every step of the server is a step of Readings or leaves its variables alone.
LEMMA StepImplements ==
    ASSUME TypeOK, RecordSupported, Next
    PROVE  Abstract!Next
<1>1. CASE QuietStep
  BY <1>1 DEF QuietStep, Abstract!Next, Abstract!Quiet
<1>2. CASE Tick
  BY <1>2 DEF Tick, Abstract!Next, Abstract!Tick
<1>3. ASSUME NEW c \in Conns, ResetByPeer(c) PROVE Abstract!Next
  BY <1>3 DEF ResetByPeer, Abstract!Next, Abstract!Quiet
<1>4. ASSUME NEW c \in Conns, NEW m \in Macs, NEW r \in Rssi, DataWithFrame(c, m, r)
      PROVE  Abstract!Next
  BY <1>4, DataIsHear, DataRecords DEF Abstract!Next
<1>. QED
  BY <1>1, <1>2, <1>3, <1>4, StepKinds

\* The server sends out only what its nodes reported of the device within the
\* last second, for any number of nodes, devices and ticks (app.js:107-137).
THEOREM ServerImplementsReadings == Spec => ImplementsReadings
<1>1. Init => Abstract!Init
  BY DEF Init, Abstract!Init
<1>2. TypeOK /\ RecordSupported /\ [Next]_vars => [Abstract!Next]_(Abstract!vars)
  <2>1. UNCHANGED vars => UNCHANGED Abstract!vars
    BY DEF vars, histVars, Abstract!vars
  <2>. QED
    BY <2>1, StepImplements
<1>. QED
  BY <1>1, <1>2, ServerRecordSupported, PTL DEF Spec, ImplementsReadings, Abstract!Spec

-------------------------------------------------------------------------------
(* Complete records.                                                       *)

\* As long as no connection came or went since a record was started, only
\* connected nodes have an entry in it.
Settled ==
    \A m \in Macs : stable[m] =>
        packets[m] # NoRecord /\ Keys(packets[m].rssi) \subseteq ConnectedNodes

\* In the initial state no record is stable and none was sent.
LEMMA SettledInit == Init => Settled /\ CompleteMeansEveryNode
  BY DEF Init, Settled, CompleteMeansEveryNode

\* There are as many connected nodes as open sockets, if no two come from one node.
LEMMA NodesCounted ==
    ASSUME OneSocketEach
    PROVE  IsFiniteSet(ConnectedNodes) /\ Cardinality(ConnectedNodes) = Cardinality(Open)
<1>. DEFINE f == [c \in Open |-> nodeOf[c]]
<1>1. f \in Surjection(Open, ConnectedNodes)
  BY DEF Surjection, ConnectedNodes
<1>2. f \in Injection(Open, ConnectedNodes)
  BY DEF Injection, ConnectedNodes, IsInjective, OneSocketEach
<1>. HIDE DEF f
<1>. QED
  BY <1>1, <1>2, OpenFinite, FS_Surjection

\* A set of connected nodes as large as the number of open sockets is then the
\* set of all of them.
LEMMA CountingNodes ==
    ASSUME OneSocketEach, NEW S \in SUBSET ConnectedNodes,
           Cardinality(S) = Cardinality(Open)
    PROVE  S = ConnectedNodes
  BY NodesCounted, FS_Subset

\* A record that is sent joins a fresh record and has as many entries as there
\* are sockets.
LEMMA SentComplete ==
    ASSUME TypeOK, NetInv, Settled, NEW c \in Conns, NEW m \in Macs, NEW r \in Rssi,
           DataWithFrame(c, m, r)
    PROVE  CompleteMeansEveryNode'
<1>. SUFFICES ASSUME NEW e \in sent', stable'[e.mac],
                     OneSocketEach'
              PROVE  Keys(e.rssi) = ConnectedNodes'
  BY DEF CompleteMeansEveryNode, Keys
<1>1. /\ nodeOf' = nodeOf /\ nodeOf[c] \in Nodes /\ c \in Open
  BY DataRecords DEF DataWithFrame
<1>2. Open' = Open /\ ConnectedNodes' = ConnectedNodes
  BY <1>1 DEF Open, ConnectedNodes
<1>3. /\ Fresh(m) /\ stable' = stable
      /\ Cardinality(Keys(Joined(m, nodeOf[c], r))) = nodeCount
      /\ e = [mac |-> m, rssi |-> Joined(m, nodeOf[c], r), to |-> Emits(m)]
  BY DEF DataWithFrame
<1>4. e.mac = m /\ e.rssi = Joined(m, nodeOf[c], r)
  BY <1>3
<1>5. Keys(Joined(m, nodeOf[c], r)) \subseteq ConnectedNodes
  <2>1. Keys(packets[m].rssi) \subseteq ConnectedNodes
    BY <1>3, <1>4 DEF Settled
  <2>2. nodeOf[c] \in ConnectedNodes
    BY <1>1 DEF ConnectedNodes
  <2>. QED
    BY <1>1, <1>3, <2>1, <2>2, JoinedEntries
<1>6. OneSocketEach
  BY <1>1, <1>2 DEF OneSocketEach
<1>7. Cardinality(Keys(Joined(m, nodeOf[c], r))) = Cardinality(Open)
  BY <1>3 DEF NetInv
<1>. QED
  BY <1>2, <1>4, <1>5, <1>6, <1>7, CountingNodes

\* Settled is inductive: only a connected node adds an entry, and a connection
\* that comes or goes unsettles every record.
LEMMA SettledStep ==
    ASSUME TypeOK, TypeOK', Settled, Next
    PROVE  Settled'
<1>1. CASE QuietStep
  BY <1>1 DEF QuietStep, Settled, ConnectedNodes, Open
<1>2. CASE Tick
  <2>1. stable' = stable /\ ConnectedNodes' = ConnectedNodes
    BY <1>2 DEF Tick, ConnectedNodes, Open
  <2>2. ASSUME NEW m \in Macs, packets[m] # NoRecord
        PROVE  packets'[m] # NoRecord /\ packets'[m].rssi = packets[m].rssi
    <3>1. packets'[m] = [age |-> Older(packets[m].age), rssi |-> packets[m].rssi]
      BY <1>2, <2>2, TickRecords
    <3>2. packets[m] \in [age: 0 .. Window, rssi: Entries]
      BY <2>2, RecordType
    <3>3. Older(packets[m].age) \in 0 .. Window
      BY <3>2, WindowAssumption DEF Older
    <3>4. packets'[m] \in [age: 0 .. Window, rssi: Entries]
      BY <3>1, <3>2, <3>3
    <3>. QED
      BY <3>1, <3>4, ValuesAssumption DEF Entries
  <2>. QED
    BY <2>1, <2>2 DEF Settled
<1>3. ASSUME NEW c \in Conns, ResetByPeer(c) PROVE Settled'
  BY <1>3 DEF ResetByPeer, Unsettle, Settled
<1>4. ASSUME NEW c \in Conns, NEW d \in Macs, NEW r \in Rssi, DataWithFrame(c, d, r)
      PROVE  Settled'
  <2>1. nodeOf' = nodeOf /\ nodeOf[c] \in Nodes /\ c \in Open
    BY <1>4, DataRecords DEF DataWithFrame
  <2>2. ConnectedNodes' = ConnectedNodes /\ nodeOf[c] \in ConnectedNodes
    BY <2>1 DEF ConnectedNodes, Open
  <2>3. \A m \in Macs : m # d => stable'[m] = stable[m] /\ packets'[m] = packets[m]
    BY <1>4, DataRecords DEF DataWithFrame, TypeOK
  <2>4. /\ Fresh(d) => packets'[d] = [age  |-> packets[d].age,
                                     rssi |-> Joined(d, nodeOf[c], r)]
        /\ ~Fresh(d) => packets'[d] = [age  |-> 0,
                                      rssi |-> [NoEntries EXCEPT ![nodeOf[c]] = r]]
    BY <1>4, DataRecords
  <2>5. packets'[d] # NoRecord
    <3>1. packets'[d] \in [age: 0 .. Window, rssi: Entries]
      <4>1. CASE Fresh(d)
        <5>1. packets[d].age \in 0 .. Window
          BY <4>1, RecordType DEF Fresh
        <5>2. Joined(d, nodeOf[c], r) \in Entries
          BY <2>1, <4>1, JoinedType
        <5>. QED
          BY <2>4, <4>1, <5>1, <5>2
      <4>2. CASE ~Fresh(d)
        <5>1. [NoEntries EXCEPT ![nodeOf[c]] = r] \in Entries
          BY <2>1 DEF NoEntries, Entries
        <5>2. 0 \in 0 .. Window
          BY WindowAssumption
        <5>. QED
          BY <2>4, <4>2, <5>1, <5>2
      <4>. QED
        BY <4>1, <4>2
    <3>. QED
      BY <3>1, ValuesAssumption DEF Entries
  <2>6. stable'[d] => Keys(packets'[d].rssi) \subseteq ConnectedNodes
    <3>1. CASE Fresh(d)
      <4>1. packets'[d].rssi = Joined(d, nodeOf[c], r)
        BY <2>4, <3>1
      <4>3. stable' = stable
        BY <1>4, <3>1 DEF DataWithFrame
      <4>2. ASSUME stable[d]
            PROVE  Keys(Joined(d, nodeOf[c], r)) \subseteq ConnectedNodes
        BY <2>1, <2>2, <3>1, <4>2, JoinedEntries DEF Settled
      <4>. QED
        BY <4>1, <4>2, <4>3
    <3>2. CASE ~Fresh(d)
      <4>. DEFINE first == [NoEntries EXCEPT ![nodeOf[c]] = r]
      <4>1. packets'[d] = [age |-> 0, rssi |-> first]
        BY <2>4, <3>2
      <4>2. Keys(first) \subseteq {nodeOf[c]}
        BY <2>1 DEF Keys, NoEntries
      <4>. HIDE DEF first
      <4>3. packets'[d].rssi = first
        BY <4>1
      <4>. QED
        BY <2>2, <4>2, <4>3
    <3>. QED
      BY <3>1, <3>2
  <2>. QED
    BY <2>2, <2>3, <2>5, <2>6 DEF Settled
<1>. QED
  BY <1>1, <1>2, <1>3, <1>4, StepKinds

\* Only a frame sends.
LEMMA CompleteStep ==
    ASSUME TypeOK, NetInv, Settled, Next
    PROVE  CompleteMeansEveryNode'
<1>1. CASE sent' = {}
  BY <1>1 DEF CompleteMeansEveryNode
<1>2. ASSUME NEW c \in Conns, NEW m \in Macs, NEW r \in Rssi, DataWithFrame(c, m, r)
      PROVE  CompleteMeansEveryNode'
  BY <1>2, SentComplete
<1>. QED
  BY <1>1, <1>2, StepKinds DEF QuietStep, Tick, ResetByPeer

\* A record that is sent out while the connections stay what they were, one per
\* node, holds exactly the connected nodes, although the code compares only two
\* numbers: for any number of nodes, sockets and devices (app.js:120).
THEOREM ServerComplete == Spec => []CompleteMeansEveryNode
<1>1. /\ TypeOK /\ TypeOK' /\ NetInv /\ Settled /\ CompleteMeansEveryNode
      /\ [Next]_vars
      => Settled' /\ CompleteMeansEveryNode'
  <2>1. TypeOK /\ TypeOK' /\ NetInv /\ Settled /\ Next
            => Settled' /\ CompleteMeansEveryNode'
    BY SettledStep, CompleteStep
  <2>2. Settled /\ CompleteMeansEveryNode /\ UNCHANGED vars
            => Settled' /\ CompleteMeansEveryNode'
    BY DEF vars, netVars, aggVars, histVars, Settled, ConnectedNodes, Open, Keys,
           CompleteMeansEveryNode, OneSocketEach
  <2>. QED
    BY <2>1, <2>2
<1>. QED
  BY <1>1, SettledInit, ServerTypes, NetInvariant, PTL DEF Spec

-------------------------------------------------------------------------------
(* Records that become complete.                                           *)

\* What CompletedIsSent says of one device.
SentWhenCompleted(m) ==
    (/\ up' /\ Fresh(m) /\ subscription[m] # <<>> /\ OneSocketEach
     /\ Keys(packets[m].rssi) # ConnectedNodes
     /\ Keys(packets'[m].rssi) = ConnectedNodes)
        => \E e \in sent' : e.mac = m /\ e.rssi = packets'[m].rssi

\* Only a report of the device itself adds an entry, and nodeCount is what it
\* then compares with.
LEMMA StepSendsCompleted ==
    ASSUME TypeOK, NetInv, Next, NEW m \in Macs
    PROVE  SentWhenCompleted(m)
<1>. SUFFICES ASSUME up', Fresh(m), subscription[m] # <<>>, OneSocketEach,
                     Keys(packets[m].rssi) # ConnectedNodes,
                     Keys(packets'[m].rssi) = ConnectedNodes
              PROVE  \E e \in sent' : e.mac = m /\ e.rssi = packets'[m].rssi
  BY DEF SentWhenCompleted
<1>0. packets[m] # NoRecord
  BY DEF Fresh
<1>1. packets'[m].rssi # packets[m].rssi
  BY DEF Keys
<1>2. CASE QuietStep
  BY <1>1, <1>2 DEF QuietStep
<1>3. CASE Tick
  <2>1. packets'[m] = [age |-> Older(packets[m].age), rssi |-> packets[m].rssi]
    BY <1>0, <1>3, TickRecords
  <2>. QED
    BY <1>1, <2>1
<1>4. ASSUME NEW c \in Conns, ResetByPeer(c) PROVE FALSE
  BY <1>4 DEF ResetByPeer
<1>5. ASSUME NEW c \in Conns, NEW d \in Macs, NEW r \in Rssi, DataWithFrame(c, d, r)
      PROVE  \E e \in sent' : e.mac = m /\ e.rssi = packets'[m].rssi
  <2>1. d = m
    BY <1>1, <1>5, DataRecords
  <2>. DEFINE joined == Joined(m, nodeOf[c], r)
              record == [mac |-> m, rssi |-> joined, to |-> Emits(m)]
  <2>2. DataWithFrame(c, m, r)
    BY <1>5, <2>1
  <2>3. packets'[m].rssi = joined
    <3>1. packets'[m] = [age |-> packets[m].age, rssi |-> joined]
      BY <2>2, DataRecords
    <3>. QED
      BY <3>1
  <2>4. Cardinality(Keys(joined)) = nodeCount
    <3>1. Keys(joined) = ConnectedNodes
      BY <2>3 DEF Keys
    <3>. QED
      BY <3>1, NodesCounted DEF NetInv
  <2>5. sent' = {record}
    BY <2>2, <2>4 DEF DataWithFrame
  <2>. QED
    BY <2>3, <2>5
<1>. QED
  BY <1>2, <1>3, <1>4, <1>5, StepKinds

\* No completed record is held back, for any nodes, sockets, devices and window,
\* whatever connections came and went: 'end' and 'timeout' between them keep
\* nodeCount at the number that makes the comparison right (app.js:53-69, 120).
THEOREM ServerCompletedIsSent == Spec => CompletedIsSent
<1>1. TypeOK /\ NetInv /\ [Next]_vars => [\A m \in Macs : SentWhenCompleted(m)]_vars
  BY StepSendsCompleted
<1>. QED
  BY <1>1, ServerTypes, NetInvariant, PTL DEF Spec, CompletedIsSent, SentWhenCompleted

-------------------------------------------------------------------------------
(* Framing: how the bytes of a connection are cut into frames.             *)

\* A quotient and a remainder, put together and taken apart again.
LEMMA DivMod ==
    ASSUME NEW b \in Nat, b > 0, NEW q \in Int, NEW r \in 0 .. b - 1
    PROVE  (q * b + r) \div b = q /\ (q * b + r) % b = r
  OBVIOUS

\* Position (f - 1) * FrameBytes + k is the k-th byte of frame f.
LEMMA PlaceOf ==
    ASSUME NEW f \in Int, NEW k \in 1 .. FrameBytes
    PROVE  /\ Frame((f - 1) * FrameBytes + k) = f
           /\ Place((f - 1) * FrameBytes + k) = k
<1>1. FrameBytes \in Nat /\ FrameBytes > 0
  BY FrameCharsAssumption DEF FrameBytes
<1>2. k - 1 \in 0 .. FrameBytes - 1 /\ f - 1 \in Int
  BY <1>1
<1>. DEFINE b == FrameBytes
            q == f - 1
            r == k - 1
            p == q * b + k
<1>3. p - 1 = q * b + r
  <2>1. q * b \in Int /\ k \in Int
    BY <1>1, <1>2
  <2>. QED
    BY <2>1
<1>. HIDE DEF b, q, r, p
<1>4. (p - 1) \div b = q /\ (p - 1) % b = r
  <2>1. b \in Nat /\ b > 0 /\ q \in Int /\ r \in 0 .. b - 1
    BY <1>1, <1>2 DEF b, q, r
  <2>. QED
    BY <1>3, <2>1, DivMod
<1>5. q + 1 = f /\ r + 1 = k
  BY <1>1 DEF q, r
<1>. QED
  BY <1>4, <1>5 DEF Frame, Place, b, q, p

\* Every position is in its place.
LEMMA InPlace ==
    ASSUME NEW p \in Int
    PROVE  /\ Frame(p) \in Int /\ Place(p) \in 1 .. FrameBytes
           /\ p = (Frame(p) - 1) * FrameBytes + Place(p)
<1>1. FrameBytes \in Nat /\ FrameBytes > 0
  BY FrameCharsAssumption DEF FrameBytes
<1>. DEFINE q == (p - 1) \div FrameBytes
            r == (p - 1) % FrameBytes
<1>2. q \in Int /\ r \in 0 .. FrameBytes - 1 /\ p - 1 = FrameBytes * q + r
  BY <1>1
<1>. HIDE DEF q, r
<1>3. (q + 1) - 1 = q /\ q + 1 \in Int /\ r + 1 \in 1 .. FrameBytes
  BY <1>1, <1>2
<1>4. p = q * FrameBytes + (r + 1)
  BY <1>1, <1>2
<1>. QED
  BY <1>2, <1>3, <1>4 DEF Frame, Place, q, r

\* Multiplication keeps the order.
LEMMA MulMono ==
    ASSUME NEW b \in Nat, NEW x \in Int, NEW y \in Int, x <= y
    PROVE  x * b <= y * b
  OBVIOUS

\* Between two bytes of different frames lies a zero byte.
LEMMA SameFrame ==
    ASSUME NEW a \in Int, NEW z \in Int, a <= z,
           \A p \in a .. z : ~IsZero(p)
    PROVE  Frame(a) = Frame(z)
<1>. DEFINE b == FrameBytes
            fa == Frame(a)
            fz == Frame(z)
<1>0. b \in Nat /\ b > 0
  BY FrameCharsAssumption DEF FrameBytes
<1>1. /\ fa \in Int /\ fz \in Int
      /\ Place(a) \in 1 .. b /\ a = (fa - 1) * b + Place(a)
      /\ Place(z) \in 1 .. b /\ z = (fz - 1) * b + Place(z)
  BY InPlace
<1>2. Place(z) # b
  BY DEF IsZero
<1>. HIDE DEF b, fa, fz
<1>3. ~(fa < fz)
  <2>. SUFFICES ASSUME fa < fz PROVE FALSE
    OBVIOUS
  <2>1. IsZero((fa - 1) * b + b)
    <3>1. b \in 1 .. FrameBytes /\ fa \in Int /\ b = FrameBytes
      BY <1>0, <1>1 DEF b
    <3>2. Place((fa - 1) * FrameBytes + b) = b
      BY <3>1, PlaceOf
    <3>. QED
      BY <3>1, <3>2 DEF IsZero
  <2>2. (fa - 1) * b + b = fa * b
    BY <1>0, <1>1
  <2>3. fa <= fz - 1 /\ fz - 1 \in Int
    BY <1>1
  <2>4. fa * b <= (fz - 1) * b
    BY <1>0, <1>1, <2>3, MulMono
  <2>5. (fa - 1) * b \in Int /\ (fz - 1) * b \in Int
    BY <1>0, <1>1
  <2>6. (fa - 1) * b + b \in a .. z
    BY <1>0, <1>1, <2>2, <2>4, <2>5
  <2>. QED
    BY <2>1, <2>6
<1>4. ~(fz < fa)
  <2>. SUFFICES ASSUME fz < fa PROVE FALSE
    OBVIOUS
  <2>1. (fz - 1) * b + b = fz * b
    BY <1>0, <1>1
  <2>2. fz <= fa - 1 /\ fa - 1 \in Int
    BY <1>1
  <2>3. fz * b <= (fa - 1) * b
    BY <1>0, <1>1, <2>2, MulMono
  <2>4. (fa - 1) * b \in Int /\ (fz - 1) * b \in Int /\ fz * b \in Int
    BY <1>0, <1>1
  <2>. QED
    BY <1>0, <1>1, <1>2, <2>1, <2>3, <2>4
<1>. QED
  BY <1>1, <1>3, <1>4 DEF fa, fz

-------------------------------------------------------------------------------
\* The segment under way holds, in order, every byte since its first one that
\* was not lost.
Gapless(s, end) ==
    /\ \A i, j \in 1 .. Len(s) : i < j => s[j] - s[i] >= j - i
    /\ \A i \in 1 .. Len(s) : s[i] < end
    /\ \A i \in 1 .. Len(s) : \A p \in s[i] .. end - 1 :
          p \in lost \/ \E k \in 1 .. Len(s) : s[k] = p

\* Types of what the proofs need.
CutTypes ==
    /\ countKind \in [1 .. MaxFrames -> Kinds]
    /\ next \in Nat \ {0} /\ lost \in SUBSET Nat
    /\ segment \in Seq(Nat \ {0})

\* What makes DecodesFrames inductive.
CutInv == CutTypes /\ Gapless(segment, next)

\* Nothing has arrived yet.
LEMMA CutInitInv == CutInit => CutInv
<1>. SUFFICES ASSUME CutInit PROVE CutInv
  OBVIOUS
<1>1. segment \in Seq(Nat \ {0}) /\ Len(segment) = 0
  BY EmptySeq DEF CutInit
<1>2. Gapless(segment, next)
  BY <1>1 DEF Gapless
<1>. QED
  BY <1>1, <1>2 DEF CutInit, CutInv, CutTypes

\* A byte that is lost is known to be missing; any other is appended.
LEMMA CutNextInv == CutInv /\ [CutNext]_cutVars => CutInv'
<1>. SUFFICES ASSUME CutInv, [CutNext]_cutVars PROVE CutInv'
  OBVIOUS
<1>. DEFINE n == Len(segment)
<1>1. /\ CutTypes /\ Gapless(segment, next)
      /\ segment \in Seq(Nat \ {0}) /\ n \in Nat /\ next \in Nat \ {0}
      /\ \A i \in 1 .. n : segment[i] \in Nat \ {0}
  BY LenProperties, ElementOfSeq DEF CutInv, CutTypes
<1>2. CASE Transmit
  <2>. DEFINE s == Append(segment, next)
  <2>1. /\ segment' = s /\ next' = next + 1 /\ lost' = lost /\ countKind' = countKind
    BY <1>2 DEF Transmit
  <2>2. /\ s \in Seq(Nat \ {0}) /\ Len(s) = n + 1
        /\ \A i \in 1 .. n : s[i] = segment[i]
        /\ s[n + 1] = next
    BY <1>1, AppendProperties
  <2>. HIDE DEF s, n
  <2>3. \A i \in 1 .. n + 1 : i \in 1 .. n \/ i = n + 1
    BY <1>1
  <2>4. \A i \in 1 .. n : segment[i] < next
    BY <1>1 DEF Gapless, n
  <2>5. ASSUME NEW i \in 1 .. n + 1, NEW j \in 1 .. n + 1, i < j
        PROVE  s[j] - s[i] >= j - i
    <3>1. i \in 1 .. n
      BY <1>1, <2>5
    <3>2. CASE j \in 1 .. n
      BY <1>1, <2>2, <2>5, <3>1, <3>2 DEF Gapless, n
    <3>3. CASE j = n + 1
      <4>. SUFFICES next - segment[i] >= (n + 1) - i
        BY <2>2, <3>1, <3>3
      <4>1. CASE i = n
        BY <1>1, <2>4, <3>1, <4>1
      <4>2. CASE i < n
        <5>1. n \in 1 .. n /\ segment[n] - segment[i] >= n - i
          BY <1>1, <3>1, <4>2 DEF Gapless, n
        <5>2. segment[n] < next /\ segment[n] \in Nat /\ segment[i] \in Nat
          BY <1>1, <2>4, <3>1, <5>1
        <5>. QED
          BY <1>1, <3>1, <5>1, <5>2
      <4>. QED
        BY <1>1, <3>1, <4>1, <4>2
    <3>. QED
      BY <2>3, <3>2, <3>3
  <2>6. \A i \in 1 .. n + 1 : s[i] < next + 1
    BY <1>1, <2>2, <2>3, <2>4, SMTT(30)
  <2>7. ASSUME NEW i \in 1 .. n + 1, NEW p \in s[i] .. (next + 1) - 1
        PROVE  p \in lost \/ \E k \in 1 .. n + 1 : s[k] = p
    <3>1. CASE p = next
      BY <1>1, <2>2, <3>1
    <3>2. CASE p # next
      <4>1. i \in 1 .. n /\ p \in segment[i] .. next - 1
        BY <1>1, <2>2, <2>3, <3>2
      <4>2. p \in lost \/ \E k \in 1 .. n : segment[k] = p
        BY <1>1, <4>1 DEF Gapless, n
      <4>. QED
        BY <1>1, <2>2, <4>2
    <3>. QED
      BY <3>1, <3>2
  <2>8. Gapless(segment, next)'
    BY <2>1, <2>2, <2>5, <2>6, <2>7 DEF Gapless
  <2>. QED
    BY <1>1, <2>1, <2>2, <2>8 DEF CutInv, CutTypes
<1>3. CASE Lose
  <2>1. /\ segment' = segment /\ next' = next + 1 /\ lost' = lost \cup {next}
        /\ countKind' = countKind
    BY <1>3 DEF Lose
  <2>2. \A i \in 1 .. n : segment[i] < next + 1
    BY <1>1 DEF Gapless
  <2>3. ASSUME NEW i \in 1 .. n, NEW p \in segment[i] .. (next + 1) - 1
        PROVE  p \in lost' \/ \E k \in 1 .. n : segment[k] = p
    <3>1. CASE p = next
      BY <2>1, <3>1
    <3>2. CASE p # next
      <4>1. p \in segment[i] .. next - 1
        BY <1>1, <3>2
      <4>. QED
        BY <1>1, <2>1, <4>1 DEF Gapless
    <3>. QED
      BY <3>1, <3>2
  <2>4. Gapless(segment, next)'
    BY <1>1, <2>1, <2>2, <2>3 DEF Gapless
  <2>. QED
    BY <1>1, <2>1, <2>4 DEF CutInv, CutTypes
<1>4. CASE Data
  <2>1. segment' = <<>> /\ UNCHANGED <<countKind, next, lost>>
    BY <1>4 DEF Data
  <2>2. segment' \in Seq(Nat \ {0}) /\ Len(segment') = 0
    BY <2>1, EmptySeq
  <2>3. Gapless(segment, next)'
    BY <2>2 DEF Gapless
  <2>. QED
    BY <1>1, <2>1, <2>2, <2>3 DEF CutInv, CutTypes
<1>5. CASE UNCHANGED cutVars
  BY <1>1, <1>5 DEF cutVars, CutInv, CutTypes, Gapless
<1>. QED
  BY <1>2, <1>3, <1>4, <1>5 DEF CutNext

\* A piece of a segment is a part of it without a zero byte.
LEMMA PieceOf ==
    ASSUME NEW s \in Seq(Nat \ {0}), NEW c \in Split(s), c # <<>>
    PROVE  \E i \in 1 .. Len(s) : \E j \in i .. Len(s) :
              /\ c \in Seq(Nat \ {0}) /\ Len(c) = j - i + 1
              /\ \A k \in 1 .. Len(c) : c[k] = s[i + k - 1] /\ ~IsZero(c[k])
<1>1. PICK ij \in (DOMAIN s) \X (DOMAIN s) :
         c = SubSeq(s, ij[1], ij[2]) /\ \A k \in ij[1] .. ij[2] : ~IsZero(s[k])
  BY DEF Split
<1>. DEFINE i == ij[1]
            j == ij[2]
<1>2. /\ i \in 1 .. Len(s) /\ j \in 1 .. Len(s) /\ Len(s) \in Nat
      /\ c = SubSeq(s, i, j) /\ \A k \in i .. j : ~IsZero(s[k])
  BY <1>1, LenProperties
<1>. HIDE DEF i, j
<1>3. i <= j
  <2>1. i \in Int /\ j \in Int
    BY <1>2
  <2>. QED
    BY <1>2, <2>1, SubSeqEmpty
<1>4. \A k \in i .. j : s[k] \in Nat \ {0}
  <2>1. \A k \in i .. j : k \in 1 .. Len(s)
    BY <1>2
  <2>. QED
    BY <2>1, ElementOfSeq
<1>5. /\ c \in Seq(Nat \ {0}) /\ Len(c) = j - i + 1
      /\ \A k \in 1 .. j - i + 1 : c[k] = s[i + k - 1]
  <2>1. i \in Int /\ j \in Int
    BY <1>2
  <2>2. /\ SubSeq(s, i, j) \in Seq(Nat \ {0})
        /\ Len(SubSeq(s, i, j)) = IF i <= j THEN j - i + 1 ELSE 0
        /\ \A k \in 1 .. j - i + 1 : SubSeq(s, i, j)[k] = s[i + k - 1]
    BY <1>4, <2>1, SubSeqProperties
  <2>3. c = SubSeq(s, i, j)
    BY <1>2
  <2>. QED
    BY <1>3, <2>2, <2>3
<1>6. ASSUME NEW k \in 1 .. Len(c) PROVE c[k] = s[i + k - 1] /\ ~IsZero(c[k])
  <2>1. i + k - 1 \in i .. j
    BY <1>2, <1>5
  <2>. QED
    BY <1>2, <1>5, <2>1
<1>7. j \in i .. Len(s)
  BY <1>2, <1>3
<1>. QED
  BY <1>2, <1>5, <1>6, <1>7

\* Only a lead and the continuation behind it make a piece shorter.
LEMMA LengthBounds ==
    ASSUME NEW c \in Seq(Nat \ {0})
    PROVE  /\ Length(c) <= Len(c)
           /\ (\A k \in 1 .. Len(c) - 1 :
                 ~(Kind(c[k]) = "lead" /\ Kind(c[k + 1]) = "cont")) => Length(c) = Len(c)
<1>. DEFINE T == {k \in 1 .. Len(c) - 1 : Kind(c[k]) = "lead" /\ Kind(c[k + 1]) = "cont"}
<1>1. Len(c) \in Nat
  BY LenProperties
<1>2. Cardinality(T) \in Nat
  <2>1. Len(c) - 1 \in Int
    BY <1>1
  <2>2. IsFiniteSet(1 .. Len(c) - 1)
    BY <2>1, FS_Interval
  <2>3. T \in SUBSET (1 .. Len(c) - 1)
    OBVIOUS
  <2>. HIDE DEF T
  <2>4. IsFiniteSet(T)
    BY <2>2, <2>3, FS_Subset
  <2>. QED
    BY <2>4, FS_CardinalityType
<1>3. Length(c) = Len(c) - Cardinality(T)
  BY DEF Length
<1>4. (\A k \in 1 .. Len(c) - 1 : ~(Kind(c[k]) = "lead" /\ Kind(c[k + 1]) = "cont"))
         => T = {}
  OBVIOUS
<1>. HIDE DEF T
<1>5. Length(c) <= Len(c)
  BY <1>1, <1>2, <1>3
<1>6. T = {} => Length(c) = Len(c)
  BY <1>1, <1>3, FS_EmptySet
<1>. QED
  BY <1>4, <1>5, <1>6

\* A piece of 31 characters is a frame, unless a zero byte is missing from it.
LEMMA PieceIsFrame ==
    ASSUME CutInv, NEW c \in Split(segment), Length(c) = FrameChars
    PROVE  \/ c = WholeFrame(Frame(c[1]))
           \/ \E p \in lost : IsZero(p) /\ c[1] < p /\ p < c[Len(c)]
<1>1. segment \in Seq(Nat \ {0}) /\ Gapless(segment, next)
  BY DEF CutInv, CutTypes
<1>2. FrameChars \in Nat /\ FrameChars >= 3
  BY FrameCharsAssumption
<1>3. c # <<>>
  <2>1. <<>> \in Seq(Nat \ {0}) /\ Len(<<>>) = 0
    BY EmptySeq
  <2>2. Length(<<>>) <= 0
    BY <2>1, LengthBounds
  <2>. QED
    BY <1>2, <2>2
<1>4. PICK i \in 1 .. Len(segment) : \E j \in i .. Len(segment) :
         /\ c \in Seq(Nat \ {0}) /\ Len(c) = j - i + 1
         /\ \A k \in 1 .. Len(c) : c[k] = segment[i + k - 1] /\ ~IsZero(c[k])
  BY <1>1, <1>3, PieceOf
<1>5. PICK j \in i .. Len(segment) :
         /\ c \in Seq(Nat \ {0}) /\ Len(c) = j - i + 1
         /\ \A k \in 1 .. Len(c) : c[k] = segment[i + k - 1] /\ ~IsZero(c[k])
  BY <1>4
<1>. DEFINE n == Len(c)
<1>6. Len(segment) \in Nat /\ n \in Nat /\ n >= FrameChars /\ n = j - i + 1
  BY <1>2, <1>5, LengthBounds, LenProperties
<1>7. \A k \in 1 .. n : c[k] \in Nat \ {0}
  BY <1>5, ElementOfSeq
<1>. HIDE DEF n
<1>8. \A k, l \in 1 .. n : k < l => c[l] - c[k] >= l - k
  <2>. SUFFICES ASSUME NEW k \in 1 .. n, NEW l \in 1 .. n, k < l
                PROVE  c[l] - c[k] >= l - k
    OBVIOUS
  <2>1. i + k - 1 \in 1 .. Len(segment) /\ i + l - 1 \in 1 .. Len(segment)
        /\ i + k - 1 < i + l - 1 /\ (i + l - 1) - (i + k - 1) = l - k
    BY <1>6
  <2>2. segment[i + l - 1] - segment[i + k - 1] >= (i + l - 1) - (i + k - 1)
    BY <1>1, <2>1 DEF Gapless
  <2>. QED
    BY <1>5, <2>1, <2>2 DEF n
<1>9. 1 \in 1 .. n /\ n \in 1 .. n /\ 1 < n
  BY <1>2, <1>6
<1>10. SUFFICES ASSUME ~\E p \in lost : IsZero(p) /\ c[1] < p /\ p < c[n]
                PROVE  c = WholeFrame(Frame(c[1]))
  BY DEF n
<1>11. ASSUME NEW p \in c[1] .. c[n] PROVE ~IsZero(p)
  <2>1. CASE p = c[1] \/ p = c[n]
    BY <1>5, <1>9, <2>1 DEF n
  <2>2. CASE p \in lost /\ p # c[1] /\ p # c[n]
    BY <1>7, <1>9, <1>10, <2>2
  <2>3. CASE \E k \in 1 .. Len(segment) : segment[k] = p
    <3>1. PICK k \in 1 .. Len(segment) : segment[k] = p
      BY <2>3
    <3>2. c[1] = segment[i] /\ c[n] = segment[j]
      <4>1. i + 1 - 1 = i /\ i + n - 1 = j
        BY <1>6
      <4>2. c[1] = segment[i + 1 - 1] /\ c[n] = segment[i + n - 1]
        BY <1>5, <1>9 DEF n
      <4>. QED
        BY <4>1, <4>2
    <3>3. segment[i] <= segment[k] /\ segment[k] <= segment[j]
          /\ segment[i] \in Nat /\ segment[k] \in Nat /\ segment[j] \in Nat
      BY <1>1, <1>6, <3>1, <3>2, ElementOfSeq
    <3>4. i <= k
      <4>. SUFFICES ASSUME k < i PROVE FALSE
        BY <1>6
      <4>1. segment[i] - segment[k] >= i - k
        BY <1>1 DEF Gapless
      <4>. QED
        BY <3>3, <4>1
    <3>5. k <= j
      <4>. SUFFICES ASSUME j < k PROVE FALSE
        BY <1>6
      <4>1. j \in 1 .. Len(segment)
        BY <1>6
      <4>2. segment[k] - segment[j] >= k - j
        BY <1>1, <4>1 DEF Gapless
      <4>. QED
        BY <3>3, <4>2
    <3>6. k - i + 1 \in 1 .. n /\ i + (k - i + 1) - 1 = k
      BY <1>6, <3>4, <3>5
    <3>7. c[k - i + 1] = segment[i + (k - i + 1) - 1] /\ ~IsZero(c[k - i + 1])
      BY <1>5, <3>6 DEF n
    <3>. QED
      BY <3>1, <3>6, <3>7
  <2>4. p \in lost \/ \E k \in 1 .. Len(segment) : segment[k] = p
    <3>1. c[1] = segment[i]
      <4>1. i + 1 - 1 = i
        BY <1>6
      <4>. QED
        BY <1>5, <1>9, <4>1 DEF n
    <3>2. c[n] < next
      <4>1. i + n - 1 \in 1 .. Len(segment)
        BY <1>6
      <4>2. c[n] = segment[i + n - 1]
        BY <1>5, <1>9 DEF n
      <4>. QED
        BY <1>1, <4>1, <4>2 DEF Gapless
    <3>3. p \in segment[i] .. next - 1
      <4>1. next \in Nat
        BY DEF CutInv, CutTypes
      <4>. QED
        BY <1>7, <1>9, <3>1, <3>2, <4>1
    <3>. QED
      BY <1>1, <3>3 DEF Gapless
  <2>. QED
    BY <2>1, <2>2, <2>3, <2>4
<1>. DEFINE f == Frame(c[1])
            b == FrameBytes
            q == (f - 1) * b
<1>12. Frame(c[n]) = f
  <2>1. c[1] \in Int /\ c[n] \in Int /\ c[1] <= c[n]
    BY <1>7, <1>8, <1>9
  <2>2. Frame(c[1]) = Frame(c[n])
    BY <1>11, <2>1, SameFrame
  <2>. QED
    BY <2>2
<1>13. /\ f \in Int /\ q \in Int /\ b = FrameChars + 1
       /\ c[1] = q + Place(c[1]) /\ Place(c[1]) \in 1 .. b
       /\ c[n] = q + Place(c[n]) /\ Place(c[n]) \in 1 .. b /\ Place(c[n]) # b
  <2>1. c[1] \in Int /\ c[n] \in Int
    BY <1>7, <1>9
  <2>2. /\ Frame(c[1]) \in Int /\ Place(c[1]) \in 1 .. FrameBytes
        /\ c[1] = (Frame(c[1]) - 1) * FrameBytes + Place(c[1])
    BY <2>1, InPlace
  <2>3. /\ Place(c[n]) \in 1 .. FrameBytes
        /\ c[n] = (Frame(c[n]) - 1) * FrameBytes + Place(c[n])
    BY <2>1, InPlace
  <2>4. Place(c[n]) # FrameBytes
    BY <1>5, <1>9 DEF IsZero, n
  <2>5. FrameBytes = FrameChars + 1
    BY DEF FrameBytes
  <2>6. q \in Int
    BY <1>2, <2>2, <2>5
  <2>. QED
    BY <1>12, <2>2, <2>3, <2>4, <2>5, <2>6
<1>. HIDE DEF f, b, q
<1>14. c[n] - c[1] >= n - 1
  BY <1>8, <1>9
<1>15. n = FrameChars /\ c[1] = q + 1 /\ c[n] = q + n
  <2>. DEFINE p1 == Place(c[1])
              pn == Place(c[n])
  <2>1. /\ p1 \in Int /\ pn \in Int /\ q \in Int /\ n \in Int /\ FrameChars \in Int
        /\ c[1] = q + p1 /\ c[n] = q + pn /\ p1 >= 1 /\ pn <= FrameChars
        /\ n >= FrameChars
    BY <1>2, <1>6, <1>13
  <2>. HIDE DEF p1, pn
  <2>2. (q + pn) - (q + p1) >= n - 1
    BY <1>14, <2>1
  <2>3. pn - p1 >= n - 1
    BY <2>1, <2>2
  <2>4. p1 = 1 /\ pn = n /\ n = FrameChars
    BY <2>1, <2>3
  <2>. QED
    BY <2>1, <2>4
<1>16. ASSUME NEW k \in 1 .. n PROVE c[k] = q + k
  <2>1. c[k] - c[1] >= k - 1
    BY <1>7, <1>8, <1>9
  <2>2. c[n] - c[k] >= n - k
    BY <1>6, <1>7, <1>8, <1>9
  <2>. DEFINE ck == c[k]
  <2>3. ck \in Int /\ k \in Int /\ q \in Int /\ n \in Int
    BY <1>6, <1>7, <1>13
  <2>4. ck - (q + 1) >= k - 1 /\ (q + n) - ck >= n - k
    BY <1>15, <2>1, <2>2
  <2>. HIDE DEF ck
  <2>5. ck = q + k
    BY <2>3, <2>4
  <2>. QED
    BY <2>5 DEF ck
<1>17. c = [k \in 1 .. n |-> c[k]]
  BY <1>5, LenProperties DEF n
<1>18. c = [k \in 1 .. FrameChars |-> q + k]
  BY <1>15, <1>16, <1>17
<1>. QED
  BY <1>18 DEF WholeFrame, f, b, q

-------------------------------------------------------------------------------
\* Nothing is decoded yet.
LEMMA DecodesFramesInit == CutInit => DecodesFrames
  BY DEF CutInit, DecodesFrames

\* A data event decodes frames only; what is lost later takes nothing back.
LEMMA DecodesFramesNext ==
    CutInv /\ DecodesFrames /\ [CutNext]_cutVars => DecodesFrames'
<1>. SUFFICES ASSUME CutInv, DecodesFrames, [CutNext]_cutVars PROVE DecodesFrames'
  OBVIOUS
<1>1. CASE Data
  <2>1. /\ lost' = lost
        /\ decoded' = {c \in Split(segment) : Length(c) = FrameChars}
    BY <1>1 DEF Data
  <2>2. \A c \in decoded' : \/ c = WholeFrame(Frame(c[1]))
                            \/ \E p \in lost : IsZero(p) /\ c[1] < p /\ p < c[Len(c)]
    BY <2>1, PieceIsFrame
  <2>. QED
    BY <2>1, <2>2 DEF DecodesFrames
<1>2. CASE Transmit \/ Lose \/ UNCHANGED cutVars
  <2>1. decoded' = decoded /\ lost \subseteq lost'
    BY <1>2 DEF Transmit, Lose, cutVars
  <2>. QED
    BY <2>1 DEF DecodesFrames
<1>. QED
  BY <1>1, <1>2 DEF CutNext

\* For any length of frames, any borders of the segments and any losses, what
\* is decoded is one complete frame unless a zero byte inside it was lost.
THEOREM FramingDecodesFrames == CutSpec => []DecodesFrames
<1>1. CutInit => CutInv /\ DecodesFrames
  BY CutInitInv, DecodesFramesInit
<1>2. CutInv /\ DecodesFrames /\ [CutNext]_cutVars => (CutInv /\ DecodesFrames)'
  BY CutNextInv, DecodesFramesNext
<1>. QED
  BY <1>1, <1>2, PTL DEF CutSpec

===============================================================================
