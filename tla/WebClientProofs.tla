--------------------------- MODULE WebClientProofs ----------------------------
(***************************************************************************)
(* The browser client for any devices, nodes and length of the windows and *)
(* any number of visits, emissions and losses: how often it is subscribed, *)
(* and what its windows hold.                                              *)
(***************************************************************************)
EXTENDS WebClient, FiniteSetTheorems, SequenceTheorems, TLAPS

Records == [mac: Macs, rssi: UNION {[S -> Nat] : S \in SUBSET Nodes}]
Groups  == UNION {[S -> Seq(Nat)] : S \in SUBSET Nodes}
Pages   == [mac: Macs, conn: Nat, groups: Groups]

WebTypes ==
    /\ conn \in Nat
    /\ toServer \in Seq(Macs) /\ toBrowser \in Seq(Records)
    /\ list \in [Macs -> Nat] /\ emits \in Nat
    /\ pages \in Seq(Pages) /\ got \in Seq(Seq(Records))
    /\ Len(got) = Len(pages)

\* No page is of a connection yet to come.
PagesUpToNow == \A i \in DOMAIN pages : pages[i].conn <= conn

-------------------------------------------------------------------------------
(* Counting places of a sequence.                                          *)

\* The places of s that hold x.
Places(s, x) == {i \in DOMAIN s : s[i] = x}

\* A set of places is finite.
LEMMA PlacesFinite ==
    ASSUME NEW n \in Nat, NEW P \in SUBSET (1 .. n)
    PROVE  IsFiniteSet(P) /\ Cardinality(P) \in Nat
<1>1. IsFiniteSet(1 .. n)
  BY FS_Interval
<1>2. IsFiniteSet(P)
  BY <1>1, FS_Subset
<1>. QED
  BY <1>2, FS_CardinalityType

\* One more place counts one more, when it is of the kind that is counted.
LEMMA OneMore ==
    ASSUME NEW n \in Nat, NEW P \in SUBSET (1 .. n)
    PROVE  Cardinality(P \cup {n + 1}) = Cardinality(P) + 1
<1>1. IsFiniteSet(P)
  BY PlacesFinite
<1>2. n + 1 \notin P
  OBVIOUS
<1>. QED
  BY <1>1, <1>2, FS_AddElement

\* What is appended is counted.
LEMMA PlacesAppend ==
    ASSUME NEW S, NEW s \in Seq(S), NEW a \in S, NEW x
    PROVE  Cardinality(Places(Append(s, a), x))
               = Cardinality(Places(s, x)) + (IF a = x THEN 1 ELSE 0)
<1>. DEFINE n == Len(s)
<1>1. /\ n \in Nat /\ DOMAIN s = 1 .. n
      /\ DOMAIN Append(s, a) = 1 .. n + 1
      /\ \A i \in 1 .. n : Append(s, a)[i] = s[i]
      /\ Append(s, a)[n + 1] = a
  BY LenProperties, AppendProperties
<1>. HIDE DEF n
<1>2. Places(s, x) \in SUBSET (1 .. n)
  BY <1>1 DEF Places
<1>3. Cardinality(Places(s, x)) \in Nat
  BY <1>1, <1>2, PlacesFinite
<1>4. \A i \in 1 .. n + 1 : i \in 1 .. n \/ i = n + 1
  BY <1>1
<1>5. CASE a = x
  <2>1. Places(Append(s, a), x) = Places(s, x) \cup {n + 1}
    BY <1>1, <1>4, <1>5 DEF Places
  <2>. QED
    BY <1>1, <1>2, <1>5, <2>1, OneMore
<1>6. CASE a # x
  <2>1. Places(Append(s, a), x) = Places(s, x)
    BY <1>1, <1>4, <1>6 DEF Places
  <2>. QED
    BY <1>3, <1>6, <2>1
<1>. QED
  BY <1>5, <1>6

\* What is taken off the head is counted no more.
LEMMA PlacesTail ==
    ASSUME NEW S, NEW s \in Seq(S), s # <<>>, NEW x
    PROVE  Cardinality(Places(s, x))
               = Cardinality(Places(Tail(s), x)) + (IF Head(s) = x THEN 1 ELSE 0)
<1>. DEFINE n == Len(s)
            P == Places(Tail(s), x)
            Q == {i \in 2 .. n : s[i] = x}
            f == [i \in P |-> i + 1]
<1>1. /\ n \in Nat /\ n >= 1 /\ DOMAIN s = 1 .. n /\ Head(s) = s[1]
      /\ DOMAIN Tail(s) = 1 .. n - 1
      /\ \A i \in 1 .. n - 1 : Tail(s)[i] = s[i + 1]
  BY LenProperties, EmptySeq, HeadTailProperties
<1>. HIDE DEF n
<1>2. P \in SUBSET (1 .. n - 1) /\ Q \in SUBSET (1 .. n)
  BY <1>1 DEF Places
<1>3. f \in Bijection(P, Q)
  <2>1. \A i \in P : i + 1 \in Q
    BY <1>1, <1>2 DEF Places
  <2>2. f \in Injection(P, Q)
    BY <1>2, <2>1 DEF Injection, IsInjective
  <2>3. \A j \in Q : j - 1 \in P /\ f[j - 1] = j
    <3>. TAKE j \in Q
    <3>1. j - 1 \in 1 .. n - 1 /\ (j - 1) + 1 = j
      BY <1>1
    <3>2. Tail(s)[j - 1] = s[(j - 1) + 1]
      BY <1>1, <3>1
    <3>3. j - 1 \in P
      BY <1>1, <3>1, <3>2 DEF Places
    <3>. QED
      BY <3>1, <3>3
  <2>. QED
    <3>1. f \in [P -> Q]
      BY <2>1
    <3>. HIDE DEF f, P, Q
    <3>2. \A j \in Q : \E i \in P : f[i] = j
      BY <2>3
    <3>. QED
      BY <2>2, <3>1, <3>2 DEF Bijection, Surjection
<1>4. IsFiniteSet(P) /\ IsFiniteSet(Q) /\ Cardinality(Q) \in Nat
  <2>1. n - 1 \in Nat
    BY <1>1
  <2>. HIDE DEF P, Q
  <2>. QED
    BY <1>1, <1>2, <2>1, PlacesFinite
<1>5. Cardinality(P) = Cardinality(Q)
  BY <1>3, <1>4, FS_Bijection DEF ExistsBijection
<1>6. CASE s[1] = x
  <2>1. Places(s, x) = Q \cup {1} /\ 1 \notin Q
    BY <1>1, <1>6 DEF Places
  <2>2. Cardinality(Q \cup {1}) = Cardinality(Q) + 1
    <3>. HIDE DEF Q
    <3>. QED
      BY <1>4, <2>1, FS_AddElement
  <2>. HIDE DEF P, Q
  <2>3. Head(s) = x
    BY <1>1, <1>6
  <2>4. Cardinality(Places(s, x)) = Cardinality(P) + 1
    BY <1>5, <2>1, <2>2
  <2>. QED
    BY <2>3, <2>4 DEF P
<1>7. CASE s[1] # x
  <2>1. Places(s, x) = Q
    BY <1>1, <1>7 DEF Places
  <2>. QED
    BY <1>1, <1>4, <1>5, <1>7, <2>1
<1>. QED
  BY <1>6, <1>7

-------------------------------------------------------------------------------
(* Types.                                                                  *)

\* A function on 1 .. n is a sequence.
LEMMA SeqOfFun ==
    ASSUME NEW S, NEW n \in Nat, NEW f \in [1 .. n -> S]
    PROVE  f \in Seq(S) /\ Len(f) = n
<1>1. f \in Seq(S)
  BY SeqDef
<1>2. Len(f) \in Nat /\ DOMAIN f = 1 .. Len(f)
  BY <1>1, LenProperties
<1>3. 1 .. Len(f) = 1 .. n
  BY <1>2
<1>. QED
  BY <1>1, <1>2, <1>3

\* A page starts without windows.
LEMMA NoGroups == <<>> \in Groups /\ DOMAIN <<>> = {}
<1>1. DOMAIN <<>> = {}
  BY EmptySeq
<1>2. <<>> \in [{} -> Seq(Nat)]
  BY <1>1
<1>. QED
  BY <1>1, <1>2 DEF Groups

\* A record turns windows into windows.
LEMMA ShownGroups ==
    ASSUME NEW groups \in Groups, NEW r \in Records
    PROVE  /\ Shown(groups, r.rssi) \in Groups
           /\ DOMAIN Shown(groups, r.rssi) = DOMAIN groups \cup DOMAIN r.rssi
<1>1. /\ DOMAIN groups \subseteq Nodes /\ \A k \in DOMAIN groups : groups[k] \in Seq(Nat)
      /\ DOMAIN r.rssi \subseteq Nodes /\ \A k \in DOMAIN r.rssi : r.rssi[k] \in Nat
  BY DEF Groups, Records
<1>. DEFINE D == DOMAIN groups \cup DOMAIN r.rssi
            p == Pushed(groups, r.rssi)
<1>2. zeros \in Seq(Nat)
  BY LimitAssumption DEF zeros
<1>3. DOMAIN p = D /\ \A k \in D : p[k] \in Seq(Nat)
  <2>1. DOMAIN p = D
    BY DEF Pushed
  <2>2. ASSUME NEW k \in D PROVE p[k] \in Seq(Nat)
    <3>. DEFINE data == IF k \in DOMAIN groups THEN groups[k] ELSE zeros
    <3>1. data \in Seq(Nat)
      BY <1>1, <1>2
    <3>2. p[k] = IF k \in DOMAIN r.rssi THEN Append(data, r.rssi[k]) ELSE data
      BY DEF Pushed
    <3>. HIDE DEF data, p
    <3>. QED
      BY <1>1, <3>1, <3>2, AppendProperties
  <2>. QED
    BY <2>1, <2>2
<1>. HIDE DEF p
<1>4. Shown(groups, r.rssi) = [k \in D |-> shift(p[k])]
  BY <1>3 DEF Shown, p
<1>5. \A k \in D : shift(p[k]) \in Seq(Nat)
  BY <1>3, HeadTailProperties DEF shift
<1>6. D \in SUBSET Nodes
  BY <1>1
<1>. HIDE DEF D
<1>7. [k \in D |-> shift(p[k])] \in [D -> Seq(Nat)]
  BY <1>5
<1>. QED
  BY <1>4, <1>6, <1>7 DEF Groups, D

\* The initial state has the types.
LEMMA WebInitTypes == Init => WebTypes /\ PagesUpToNow
<1>. SUFFICES ASSUME Init PROVE WebTypes /\ PagesUpToNow
  OBVIOUS
<1>1. /\ toServer \in Seq(Macs) /\ toBrowser \in Seq(Records) /\ pages \in Seq(Pages)
      /\ got \in Seq(Seq(Records)) /\ Len(got) = Len(pages) /\ DOMAIN pages = {}
  BY EmptySeq DEF Init
<1>. QED
  BY <1>1 DEF Init, WebTypes, PagesUpToNow

\* A step keeps the types, and opens no page of a connection yet to come.
LEMMA WebNextTypes ==
    WebTypes /\ PagesUpToNow /\ [Next]_vars => (WebTypes /\ PagesUpToNow)'
<1>. SUFFICES ASSUME WebTypes, PagesUpToNow, [Next]_vars
              PROVE  (WebTypes /\ PagesUpToNow)'
  OBVIOUS
<1>. USE DEF WebTypes, PagesUpToNow
<1>1. CASE Connect
  BY <1>1 DEF Connect
<1>2. CASE Lose
  <2>1. /\ conn' = conn + 1 /\ toServer' = <<>> /\ toBrowser' = <<>>
        /\ list' \in [Macs -> Nat] /\ UNCHANGED <<emits, pages, got>>
    BY <1>2 DEF Lose
  <2>2. toServer' \in Seq(Macs) /\ toBrowser' \in Seq(Records)
    BY <2>1, EmptySeq
  <2>3. \A i \in DOMAIN pages : pages[i].conn \in Nat
    <3>1. \A i \in 1 .. Len(pages) : pages[i] \in Pages
      BY ElementOfSeq
    <3>2. DOMAIN pages = 1 .. Len(pages)
      BY LenProperties
    <3>. QED
      BY <3>1, <3>2 DEF Pages
  <2>. QED
    BY <2>1, <2>2, <2>3
<1>3. CASE Subscribe
  <2>1. Tail(toServer) \in Seq(Macs) /\ Head(toServer) \in Macs
    BY <1>3, HeadTailProperties DEF Subscribe
  <2>2. list' \in [Macs -> Nat]
    BY <1>3, <2>1, SMTT(30) DEF Subscribe, Listed
  <2>. QED
    BY <1>3, <2>1, <2>2 DEF Subscribe, netVars
<1>4. CASE Emit
  <2>1. PICK m \in Macs, S \in (SUBSET Nodes) \ {{}} :
           toBrowser' = toBrowser \o
               [i \in 1 .. list[m] |-> [mac |-> m, rssi |-> [k \in S |-> emits + 1]]]
    BY <1>4 DEF Emit
  <2>. DEFINE r == [mac |-> m, rssi |-> [k \in S |-> emits + 1]]
  <2>2. r \in Records
    <3>1. [k \in S |-> emits + 1] \in [S -> Nat]
      OBVIOUS
    <3>. QED
      BY <3>1 DEF Records
  <2>. HIDE DEF r
  <2>3. [i \in 1 .. list[m] |-> r] \in Seq(Records)
    <3>. DEFINE f == [i \in 1 .. list[m] |-> r]
    <3>1. list[m] \in Nat
      OBVIOUS
    <3>2. f \in [1 .. list[m] -> Records]
      BY <2>2
    <3>. HIDE DEF f
    <3>3. f \in Seq(Records)
      BY <3>1, <3>2, SeqOfFun
    <3>. QED
      BY <3>3 DEF f
  <2>4. toBrowser' \in Seq(Records)
    BY <2>1, <2>3, ConcatProperties DEF r
  <2>. QED
    BY <1>4, <2>4 DEF Emit, netVars
<1>5. CASE Data
  <2>. DEFINE msg == Head(toBrowser)
  <2>1. /\ msg \in Records /\ toBrowser' \in Seq(Records)
        /\ UNCHANGED <<up, conn, toServer, list, emits>>
        /\ pages' = [i \in DOMAIN pages |->
                        [pages[i] EXCEPT !.groups = Shown(@, msg.rssi)]]
        /\ got' = [i \in DOMAIN got |-> Append(got[i], msg)]
    BY <1>5, HeadTailProperties DEF Data, netVars
  <2>. HIDE DEF msg
  <2>2. /\ DOMAIN pages = 1 .. Len(pages) /\ DOMAIN got = 1 .. Len(pages)
        /\ Len(pages) \in Nat
    BY LenProperties
  <2>3. ASSUME NEW i \in 1 .. Len(pages)
        PROVE  pages'[i] \in Pages /\ pages'[i].conn = pages[i].conn
    <3>1. pages[i] \in Pages
      BY ElementOfSeq
    <3>2. Shown(pages[i].groups, msg.rssi) \in Groups
      BY <2>1, <3>1, ShownGroups DEF Pages
    <3>. QED
      BY <2>1, <2>2, <3>1, <3>2 DEF Pages
  <2>4. ASSUME NEW i \in 1 .. Len(pages) PROVE got'[i] \in Seq(Records)
    <3>1. got[i] \in Seq(Records)
      BY ElementOfSeq
    <3>. QED
      BY <2>1, <2>2, <3>1, AppendProperties
  <2>5. /\ pages' \in [1 .. Len(pages) -> Pages]
        /\ got' \in [1 .. Len(pages) -> Seq(Records)]
    BY <2>1, <2>2, <2>3, <2>4
  <2>6. /\ pages' \in Seq(Pages) /\ Len(pages') = Len(pages)
        /\ got' \in Seq(Seq(Records)) /\ Len(got') = Len(pages)
    BY <2>2, <2>5, SeqOfFun
  <2>. QED
    BY <2>1, <2>2, <2>3, <2>6
<1>6. ASSUME NEW m \in Macs, Visit(m) PROVE (WebTypes /\ PagesUpToNow)'
  <2>. DEFINE p == [mac |-> m, conn |-> conn, groups |-> <<>>]
  <2>1. /\ toServer' = Append(toServer, m) /\ pages' = Append(pages, p)
        /\ got' = Append(got, <<>>)
        /\ UNCHANGED <<up, conn, list, emits, toBrowser>>
    BY <1>6 DEF Visit, netVars
  <2>2. p \in Pages /\ p.conn = conn
    BY NoGroups DEF Pages
  <2>3. <<>> \in Seq(Records)
    BY EmptySeq
  <2>. HIDE DEF p
  <2>4. /\ toServer' \in Seq(Macs)
        /\ pages' \in Seq(Pages) /\ Len(pages') = Len(pages) + 1
        /\ got' \in Seq(Seq(Records)) /\ Len(got') = Len(got) + 1
    BY <2>1, <2>2, <2>3, AppendProperties
  <2>5. /\ Len(pages) \in Nat /\ DOMAIN pages = 1 .. Len(pages)
        /\ DOMAIN pages' = 1 .. Len(pages) + 1
        /\ \A i \in 1 .. Len(pages) : pages'[i] = pages[i]
        /\ pages'[Len(pages) + 1] = p
    BY <2>1, <2>2, <2>4, LenProperties, AppendProperties
  <2>. QED
    BY <2>1, <2>2, <2>4, <2>5
<1>7. CASE UNCHANGED vars
  BY <1>7 DEF vars, netVars
<1>. QED
  BY <1>1, <1>2, <1>3, <1>4, <1>5, <1>6, <1>7 DEF Next

-------------------------------------------------------------------------------
(* Subscriptions.                                                          *)

\* The visits that subscribed on connection n.
Visits(m, n) == {i \in DOMAIN pages : pages[i].mac = m /\ pages[i].conn = n}

\* The property, in these terms.
LEMMA OneEntry ==
    OneEntryPerVisit <=>
        \A m \in Macs : list[m] + Cardinality(Places(toServer, m))
                            = Cardinality(Visits(m, conn))
  BY DEF OneEntryPerVisit, Places, Visits

\* The initial state has no visits.
LEMMA OneEntryInit == Init => OneEntryPerVisit
<1>. SUFFICES ASSUME Init, NEW m \in Macs
              PROVE  list[m] + Cardinality(Places(toServer, m))
                         = Cardinality(Visits(m, conn))
  BY OneEntry
<1>1. Places(toServer, m) = {} /\ Visits(m, conn) = {} /\ list[m] = 0
  BY EmptySeq DEF Init, Places, Visits
<1>2. Cardinality({}) = 0
  BY FS_EmptySet
<1>. QED
  BY <1>1, <1>2

\* A step keeps the balance: a visit adds a message and a page, the server turns
\* the message into an entry, and a loss leaves none of the three.
LEMMA OneEntryNext ==
    WebTypes /\ PagesUpToNow /\ OneEntryPerVisit /\ [Next]_vars => OneEntryPerVisit'
<1>. SUFFICES ASSUME WebTypes, PagesUpToNow, OneEntryPerVisit, [Next]_vars
              PROVE  OneEntryPerVisit'
  OBVIOUS
<1>. SUFFICES ASSUME NEW m \in Macs
              PROVE  list'[m] + Cardinality(Places(toServer', m))
                         = Cardinality(Visits(m, conn)')
  BY DEF OneEntryPerVisit, Places, Visits
<1>1. /\ conn \in Nat /\ toServer \in Seq(Macs) /\ list \in [Macs -> Nat]
      /\ pages \in Seq(Pages) /\ Len(pages) \in Nat /\ DOMAIN pages = 1 .. Len(pages)
      /\ \A i \in 1 .. Len(pages) : pages[i].conn <= conn
      /\ list[m] + Cardinality(Places(toServer, m)) = Cardinality(Visits(m, conn))
  BY OneEntry, LenProperties DEF WebTypes, PagesUpToNow
<1>2. \A i \in 1 .. Len(pages) : pages[i] \in Pages
  BY <1>1, ElementOfSeq
<1>3. Visits(m, conn) \in SUBSET (1 .. Len(pages))
  BY <1>1 DEF Visits
<1>4. /\ Cardinality(Places(toServer, m)) \in Nat
      /\ Cardinality(Visits(m, conn)) \in Nat
  <2>1. Len(toServer) \in Nat /\ Places(toServer, m) \in SUBSET (1 .. Len(toServer))
    BY <1>1, LenProperties DEF Places
  <2>. QED
    BY <1>1, <1>3, <2>1, PlacesFinite
<1>5. CASE UNCHANGED <<conn, toServer, list, pages>>
  <2>1. Visits(m, conn)' = Visits(m, conn)
    BY <1>5 DEF Visits
  <2>. QED
    BY <1>1, <1>5, <2>1
<1>6. CASE Lose
  <2>1. /\ conn' = conn + 1 /\ pages' = pages /\ list'[m] = 0 /\ toServer' = <<>>
    BY <1>6 DEF Lose
  <2>2. Visits(m, conn)' = {}
    <3>1. \A i \in 1 .. Len(pages) : pages[i].conn # conn + 1
      BY <1>1, <1>2 DEF Pages
    <3>. QED
      BY <1>1, <2>1, <3>1 DEF Visits
  <2>3. Places(toServer', m) = {}
    BY <2>1, EmptySeq DEF Places
  <2>4. Cardinality({}) = 0
    BY FS_EmptySet
  <2>. QED
    BY <2>1, <2>2, <2>3, <2>4, SMTT(30)
<1>7. CASE Subscribe
  <2>1. /\ toServer # <<>> /\ toServer' = Tail(toServer)
        /\ list' = Listed(Head(toServer)) /\ UNCHANGED <<conn, pages>>
    BY <1>7 DEF Subscribe, netVars
  <2>2. Visits(m, conn)' = Visits(m, conn)
    BY <2>1 DEF Visits
  <2>3. Head(toServer) \in Macs /\ Tail(toServer) \in Seq(Macs)
    BY <1>1, <2>1, HeadTailProperties
  <2>. DEFINE one == IF Head(toServer) = m THEN 1 ELSE 0
              left == Cardinality(Places(Tail(toServer), m))
  <2>4. list'[m] = list[m] + one
    BY <1>1, <2>1, <2>3 DEF Listed
  <2>5. Cardinality(Places(toServer, m)) = left + one
    BY <1>1, <2>1, PlacesTail
  <2>6. left \in Nat
    <3>1. /\ Len(Tail(toServer)) \in Nat
          /\ Places(Tail(toServer), m) \in SUBSET (1 .. Len(Tail(toServer)))
      BY <2>3, LenProperties DEF Places
    <3>. QED
      BY <3>1, PlacesFinite
  <2>7. one \in Nat /\ list[m] \in Nat
    BY <1>1
  <2>8. Cardinality(Places(toServer', m)) = left
    BY <2>1
  <2>. HIDE DEF one, left
  <2>9. (list[m] + one) + left = list[m] + (left + one)
    BY <2>6, <2>7
  <2>. QED
    BY <1>1, <2>2, <2>4, <2>5, <2>8, <2>9
<1>8. CASE Data
  <2>1. /\ UNCHANGED <<conn, toServer, list>>
        /\ pages' = [i \in DOMAIN pages |->
              [pages[i] EXCEPT !.groups = Shown(@, Head(toBrowser).rssi)]]
    BY <1>8 DEF Data, netVars
  <2>2. /\ DOMAIN pages' = 1 .. Len(pages)
        /\ \A i \in 1 .. Len(pages) :
              pages'[i].mac = pages[i].mac /\ pages'[i].conn = pages[i].conn
    BY <1>1, <1>2, <2>1 DEF Pages
  <2>3. Visits(m, conn)' = Visits(m, conn)
    BY <1>1, <2>1, <2>2 DEF Visits
  <2>. QED
    BY <1>1, <2>1, <2>3
<1>9. ASSUME NEW v \in Macs, Visit(v)
      PROVE  list'[m] + Cardinality(Places(toServer', m)) = Cardinality(Visits(m, conn)')
  <2>. DEFINE p == [mac |-> v, conn |-> conn, groups |-> <<>>]
              one == IF v = m THEN 1 ELSE 0
  <2>1. /\ toServer' = Append(toServer, v) /\ pages' = Append(pages, p)
        /\ UNCHANGED <<conn, list>> /\ p \in Pages
    BY <1>1, <1>9, NoGroups DEF Visit, netVars, Pages
  <2>2. /\ DOMAIN pages' = 1 .. Len(pages) + 1
        /\ \A i \in 1 .. Len(pages) : pages'[i] = pages[i]
        /\ pages'[Len(pages) + 1].mac = v /\ pages'[Len(pages) + 1].conn = conn
    <3>1. p.mac = v /\ p.conn = conn
      OBVIOUS
    <3>. HIDE DEF p
    <3>. QED
      BY <1>1, <2>1, <3>1, AppendProperties, LenProperties
  <2>3. \A i \in 1 .. Len(pages) + 1 : i \in 1 .. Len(pages) \/ i = Len(pages) + 1
    <3>. DEFINE n == Len(pages)
    <3>1. n \in Nat
      BY <1>1
    <3>. HIDE DEF n
    <3>2. \A i \in 1 .. n + 1 : i \in 1 .. n \/ i = n + 1
      BY <3>1
    <3>. QED
      BY <3>2 DEF n
  <2>4. Cardinality(Places(toServer', m)) = Cardinality(Places(toServer, m)) + one
    BY <1>1, <2>1, PlacesAppend
  <2>5. Cardinality(Visits(m, conn)') = Cardinality(Visits(m, conn)) + one
    <3>1. CASE v = m
      <4>1. Visits(m, conn)' = Visits(m, conn) \cup {Len(pages) + 1}
        BY <1>1, <2>1, <2>2, <2>3, <3>1 DEF Visits
      <4>. QED
        BY <1>1, <1>3, <3>1, <4>1, OneMore
    <3>2. CASE v # m
      <4>1. Visits(m, conn)' = Visits(m, conn)
        BY <1>1, <2>1, <2>2, <2>3, <3>2 DEF Visits
      <4>. QED
        BY <1>4, <3>2, <4>1
    <3>. QED
      BY <3>1, <3>2
  <2>6. one \in Nat /\ list[m] \in Nat /\ list'[m] = list[m]
    BY <1>1, <2>1
  <2>. HIDE DEF one
  <2>. QED
    BY <1>1, <1>4, <2>4, <2>5, <2>6
<1>. QED
  BY <1>5, <1>6, <1>7, <1>8, <1>9 DEF Next, Connect, Emit, netVars, vars

\* A device is subscribed once for every visit of the current connection.
THEOREM WebOneEntryPerVisit == Spec => []OneEntryPerVisit
<1>1. Init => WebTypes /\ PagesUpToNow /\ OneEntryPerVisit
  BY WebInitTypes, OneEntryInit
<1>2. WebTypes /\ PagesUpToNow /\ OneEntryPerVisit /\ [Next]_vars
          => (WebTypes /\ PagesUpToNow /\ OneEntryPerVisit)'
  BY WebNextTypes, OneEntryNext
<1>. QED
  BY <1>1, <1>2, PTL DEF Spec

-------------------------------------------------------------------------------
(* Windows.                                                                *)

\* The records from p on that name node k.
HitsFrom(s, k, p) == {q \in Hits(s, k) : q >= p}

\* What value number rank, from the newest on, should be.
IsRank(v, s, k, rank) ==
    \/ rank > Cardinality(Hits(s, k)) /\ v = 0
    \/ \E p \in Hits(s, k) :
          Cardinality(HitsFrom(s, k, p)) = rank /\ v = s[p].rssi[k]

\* How many values are left of a window.
Kept(s, k) == IF Cardinality(Gaps(s, k)) < limit
              THEN limit - Cardinality(Gaps(s, k)) ELSE 0

\* The property of a window, in these terms.
LEMMA WindowIs ==
    ASSUME NEW d, NEW s, NEW k
    PROVE  IsWindow(d, s, k) <=>
               /\ Len(d) = Kept(s, k)
               /\ \A x \in 1 .. Len(d) : IsRank(d[x], s, k, Len(d) - x + 1)
  BY DEF IsWindow, IsRank, Kept, HitsFrom

\* Hits and gaps are places of the records.
LEMMA HitsFinite ==
    ASSUME NEW s \in Seq(Records), NEW k
    PROVE  /\ Hits(s, k) \in SUBSET (1 .. Len(s)) /\ Gaps(s, k) \in SUBSET (1 .. Len(s))
           /\ Cardinality(Hits(s, k)) \in Nat /\ Cardinality(Gaps(s, k)) \in Nat
           /\ \A p : HitsFrom(s, k, p) \in SUBSET (1 .. Len(s))
<1>1. Len(s) \in Nat /\ DOMAIN s = 1 .. Len(s)
  BY LenProperties
<1>2. Hits(s, k) \in SUBSET (1 .. Len(s)) /\ Gaps(s, k) \in SUBSET (1 .. Len(s))
  BY <1>1 DEF Hits, Gaps
<1>. QED
  BY <1>1, <1>2, PlacesFinite DEF HitsFrom

\* A record that names the node is one more hit and no gap.
LEMMA HitMore ==
    ASSUME NEW s \in Seq(Records), NEW r \in Records, NEW k \in DOMAIN r.rssi
    PROVE  /\ Hits(Append(s, r), k) = Hits(s, k) \cup {Len(s) + 1}
           /\ Gaps(Append(s, r), k) = Gaps(s, k)
<1>1. /\ Len(s) \in Nat /\ DOMAIN s = 1 .. Len(s)
      /\ DOMAIN Append(s, r) = 1 .. Len(s) + 1
      /\ \A p \in 1 .. Len(s) : Append(s, r)[p] = s[p]
      /\ Append(s, r)[Len(s) + 1] = r
  BY LenProperties, AppendProperties
<1>. DEFINE n == Len(s)
            t == Append(s, r)
<1>2. /\ n \in Nat /\ DOMAIN s = 1 .. n /\ DOMAIN t = 1 .. n + 1
      /\ \A p \in 1 .. n : t[p] = s[p]
      /\ t[n + 1] = r
  BY <1>1
<1>. HIDE DEF n, t
<1>3. \A i \in 1 .. n + 1 : i \in 1 .. n \/ i = n + 1
  BY <1>2
<1>4. Hits(t, k) = Hits(s, k) \cup {n + 1}
  BY <1>2, <1>3 DEF Hits
<1>5. Hits(s, k) \subseteq 1 .. n
  BY <1>2 DEF Hits
<1>6. \A p \in 1 .. n : ~(n + 1 < p)
  BY <1>2
<1>7. (1 .. n + 1) \ Hits(t, k) = (1 .. n) \ Hits(s, k)
  BY <1>2, <1>3, <1>4, <1>5
<1>8. Gaps(t, k) = Gaps(s, k)
  BY <1>2, <1>4, <1>6, <1>7 DEF Gaps
<1>. QED
  BY <1>4, <1>8 DEF n, t

\* A record without the node is no hit, and a gap once there was a hit.
LEMMA GapMore ==
    ASSUME NEW s \in Seq(Records), NEW r \in Records, NEW k, k \notin DOMAIN r.rssi
    PROVE  /\ Hits(Append(s, r), k) = Hits(s, k)
           /\ Gaps(Append(s, r), k)
                  = IF Hits(s, k) # {} THEN Gaps(s, k) \cup {Len(s) + 1} ELSE {}
<1>. DEFINE n == Len(s)
            t == Append(s, r)
<1>2. /\ n \in Nat /\ DOMAIN s = 1 .. n /\ DOMAIN t = 1 .. n + 1
      /\ \A p \in 1 .. n : t[p] = s[p]
      /\ t[n + 1] = r
  BY LenProperties, AppendProperties
<1>. HIDE DEF n, t
<1>3. \A i \in 1 .. n + 1 : i \in 1 .. n \/ i = n + 1
  BY <1>2
<1>4. Hits(t, k) = Hits(s, k)
  BY <1>2, <1>3 DEF Hits
<1>5. \A q \in Hits(s, k) : q \in 1 .. n /\ q < n + 1
  BY <1>2 DEF Hits
<1>6. (1 .. n + 1) \ Hits(t, k) = ((1 .. n) \ Hits(s, k)) \cup {n + 1}
  BY <1>2, <1>3, <1>4, <1>5
<1>7. Gaps(t, k) = IF Hits(s, k) # {} THEN Gaps(s, k) \cup {n + 1} ELSE {}
  BY <1>2, <1>4, <1>5, <1>6 DEF Gaps
<1>. QED
  BY <1>4, <1>7 DEF n, t

\* The zeros a window is made of are right while the node was not named.
LEMMA ZerosWindow ==
    ASSUME NEW s \in Seq(Records), NEW k, Hits(s, k) = {}
    PROVE  zeros \in Seq(Nat) /\ IsWindow(zeros, s, k)
<1>1. limit \in Nat /\ zeros \in [1 .. limit -> Nat] /\ \A x \in 1 .. limit : zeros[x] = 0
  BY LimitAssumption DEF zeros
<1>2. zeros \in Seq(Nat) /\ Len(zeros) = limit
  BY <1>1, SeqOfFun
<1>3. Gaps(s, k) = {} /\ Cardinality({}) = 0
  BY FS_EmptySet DEF Gaps
<1>4. Kept(s, k) = limit
  BY <1>1, <1>3 DEF Kept
<1>5. \A x \in 1 .. limit : limit - x + 1 > Cardinality(Hits(s, k))
  BY <1>1, <1>3
<1>. QED
  BY <1>1, <1>2, <1>4, <1>5, WindowIs DEF IsRank

\* The value of the newest record has rank 1.
LEMMA NewestRank ==
    ASSUME NEW s \in Seq(Records), NEW r \in Records, NEW k \in DOMAIN r.rssi
    PROVE  IsRank(r.rssi[k], Append(s, r), k, 1)
<1>. DEFINE n == Len(s)
            t == Append(s, r)
<1>1. n \in Nat /\ t[n + 1] = r /\ Hits(t, k) = Hits(s, k) \cup {n + 1}
  BY HitMore, LenProperties, AppendProperties
<1>2. \A q \in Hits(s, k) : q \in 1 .. n
  BY HitsFinite
<1>. HIDE DEF n, t
<1>3. HitsFrom(t, k, n + 1) = {n + 1}
  BY <1>1, <1>2 DEF HitsFrom
<1>4. Cardinality({n + 1}) = 1
  BY FS_Singleton
<1>. QED
  BY <1>1, <1>3, <1>4 DEF IsRank, n, t

\* A value is one rank older after a record that names the node.
LEMMA OlderRank ==
    ASSUME NEW s \in Seq(Records), NEW r \in Records, NEW k \in DOMAIN r.rssi,
           NEW v, NEW rank \in Nat, IsRank(v, s, k, rank)
    PROVE  IsRank(v, Append(s, r), k, rank + 1)
<1>. DEFINE n == Len(s)
            t == Append(s, r)
<1>1. /\ n \in Nat /\ Hits(t, k) = Hits(s, k) \cup {n + 1}
      /\ \A p \in 1 .. n : t[p] = s[p]
  BY HitMore, LenProperties, AppendProperties
<1>2. /\ Hits(s, k) \in SUBSET (1 .. n) /\ Cardinality(Hits(s, k)) \in Nat
      /\ \A p : HitsFrom(s, k, p) \in SUBSET (1 .. n)
  BY HitsFinite
<1>. HIDE DEF n, t
<1>3. CASE rank > Cardinality(Hits(s, k)) /\ v = 0
  <2>1. Cardinality(Hits(t, k)) = Cardinality(Hits(s, k)) + 1
    BY <1>1, <1>2, OneMore
  <2>2. rank + 1 > Cardinality(Hits(t, k))
    BY <1>2, <1>3, <2>1
  <2>. QED
    BY <1>3, <2>2 DEF IsRank, t
<1>4. ASSUME NEW p \in Hits(s, k), Cardinality(HitsFrom(s, k, p)) = rank, v = s[p].rssi[k]
      PROVE  IsRank(v, t, k, rank + 1)
  <2>1. p \in 1 .. n /\ t[p] = s[p] /\ n + 1 >= p
    BY <1>1, <1>2
  <2>2. HitsFrom(t, k, p) = HitsFrom(s, k, p) \cup {n + 1}
    BY <1>1, <2>1 DEF HitsFrom
  <2>3. Cardinality(HitsFrom(t, k, p)) = rank + 1
    BY <1>1, <1>2, <1>4, <2>2, OneMore
  <2>. QED
    BY <1>1, <1>4, <2>1, <2>3 DEF IsRank
<1>. QED
  BY <1>3, <1>4 DEF IsRank, t

\* A record that names the node: its value comes in, the oldest one goes.
LEMMA WindowTurns ==
    ASSUME NEW s \in Seq(Records), NEW r \in Records, NEW k \in DOMAIN r.rssi,
           NEW d \in Seq(Nat), IsWindow(d, s, k), r.rssi[k] \in Nat
    PROVE  IsWindow(shift(Append(d, r.rssi[k])), Append(s, r), k)
<1>. DEFINE v == r.rssi[k]
            t == Append(s, r)
            e == Append(d, v)
            L == Len(d)
<1>1. /\ L \in Nat /\ e \in Seq(Nat) /\ Len(e) = L + 1 /\ e # <<>>
      /\ \A x \in 1 .. L : e[x] = d[x]
      /\ e[L + 1] = v
  <2>1. v \in Nat
    OBVIOUS
  <2>. HIDE DEF v
  <2>2. L \in Nat
    BY LenProperties
  <2>3. /\ e \in Seq(Nat) /\ e # <<>> /\ Len(e) = Len(d) + 1
        /\ \A x \in 1 .. Len(d) : e[x] = d[x]
        /\ e[Len(d) + 1] = v
    BY <2>1, AppendProperties, SMTT(30)
  <2>. QED
    BY <2>2, <2>3
<1>2. L = Kept(s, k) /\ \A x \in 1 .. L : IsRank(d[x], s, k, L - x + 1)
  BY WindowIs
<1>3. Kept(t, k) = Kept(s, k)
  BY HitMore DEF Kept
<1>4. IsRank(v, t, k, 1)
  BY NewestRank
<1>5. \A w, rank : rank \in Nat /\ IsRank(w, s, k, rank) => IsRank(w, t, k, rank + 1)
  BY OlderRank
<1>. HIDE DEF e, L, t, v
<1>6. shift(e) = Tail(e)
  BY <1>1 DEF shift
<1>7. Len(Tail(e)) = L /\ \A x \in 1 .. L : Tail(e)[x] = e[x + 1]
  <2>1. Len(Tail(e)) = Len(e) - 1 /\ \A x \in 1 .. Len(Tail(e)) : Tail(e)[x] = e[x + 1]
    BY <1>1, HeadTailProperties
  <2>2. (L + 1) - 1 = L
    BY <1>1
  <2>. QED
    BY <1>1, <2>1, <2>2
<1>8. ASSUME NEW x \in 1 .. L PROVE IsRank(Tail(e)[x], t, k, L - x + 1)
  <2>1. CASE x = L
    <3>1. Tail(e)[x] = v /\ L - x + 1 = 1
      BY <1>1, <1>7, <2>1
    <3>. QED
      BY <1>4, <3>1
  <2>2. CASE x # L
    <3>1. x + 1 \in 1 .. L /\ L - (x + 1) + 1 \in Nat /\ (L - (x + 1) + 1) + 1 = L - x + 1
      BY <1>1, <2>2
    <3>2. Tail(e)[x] = d[x + 1]
      BY <1>1, <1>7, <3>1
    <3>3. IsRank(d[x + 1], s, k, L - (x + 1) + 1)
      BY <1>2, <3>1
    <3>4. IsRank(d[x + 1], t, k, (L - (x + 1) + 1) + 1)
      BY <1>5, <3>1, <3>3
    <3>. QED
      BY <3>1, <3>2, <3>4
  <2>. QED
    BY <2>1, <2>2
<1>9. IsWindow(Tail(e), t, k)
  BY <1>2, <1>3, <1>7, <1>8, WindowIs
<1>. QED
  BY <1>6, <1>9 DEF e, t, v

\* A record without the node: the oldest value goes, if one is left.
LEMMA WindowShrinks ==
    ASSUME NEW s \in Seq(Records), NEW r \in Records, NEW k, k \notin DOMAIN r.rssi,
           Hits(s, k) # {}, NEW d \in Seq(Nat), IsWindow(d, s, k)
    PROVE  IsWindow(shift(d), Append(s, r), k)
<1>. DEFINE n == Len(s)
            t == Append(s, r)
            L == Len(d)
            g == Cardinality(Gaps(s, k))
<1>1. /\ n \in Nat /\ L \in Nat /\ g \in Nat
      /\ Hits(t, k) = Hits(s, k) /\ Gaps(t, k) = Gaps(s, k) \cup {n + 1}
      /\ \A p \in 1 .. n : t[p] = s[p]
      /\ Hits(s, k) \in SUBSET (1 .. n) /\ Gaps(s, k) \in SUBSET (1 .. n)
  BY GapMore, HitsFinite, LenProperties, AppendProperties, SMTT(30)
<1>2. L = Kept(s, k) /\ \A x \in 1 .. L : IsRank(d[x], s, k, L - x + 1)
  BY WindowIs
<1>. HIDE DEF n, t, L
<1>3. Cardinality(Gaps(t, k)) = g + 1
  BY <1>1, OneMore
<1>4. \A w, rank : IsRank(w, s, k, rank) => IsRank(w, t, k, rank)
  BY <1>1 DEF IsRank, HitsFrom
<1>. HIDE DEF g
<1>5. limit \in Nat /\ L = (IF g < limit THEN limit - g ELSE 0)
      /\ Kept(t, k) = (IF g + 1 < limit THEN limit - (g + 1) ELSE 0)
  BY <1>2, <1>3, LimitAssumption DEF Kept, g
<1>6. CASE L = 0
  <2>1. d = <<>> /\ shift(d) = d /\ Len(d) = 0
    BY <1>6, EmptySeq DEF L, shift
  <2>2. Kept(t, k) = 0
    BY <1>1, <1>5, <1>6
  <2>3. IsWindow(d, t, k)
    BY <2>1, <2>2, WindowIs
  <2>. QED
    BY <2>1, <2>3 DEF t
<1>7. CASE L # 0
  <2>1. d # <<>>
    BY <1>7, EmptySeq DEF L
  <2>2. shift(d) = Tail(d)
    BY <2>1 DEF shift
  <2>3. Len(Tail(d)) = L - 1 /\ \A x \in 1 .. L - 1 : Tail(d)[x] = d[x + 1]
    BY <2>1, HeadTailProperties DEF L
  <2>4. Kept(t, k) = L - 1
    BY <1>1, <1>5, <1>7
  <2>5. ASSUME NEW x \in 1 .. L - 1 PROVE IsRank(Tail(d)[x], t, k, (L - 1) - x + 1)
    <3>1. x + 1 \in 1 .. L /\ (L - 1) - x + 1 = L - (x + 1) + 1
      BY <1>1
    <3>2. IsRank(d[x + 1], s, k, L - (x + 1) + 1)
      BY <1>2, <3>1
    <3>. QED
      BY <1>4, <2>3, <3>1, <3>2
  <2>6. IsWindow(Tail(d), t, k)
    BY <2>3, <2>4, <2>5, WindowIs
  <2>. QED
    BY <2>2, <2>6 DEF t
<1>. QED
  BY <1>6, <1>7

\* What the listener of a page does with a record keeps its windows right.
LEMMA PageShows ==
    ASSUME NEW s \in Seq(Records), NEW r \in Records, NEW groups \in Groups,
           DOMAIN groups = {k \in Nodes : Hits(s, k) # {}},
           \A k \in DOMAIN groups : IsWindow(groups[k], s, k)
    PROVE  /\ DOMAIN Shown(groups, r.rssi) = {k \in Nodes : Hits(Append(s, r), k) # {}}
           /\ \A k \in DOMAIN Shown(groups, r.rssi) :
                 IsWindow(Shown(groups, r.rssi)[k], Append(s, r), k)
<1>1. /\ DOMAIN groups \subseteq Nodes /\ \A k \in DOMAIN groups : groups[k] \in Seq(Nat)
      /\ DOMAIN r.rssi \subseteq Nodes /\ \A k \in DOMAIN r.rssi : r.rssi[k] \in Nat
  BY DEF Groups, Records
<1>2. DOMAIN Shown(groups, r.rssi) = DOMAIN groups \cup DOMAIN r.rssi
  BY ShownGroups
<1>3. ASSUME NEW k \in Nodes
      PROVE  Hits(Append(s, r), k) # {} <=> k \in DOMAIN groups \cup DOMAIN r.rssi
  <2>1. CASE k \in DOMAIN r.rssi
    BY <2>1, HitMore, SMTT(30)
  <2>2. CASE k \notin DOMAIN r.rssi
    BY <2>2, GapMore
  <2>. QED
    BY <2>1, <2>2
<1>4. ASSUME NEW k \in DOMAIN groups \cup DOMAIN r.rssi
      PROVE  IsWindow(Shown(groups, r.rssi)[k], Append(s, r), k)
  <2>. DEFINE data == IF k \in DOMAIN groups THEN groups[k] ELSE zeros
  <2>1. k \in Nodes
    BY <1>1
  <2>2. data \in Seq(Nat) /\ IsWindow(data, s, k)
    BY <1>1, <2>1, ZerosWindow
  <2>3. Shown(groups, r.rssi)[k]
           = shift(IF k \in DOMAIN r.rssi THEN Append(data, r.rssi[k]) ELSE data)
    BY DEF Shown, Pushed
  <2>4. CASE k \in DOMAIN r.rssi
    <3>. HIDE DEF data
    <3>1. IsWindow(shift(Append(data, r.rssi[k])), Append(s, r), k)
      BY <1>1, <2>2, <2>4, WindowTurns
    <3>. QED
      BY <2>3, <2>4, <3>1
  <2>5. CASE k \notin DOMAIN r.rssi
    <3>1. Hits(s, k) # {}
      BY <2>5
    <3>. HIDE DEF data
    <3>2. IsWindow(shift(data), Append(s, r), k)
      BY <2>2, <2>5, <3>1, WindowShrinks
    <3>. QED
      BY <2>3, <2>5, <3>2
  <2>. QED
    BY <2>4, <2>5
<1>. QED
  BY <1>1, <1>2, <1>3, <1>4

\* The initial state has no windows.
LEMMA WindowInit == Init => WindowHoldsNewest
  BY EmptySeq DEF Init, WindowHoldsNewest

\* A step keeps the windows right: only a record changes one, a visit starts
\* with none.
LEMMA WindowNext ==
    WebTypes /\ WindowHoldsNewest /\ [Next]_vars => WindowHoldsNewest'
<1>. SUFFICES ASSUME WebTypes, WindowHoldsNewest, [Next]_vars PROVE WindowHoldsNewest'
  OBVIOUS
<1>. DEFINE Right(page, s) ==
        /\ DOMAIN page.groups = {k \in Nodes : Hits(s, k) # {}}
        /\ \A k \in DOMAIN page.groups : IsWindow(page.groups[k], s, k)
<1>1. /\ pages \in Seq(Pages) /\ got \in Seq(Seq(Records)) /\ Len(got) = Len(pages)
      /\ Len(pages) \in Nat /\ DOMAIN pages = 1 .. Len(pages)
      /\ DOMAIN got = 1 .. Len(pages)
  BY LenProperties DEF WebTypes
<1>2. \A i \in 1 .. Len(pages) :
         pages[i] \in Pages /\ got[i] \in Seq(Records) /\ Right(pages[i], got[i])
  BY <1>1, ElementOfSeq DEF WindowHoldsNewest
<1>3. SUFFICES \A i \in DOMAIN pages' : Right(pages'[i], got'[i])
  BY DEF WindowHoldsNewest, IsWindow, Hits, Gaps
<1>4. CASE UNCHANGED <<pages, got>>
  BY <1>1, <1>2, <1>4
<1>5. CASE Data
  <2>. DEFINE r == Head(toBrowser)
  <2>1. /\ r \in Records
        /\ pages' = [i \in DOMAIN pages |-> [pages[i] EXCEPT !.groups = Shown(@, r.rssi)]]
        /\ got' = [i \in DOMAIN got |-> Append(got[i], r)]
    BY <1>5, HeadTailProperties DEF Data, WebTypes
  <2>. HIDE DEF r
  <2>2. ASSUME NEW i \in 1 .. Len(pages) PROVE Right(pages'[i], got'[i])
    <3>1. pages[i].groups \in Groups /\ got[i] \in Seq(Records)
      BY <1>2 DEF Pages
    <3>2. /\ pages'[i].groups = Shown(pages[i].groups, r.rssi)
          /\ got'[i] = Append(got[i], r)
      BY <1>1, <1>2, <2>1 DEF Pages
    <3>3. Right(pages[i], got[i])
      BY <1>2
    <3>4. /\ DOMAIN Shown(pages[i].groups, r.rssi)
                = {k \in Nodes : Hits(Append(got[i], r), k) # {}}
          /\ \A k \in DOMAIN Shown(pages[i].groups, r.rssi) :
                IsWindow(Shown(pages[i].groups, r.rssi)[k], Append(got[i], r), k)
      BY <2>1, <3>1, <3>3, PageShows
    <3>. QED
      BY <3>2, <3>4
  <2>3. DOMAIN pages' = 1 .. Len(pages)
    BY <1>1, <2>1
  <2>. QED
    BY <2>2, <2>3
<1>6. ASSUME NEW m \in Macs, Visit(m) PROVE \A i \in DOMAIN pages' : Right(pages'[i], got'[i])
  <2>. DEFINE p == [mac |-> m, conn |-> conn, groups |-> <<>>]
              n == Len(pages)
  <2>1. pages' = Append(pages, p) /\ got' = Append(got, <<>>)
    BY <1>6 DEF Visit
  <2>2. p \in Pages /\ p.groups = <<>> /\ <<>> \in Seq(Records) /\ DOMAIN <<>> = {}
    BY NoGroups, EmptySeq DEF Pages, WebTypes
  <2>. HIDE DEF p
  <2>3. /\ n \in Nat /\ DOMAIN pages' = 1 .. n + 1
        /\ \A i \in 1 .. n : pages'[i] = pages[i] /\ got'[i] = got[i]
        /\ pages'[n + 1] = p /\ got'[n + 1] = <<>>
    BY <1>1, <2>1, <2>2, AppendProperties, LenProperties
  <2>4. Right(p, <<>>)
    BY <2>2 DEF Hits
  <2>. HIDE DEF n
  <2>5. \A i \in 1 .. n + 1 : i \in 1 .. n \/ i = n + 1
    BY <2>3
  <2>6. \A i \in 1 .. n : Right(pages[i], got[i])
    BY <1>2 DEF n
  <2>. HIDE DEF Right
  <2>. QED
    BY <2>3, <2>4, <2>5, <2>6
<1>. HIDE DEF Right
<1>. QED
  BY <1>4, <1>5, <1>6 DEF Next, Connect, Lose, Subscribe, Emit, vars

\* Every window holds the newest values of its node.
THEOREM WebWindowHoldsNewest == Spec => []WindowHoldsNewest
<1>1. Init => WebTypes /\ PagesUpToNow /\ WindowHoldsNewest
  BY WebInitTypes, WindowInit
<1>2. WebTypes /\ PagesUpToNow /\ WindowHoldsNewest /\ [Next]_vars
          => (WebTypes /\ PagesUpToNow /\ WindowHoldsNewest)'
  BY WebNextTypes, WindowNext
<1>. QED
  BY <1>1, <1>2, PTL DEF Spec
===============================================================================
