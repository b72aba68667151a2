-------------------------------- MODULE Bridge --------------------------------
(***************************************************************************)
(* The bridge ESP8266, wiloc-master: bytes that the sniffer sends over the *)
(* UART go, through an interrupt handler, two ring buffers and a write     *)
(* task, to a TCP connection that a main task opens and reopens.           *)
(*                                                                         *)
(* One core: a task runs only while no interrupt does (isr = "idle"), and  *)
(* the tasks, all of priority 2, are time-sliced between any two of their  *)
(* steps.  The interrupt handler is broken into one step per byte; nothing *)
(* but the UART hardware runs in between.                                  *)
(*                                                                         *)
(* Bytes are numbered 1, 2, 3 ... in the order the sniffer sent them, so   *)
(* that loss, repetition and reordering show; 0 is the initial storage.    *)
(***************************************************************************)
EXTENDS RingBufOps, Sequences, FiniteSets

CONSTANTS
    Mains,      \* task slots for main_task
    Writers,    \* task slots for write_task
    Fds,        \* socket descriptors of the TCP/IP stack
    MSize,      \* sizeof(tx_buffer_m), 16384 in the code
    TSize,      \* sizeof(tx_buffer_t), 1024 in the code
    FifoCap,    \* depth of the UART's receive FIFO, 128 in the chip
    MaxBytes,   \* bound: bytes the sniffer sends
    MaxIp,      \* bound: EVENT_STAMODE_GOT_IP events
    MaxConn,    \* bound: connections the server accepts
    NoFd,       \* the descriptor -1
    NoTask      \* nobody holds the mutex

ASSUME SizesAssumption ==
    /\ MSize \in Nat /\ MSize >= 2
    /\ TSize \in Nat /\ TSize >= 2
ASSUME BoundsAssumption ==
    /\ FifoCap \in Nat \ {0}
    /\ MaxBytes \in Nat /\ MaxIp \in Nat /\ MaxConn \in Nat
ASSUME NamesAssumption ==
    /\ NoFd \notin Fds
    /\ NoTask \notin Writers /\ "isr" \notin Writers /\ NoTask # "isr"

VARIABLES
    fifo,           \* the UART's receive FIFO
    sent,           \* bytes sent by the sniffer so far
    isr,            \* where the interrupt handler uart_rx is
    rxlen,          \* its length - i: bytes it still has to read
    ringM, ringT,   \* ringbuf_m (its storage is tx_buffer_m) and ringbuf_t
    owner,          \* holder of ringbuf_mutex
    tx_queue,       \* whether the queue of length one holds an item
    wpc,            \* where each write_task is, "none" when it does not exist
    wi, wlen,       \* its locals i and length
    mpc,            \* where each main_task is, "none" when it does not exist
    mfd,            \* the descriptor it passed to the call it is blocked in
    sta_socket, sock_connected,
    fd,             \* state of each descriptor
    connected,      \* user_wifi.c: the station has an address
    gotIp, conns,   \* events so far, for the bounds
    from, taken,    \* history: ring position and contents when a write_task
                    \*   took the mutex
    wire,           \* history: bytes handed to a live connection
    crowded         \* history: a write_task was created while another existed

isrVars  == <<fifo, sent, isr, rxlen>>
ringVars == <<ringM, ringT, owner, tx_queue>>
wVars    == <<wpc, wi, wlen, from, taken, wire>>
mVars    == <<mpc, mfd, sta_socket, sock_connected, fd, conns, crowded>>
wifiVars == <<connected, gotIp>>
vars     == <<isrVars, ringVars, wVars, mVars, wifiVars>>

\* user_init; the tasks do not exist yet and sta_socket is not read before
\* main_task has assigned it.
Init ==
    /\ fifo = <<>> /\ sent = 0 /\ isr = "idle" /\ rxlen = 0
    /\ ringM = ringbuf_init(0, MSize) /\ ringT = ringbuf_init(0, TSize)
    /\ owner = NoTask /\ tx_queue = FALSE
    /\ wpc = [w \in Writers |-> "none"]
    /\ wi = [w \in Writers |-> 0] /\ wlen = [w \in Writers |-> 0]
    /\ from = [w \in Writers |-> 0] /\ taken = [w \in Writers |-> <<>>]
    /\ wire = <<>>
    /\ mpc = [m \in Mains |-> "none"] /\ mfd = [m \in Mains |-> NoFd]
    /\ sta_socket = NoFd /\ sock_connected = FALSE
    /\ fd = [f \in Fds |-> "free"] /\ conns = 0
    /\ crowded = FALSE
    /\ connected = FALSE /\ gotIp = 0

-------------------------------------------------------------------------------
(* The UART hardware and the interrupt handler uart_rx.                    *)

\* The next byte arrives, at any time; a full FIFO loses it.
UartByte ==
    /\ sent < MaxBytes
    /\ sent' = sent + 1
    /\ fifo' = IF Len(fifo) < FifoCap THEN Append(fifo, sent + 1) ELSE fifo
    /\ UNCHANGED <<isr, rxlen, ringVars, wVars, mVars, wifiVars>>

\* Without a connection one character is read and dropped.
IsrDiscard ==
    /\ isr = "idle" /\ fifo # <<>>
    /\ ~sock_connected
    /\ fifo' = Tail(fifo)
    /\ UNCHANGED <<sent, isr, rxlen, ringVars, wVars, mVars, wifiVars>>

\* Mutant of IsrEnter: the handler does not ask for the mutex.
IsrEnterUnlocked ==
    /\ isr = "idle" /\ fifo # <<>>
    /\ sock_connected
    /\ rxlen' = Len(fifo)
    /\ isr' = "main"
    /\ UNCHANGED <<fifo, sent, ringVars, wVars, mVars, wifiVars>>

\* xSemaphoreTakeFromISR decides which ring the bytes go to.  (UartDriver: the
\* driver may call uart_rx once more for no byte, before any task runs; that call
\* finds the rings, the mutex and the queue as this one leaves them.)
IsrEnter ==
    /\ isr = "idle" /\ fifo # <<>>
    /\ sock_connected
    /\ rxlen' = Len(fifo)
    /\ IF owner = NoTask THEN isr' = "drain" /\ owner' = "isr"
                         ELSE isr' = "temp"  /\ owner' = owner
    /\ UNCHANGED <<fifo, sent, ringM, ringT, tx_queue, wVars, mVars, wifiVars>>

\* Mutant of IsrDrain: the new bytes go into the ring before the parked ones.
IsrDrainLast ==
    /\ isr = "drain"
    /\ \/ /\ rxlen > 0
          /\ ringM' = ringbuf_owr(ringM, Head(fifo))
          /\ fifo' = Tail(fifo) /\ rxlen' = rxlen - 1
          /\ UNCHANGED <<ringT, isr>>
       \/ /\ rxlen = 0 /\ get_ret(ringT) = 0
          /\ ringM' = ringbuf_owr(ringM, get_byte(ringT))
          /\ ringT' = ringbuf_get(ringT)
          /\ UNCHANGED <<fifo, rxlen, isr>>
       \/ /\ rxlen = 0 /\ get_ret(ringT) # 0 /\ isr' = "main"
          /\ UNCHANGED <<fifo, rxlen, ringM, ringT>>
    /\ UNCHANGED <<sent, owner, tx_queue, wVars, mVars, wifiVars>>

\* while (ringbuf_get(&ringbuf_t, &c) == 0) ringbuf_owr(&ringbuf_m, c)
IsrDrain ==
    /\ isr = "drain"
    /\ IF get_ret(ringT) = 0
       THEN /\ ringM' = ringbuf_owr(ringM, get_byte(ringT))
            /\ ringT' = ringbuf_get(ringT)
            /\ isr' = isr
       ELSE isr' = "main" /\ UNCHANGED <<ringM, ringT>>
    /\ UNCHANGED <<fifo, sent, rxlen, owner, tx_queue, wVars, mVars, wifiVars>>

\* One turn of the for loop that fills ringbuf_m; after the last one the mutex
\* is given back.
IsrMain ==
    /\ isr = "main"
    /\ IF rxlen > 0
       THEN /\ ringM' = ringbuf_owr(ringM, Head(fifo))
            /\ fifo' = Tail(fifo)
            /\ rxlen' = rxlen - 1
            /\ UNCHANGED <<isr, owner>>
       ELSE isr' = "notify" /\ owner' = NoTask /\ UNCHANGED <<ringM, fifo, rxlen>>
    /\ UNCHANGED <<sent, ringT, tx_queue, wVars, mVars, wifiVars>>

\* The same loop on ringbuf_t when a task holds the mutex.
IsrTemp ==
    /\ isr = "temp"
    /\ IF rxlen > 0
       THEN /\ ringT' = ringbuf_owr(ringT, Head(fifo))
            /\ fifo' = Tail(fifo)
            /\ rxlen' = rxlen - 1
            /\ UNCHANGED isr
       ELSE isr' = "notify" /\ UNCHANGED <<ringT, fifo, rxlen>>
    /\ UNCHANGED <<sent, ringM, owner, tx_queue, wVars, mVars, wifiVars>>

\* Mutant of IsrNotify: the write task is not told.
IsrNotifyForgotten ==
    /\ isr = "notify"
    /\ isr' = "idle"
    /\ UNCHANGED <<fifo, sent, rxlen, ringVars, wVars, mVars, wifiVars>>

\* xQueueSendToBackFromISR: a full queue drops the item, which tells no more
\* than the one it holds.
IsrNotify ==
    /\ isr = "notify"
    /\ isr' = "idle"
    /\ tx_queue' = TRUE
    /\ UNCHANGED <<fifo, sent, rxlen, ringM, ringT, owner, wVars, mVars, wifiVars>>

IsrStep == IsrDiscard \/ IsrEnter \/ IsrDrain \/ IsrMain \/ IsrTemp \/ IsrNotify

-------------------------------------------------------------------------------
(* write_task.  The buffer it copies the ring into, tx_buffer_m, is the    *)
(* ring's own storage.                                                     *)

WriteRecv(w) ==
    /\ isr = "idle" /\ wpc[w] = "recv"
    /\ tx_queue
    /\ tx_queue' = FALSE
    /\ wpc' = [wpc EXCEPT ![w] = "take"]
    /\ UNCHANGED <<isrVars, ringM, ringT, owner, wi, wlen, from, taken, wire,
                   mVars, wifiVars>>

\* Mutant of WriteTake: the mutex is taken whoever holds it.
WriteTakeAnyway(w) ==
    /\ isr = "idle" /\ wpc[w] = "take"
    /\ owner' = w
    /\ wpc' = [wpc EXCEPT ![w] = "copy"]
    /\ wi' = [wi EXCEPT ![w] = 0]
    /\ wlen' = [wlen EXCEPT ![w] = ringM.fill_cnt]
    /\ from' = [from EXCEPT ![w] = ringM.p_r]
    /\ taken' = [taken EXCEPT ![w] = Unread(ringM)]
    /\ UNCHANGED <<isrVars, ringM, ringT, tx_queue, wire, mVars, wifiVars>>

\* xSemaphoreTake with portMAX_DELAY, then length = ringbuf_m.fill_cnt, i = 0.
WriteTake(w) ==
    /\ isr = "idle" /\ wpc[w] = "take"
    /\ owner = NoTask
    /\ owner' = w
    /\ wpc' = [wpc EXCEPT ![w] = "copy"]
    /\ wi' = [wi EXCEPT ![w] = 0]
    /\ wlen' = [wlen EXCEPT ![w] = ringM.fill_cnt]
    /\ from' = [from EXCEPT ![w] = ringM.p_r]
    /\ taken' = [taken EXCEPT ![w] = Unread(ringM)]
    /\ UNCHANGED <<isrVars, ringM, ringT, tx_queue, wire, mVars, wifiVars>>

\* Mutant of WriteCopy: the copy starts one byte late.
WriteCopyShifted(w) ==
    /\ isr = "idle" /\ wpc[w] = "copy"
    /\ wi[w] < wlen[w] /\ wi[w] + 1 < MSize
    /\ ringM' = [ringbuf_get(ringM) EXCEPT !.mem[wi[w] + 1] = get_byte(ringM)]
    /\ wi' = [wi EXCEPT ![w] = @ + 1]
    /\ UNCHANGED <<isrVars, ringT, owner, tx_queue, wpc, wlen, from, taken, wire,
                   mVars, wifiVars>>

\* One turn of the copy loop: get a byte and store it at tx_buffer_m[i].
WriteCopy(w) ==
    /\ isr = "idle" /\ wpc[w] = "copy"
    /\ wi[w] < wlen[w] /\ wi[w] < MSize
    /\ get_ret(ringM) = 0
    /\ ringM' = [ringbuf_get(ringM) EXCEPT !.mem[wi[w]] = get_byte(ringM)]
    /\ wi' = [wi EXCEPT ![w] = @ + 1]
    /\ UNCHANGED <<isrVars, ringT, owner, tx_queue, wpc, wlen, from, taken, wire,
                   mVars, wifiVars>>

\* The loop ends, or breaks with "buffer error!" on an empty ring, and the
\* mutex is given back.
WriteGive(w) ==
    /\ isr = "idle" /\ wpc[w] = "copy"
    /\ ~(wi[w] < wlen[w] /\ wi[w] < MSize /\ get_ret(ringM) = 0)
    /\ owner' = NoTask
    /\ wpc' = [wpc EXCEPT ![w] = "write"]
    /\ UNCHANGED <<isrVars, ringM, ringT, tx_queue, wi, wlen, from, taken, wire,
                   mVars, wifiVars>>

\* The first i bytes of tx_buffer_m as they are now.
Chunk(w) == [k \in 1 .. wi[w] |-> ringM.mem[k - 1]]

\* write() takes the bytes: onto the wire, or into the buffers of a connection
\* whose loss the stack has not noticed yet.
WriteOk(w) ==
    /\ isr = "idle" /\ wpc[w] = "write"
    /\ sta_socket \in Fds /\ fd[sta_socket] \in {"up", "down"}
    /\ wire' = IF fd[sta_socket] = "up" THEN wire \o Chunk(w) ELSE wire
    /\ wpc' = [wpc EXCEPT ![w] = "recv"]
    /\ UNCHANGED <<isrVars, ringVars, wi, wlen, from, taken, mVars, wifiVars>>

\* write() fails and the task deletes itself.
WriteFail(w) ==
    /\ isr = "idle" /\ wpc[w] = "write"
    /\ ~(sta_socket \in Fds /\ fd[sta_socket] = "up")
    /\ wpc' = [wpc EXCEPT ![w] = "none"]
    /\ UNCHANGED <<isrVars, ringVars, wi, wlen, from, taken, wire, mVars, wifiVars>>

WriteStep(w) ==
    WriteRecv(w) \/ WriteTake(w) \/ WriteCopy(w) \/ WriteGive(w)
        \/ WriteOk(w) \/ WriteFail(w)

-------------------------------------------------------------------------------
(* main_task.  sta_socket is global: each call below takes the value it    *)
(* has when the call is made.                                              *)

\* close(): a descriptor that is not open is refused without effect.
Close(f) == IF f \in Fds THEN [fd EXCEPT ![f] = "free"] ELSE fd

\* socket() hands out a free descriptor, or -1; on -1 the task waits a second
\* and tries again.
MainSocket(m) ==
    /\ isr = "idle" /\ mpc[m] = "socket"
    /\ \/ \E f \in Fds :
            /\ fd[f] = "free"
            /\ fd' = [fd EXCEPT ![f] = "open"]
            /\ sta_socket' = f
            /\ mpc' = [mpc EXCEPT ![m] = "connect"]
       \/ /\ \A f \in Fds : fd[f] # "free"
          /\ sta_socket' = NoFd
          /\ UNCHANGED <<fd, mpc>>
    /\ UNCHANGED <<isrVars, ringVars, wVars, mfd, sock_connected, conns, crowded,
                   wifiVars>>

\* connect() is called on whatever sta_socket is by now.
MainConnect(m) ==
    /\ isr = "idle" /\ mpc[m] = "connect"
    /\ mfd' = [mfd EXCEPT ![m] = sta_socket]
    /\ mpc' = [mpc EXCEPT ![m] = "connecting"]
    /\ UNCHANGED <<isrVars, ringVars, wVars, sta_socket, sock_connected, fd,
                   conns, crowded, wifiVars>>

\* Mutant of MainConnected: the flag is not set.
MainConnectedSilently(m) ==
    /\ isr = "idle" /\ mpc[m] = "connecting"
    /\ mfd[m] \in Fds /\ fd[mfd[m]] = "open" /\ conns < MaxConn
    /\ fd' = [fd EXCEPT ![mfd[m]] = "up"]
    /\ conns' = conns + 1
    /\ IF \E w \in Writers : wpc[w] = "none"
       THEN /\ \E w \in Writers : /\ wpc[w] = "none"
                                  /\ wpc' = [wpc EXCEPT ![w] = "recv"]
            /\ crowded' = (crowded \/ \E w \in Writers : wpc[w] # "none")
       ELSE UNCHANGED <<wpc, crowded>>
    /\ mpc' = [mpc EXCEPT ![m] = "loop"]
    /\ UNCHANGED <<isrVars, ringVars, wi, wlen, from, taken, wire, mfd,
                   sta_socket, sock_connected, wifiVars>>

\* connect() succeeds: the flag is set and a write task is created, if the heap
\* has room for one (the result of xTaskCreate is not looked at).
MainConnected(m) ==
    /\ isr = "idle" /\ mpc[m] = "connecting"
    /\ mfd[m] \in Fds /\ fd[mfd[m]] = "open" /\ conns < MaxConn
    /\ fd' = [fd EXCEPT ![mfd[m]] = "up"]
    /\ conns' = conns + 1
    /\ sock_connected' = TRUE
    /\ IF \E w \in Writers : wpc[w] = "none"
       THEN /\ \E w \in Writers : /\ wpc[w] = "none"
                                  /\ wpc' = [wpc EXCEPT ![w] = "recv"]
            /\ crowded' = (crowded \/ \E w \in Writers : wpc[w] # "none")
       ELSE UNCHANGED <<wpc, crowded>>
    /\ mpc' = [mpc EXCEPT ![m] = "loop"]
    /\ UNCHANGED <<isrVars, ringVars, wi, wlen, from, taken, wire, mfd,
                   sta_socket, wifiVars>>

\* connect() fails: close, wait a second, start over.
MainRefused(m) ==
    /\ isr = "idle" /\ mpc[m] = "connecting"
    /\ fd' = Close(sta_socket)
    /\ mpc' = [mpc EXCEPT ![m] = "socket"]
    /\ UNCHANGED <<isrVars, ringVars, wVars, mfd, sta_socket, sock_connected,
                   conns, crowded, wifiVars>>

\* while (sta_socket >= 0) read(sta_socket, ...): the call blocks, because the
\* server never sends.
MainLoop(m) ==
    /\ isr = "idle" /\ mpc[m] = "loop"
    /\ IF sta_socket \in Fds
       THEN mfd' = [mfd EXCEPT ![m] = sta_socket]
            /\ mpc' = [mpc EXCEPT ![m] = "read"]
       ELSE mpc' = [mpc EXCEPT ![m] = "socket"] /\ UNCHANGED mfd
    /\ UNCHANGED <<isrVars, ringVars, wVars, sta_socket, sock_connected, fd,
                   conns, crowded, wifiVars>>

\* read() returns 0 or less, and close(sta_socket) follows.
MainReadFails(m) ==
    /\ isr = "idle" /\ mpc[m] = "read"
    /\ fd[mfd[m]] # "up"
    /\ fd' = Close(sta_socket)
    /\ mpc' = [mpc EXCEPT ![m] = "reset"]
    /\ UNCHANGED <<isrVars, ringVars, wVars, mfd, sta_socket, sock_connected,
                   conns, crowded, wifiVars>>

MainReset(m) ==
    /\ isr = "idle" /\ mpc[m] = "reset"
    /\ sta_socket' = NoFd
    /\ mpc' = [mpc EXCEPT ![m] = "flag"]
    /\ UNCHANGED <<isrVars, ringVars, wVars, mfd, sock_connected, fd, conns,
                   crowded, wifiVars>>

\* Mutant of MainFlag: the flag is left set.
MainFlagKept(m) ==
    /\ isr = "idle" /\ mpc[m] = "flag"
    /\ mpc' = [mpc EXCEPT ![m] = "loop"]
    /\ UNCHANGED <<isrVars, ringVars, wVars, mfd, sta_socket, sock_connected, fd,
                   conns, crowded, wifiVars>>

MainFlag(m) ==
    /\ isr = "idle" /\ mpc[m] = "flag"
    /\ sock_connected' = FALSE
    /\ mpc' = [mpc EXCEPT ![m] = "loop"]
    /\ UNCHANGED <<isrVars, ringVars, wVars, mfd, sta_socket, fd, conns, crowded,
                   wifiVars>>

MainStep(m) ==
    MainSocket(m) \/ MainConnect(m) \/ MainConnected(m) \/ MainRefused(m)
        \/ MainLoop(m) \/ MainReadFails(m) \/ MainReset(m) \/ MainFlag(m)

-------------------------------------------------------------------------------
(* The network: user_wifi.c and the peer.                                  *)

\* EVENT_STAMODE_GOT_IP, after an association or a new lease, calls
\* connect_to_server, which creates a main task if the heap has room for one.
WifiGotIp ==
    /\ isr = "idle"
    /\ gotIp < MaxIp
    /\ connected' = TRUE
    /\ gotIp' = gotIp + 1
    /\ IF \E m \in Mains : mpc[m] = "none"
       THEN \E m \in Mains : mpc[m] = "none" /\ mpc' = [mpc EXCEPT ![m] = "socket"]
       ELSE UNCHANGED mpc
    /\ UNCHANGED <<isrVars, ringVars, wVars, mfd, sta_socket, sock_connected, fd,
                   conns, crowded>>

\* EVENT_STAMODE_DISCONNECTED: on_disconnect is empty.
WifiDisconnected ==
    /\ isr = "idle"
    /\ connected
    /\ connected' = FALSE
    /\ UNCHANGED <<isrVars, ringVars, wVars, mVars, gotIp>>

\* The server, its timeout or the radio ends a connection.
ConnectionLost(f) ==
    /\ fd[f] = "up"
    /\ fd' = [fd EXCEPT ![f] = "down"]
    /\ UNCHANGED <<isrVars, ringVars, wVars, mpc, mfd, sta_socket, sock_connected,
                   conns, crowded, wifiVars>>

Next ==
    \/ UartByte
    \/ IsrStep
    \/ \E w \in Writers : WriteStep(w)
    \/ \E m \in Mains : MainStep(m)
    \/ WifiGotIp \/ WifiDisconnected
    \/ \E f \in Fds : ConnectionLost(f)

Spec == Init /\ [][Next]_vars

\* A pending interrupt is served, and the scheduler runs every task that is
\* ready (configUSE_PREEMPTION, equal priorities).  Bytes, Wi-Fi events, the
\* loss of a connection and the success of connect() are owed by nobody.
Fairness ==
    /\ WF_vars(IsrStep)
    /\ \A w \in Writers : WF_vars(WriteStep(w))
    /\ \A m \in Mains : WF_vars(MainStep(m))

FairSpec == Spec /\ Fairness

-------------------------------------------------------------------------------
TypeOK ==
    /\ fifo \in Seq(Nat) /\ Len(fifo) <= FifoCap
    /\ sent \in 0 .. MaxBytes
    /\ isr \in {"idle", "drain", "main", "temp", "notify"}
    /\ rxlen \in 0 .. Len(fifo)
    /\ ringM \in RingSet(MSize, Nat) /\ ringT \in RingSet(TSize, Nat)
    /\ owner \in Writers \cup {"isr", NoTask}
    /\ tx_queue \in BOOLEAN
    /\ wpc \in [Writers -> {"none", "recv", "take", "copy", "write"}]
    /\ wi \in [Writers -> 0 .. MSize] /\ wlen \in [Writers -> 0 .. MSize]
    /\ from \in [Writers -> 0 .. MSize - 1] /\ taken \in [Writers -> Seq(Nat)]
    /\ wire \in Seq(Nat)
    /\ mpc \in [Mains -> {"none", "socket", "connect", "connecting", "loop",
                          "read", "reset", "flag"}]
    /\ mfd \in [Mains -> Fds \cup {NoFd}]
    /\ \A m \in Mains : mpc[m] = "read" => mfd[m] \in Fds
    /\ sta_socket \in Fds \cup {NoFd} /\ sock_connected \in BOOLEAN
    /\ fd \in [Fds -> {"free", "open", "up", "down"}]
    /\ conns \in 0 .. MaxConn /\ gotIp \in 0 .. MaxIp
    /\ connected \in BOOLEAN /\ crowded \in BOOLEAN

\* ringbuf_m belongs to whoever holds ringbuf_mutex: the handler while it fills
\* it and the write task while it copies it, never two of them
\* (user_main.c:84-96, 196-208).
LockDiscipline ==
    /\ \A w \in Writers : wpc[w] = "copy" <=> owner = w
    /\ isr \in {"drain", "main"} <=> owner = "isr"

\* A write task finds in the ring every byte it counted when it took the mutex,
\* although interrupts keep arriving: "buffer error!" (user_main.c:91) is never
\* printed and the copy leaves the ring empty.
CopyFindsItsBytes ==
    \A w \in Writers : wpc[w] = "copy" => ringM.fill_cnt = wlen[w] - wi[w]

\* Bytes in ringbuf_m are never forgotten, however many write tasks there are:
\* the queue of length one holds an item, or a task has taken it and has not yet
\* finished the copy (user_main.c:83-96, 224).
NoLostWakeup ==
    (isr = "idle" /\ ringM.fill_cnt > 0)
        => \/ tx_queue
           \/ \E w \in Writers : wpc[w] \in {"take", "copy"}

\* Copying the ring into its own storage is right when the unread bytes did not
\* wrap around its end: what the task then holds in tx_buffer_m is, byte for
\* byte, what the ring held when it took the mutex (user_main.c:85-95, 317).
CopyExactUnlessWrapped ==
    \A w \in Writers :
        (wpc[w] = "copy" /\ wi[w] = wlen[w] /\ from[w] + wlen[w] <= MSize)
            => Chunk(w) = taken[w]

\* The server receives bytes the sniffer sent, in the order in which it sent
\* them and none twice; some may be missing.
StreamInOrder ==
    /\ \A k \in DOMAIN wire : wire[k] \in 1 .. sent
    /\ \A k \in 1 .. Len(wire) - 1 : wire[k] < wire[k + 1]

\* Until the ring has wrapped, and as long as no write task was created while
\* another one existed, the stream is in order, over any number of connections
\* one after the other: bytes parked in ringbuf_t while the write task held the
\* mutex overtake no one and are not overtaken, and neither do those that a task
\* of an earlier connection left behind (user_main.c:196-219, 84-118, 149-168).
InOrderBeforeWrap == (~crowded /\ sent <= MSize) => StreamInOrder

Sync == INSTANCE BridgeSync WITH item <- tx_queue, at <- wpc

\* All that the tasks and the handler do with the queue and the mutex are calls
\* that the contract of BridgeSync allows; RtosQueue implements that contract
\* (user_main.c:83-98, 196-224).
UsesSync == Sync!Spec

\* With one main task: while it waits on a live connection, that connection is
\* the one the write tasks use, and the interrupt handler keeps what arrives
\* (user_main.c:149-168, 186; three statements tear it down, two set it up).
ReaderServesSocket ==
    \A m \in Mains :
        (mpc[m] = "read" /\ fd[mfd[m]] = "up")
            => (sta_socket = mfd[m] /\ sock_connected)

\* What is in ringbuf_m leaves it, unless the connection goes first.
RingIsSent == (ringM.fill_cnt > 0) ~> (ringM.fill_cnt = 0 \/ ~sock_connected)

\* A lost connection is noticed, its descriptor given back and the next
\* connection attempted (user_main.c:154-169, 125-141).
LostConnectionRetried ==
    \A f \in Fds :
        (fd[f] = "down") ~> (~sock_connected /\ \E m \in Mains : mpc[m] = "connecting")

================================================================================
