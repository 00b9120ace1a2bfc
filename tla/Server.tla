------------------------------- MODULE Server -------------------------------
(***************************************************************************)
(* The reactor thread of a ServerListener whose RequestHandler is called   *)
(* directly (as in the sample server): Listener::listen (msrvlistener.cc)  *)
(* with the hooks of ServerListener (msrvserver.cc), Connection, the       *)
(* request switchboard RequestHandler::process (msrvrequest.cc) and the    *)
(* descriptor array Array<Descriptor> (msrvcontainer.h).                   *)
(*                                                                         *)
(* A descriptor is named by what it watches: ListenSock for the bound      *)
(* socket, a client c \in Conns for an accepted socket.  Clients connect,  *)
(* send and close at any time.  The handler's business logic is abstract; *)
(* what it can do to the framework is what MyHandler (samplehandler.cc)   *)
(* does: nothing, startShutdown() on "shutdown", Connection::close() on    *)
(* "quit", or, for a timeout, return MSRVERR_SHUTDOWN_EVENT.               *)
(***************************************************************************)
EXTENDS Naturals, Sequences, SequencesExt

CONSTANTS
    Conns,            \* the clients that may connect (TCP)
    Configs,          \* the <<protocol, request mask>> pairs bind() may set up
    UsingTimeout,     \* mTimeoutSec > 0 || mTimeoutUSec > 0
    MaxSelectErrors,  \* MSRV_MAX_SELECT_ERROR_COUNT
    ListenSock,       \* the bound server socket, mSocket
    Garbage,          \* an uninitialised slot of the descriptor array
    NoConn,           \* a request or descriptor without a Connection
    NoReq             \* no request is being handled

Kinds == {"NewConnection", "StreamData", "Datagram", "ConnectionLost",
          "Shutdown", "Timeout"}

ASSUME Configs \subseteq {"TCP", "UDP"} \X SUBSET Kinds
ASSUME UsingTimeout \in BOOLEAN
ASSUME MaxSelectErrors \in Nat

Descs == Conns \cup {ListenSock}
\* Request::Request: the type and the socket it came from (its Connection).
Req(k, c) == [kind |-> k, conn |-> c]

\* The requests built on the bound socket or on no socket at all.
DatagramRequest == Req("Datagram", NoConn)
ShutdownRequest == Req("Shutdown", NoConn)
TimeoutRequest  == Req("Timeout", NoConn)

\* The mRequestMask ServerListener::ServerListener sets, which
\* MyHandler::init sets again: every kind but Timeout.
DefaultRequestMask == Kinds \ {"Timeout"}
Requests == {Req(k, c) : k \in Kinds, c \in Conns \cup {NoConn}}

VARIABLES
    mProtocol,   \* mProtocol: "TCP" or "UDP"
    mRequestMask, \* mRequestMask, as the set of request kinds it enables
    rpc,         \* program counter of the reactor thread
    descs,       \* mDescriptors, in array order
    isShutdown,  \* mShutdownStatus
    errorcount,  \* errorcount of listen()
    fdset,       \* the descriptors select() reported ready
    idx,         \* loop index i of the dispatch loop, 1-based
    inHandler,   \* the request the handler is processing
    cstate,      \* client side: "absent", "backlog", "accepted", "refused"
    sock,        \* server side socket of a client: "none", "open", "closed"
    obj,         \* the Connection object: "none", "live", "freed"
    dataPending, \* a client's unread bytes
    peerEOF,     \* a client has closed its end
    sockErr,     \* a socket error (the peer's reset) read() has yet to report
    dgram,       \* UDP: next datagram, "none", "data" or "empty"
    listenOpen,  \* the bound socket is not yet ::close'd
    delivered,   \* history: the requests handed to the handler
    consecFails  \* history: select failures since the last non-failing select

\* What bind() and setRequestMask fix before listen() runs.
cfgVars == <<mProtocol, mRequestMask>>

vars == <<mProtocol, mRequestMask, rpc, descs, isShutdown, errorcount, fdset, idx, inHandler, cstate,
          sock, obj, dataPending, peerEOF, sockErr, dgram, listenOpen, delivered,
          consecFails>>

ReactorStates == {"top", "dispatch", "reading", "handle", "shutdown", "exit",
                  "done", "crashed"}

TypeOK ==
    /\ <<mProtocol, mRequestMask>> \in Configs
    /\ rpc \in ReactorStates
    /\ descs \in Seq(Descs \cup {Garbage})
    /\ isShutdown \in BOOLEAN
    /\ errorcount \in 0..(MaxSelectErrors + 1)
    /\ fdset \subseteq Descs
    /\ idx \in Nat \ {0}
    /\ inHandler \in Requests \cup {NoReq}
    /\ cstate \in [Conns -> {"absent", "backlog", "accepted", "refused"}]
    /\ sock \in [Conns -> {"none", "open", "closed"}]
    /\ obj \in [Conns -> {"none", "live", "freed"}]
    /\ dataPending \in [Conns -> BOOLEAN]
    /\ peerEOF \in [Conns -> BOOLEAN]
    /\ sockErr \in [Conns -> BOOLEAN]
    /\ dgram \in {"none", "data", "empty"}
    /\ listenOpen \in BOOLEAN
    /\ delivered \subseteq Requests
    /\ consecFails \in 0..(MaxSelectErrors + 1)

\* After a successful bind() and setRequestMask: the bound socket is the one
\* descriptor.
Init ==
    /\ \E cfg \in Configs : mProtocol = cfg[1] /\ mRequestMask = cfg[2]
    /\ rpc = "top"
    /\ descs = <<ListenSock>>
    /\ isShutdown = FALSE
    /\ errorcount = 0
    /\ fdset = {}
    /\ idx = 1
    /\ inHandler = NoReq
    /\ cstate = [c \in Conns |-> "absent"]
    /\ sock = [c \in Conns |-> "none"]
    /\ obj = [c \in Conns |-> "none"]
    /\ dataPending = [c \in Conns |-> FALSE]
    /\ peerEOF = [c \in Conns |-> FALSE]
    /\ sockErr = [c \in Conns |-> FALSE]
    /\ dgram = "none"
    /\ listenOpen = TRUE
    /\ delivered = {}
    /\ consecFails = 0

-----------------------------------------------------------------------------
(* Array<Descriptor>::remove(pos), pos 0-based.  A new array of n-1 slots  *)
(* is malloc'd; the lower pos slots are copied; the upper part is copied   *)
(* only when pos < mItemCount - pos.  Slots left uncopied hold whatever    *)
(* the allocator returned: Garbage, or by chance the value that belongs.   *)

ArrayRemoveResults(a, pos) ==
    LET n == Len(a)
        upper == SubSeq(a, pos + 2, n)
    IN IF n = 1 THEN {<<>>}
       ELSE IF pos < n - pos THEN {SubSeq(a, 1, pos) \o upper}
       ELSE {SubSeq(a, 1, pos) \o
               [j \in DOMAIN upper |-> IF kept[j] THEN upper[j] ELSE Garbage] :
                  kept \in [DOMAIN upper -> BOOLEAN]}

\* Mutant of RemoveDescriptorResults: the 1-based index passed to remove().
RemoveDescriptorResultsOffByOne(a, d) ==
    IF \E i \in DOMAIN a : a[i] = d
    THEN ArrayRemoveResults(a, CHOOSE i \in DOMAIN a :
                                   a[i] = d /\ \A j \in 1..(i - 1) : a[j] # d)
    ELSE {a}

\* Listener::removeDescriptor(fd): remove the first slot holding fd, if any.
RemoveDescriptorResults(a, d) ==
    IF \E i \in DOMAIN a : a[i] = d
    THEN ArrayRemoveResults(a, (CHOOSE i \in DOMAIN a :
                                   a[i] = d /\ \A j \in 1..(i - 1) : a[j] # d) - 1)
    ELSE {a}

\* Mutant of ConnCloseResults: the ::close (mSocket) is missing.
ConnCloseResultsNoClose(a, s, c) ==
    IF s[c] = "open" THEN {<<r, s>> : r \in RemoveDescriptorResults(a, c)}
    ELSE {<<a, s>>}

\* Connection::close(): when mSocket is set, removeDescriptor(mSocket), then
\* ::close and mSocket = 0.  Yields the possible <<descs, sock>> pairs.
ConnCloseResults(a, s, c) ==
    IF s[c] = "open"
    THEN {<<r, [s EXCEPT ![c] = "closed"]>> : r \in RemoveDescriptorResults(a, c)}
    ELSE {<<a, s>>}

\* Array::add: under the array's lock, a copy one item longer with the new
\* descriptor at the end replaces the old buffer.
ArrayAdd(a, d) == Append(a, d)

\* delete on a ConnectionLostRequest: ~ConnectionLostRequest deletes its
\* Connection, whose destructor calls Connection::close.
ConnDeleteResults(a, s, c) == ConnCloseResults(a, s, c)

-----------------------------------------------------------------------------
(* The clients and the network.                                            *)

Connect(c) ==
    /\ mProtocol = "TCP" /\ cstate[c] = "absent"
    /\ cstate' = [cstate EXCEPT ![c] = "backlog"]
    /\ UNCHANGED <<rpc, descs, isShutdown, errorcount, fdset, idx, inHandler, sock,
                   obj, dataPending, peerEOF, sockErr, dgram, listenOpen, delivered, consecFails>>

Send(c) ==
    /\ cstate[c] = "accepted" /\ ~peerEOF[c] /\ ~dataPending[c]
    /\ dataPending' = [dataPending EXCEPT ![c] = TRUE]
    /\ UNCHANGED <<rpc, descs, isShutdown, errorcount, fdset, idx, inHandler, cstate,
                   sock, obj, peerEOF, sockErr, dgram, listenOpen, delivered, consecFails>>

PeerClose(c) ==
    /\ cstate[c] = "accepted" /\ ~peerEOF[c]
    /\ peerEOF' = [peerEOF EXCEPT ![c] = TRUE]
    /\ UNCHANGED <<rpc, descs, isShutdown, errorcount, fdset, idx, inHandler, cstate,
                   sock, obj, dataPending, sockErr, dgram, listenOpen, delivered, consecFails>>

\* The client resets the connection (RST): read() returns what was already
\* received, then fails once with ECONNRESET, then reads end of file.
PeerReset(c) ==
    /\ cstate[c] = "accepted" /\ ~peerEOF[c]
    /\ peerEOF' = [peerEOF EXCEPT ![c] = TRUE]
    /\ sockErr' = [sockErr EXCEPT ![c] = TRUE]
    /\ UNCHANGED <<rpc, descs, isShutdown, errorcount, fdset, idx, inHandler, cstate,
                   sock, obj, dataPending, dgram, listenOpen, delivered, consecFails>>

\* A UDP datagram arrives, possibly of length zero.
SendDatagram ==
    /\ mProtocol = "UDP" /\ listenOpen /\ dgram = "none"
    /\ dgram' \in {"data", "empty"}
    /\ UNCHANGED <<rpc, descs, isShutdown, errorcount, fdset, idx, inHandler, cstate,
                   sock, obj, dataPending, peerEOF, sockErr, listenOpen, delivered, consecFails>>

\* A descriptor select() would report readable.
Readable(d) ==
    IF d = ListenSock
    THEN IF mProtocol = "TCP" THEN \E c \in Conns : cstate[c] = "backlog"
                             ELSE dgram # "none"
    ELSE d \in Conns /\ (dataPending[d] \/ peerEOF[d] \/ sockErr[d])

-----------------------------------------------------------------------------
(* Listener::listen: one iteration of the while loop.                      *)

\* Mutant of EndIteration: the errorcount check of listen() is missing.
EndIterationNoEscalation(ec) ==
    /\ errorcount' = ec
    /\ isShutdown' = isShutdown
    /\ rpc' = IF isShutdown' THEN "shutdown" ELSE "top"

\* End of an iteration: escalate on too many errors, stop on shutdown.
EndIteration(ec) ==
    /\ errorcount' = ec
    /\ isShutdown' = (isShutdown \/ ec > MaxSelectErrors)
    /\ rpc' = IF isShutdown' THEN "shutdown" ELSE "top"

\* select() fails (EINTR, EBADF, ENOMEM): ++errorcount.
SelectFail ==
    /\ rpc = "top"
    /\ EndIteration(errorcount + 1)
    /\ consecFails' = consecFails + 1
    /\ UNCHANGED <<descs, fdset, idx, inHandler, cstate, sock, obj, dataPending,
                   peerEOF, sockErr, dgram, listenOpen, delivered>>

\* Mutant of SelectTimeout: timeoutEvent without the mRequestMask test.
SelectTimeoutIgnoringMask ==
    /\ rpc = "top" /\ UsingTimeout
    /\ \A i \in DOMAIN descs : ~Readable(descs[i])
    /\ consecFails' = 0
    /\ inHandler' = TimeoutRequest
    /\ delivered' = delivered \cup {inHandler'}
    /\ rpc' = "handle"
    /\ UNCHANGED <<isShutdown, errorcount, descs, fdset, idx, cstate, sock, obj,
                   dataPending, peerEOF, sockErr, dgram, listenOpen>>

\* select() times out: ServerListener::timeoutEvent.
SelectTimeout ==
    /\ rpc = "top" /\ UsingTimeout
    /\ \A i \in DOMAIN descs : ~Readable(descs[i])
    /\ consecFails' = 0
    /\ IF "Timeout" \in mRequestMask
       THEN /\ inHandler' = TimeoutRequest
            /\ delivered' = delivered \cup {inHandler'}
            /\ rpc' = "handle"
            /\ UNCHANGED <<isShutdown, errorcount>>
       ELSE /\ EndIteration(errorcount)
            /\ UNCHANGED <<inHandler, delivered>>
    /\ UNCHANGED <<descs, fdset, idx, cstate, sock, obj, dataPending, peerEOF, sockErr,
                   dgram, listenOpen>>

\* select() returns the watched descriptors that are readable.
SelectReady ==
    /\ rpc = "top"
    /\ LET ready == {descs[i] : i \in {j \in DOMAIN descs : descs[j] # Garbage
                                                         /\ Readable(descs[j])}}
       IN /\ ready # {}
          /\ fdset' = ready
    /\ idx' = 1
    /\ rpc' = "dispatch"
    /\ consecFails' = 0
    /\ UNCHANGED <<descs, isShutdown, errorcount, inHandler, cstate, sock, obj,
                   dataPending, peerEOF, sockErr, dgram, listenOpen, delivered>>

\* Dispatch loop: i past mDescriptors.length(): errorcount = 0, end iteration.
DispatchDone ==
    /\ rpc = "dispatch"
    /\ idx > Len(descs)
    /\ EndIteration(0)
    /\ UNCHANGED <<descs, fdset, idx, inHandler, cstate, sock, obj, dataPending,
                   peerEOF, sockErr, dgram, listenOpen, delivered, consecFails>>

\* Dispatch loop: FD_ISSET false for mDescriptors[i].
DispatchSkip ==
    /\ rpc = "dispatch"
    /\ idx <= Len(descs)
    /\ descs[idx] \notin fdset
    /\ idx' = idx + 1
    /\ UNCHANGED <<rpc, descs, isShutdown, errorcount, fdset, inHandler, cstate,
                   sock, obj, dataPending, peerEOF, sockErr, dgram, listenOpen, delivered,
                   consecFails>>

\* Mutant of Deliver: the mRequestMask test is missing.
DeliverIgnoringMask(r) ==
    /\ inHandler' = r
    /\ delivered' = delivered \cup {r}
    /\ rpc' = "handle"

\* Hand a request to the handler, or skip it when the mask disables it.
Deliver(r) ==
    IF r.kind \in mRequestMask
    THEN /\ inHandler' = r
         /\ delivered' = delivered \cup {r}
         /\ rpc' = "handle"
    ELSE /\ inHandler' = NoReq
         /\ rpc' = "dispatch"
         /\ UNCHANGED delivered

DescriptorReady == rpc = "dispatch" /\ idx <= Len(descs) /\ descs[idx] \in fdset

\* ServerListener::accept: the TCP server socket is ready.
Accept(c) ==
    /\ DescriptorReady /\ descs[idx] = ListenSock /\ mProtocol = "TCP"
    /\ cstate[c] = "backlog"
    /\ cstate' = [cstate EXCEPT ![c] = "accepted"]
    /\ sock' = [sock EXCEPT ![c] = "open"]
    /\ obj' = [obj EXCEPT ![c] = "live"]
    /\ descs' = ArrayAdd(descs, c)
    /\ Deliver(Req("NewConnection", c))
    /\ IF "NewConnection" \in mRequestMask THEN UNCHANGED idx ELSE idx' = idx + 1
    /\ UNCHANGED <<isShutdown, errorcount, fdset, dataPending, peerEOF, sockErr, dgram,
                   listenOpen, consecFails>>

\* ::accept fails (the client gave up): logged, no descriptor added.
AcceptFail(c) ==
    /\ DescriptorReady /\ descs[idx] = ListenSock /\ mProtocol = "TCP"
    /\ cstate[c] = "backlog"
    /\ cstate' = [cstate EXCEPT ![c] = "refused"]
    /\ idx' = idx + 1
    /\ UNCHANGED <<rpc, descs, isShutdown, errorcount, fdset, inHandler, sock, obj,
                   dataPending, peerEOF, sockErr, dgram, listenOpen, delivered, consecFails>>

\* The read burst is over: its bytes go to the handler as a StreamDataRequest.
DeliverData(c) ==
    /\ Deliver(Req("StreamData", c))
    /\ IF "StreamData" \in mRequestMask THEN UNCHANGED idx ELSE idx' = idx + 1

\* The do/while loop after a read() that returned bytes.  A block shorter
\* than MSRV_READ_BUFFER_LEN ends the loop.  A full block reads again: a
\* pending socket error fails that read() (readcount < 0, logged, break),
\* end of file returns 0 (break); either way dynpos > 0 delivers.  With
\* neither, the blocking socket's read() waits for the client.
ReadOn(c) ==
    \/ /\ DeliverData(c)
       /\ UNCHANGED sockErr
    \/ /\ sockErr[c]
       /\ sockErr' = [sockErr EXCEPT ![c] = FALSE]
       /\ DeliverData(c)
    \/ /\ ~peerEOF[c] /\ ~sockErr[c]
       /\ rpc' = "reading"
       /\ UNCHANGED <<idx, inHandler, delivered, sockErr>>

\* descriptorEvent on a client socket with bytes to read: the burst reads
\* all of them.
ReadData(c) ==
    /\ DescriptorReady /\ descs[idx] = c
    /\ dataPending[c]
    /\ dataPending' = [dataPending EXCEPT ![c] = FALSE]
    /\ ReadOn(c)
    /\ UNCHANGED <<descs, isShutdown, errorcount, fdset, cstate, sock, obj, peerEOF,
                   dgram, listenOpen, consecFails>>

\* The read() the reactor is blocked in returns, once the client sends more
\* bytes, resets the connection (-1) or closes it (0).
ReadResume(c) ==
    /\ rpc = "reading" /\ descs[idx] = c
    /\ \/ /\ dataPending[c]
          /\ dataPending' = [dataPending EXCEPT ![c] = FALSE]
          /\ ReadOn(c)
       \/ /\ ~dataPending[c] /\ sockErr[c]
          /\ sockErr' = [sockErr EXCEPT ![c] = FALSE]
          /\ DeliverData(c)
          /\ UNCHANGED dataPending
       \/ /\ ~dataPending[c] /\ ~sockErr[c] /\ peerEOF[c]
          /\ DeliverData(c)
          /\ UNCHANGED <<dataPending, sockErr>>
    /\ UNCHANGED <<descs, isShutdown, errorcount, fdset, cstate, sock, obj, peerEOF,
                   dgram, listenOpen, consecFails>>

\* descriptorEvent on a client socket at end of file: readcount == 0 and
\* dynpos == 0.  ConnectionLostRequest if enabled, then removeDescriptor(fd)
\* (done in FinishLost after the handler when the request is delivered).
ReadEOF(c) ==
    /\ DescriptorReady /\ descs[idx] = c
    /\ ~dataPending[c] /\ ~sockErr[c] /\ peerEOF[c]
    /\ Deliver(Req("ConnectionLost", c))
    /\ IF "ConnectionLost" \in mRequestMask
       THEN UNCHANGED <<descs, idx>>
       ELSE /\ descs' \in RemoveDescriptorResults(descs, c)
            /\ idx' = idx + 1
    /\ UNCHANGED <<isShutdown, errorcount, fdset, cstate, sock, obj, dataPending,
                   peerEOF, sockErr, dgram, listenOpen, consecFails>>

\* Mutant of ReadError: the failed read is taken for end of file and the
\* descriptor removed, with no request to the handler.
ReadErrorRemoving(c) ==
    /\ DescriptorReady /\ descs[idx] = c
    /\ ~dataPending[c] /\ sockErr[c]
    /\ sockErr' = [sockErr EXCEPT ![c] = FALSE]
    /\ descs' \in RemoveDescriptorResults(descs, c)
    /\ idx' = idx + 1
    /\ UNCHANGED <<rpc, isShutdown, errorcount, fdset, inHandler, cstate, sock, obj,
                   dataPending, peerEOF, dgram, listenOpen, delivered, consecFails>>

\* descriptorEvent on a client socket whose first read() fails: readcount
\* < 0 breaks the loop with dynpos == 0, so neither branch after it runs.
\* No request, the descriptor stays registered, the dispatch loop goes on;
\* the error is consumed and the next select() reports end of file.
ReadError(c) ==
    /\ DescriptorReady /\ descs[idx] = c
    /\ ~dataPending[c] /\ sockErr[c]
    /\ sockErr' = [sockErr EXCEPT ![c] = FALSE]
    /\ idx' = idx + 1
    /\ UNCHANGED <<rpc, descs, isShutdown, errorcount, fdset, inHandler, cstate, sock, obj,
                   dataPending, peerEOF, dgram, listenOpen, delivered, consecFails>>

\* descriptorEvent on the UDP socket: mSocket is not treated as a listening
\* socket, the datagram is read like stream data.  A datagram of length zero
\* reads as readcount == 0, dynpos == 0: the "connection lost" branch, with
\* pDescriptorData the NULL of the bound socket.
ReadDatagram ==
    /\ DescriptorReady /\ descs[idx] = ListenSock /\ mProtocol = "UDP"
    /\ dgram # "none"
    /\ dgram' = "none"
    /\ IF dgram = "data"
       THEN /\ Deliver(DatagramRequest)
            /\ IF "Datagram" \in mRequestMask THEN UNCHANGED <<descs, idx>> ELSE idx' = idx + 1
            /\ UNCHANGED descs
       ELSE /\ Deliver(Req("ConnectionLost", NoConn))
            /\ IF "ConnectionLost" \in mRequestMask
               THEN UNCHANGED <<descs, idx>>
               ELSE /\ descs' \in RemoveDescriptorResults(descs, ListenSock)
                    /\ idx' = idx + 1
    /\ UNCHANGED <<isShutdown, errorcount, fdset, cstate, sock, obj, dataPending,
                   peerEOF, sockErr, listenOpen, consecFails>>

-----------------------------------------------------------------------------
(* The handler.  RequestHandler::process switches on the type, runs the    *)
(* typed method, then deletes the request; deleting a                      *)
(* ConnectionLostRequest deletes its Connection, whose destructor calls    *)
(* Connection::close().  Control then returns to the hook that delivered   *)
(* the request.                                                            *)

\* What MyHandler's typed methods may do to the framework.  Greetings,
\* echoes, relays and log lines are writes that change no modelled state.
\* processData: "shutdown" calls startShutdown(); "quit", on TCP only, calls
\* Connection::close(); anything else is echoed and relayed via ConnIter.
ProcessDataActs(k) ==
    IF k = "StreamData" THEN {"none", "shutdown", "quit"} ELSE {"none", "shutdown"}

\* process (NewConnectionRequest&): greets the client.
NewConnectionActs == {"none"}

\* process (ConnectionLostRequest&): logs.
ConnectionLostActs == {"none"}

\* process (ShutdownRequest&): writes a farewell to every connection.
ShutdownActs == {"none"}

\* process (TimeoutRequest&): logs and returns 0.
MyHandlerTimeoutActs == {"none"}

\* timeoutEvent returns the handler's result, and listen() calls
\* startShutdown() on MSRVERR_SHUTDOWN_EVENT; the model lets the handler
\* return it, which an application handler may do though MyHandler does not.
TimeoutActs == MyHandlerTimeoutActs \cup {"shutdownEvent"}

\* RequestHandler::process: the typed method chosen by the request's type.
HandlerActs(k) ==
    CASE k \in {"StreamData", "Datagram"} -> ProcessDataActs(k)
      [] k = "NewConnection"              -> NewConnectionActs
      [] k = "ConnectionLost"             -> ConnectionLostActs
      [] k = "Shutdown"                   -> ShutdownActs
      [] k = "Timeout"                    -> TimeoutActs

\* The fd the request came from, for removeDescriptor after a lost connection.
ReqFd(r) == IF r.conn = NoConn THEN ListenSock ELSE r.conn

Handle ==
    /\ rpc = "handle"
    /\ \E act \in HandlerActs(inHandler.kind) :
        LET r     == inHandler
            c     == r.conn
            \* typed method: "quit" closes the connection of the request
            afterQuit == IF act = "quit" THEN ConnCloseResults(descs, sock, c)
                                         ELSE {<<descs, sock>>}
            \* delete pRequest: ~ConnectionLostRequest deletes the Connection
            lost  == r.kind = "ConnectionLost" /\ c # NoConn
            afterDelete == IF lost
                           THEN UNION {ConnDeleteResults(p[1], p[2], c) : p \in afterQuit}
                           ELSE afterQuit
            stop  == isShutdown \/ act = "shutdown"
        IN \E p \in afterDelete :
            /\ sock' = p[2]
            /\ obj' = IF lost THEN [obj EXCEPT ![c] = "freed"] ELSE obj
            /\ inHandler' = NoReq
            /\ CASE r.kind = "Timeout" ->
                      \* listen(): MSRVERR_SHUTDOWN_EVENT means startShutdown()
                      /\ descs' = p[1]
                      /\ isShutdown' = (isShutdown \/ act = "shutdownEvent"
                                        \/ errorcount > MaxSelectErrors)
                      /\ rpc' = IF isShutdown' THEN "shutdown" ELSE "top"
                      /\ UNCHANGED idx
                 [] r.kind = "ConnectionLost" ->
                      \* descriptorEvent: removeDescriptor (fd) after process()
                      /\ descs' \in RemoveDescriptorResults(p[1], ReqFd(r))
                      /\ isShutdown' = stop
                      /\ rpc' = "dispatch"
                      /\ idx' = idx + 1
                 [] r.kind = "Shutdown" ->
                      /\ descs' = p[1]
                      /\ UNCHANGED isShutdown
                      /\ rpc' = "exit"
                      /\ UNCHANGED idx
                 [] OTHER ->
                      /\ descs' = p[1]
                      /\ isShutdown' = stop
                      /\ rpc' = "dispatch"
                      /\ idx' = idx + 1
    /\ UNCHANGED <<errorcount, fdset, cstate, dataPending, peerEOF, sockErr, dgram, listenOpen,
                   delivered, consecFails>>

-----------------------------------------------------------------------------
(* Leaving the loop: ServerListener::shutdown, then the rest of listen().  *)

\* ServerListener::shutdown: ShutdownRequest to the handler if enabled.
ShutdownHook ==
    /\ rpc = "shutdown"
    /\ IF "Shutdown" \in mRequestMask
       THEN Deliver(ShutdownRequest)
       ELSE /\ rpc' = "exit"
            /\ UNCHANGED <<inHandler, delivered>>
    /\ UNCHANGED <<descs, isShutdown, errorcount, fdset, idx, cstate, sock, obj,
                   dataPending, peerEOF, sockErr, dgram, listenOpen, consecFails>>

\* Close each connection of the ConnIter, one after the other.
RECURSIVE CloseEachResults(_, _, _)
CloseEachResults(snap, a, s) ==
    IF snap = <<>> THEN {<<a, s>>}
    ELSE UNION {CloseEachResults(Tail(snap), p[1], p[2]) :
                    p \in ConnCloseResults(a, s, Head(snap))}

\* for (ConnIter ...) close (&conn_i.get()); ::close (mSocket);
\* removeDescriptor (mSocket); then listen() ::closes every descriptor still
\* in the array.  ConnIter copies the Array by value, pointer included: after
\* the first remove() it walks the freed buffer, whose slots past the first
\* keep their old contents (modelled as the array as it was when the walk
\* began).  An uninitialised slot yields a wild Connection pointer.
CloseConnections ==
    /\ rpc = "exit"
    /\ LET snap == SelectSeq(descs, LAMBDA d : d # ListenSock)
       IN IF Garbage \in ToSet(snap)
          THEN /\ rpc' = "crashed"
               /\ UNCHANGED <<descs, sock, listenOpen>>
          ELSE \E p \in CloseEachResults(snap, descs, sock) :
                 \E left \in RemoveDescriptorResults(p[1], ListenSock) :
                  /\ sock' = [c \in Conns |-> IF c \in ToSet(left) THEN "closed"
                                                                  ELSE p[2][c]]
                  /\ listenOpen' = FALSE
                  /\ descs' = left
                  /\ rpc' = "done"
    /\ UNCHANGED <<isShutdown, errorcount, fdset, idx, inHandler, cstate, obj,
                   dataPending, peerEOF, sockErr, dgram, delivered, consecFails>>

-----------------------------------------------------------------------------
ReactorNext ==
    \/ SelectFail \/ SelectTimeout \/ SelectReady
    \/ DispatchDone \/ DispatchSkip
    \/ \E c \in Conns : Accept(c) \/ AcceptFail(c) \/ ReadData(c) \/ ReadEOF(c)
                          \/ ReadError(c) \/ ReadResume(c)
    \/ ReadDatagram
    \/ Handle
    \/ ShutdownHook \/ CloseConnections

ClientNext ==
    \/ \E c \in Conns : Connect(c) \/ Send(c) \/ PeerClose(c) \/ PeerReset(c)
    \/ SendDatagram

\* listen() has returned (or the process crashed): nothing the reactor does.
Stopped ==
    /\ rpc \in {"done", "crashed"}
    /\ UNCHANGED vars

\* The configuration stays as bind() and setRequestMask left it.
ReactorStep == ReactorNext /\ UNCHANGED cfgVars

Next == (ReactorNext \/ ClientNext \/ Stopped) /\ UNCHANGED cfgVars

\* The reactor thread is never descheduled for good; clients act at will.
\* select() with a timeout returns; a read() on the blocking socket returns
\* only when the client acts, which nothing forces.
Spec == Init /\ [][Next]_vars /\ WF_vars(ReactorStep)

-----------------------------------------------------------------------------
(* Properties.                                                             *)

\* Event mask (ServerListener::setRequestMask, spec section 8): whatever the
\* clients, the network and select() do, the handler never receives a
\* request of a kind mRequestMask disables.
MaskFiltering == \A r \in delivered : r.kind \in mRequestMask

\* Connection ownership (spec section 3): the server side socket of every
\* accepted client that is still open is reachable, through the descriptor
\* array or through the request being handled, so the reactor can still
\* read it and shutdown() can still close it.
ConnectionReachable ==
    \A c \in Conns :
        sock[c] = "open" =>
            \/ c \in ToSet(descs)
            \/ inHandler # NoReq /\ inHandler.conn = c

\* The bound socket (bind()) stays watched as long as it is open: only
\* ServerListener::shutdown removes it.
ListenerWatched == listenOpen => ListenSock \in ToSet(descs)

\* Error escalation (spec sections 4.1 and 8): the reactor forces shutdown
\* only after more than MSRV_MAX_SELECT_ERROR_COUNT consecutive select()
\* failures.
EscalationOnlyOnConsecutiveFailures ==
    errorcount > MaxSelectErrors => consecFails > MaxSelectErrors

\* The reactor stays blocked for good in the read() of a burst that ended
\* on a full MSRV_READ_BUFFER_LEN block.
StuckInRead == <>[](rpc = "reading")

\* Bytes a client sends to an open connection are eventually read by
\* descriptorEvent, or the server closes the socket, unless the reactor
\* hangs in a blocking read(): a descriptor skipped by the dispatch loop
\* after a removal is only postponed, and when the reactor stops,
\* ServerListener::shutdown and listen() close every socket.
DataEventuallyReadOrClosed ==
    \/ StuckInRead
    \/ \A c \in Conns :
          (dataPending[c] /\ sock[c] = "open")
              ~> (~dataPending[c] \/ sock[c] # "open")


\* A client that ends its connection, by closing it or by resetting it, is
\* eventually answered by the server closing its socket: the failed read()
\* of a reset leaves the descriptor registered for the next select(), which
\* reads end of file, hands ConnectionLost to the handler and removes the
\* descriptor; deleting that request closes the Connection (descriptorEvent,
\* ~ConnectionLostRequest, Connection::close).
\* (Unless, again, the reactor hangs in a blocking read().)
PeerEndEventuallyClosed ==
    \/ StuckInRead
    \/ \A c \in Conns :
          (peerEOF[c] /\ sock[c] = "open") ~> sock[c] # "open"

\* Suspension (spec section 5): the reactor blocks only in select(); a
\* read burst (spec section 6) reads the bytes available and ends.  The
\* descriptorEvent that reads a client socket returns to the dispatch loop.
ReadBurstEnds == rpc = "reading" ~> rpc # "reading"
=============================================================================
