----------------------------- MODULE ServerPool -----------------------------
(***************************************************************************)
(* The reactor of a TCP ServerListener whose RequestHandler is a           *)
(* WorkerPool (msrvworker.cc) wrapping MyHandler (samplehandler.cc): the   *)
(* composition spec.md describes, where requests cross from the reactor    *)
(* thread into worker threads together with the Connection objects they    *)
(* reference.                                                              *)
(*                                                                         *)
(* The pool is the WorkerPool module, instantiated over the requests the   *)
(* reactor creates; its variables are shared.  The reactor is the         *)
(* caller thread of the pool: process() is WP!Submit then WP!Signal, and   *)
(* ServerListener::shutdown runs the pool's shutdown protocol.  A worker's *)
(* Process step is split into the steps MyHandler and the request's       *)
(* destructor take, because Connection::close blocks on the listener's     *)
(* mThreadLock, which the reactor holds while it dispatches events.        *)
(*                                                                         *)
(* What Server.tla checks of the reactor alone (the order of the           *)
(* descriptor array, Array::remove, select failures, the mask) is          *)
(* abstracted here: descriptors are a set, select does not fail, the mask  *)
(* is the default one (all kinds but Timeout).                             *)
(***************************************************************************)
EXTENDS Naturals, FiniteSets

CONSTANTS
    Conns,         \* the clients that may connect
    Cmds,          \* the lines a client may send: "quit", "shutdown", others
    UsingTimeout,  \* mTimeoutSec > 0 || mTimeoutUSec > 0
    ListenSock,    \* the bound server socket, mSocket
    NumWorkers,    \* the size of the WorkerPool
    ShutdownReq,   \* the ShutdownRequest of ServerListener::shutdown
    NoRequest      \* a worker holds no request

ASSUME UsingTimeout \in BOOLEAN
ASSUME {"quit", "shutdown"} \subseteq Cmds

-----------------------------------------------------------------------------
(* The requests the reactor creates.  Each carries the originating         *)
(* Connection (ConnectionRequest::mrpConn); a data request carries the     *)
(* line the client sent.                                                   *)

NewConnectionRequest(c) == [kind |-> "NewConnection", conn |-> c, cmd |-> "none"]

StreamDataRequest(c, m) == [kind |-> "StreamData", conn |-> c, cmd |-> m]

ConnectionLostRequest(c) == [kind |-> "ConnectionLost", conn |-> c, cmd |-> "none"]

\* ConnectionRequest::connection(): *mrpConn.
RequestConnection(r) == r.conn

PoolRequests ==
    {NewConnectionRequest(c) : c \in Conns}
    \cup {StreamDataRequest(c, m) : c \in Conns, m \in Cmds}
    \cup {ConnectionLostRequest(c) : c \in Conns}

VARIABLES
    \* the WorkerPool's state (see WorkerPool.tla)
    mpFirstItem, mpLastItem, mpNext, mpPrev, isShutdown, waitSet, wpc, cur,
    mpc, joinNext, finalReq, submitted, processed,
    \* the listener and the connections
    rpc,             \* program counter of the reactor thread
    shutdownStatus,  \* Listener::mShutdownStatus
    depth,           \* lock count of the listener's mThreadLock, held by the reactor
    descs,           \* mDescriptors, as a set
    ready,           \* descriptors select() reported and not yet dispatched
    evConn,          \* the client of the descriptorEvent in progress
    walk,            \* the connections ConnIter visits in ServerListener::shutdown
    cstate,          \* client side: "absent", "backlog", "connected"
    msg,             \* a client's line: "unsent", a command pending, "read"
    peerEOF,         \* a client has closed its end
    sock,            \* Connection::mSocket: "none", "open", "closed" (0)
    obj,             \* the Connection object: "none", "live", "freed"
    hpc              \* per worker: where it is in handling its request

poolVars == <<mpFirstItem, mpLastItem, mpNext, mpPrev, isShutdown, waitSet,
              wpc, cur, mpc, joinNext, finalReq, submitted, processed>>
serverVars == <<rpc, shutdownStatus, depth, descs, ready, evConn, walk,
                cstate, msg, peerEOF, sock, obj, hpc>>
vars == <<poolVars, serverVars>>

\* Every worker thread starts: the failure of pthread_create is WorkerPool's.
WP == INSTANCE WorkerPool WITH Requests <- PoolRequests, CreateMayFail <- FALSE

Workers == WP!Workers

ReactorStates == {"top", "selected", "dispatch", "reading", "signal", "signalLost",
                  "shutdown",
                  "pool", "close", "returned", "exited"}
HandlerStates == {"start", "check", "remove", "closeFd", "done"}

TypeOK ==
    /\ WP!TypeOK
    /\ rpc \in ReactorStates
    /\ shutdownStatus \in BOOLEAN
    /\ depth \in Nat
    /\ descs \subseteq Conns \cup {ListenSock}
    /\ ready \subseteq Conns \cup {ListenSock}
    /\ evConn \in Conns \cup {ListenSock}
    /\ walk \subseteq Conns
    /\ cstate \in [Conns -> {"absent", "backlog", "connected"}]
    /\ msg \in [Conns -> Cmds \cup {"unsent", "read"}]
    /\ peerEOF \in [Conns -> BOOLEAN]
    /\ sock \in [Conns -> {"none", "open", "closed"}]
    /\ obj \in [Conns -> {"none", "live", "freed"}]
    /\ hpc \in [Workers -> HandlerStates]

\* bind() done, the pool constructed with every worker started, listen()
\* entered.
Init ==
    /\ WP!Init
    /\ rpc = "top"
    /\ shutdownStatus = FALSE
    /\ depth = 0
    /\ descs = {ListenSock}
    /\ ready = {}
    /\ evConn = ListenSock
    /\ walk = {}
    /\ cstate = [c \in Conns |-> "absent"]
    /\ msg = [c \in Conns |-> "unsent"]
    /\ peerEOF = [c \in Conns |-> FALSE]
    /\ sock = [c \in Conns |-> "none"]
    /\ obj = [c \in Conns |-> "none"]
    /\ hpc = [w \in Workers |-> "start"]

\* main() has returned after the pool was destroyed: the process is gone.
Running == rpc # "exited"

-----------------------------------------------------------------------------
(* The reactor thread: Listener::listen with ServerListener's hooks.       *)

\* What select() reports on a descriptor: a pending connection on the
\* server socket; bytes or end of file on a client socket.
HasEvent(d) ==
    IF d = ListenSock THEN \E c \in Conns : cstate[c] = "backlog"
    ELSE msg[d] \in Cmds \/ peerEOF[d]

\* Mutant of Select: usingTimeout computed as mTimeoutSec > 0 && ...,
\* so select() is always given NULL and never times out.
SelectIgnoringTimeout ==
    /\ rpc = "top"
    /\ LET evs == {d \in descs : HasEvent(d)} IN
         /\ evs # {}
         /\ ready' = evs
         /\ rpc' = "selected"
    /\ UNCHANGED <<poolVars, shutdownStatus, depth, descs, evConn, walk, cstate,
                   msg, peerEOF, sock, obj, hpc>>

\* Top of the loop: build fdset from mDescriptors under mThreadLock, unlock,
\* select().  A timeout calls timeoutEvent, which delivers nothing (Timeout
\* is not in the mask), then the loop checks isShutdown().  Without a
\* timeout select() waits until a descriptor has an event.
Select ==
    /\ rpc = "top"
    /\ LET evs == {d \in descs : HasEvent(d)} IN
         \/ /\ evs # {}
            /\ ready' = evs
            /\ rpc' = "selected"
         \/ /\ evs = {} /\ UsingTimeout
            /\ rpc' = IF shutdownStatus THEN "shutdown" ELSE "top"
            /\ UNCHANGED ready
    /\ UNCHANGED <<poolVars, shutdownStatus, depth, descs, evConn, walk, cstate,
                   msg, peerEOF, sock, obj, hpc>>

\* select() returned events: lock mThreadLock and walk mDescriptors as they
\* are now, testing each with FD_ISSET; a descriptor a worker removed since
\* the fdset was built is not visited.
LockDispatch ==
    /\ rpc = "selected"
    /\ depth' = depth + 1
    /\ ready' = ready \cap descs
    /\ rpc' = "dispatch"
    /\ UNCHANGED <<poolVars, shutdownStatus, descs, evConn, walk, cstate, msg,
                   peerEOF, sock, obj, hpc>>

\* descriptorEvent on the server socket: ServerListener::accept creates the
\* Connection, adds the descriptor, and hands a NewConnectionRequest to the
\* pool (push; the signal is the next step).
Accept(c) ==
    /\ rpc = "dispatch" /\ ListenSock \in ready
    /\ cstate[c] = "backlog"
    /\ cstate' = [cstate EXCEPT ![c] = "connected"]
    /\ sock' = [sock EXCEPT ![c] = "open"]
    /\ obj' = [obj EXCEPT ![c] = "live"]
    /\ descs' = descs \cup {c}
    /\ ready' = ready \ {ListenSock}
    /\ WP!Submit(NewConnectionRequest(c))
    /\ rpc' = "signal"
    /\ UNCHANGED <<shutdownStatus, depth, evConn, walk, msg, peerEOF, hpc>>

\* descriptorEvent on a client socket with bytes: the read burst, then a
\* StreamDataRequest.  A line that fills MSRV_READ_BUFFER_LEN exactly
\* (MyHandler compares "quit" and "shutdown" with strcmp, so only an echoed
\* line can) makes the loop read again; the socket is blocking, and with
\* the peer still connected read() waits, the reactor holding mThreadLock.
ReadData(c) ==
    /\ rpc = "dispatch" /\ c \in ready
    /\ msg[c] \in Cmds
    /\ ready' = ready \ {c}
    /\ \/ /\ WP!Submit(StreamDataRequest(c, msg[c]))
          /\ msg' = [msg EXCEPT ![c] = "read"]
          /\ rpc' = "signal"
          /\ UNCHANGED evConn
       \/ /\ msg[c] \notin {"quit", "shutdown"} /\ ~peerEOF[c]
          /\ rpc' = "reading"
          /\ evConn' = c
          /\ UNCHANGED <<poolVars, msg>>
    /\ UNCHANGED <<shutdownStatus, depth, descs, walk, cstate, peerEOF,
                   sock, obj, hpc>>

\* The blocked read() returns 0 once the client closes its end (the client
\* sends one line, so nothing else can end it): the burst's bytes go to
\* the pool.
ReadResume ==
    /\ rpc = "reading" /\ peerEOF[evConn]
    /\ WP!Submit(StreamDataRequest(evConn, msg[evConn]))
    /\ msg' = [msg EXCEPT ![evConn] = "read"]
    /\ rpc' = "signal"
    /\ UNCHANGED <<shutdownStatus, depth, descs, ready, evConn, walk, cstate,
                   peerEOF, sock, obj, hpc>>

\* Mutant of ReadEOF: the reactor deletes the Connection itself instead of
\* handing its ownership to the ConnectionLostRequest.
ReadEOFDeletingConnection(c) ==
    /\ rpc = "dispatch" /\ c \in ready
    /\ msg[c] \notin Cmds /\ peerEOF[c]
    /\ WP!Submit(ConnectionLostRequest(c))
    /\ obj' = [obj EXCEPT ![c] = "freed"]
    /\ evConn' = c
    /\ ready' = ready \ {c}
    /\ rpc' = "signalLost"
    /\ UNCHANGED <<shutdownStatus, depth, descs, walk, cstate, msg, peerEOF,
                   sock, hpc>>

\* descriptorEvent at end of file: a ConnectionLostRequest, which owns the
\* Connection from now on; removeDescriptor(fd) follows process().
ReadEOF(c) ==
    /\ rpc = "dispatch" /\ c \in ready
    /\ msg[c] \notin Cmds /\ peerEOF[c]
    /\ WP!Submit(ConnectionLostRequest(c))
    /\ evConn' = c
    /\ ready' = ready \ {c}
    /\ rpc' = "signalLost"
    /\ UNCHANGED <<shutdownStatus, depth, descs, walk, cstate, msg, peerEOF,
                   sock, obj, hpc>>

\* The signal() ending WorkerPool::process; after a ConnectionLost the
\* hook then removes the descriptor (the reactor already holds the lock).
SignalPool ==
    /\ rpc \in {"signal", "signalLost"}
    /\ WP!Signal
    /\ descs' = IF rpc = "signalLost" THEN descs \ {evConn} ELSE descs
    /\ rpc' = "dispatch"
    /\ UNCHANGED <<shutdownStatus, depth, ready, evConn, walk, cstate, msg,
                   peerEOF, sock, obj, hpc>>

\* Mutant of EndDispatch: mThreadLock unlocked twice.
EndDispatchDoubleUnlock ==
    /\ rpc = "dispatch" /\ ready = {}
    /\ depth' = depth - 2
    /\ rpc' = IF shutdownStatus THEN "shutdown" ELSE "top"
    /\ UNCHANGED <<poolVars, shutdownStatus, descs, ready, evConn, walk, cstate,
                   msg, peerEOF, sock, obj, hpc>>

\* Dispatch loop done: errorcount = 0, mThreadLock.unlock(), isShutdown().
EndDispatch ==
    /\ rpc = "dispatch" /\ ready = {}
    /\ depth' = depth - 1
    /\ rpc' = IF shutdownStatus THEN "shutdown" ELSE "top"
    /\ UNCHANGED <<poolVars, shutdownStatus, descs, ready, evConn, walk, cstate,
                   msg, peerEOF, sock, obj, hpc>>

-----------------------------------------------------------------------------
(* ServerListener::shutdown, run by listen() once isShutdown() is seen.   *)

\* process(new ShutdownRequest): WorkerPool::process, case Shutdown, enters
\* WorkerPool::shutdown with the request.
DeliverShutdown ==
    /\ rpc = "shutdown"
    /\ WP!StartShutdown(TRUE)
    /\ rpc' = "pool"
    /\ UNCHANGED <<shutdownStatus, depth, descs, ready, evConn, walk, cstate,
                   msg, peerEOF, sock, obj, hpc>>

\* Inside WorkerPool::shutdown: broadcast, then join workers 1..N-1.
PoolShutdownStep ==
    /\ rpc = "pool"
    /\ (WP!Broadcast \/ WP!JoinWorker)
    /\ UNCHANGED serverVars

\* ServerListener::ConnIter: the descriptors of the array but mSocket.
ConnIterItems(ds) == ds \ {ListenSock}

\* WorkerPool::shutdown returns after MyHandler::process(ShutdownRequest);
\* ConnIter then starts over the descriptor array as it is now.
PoolReturned ==
    /\ rpc = "pool"
    /\ WP!FinishShutdown
    /\ walk' = ConnIterItems(descs)
    /\ rpc' = "close"
    /\ UNCHANGED <<shutdownStatus, depth, descs, ready, evConn, cstate, msg,
                   peerEOF, sock, obj, hpc>>

\* ServerListener::close(&conn_i.get()): lock, Connection::close, lock
\* again with no unlock.  Connection::close returns at once when mSocket
\* is 0, else removes the descriptor (the reactor owns the recursive lock)
\* and closes the socket.
CloseConnection(c) ==
    /\ rpc = "close"
    /\ c \in walk
    /\ walk' = walk \ {c}
    /\ depth' = depth + 2
    /\ IF sock[c] = "open"
       THEN /\ descs' = descs \ {c}
            /\ sock' = [sock EXCEPT ![c] = "closed"]
       ELSE UNCHANGED <<descs, sock>>
    /\ UNCHANGED <<poolVars, rpc, shutdownStatus, ready, evConn, cstate, msg,
                   peerEOF, obj, hpc>>

\* ::close(mSocket); removeDescriptor(mSocket); shutdown() returns, and
\* listen() with it.
CloseServerSocket ==
    /\ rpc = "close" /\ walk = {}
    /\ descs' = descs \ {ListenSock}
    /\ rpc' = "returned"
    /\ UNCHANGED <<poolVars, shutdownStatus, depth, ready, evConn, walk, cstate,
                   msg, peerEOF, sock, obj, hpc>>

\* main() deletes the pool (~WorkerPool finds it shut down) and returns:
\* the process ends, and with it every thread still running.
ExitProcess ==
    /\ rpc = "returned"
    /\ WP!DestroyPool
    /\ rpc' = "exited"
    /\ UNCHANGED <<shutdownStatus, depth, descs, ready, evConn, walk, cstate,
                   msg, peerEOF, sock, obj, hpc>>

-----------------------------------------------------------------------------
(* A worker thread.  Worker::execute is WorkerPool.tla's; what             *)
(* handler().process(pRequest) does is split into MyHandler's step and the *)
(* steps of Connection::close, reached from "quit" or from delete pRequest *)
(* of a ConnectionLostRequest (its destructor deletes the Connection,      *)
(* whose destructor calls close()).                                        *)

\* Worker::execute's own steps, which touch nothing of the listener.
PoolWorkerStep(A) == Running /\ A /\ UNCHANGED serverVars

\* MyHandler::process for the request's kind.  NewConnection reads the
\* Connection's address; "shutdown" calls startShutdown(); "quit" closes the
\* Connection; other lines are echoed and relayed over ConnIter; a
\* ConnectionLost is logged and the request deleted.
HandleRequest(w) ==
    /\ Running
    /\ wpc[w] = "process" /\ hpc[w] = "start"
    /\ LET r == cur[w] IN
         /\ shutdownStatus' = (shutdownStatus \/ r.cmd = "shutdown")
         /\ hpc' = [hpc EXCEPT ![w] =
                      IF r.kind = "ConnectionLost" \/ r.cmd = "quit"
                      THEN "check" ELSE "done"]
    /\ UNCHANGED <<poolVars, rpc, depth, descs, ready, evConn, walk, cstate,
                   msg, peerEOF, sock, obj>>

\* delete of a ConnectionLostRequest frees its Connection once close() is
\* done; after "quit" the Connection stays allocated.
AfterClose(w) ==
    IF cur[w].kind = "ConnectionLost"
    THEN [obj EXCEPT ![RequestConnection(cur[w])] = "freed"]
    ELSE obj

\* Connection::close: if (!mSocket) return.
CloseCheck(w) ==
    /\ Running
    /\ hpc[w] = "check"
    /\ IF sock[RequestConnection(cur[w])] = "open"
       THEN /\ hpc' = [hpc EXCEPT ![w] = "remove"]
            /\ UNCHANGED obj
       ELSE /\ hpc' = [hpc EXCEPT ![w] = "done"]
            /\ obj' = AfterClose(w)
    /\ UNCHANGED <<poolVars, rpc, shutdownStatus, depth, descs, ready, evConn,
                   walk, cstate, msg, peerEOF, sock>>

\* mrpListener->removeDescriptor(mSocket): waits for mThreadLock, which the
\* reactor holds while it dispatches and keeps after ServerListener::close.
CloseRemove(w) ==
    /\ Running
    /\ hpc[w] = "remove"
    /\ depth = 0
    /\ descs' = descs \ {RequestConnection(cur[w])}
    /\ hpc' = [hpc EXCEPT ![w] = "closeFd"]
    /\ UNCHANGED <<poolVars, rpc, shutdownStatus, depth, ready, evConn, walk,
                   cstate, msg, peerEOF, sock, obj>>

\* ::close(mSocket); mSocket = 0; return.
CloseFd(w) ==
    /\ Running
    /\ hpc[w] = "closeFd"
    /\ sock' = [sock EXCEPT ![RequestConnection(cur[w])] = "closed"]
    /\ obj' = AfterClose(w)
    /\ hpc' = [hpc EXCEPT ![w] = "done"]
    /\ UNCHANGED <<poolVars, rpc, shutdownStatus, depth, descs, ready, evConn,
                   walk, cstate, msg, peerEOF>>

\* RequestHandler::process returns; the drain loop pulls again.
FinishRequest(w) ==
    /\ Running
    /\ hpc[w] = "done"
    /\ WP!Process(w)
    /\ hpc' = [hpc EXCEPT ![w] = "start"]
    /\ UNCHANGED <<rpc, shutdownStatus, depth, descs, ready, evConn, walk,
                   cstate, msg, peerEOF, sock, obj>>

-----------------------------------------------------------------------------
(* The clients: each connects once, may send one line, and may close.      *)

Connect(c) ==
    /\ Running
    /\ cstate[c] = "absent"
    /\ cstate' = [cstate EXCEPT ![c] = "backlog"]
    /\ UNCHANGED <<poolVars, rpc, shutdownStatus, depth, descs, ready, evConn,
                   walk, msg, peerEOF, sock, obj, hpc>>

Send(c, m) ==
    /\ Running
    /\ cstate[c] # "absent" /\ msg[c] = "unsent" /\ ~peerEOF[c]
    /\ msg' = [msg EXCEPT ![c] = m]
    /\ UNCHANGED <<poolVars, rpc, shutdownStatus, depth, descs, ready, evConn,
                   walk, cstate, peerEOF, sock, obj, hpc>>

PeerClose(c) ==
    /\ Running
    /\ cstate[c] # "absent" /\ ~peerEOF[c]
    /\ peerEOF' = [peerEOF EXCEPT ![c] = TRUE]
    /\ UNCHANGED <<poolVars, rpc, shutdownStatus, depth, descs, ready, evConn,
                   walk, cstate, msg, sock, obj, hpc>>

\* The process has exited: nothing more happens.
Terminated ==
    /\ rpc = "exited"
    /\ UNCHANGED vars

-----------------------------------------------------------------------------
ReactorNext ==
    \/ Select
    \/ LockDispatch
    \/ \E c \in Conns : Accept(c)
    \/ \E c \in Conns : ReadData(c)
    \/ ReadResume
    \/ \E c \in Conns : ReadEOF(c)
    \/ SignalPool
    \/ EndDispatch
    \/ DeliverShutdown
    \/ PoolShutdownStep
    \/ PoolReturned
    \/ \E c \in Conns : CloseConnection(c)
    \/ CloseServerSocket
    \/ ExitProcess

WorkerNext(w) ==
    \/ PoolWorkerStep(WP!CheckShutdown(w))
    \/ PoolWorkerStep(WP!Wait(w))
    \/ PoolWorkerStep(WP!Wakeup(w))
    \/ PoolWorkerStep(WP!Pull(w))
    \/ HandleRequest(w)
    \/ CloseCheck(w)
    \/ CloseRemove(w)
    \/ CloseFd(w)
    \/ FinishRequest(w)

ClientNext ==
    \/ \E c \in Conns : Connect(c)
    \/ \E c \in Conns, m \in Cmds : Send(c, m)
    \/ \E c \in Conns : PeerClose(c)

Next ==
    \/ ReactorNext
    \/ \E w \in Workers : WorkerNext(w)
    \/ \E w \in Workers : PoolWorkerStep(WP!SpuriousWakeup(w))
    \/ ClientNext
    \/ Terminated

(***************************************************************************)
(* Fairness.  The reactor is one thread running ordinary code: weak        *)
(* fairness on its steps.  select() with a timeout always returns; a       *)
(* read() on a blocking socket returns only when the client acts, and      *)
(* clients are not fair: they may stay idle forever.  Each worker's steps  *)
(* other than a spurious wakeup are weakly fair, as in WorkerPool.tla.     *)
(***************************************************************************)
Fairness ==
    /\ WF_vars(ReactorNext)
    /\ \A w \in Workers : WF_vars(WorkerNext(w))

Spec == Init /\ [][Next]_vars
FairSpec == Spec /\ Fairness

-----------------------------------------------------------------------------
(* Properties.                                                             *)

\* The Connections worker w's next step dereferences: its own for
\* MyHandler::process(NewConnection) (ipAddress, address), for "quit" and
\* inside Connection::close (mSocket, mrpListener); every one in the
\* descriptor array for the relay of an echoed line (ConnIter::get).
ConnectionsInUse(w) ==
    IF wpc[w] # "process" THEN {}
    ELSE LET r == cur[w] IN
         CASE hpc[w] = "start" /\ (r.kind = "NewConnection" \/ r.cmd = "quit")
                -> {RequestConnection(r)}
           [] hpc[w] = "start" /\ r.kind = "StreamData"
                               /\ r.cmd \notin {"quit", "shutdown"}
                -> ConnIterItems(descs)
           [] hpc[w] \in {"check", "remove", "closeFd"}
                -> {RequestConnection(r)}
           [] OTHER -> {}

\* Use after free across threads: a Connection a worker is about to use
\* (MyHandler reading it, or Connection::close running on it) has not been
\* deleted by another worker's ~ConnectionLostRequest.  spec.md: the
\* Connection is destroyed exactly once, by its ConnectionLostRequest, and
\* a request's Connection is valid while the request is processed.
ConnectionAliveWhileInUse ==
    \A w \in Workers : \A c \in ConnectionsInUse(w) : obj[c] = "live"

\* A socket is closed once: when a worker's Connection::close reaches
\* ::close(mSocket), the descriptor it checked is still open.  The check of
\* mSocket and the ::close are not under the Connection's lock, so
\* ServerListener::close in the reactor (its ConnIter walking a copy of the
\* array taken before the worker removed the descriptor) may close the same
\* number in between; the second ::close then fails, or closes a descriptor
\* another thread has been given since.
SocketClosedOnce ==
    \A w \in Workers : hpc[w] = "closeFd" => sock[RequestConnection(cur[w])] = "open"

\* A "shutdown" line handled in a worker sets mShutdownStatus from outside
\* the reactor; listen() notices it at the next pass of its loop (select()
\* returns at the latest when the timeout expires), and shutdown() returns:
\* the pool shut down, every connection closed, the server socket closed.
\* (Unless the reactor stays blocked for good in the read() of a burst
\* that ended on a full block.)
ShutdownStopsListener ==
    \/ <>[](rpc = "reading")
    \/ shutdownStatus ~> rpc \in {"returned", "exited"}

====
