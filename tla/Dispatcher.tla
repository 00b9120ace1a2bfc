----------------------------- MODULE Dispatcher -----------------------------
(***************************************************************************)
(* What a request dispatcher promises its caller, independent of threads   *)
(* and condition variables: requests handed in are taken for processing    *)
(* in the order they were handed in, each by one worker and once; a       *)
(* request is processed only after it was taken; after the dispatcher is   *)
(* closed nothing more is handed in, and the final Shutdown request is     *)
(* handled at most once, after closing.                                    *)
(*                                                                         *)
(* WorkerPool (msrvworker.cc) is shown to implement this specification     *)
(* through a refinement mapping in WorkerPool.tla.                         *)
(***************************************************************************)
EXTENDS Sequences

CONSTANTS
    Workers,      \* the consumer threads
    Requests,     \* the ordinary requests that can be handed in
    ShutdownReq,  \* the final Shutdown request
    NoRequest     \* "this worker holds no request"

VARIABLES
    pending,    \* requests handed in and not yet taken, oldest first
    inService,  \* inService[w]: the request worker w is processing
    done,       \* the requests processed so far, in order of completion
    closed      \* the dispatcher has been closed (shut down)

avars == <<pending, inService, done, closed>>

AInit ==
    /\ pending = <<>>
    /\ inService = [w \in Workers |-> NoRequest]
    /\ done = <<>>
    /\ closed = FALSE

\* A request is handed in by the producer.
ASubmit(r) ==
    /\ ~closed
    /\ pending' = Append(pending, r)
    /\ UNCHANGED <<inService, done, closed>>

\* An idle worker takes the oldest pending request.
ATake(w) ==
    /\ inService[w] = NoRequest
    /\ pending # <<>>
    /\ inService' = [inService EXCEPT ![w] = Head(pending)]
    /\ pending' = Tail(pending)
    /\ UNCHANGED <<done, closed>>

\* A worker finishes the request it holds.
AFinish(w) ==
    /\ inService[w] # NoRequest
    /\ done' = Append(done, inService[w])
    /\ inService' = [inService EXCEPT ![w] = NoRequest]
    /\ UNCHANGED <<pending, closed>>

AClose ==
    /\ ~closed
    /\ closed' = TRUE
    /\ UNCHANGED <<pending, inService, done>>

\* The Shutdown request is handled, once, after closing.
AHandleShutdown ==
    /\ closed
    /\ \A i \in DOMAIN done : done[i] # ShutdownReq
    /\ done' = Append(done, ShutdownReq)
    /\ UNCHANGED <<pending, inService, closed>>

ANext ==
    \/ \E r \in Requests : ASubmit(r)
    \/ \E w \in Workers : ATake(w) \/ AFinish(w)
    \/ AClose
    \/ AHandleShutdown

ASpec == AInit /\ [][ANext]_avars
=============================================================================
