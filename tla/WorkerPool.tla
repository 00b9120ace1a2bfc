----------------------------- MODULE WorkerPool -----------------------------
(***************************************************************************)
(* WorkerPool and Worker (src/libmsrv/src/msrvworker.cc) with the parts of *)
(* ThreadLock (msrvthread.cc) and Queue (msrvcontainer.h) they use.        *)
(*                                                                         *)
(* One caller thread (the reactor, which calls WorkerPool::process and at  *)
(* the end destroys the pool) and NumWorkers worker threads, each running  *)
(* Worker::execute.  The request queue is the linked list of Queue<T>:     *)
(* push inserts at mpFirstItem, pull removes mpLastItem.  The list is     *)
(* kept as its two end pointers and the mpNext and mpPrev links of every   *)
(* ListItem; queue is the sequence it spells.  Waiting on the              *)
(* condition variable of mQueueWaitLock is the set waitSet: signal removes *)
(* one waiter, broadcast all, and a waiter may also wake spuriously.  The  *)
(* waits carry no predicate, so a signal or broadcast that finds nobody    *)
(* waiting is lost.                                                        *)
(***************************************************************************)
EXTENDS Naturals, Sequences, SequencesExt

CONSTANTS
    NumWorkers,   \* the size argument of WorkerPool::WorkerPool
    Requests,     \* the ordinary requests the reactor hands to process()
    ShutdownReq,  \* the ShutdownRequest sent by ServerListener::shutdown
    NoRequest,    \* a worker holds no request
    CreateMayFail \* pthread_create may fail (EAGAIN: no threads or memory left)

ASSUME NumWorkers \in Nat \ {0} /\ CreateMayFail \in BOOLEAN
ASSUME ShutdownReq \notin Requests /\ NoRequest \notin Requests \cup {ShutdownReq}

\* mpWorkers[0..mWorkerCount-1]: the index matters, shutdown() skips index 0.
Workers == 0..(NumWorkers - 1)

VARIABLES
    mpFirstItem, \* mRequestQueue.mpFirstItem
    mpLastItem,  \* mRequestQueue.mpLastItem
    mpNext,      \* ListItem::mpNext of the item holding each request
    mpPrev,      \* ListItem::mpPrev of the item holding each request
    isShutdown,  \* mIsShutdown
    waitSet,     \* workers blocked in pthread_cond_wait of mQueueWaitLock
    wpc,         \* program counter of Worker::execute, per worker
    cur,         \* pRequest of the drain loop, per worker
    mpc,         \* program counter of the caller thread
    joinNext,    \* loop index i of the join loop in shutdown()
    finalReq,    \* shutdown() was given a final request (not NULL)
    submitted,   \* history: requests pushed, in order
    processed    \* history: requests handed to the wrapped handler, in order

listVars == <<mpFirstItem, mpLastItem, mpNext, mpPrev>>

vars == <<listVars, isShutdown, waitSet, wpc, cur, mpc, joinNext, finalReq,
          submitted, processed>>

(* Queue<Request>, the linked list of ListItem<Request>.  An item is named  *)
(* by the request it holds, as every request is pushed once.  An item out  *)
(* of the list has been deleted; its links are NULL here, as nothing reads *)
(* them again.                                                             *)

NULL == NoRequest
Items == Requests \cup {ShutdownReq}

\* The items from p on, following mpNext up to NULL.  The walk visits at
\* most n items, so that it also ends on links that form a cycle.
RECURSIVE ItemsFrom(_, _)
ItemsFrom(p, n) ==
    IF p = NULL \/ n = 0 THEN <<>> ELSE <<p>> \o ItemsFrom(mpNext[p], n - 1)

\* The queue the links spell, mpFirstItem first.
queue == ItemsFrom(mpFirstItem, Cardinality(Items))

\* Queue::Queue: both ends NULL.
QueueInit ==
    /\ mpFirstItem = NULL
    /\ mpLastItem = NULL
    /\ mpNext = [i \in Items |-> NULL]
    /\ mpPrev = [i \in Items |-> NULL]

WorkerStates == {"top", "wait", "blocked", "pull", "process", "exited",
                 "unstarted"}
CallerStates == {"idle", "signal", "bcast", "join", "final", "returned",
                 "destroyed", "crashed"}

TypeOK ==
    /\ mpFirstItem \in Items \cup {NULL}
    /\ mpLastItem \in Items \cup {NULL}
    /\ mpNext \in [Items -> Items \cup {NULL}]
    /\ mpPrev \in [Items -> Items \cup {NULL}]
    /\ queue \in Seq(Requests)
    /\ isShutdown \in BOOLEAN
    /\ waitSet \subseteq Workers
    /\ wpc \in [Workers -> WorkerStates]
    /\ cur \in [Workers -> Requests \cup {NoRequest}]
    /\ mpc \in CallerStates
    /\ joinNext \in 1..NumWorkers
    /\ finalReq \in BOOLEAN
    /\ submitted \in Seq(Requests)
    /\ processed \in Seq(Requests \cup {ShutdownReq})

\* Thread::start: pthread_create returns a positive error code, which the
\* test result < 0 never catches, so start() returns 0 either way and
\* WorkerPool::WorkerPool goes on (it ignores the result anyway).
StartResults == IF CreateMayFail THEN {"top", "unstarted"} ELSE {"top"}

\* WorkerPool::WorkerPool: every worker created and started, nothing queued.
Init ==
    /\ QueueInit
    /\ isShutdown = FALSE
    /\ waitSet = {}
    /\ wpc \in [Workers -> StartResults]
    /\ cur = [w \in Workers |-> NoRequest]
    /\ mpc = "idle"
    /\ joinNext = 1
    /\ finalReq = FALSE
    /\ submitted = <<>>
    /\ processed = <<>>

-----------------------------------------------------------------------------
(* Queue<Request>::push and ::pull, each atomic under the queue's lock.    *)

\* Mutant of QueuePush: push links the new item in at mpLastItem.
QueuePushAtLast(r) ==
    LET old == mpLastItem IN
    /\ mpLastItem' = r
    /\ mpPrev' = [mpPrev EXCEPT ![r] = old]
    /\ mpNext' = [i \in Items |-> CASE i = r   -> NULL
                                    [] i = old -> r
                                    [] OTHER   -> mpNext[i]]
    /\ mpFirstItem' = IF mpFirstItem = NULL THEN r ELSE mpFirstItem

\* Queue::push: new ListItem (pItem, pOldFirst) becomes mpFirstItem, with
\* mpPrev NULL; the old first item, if any, gets it as its mpPrev; in an
\* empty queue it is mpLastItem too.
QueuePush(r) ==
    LET old == mpFirstItem IN
    /\ mpFirstItem' = r
    /\ mpNext' = [mpNext EXCEPT ![r] = old]
    /\ mpPrev' = [i \in Items |-> CASE i = r   -> NULL
                                    [] i = old -> r
                                    [] OTHER   -> mpPrev[i]]
    /\ mpLastItem' = IF mpLastItem = NULL THEN r ELSE mpLastItem

\* Mutant of QueuePull: the new last item keeps its mpNext to the deleted one.
QueuePullKeepingNext ==
    LET p == mpLastItem
        q == mpPrev[p]
    IN
    /\ mpLastItem' = q
    /\ mpFirstItem' = IF q = NULL THEN NULL ELSE mpFirstItem
    /\ mpNext' = [mpNext EXCEPT ![p] = NULL]
    /\ mpPrev' = [mpPrev EXCEPT ![p] = NULL]

\* Queue::pull on a non-empty queue (its request is mpLastItem): the item's
\* mpPrev becomes mpLastItem, with its mpNext set to NULL, or if there is
\* none both ends become NULL; then the old last item is deleted, and
\* ~ListItem deletes its mpNext along with it.
QueuePull ==
    LET p == mpLastItem
        q == mpPrev[p]
    IN
    /\ mpLastItem' = q
    /\ mpFirstItem' = IF q = NULL THEN NULL ELSE mpFirstItem
    /\ mpNext' = [i \in Items |-> IF i \in {p, q} THEN NULL ELSE mpNext[i]]
    /\ mpPrev' = [mpPrev EXCEPT ![p] = NULL]

-----------------------------------------------------------------------------
(* The caller thread.                                                      *)

\* WorkerPool::process, default case: push the request, then signal().
Submit(r) ==
    /\ mpc = "idle"
    /\ r \notin ToSet(submitted)
    /\ QueuePush(r)
    /\ submitted' = Append(submitted, r)
    /\ mpc' = "signal"
    /\ UNCHANGED <<isShutdown, waitSet, wpc, cur, joinNext, finalReq, processed>>

\* ThreadLock::signal: pthread_cond_signal wakes one waiter, if any.
Signal ==
    /\ mpc = "signal"
    /\ \/ \E w \in waitSet : waitSet' = waitSet \ {w}
       \/ waitSet = {} /\ UNCHANGED waitSet
    /\ mpc' = "idle"
    /\ UNCHANGED <<listVars, isShutdown, wpc, cur, joinNext, finalReq, submitted, processed>>

\* Mutant of StartShutdown: process() without its case Request::Shutdown,
\* so the ShutdownRequest is queued like any other request.
StartShutdownQueued(withFinal) ==
    /\ mpc = "idle"
    /\ ~isShutdown
    /\ IF withFinal
       THEN /\ QueuePush(ShutdownReq)
            /\ mpc' = "signal"
            /\ UNCHANGED <<isShutdown, finalReq>>
       ELSE /\ isShutdown' = TRUE
            /\ finalReq' = FALSE
            /\ mpc' = "bcast"
            /\ UNCHANGED listVars
    /\ UNCHANGED <<waitSet, wpc, cur, joinNext, submitted, processed>>

\* WorkerPool::shutdown entered with mIsShutdown false: from process() with
\* the ShutdownRequest (withFinal) or from ~WorkerPool with NULL.
StartShutdown(withFinal) ==
    /\ mpc = "idle"
    /\ ~isShutdown
    /\ isShutdown' = TRUE
    /\ finalReq' = withFinal
    /\ mpc' = "bcast"
    /\ UNCHANGED <<listVars, waitSet, wpc, cur, joinNext, submitted, processed>>

\* getWaitLock().broadcast(): wake every waiter.
Broadcast ==
    /\ mpc = "bcast"
    /\ waitSet' = {}
    /\ mpc' = "join"
    /\ joinNext' = 1
    /\ UNCHANGED <<listVars, isShutdown, wpc, cur, finalReq, submitted, processed>>

\* for (i=1; i<mWorkerCount; ++i) mpWorkers[i]->join(): blocks until the
\* worker has returned from execute().
JoinWorker ==
    /\ mpc = "join"
    /\ joinNext < NumWorkers
    /\ wpc[joinNext] = "exited"
    /\ joinNext' = joinNext + 1
    /\ UNCHANGED <<listVars, isShutdown, waitSet, wpc, cur, mpc, finalReq, submitted, processed>>

\* Thread::join of a worker whose pthread_create failed: pthread_join on an
\* mThreadId that names no thread (0, or a descriptor freed by the failed
\* create) is undefined; glibc dereferences it.  The build either crashes
\* or returns ESRCH, which shutdown() ignores.
JoinUnstarted ==
    /\ mpc = "join"
    /\ joinNext < NumWorkers
    /\ wpc[joinNext] = "unstarted"
    /\ \/ /\ joinNext' = joinNext + 1
          /\ UNCHANGED mpc
       \/ /\ mpc' = "crashed"
          /\ UNCHANGED joinNext
    /\ UNCHANGED <<listVars, isShutdown, waitSet, wpc, cur, finalReq, submitted, processed>>

\* Loop done: the final request, if any, is processed in the caller thread.
FinishShutdown ==
    /\ mpc = "join"
    /\ joinNext = NumWorkers
    /\ processed' = IF finalReq THEN Append(processed, ShutdownReq) ELSE processed
    /\ mpc' = "returned"
    /\ UNCHANGED <<listVars, isShutdown, waitSet, wpc, cur, joinNext, finalReq, submitted>>

\* ~WorkerPool on a pool already shut down: delete the Worker objects.
DestroyPool ==
    /\ mpc = "returned"
    /\ mpc' = "destroyed"
    /\ UNCHANGED <<listVars, isShutdown, waitSet, wpc, cur, joinNext, finalReq, submitted, processed>>

-----------------------------------------------------------------------------
(* A worker thread, Worker::execute.                                       *)

\* if (mpPool->isShutdown ()) break;
CheckShutdown(w) ==
    /\ wpc[w] = "top"
    /\ wpc' = [wpc EXCEPT ![w] = IF isShutdown THEN "exited" ELSE "wait"]
    /\ UNCHANGED <<listVars, isShutdown, waitSet, cur, mpc, joinNext, finalReq, submitted, processed>>

\* ThreadLock::wait: lock, pthread_cond_wait (joins the waiters atomically).
Wait(w) ==
    /\ wpc[w] = "wait"
    /\ waitSet' = waitSet \cup {w}
    /\ wpc' = [wpc EXCEPT ![w] = "blocked"]
    /\ UNCHANGED <<listVars, isShutdown, cur, mpc, joinNext, finalReq, submitted, processed>>

\* Woken by signal or broadcast: reacquire the mutex, unlock, return.
Wakeup(w) ==
    /\ wpc[w] = "blocked"
    /\ w \notin waitSet
    /\ wpc' = [wpc EXCEPT ![w] = "pull"]
    /\ UNCHANGED <<listVars, isShutdown, waitSet, cur, mpc, joinNext, finalReq, submitted, processed>>

\* pthread_cond_wait may return without a signal.
SpuriousWakeup(w) ==
    /\ wpc[w] = "blocked"
    /\ w \in waitSet
    /\ waitSet' = waitSet \ {w}
    /\ wpc' = [wpc EXCEPT ![w] = "pull"]
    /\ UNCHANGED <<listVars, isShutdown, cur, mpc, joinNext, finalReq, submitted, processed>>

\* while (Request* pRequest = mpPool->queue ().pull ()): NULL ends the drain.
Pull(w) ==
    /\ wpc[w] = "pull"
    /\ \/ /\ mpLastItem # NULL
          /\ cur' = [cur EXCEPT ![w] = mpLastItem]
          /\ QueuePull
          /\ wpc' = [wpc EXCEPT ![w] = "process"]
       \/ /\ mpLastItem = NULL
          /\ wpc' = [wpc EXCEPT ![w] = "top"]
          /\ UNCHANGED <<listVars, cur>>
    /\ UNCHANGED <<isShutdown, waitSet, mpc, joinNext, finalReq, submitted, processed>>

\* mpPool->handler ().process (pRequest), which also deletes the request.
Process(w) ==
    /\ wpc[w] = "process"
    /\ processed' = Append(processed, cur[w])
    /\ cur' = [cur EXCEPT ![w] = NoRequest]
    /\ wpc' = [wpc EXCEPT ![w] = "pull"]
    /\ UNCHANGED <<listVars, isShutdown, waitSet, mpc, joinNext, finalReq, submitted>>

-----------------------------------------------------------------------------
CallerNext ==
    \/ \E r \in Requests : Submit(r)
    \/ Signal
    \/ \E b \in BOOLEAN : StartShutdown(b)
    \/ Broadcast
    \/ JoinWorker
    \/ JoinUnstarted
    \/ FinishShutdown
    \/ DestroyPool

WorkerNext(w) ==
    \/ CheckShutdown(w)
    \/ Wait(w)
    \/ Wakeup(w)
    \/ SpuriousWakeup(w)
    \/ Pull(w)
    \/ Process(w)

\* The run ends when the pool is destroyed and every worker that was started
\* has exited, or when the process has crashed.
Done ==
    /\ \/ /\ mpc = "destroyed"
          /\ \A w \in Workers : wpc[w] \in {"exited", "unstarted"}
       \/ mpc = "crashed"
    /\ UNCHANGED vars

Next == CallerNext \/ (\E w \in Workers : WorkerNext(w)) \/ Done

(***************************************************************************)
(* Fairness.  Worker steps other than a spurious wakeup are ordinary code  *)
(* the OS scheduler runs (weak fairness per worker); pthread does not      *)
(* promise spurious wakeups, so they get none.  The caller's steps inside  *)
(* process() and shutdown() are weakly fair; whether the caller submits    *)
(* more requests, shuts the pool down or destroys it is up to the          *)
(* application, so Submit, StartShutdown and DestroyPool get no fairness.  *)
(***************************************************************************)
Fairness ==
    /\ WF_vars(Signal)
    /\ WF_vars(Broadcast)
    /\ WF_vars(JoinWorker)
    /\ WF_vars(JoinUnstarted)
    /\ WF_vars(FinishShutdown)
    /\ \A w \in Workers :
          WF_vars(CheckShutdown(w) \/ Wait(w) \/ Wakeup(w) \/ Pull(w) \/ Process(w))

Spec == Init /\ [][Next]_vars
FairSpec == Spec /\ Fairness

-----------------------------------------------------------------------------
(* Refinement: the pool implements the abstract Dispatcher.                *)

\* The requests the workers hold, as the abstract inService function.
InService == [w \in Workers |-> IF wpc[w] = "process" THEN cur[w] ELSE NoRequest]

D == INSTANCE Dispatcher WITH
        Workers   <- Workers,
        pending   <- Reverse(queue),
        inService <- InService,
        done      <- processed,
        closed    <- isShutdown

\* Requests are taken in the order the reactor handed them in (the queue
\* is FIFO although push and pull work on opposite ends of a linked list),
\* each by exactly one worker, processed only after being taken, and the
\* Shutdown request is handled once, after mIsShutdown is set.
DispatcherRefinement == D!ASpec

\* The links of Queue stay consistent over every interleaving of the
\* reactor's push and the workers' pull: both ends are NULL together, the
\* walk along mpNext from mpFirstItem ends at mpLastItem, whose mpNext is
\* NULL, and the mpPrev of each item is the item before it.  Queue::pull
\* relies on this: it takes mpLastItem->prev() as the new last item, and
\* deleting the old last item also deletes its mpNext.
QueueLinked ==
    LET s == queue IN
    /\ (mpFirstItem = NULL) <=> (mpLastItem = NULL)
    /\ s # <<>> => /\ s[Len(s)] = mpLastItem
                   /\ mpNext[mpLastItem] = NULL
                   /\ mpPrev[s[1]] = NULL
    /\ \A i \in 1..(Len(s) - 1) : mpPrev[s[i + 1]] = s[i]

-----------------------------------------------------------------------------
(* Properties the comments of msrvworker.cc and msrvthread.cc state.       *)

WasProcessed(r) == \E i \in DOMAIN processed : processed[i] = r

\* "Awaken one worker" (WorkerPool::process) and "Awaken all workers. Join
\* all the workers except one." (WorkerPool::shutdown): a request handed to
\* the pool is eventually passed to the handler, even when the reactor hands
\* in nothing more, and once mIsShutdown is set shutdown() eventually
\* returns.  Both rest on the wakeups of the condition variable reaching a
\* worker.
WakeupsNotLost ==
    /\ \A r \in Requests : (r \in ToSet(submitted)) ~> WasProcessed(r)
    /\ isShutdown ~> (mpc \in {"returned", "destroyed"})

=============================================================================
