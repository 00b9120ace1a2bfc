------------------------------ MODULE LogFile -------------------------------
(***************************************************************************)
(* LogFile (src/libmsrv/src/msrvlog.cc) shared by several threads: the     *)
(* reactor, the caller of WorkerPool::shutdown and handler code running in *)
(* worker threads all log through the same object.  Its mThreadLock is a   *)
(* recursive pthread mutex (ThreadLock, msrvthread.cc): a thread may lock  *)
(* it again, and it is free when the owner has unlocked as often as it     *)
(* locked.                                                                 *)
(*                                                                         *)
(* message() writes a line in four stdio calls (time, header, body,        *)
(* newline) under the lock; any of them may fail (a full disk, an encoding *)
(* error).  close() and open() may be called to reopen the file, and      *)
(* setFilename() to name another file first; the name "-" opens stdout,    *)
(* which close() leaves open.  write() puts raw bytes in one fwrite.  The  *)
(* text written is abstracted to which thread wrote which part of a line.  *)
(***************************************************************************)
EXTENDS Naturals, Sequences

CONSTANTS
    Threads,      \* the threads sharing the log
    NoThread,     \* the mutex has no owner
    MaxMessages,  \* bound: message() calls per thread
    CanFail,      \* the stream may refuse a write
    Reopen,       \* the application may close() and open() the log
    LogName,      \* the file name given to LogFile (const char*)
    Filenames,    \* names the application may pass to setFilename()
    BadArgs       \* callers may pass NULL data or an invalid fatality

ASSUME MaxMessages \in Nat /\ CanFail \in BOOLEAN /\ Reopen \in BOOLEAN
ASSUME BadArgs \in BOOLEAN /\ LogName \in Filenames

\* The name that makes open() use stdout instead of fopen().
StdoutName == "-"

\* The four writes of message(), in order.
Parts == <<"time", "head", "body", "nl">>

VARIABLES
    pc,          \* per thread: where it is in a LogFile call
    owner,       \* owner of mThreadLock
    depth,       \* recursion count of mThreadLock
    streamOpen,  \* mpLogStream != NULL
    isStdout,    \* mpLogStream == stdout
    filename,    \* mpFilename
    out,         \* the stream's contents: <<thread, part>> in write order
    calls        \* message() and write() calls each thread has made

vars == <<pc, owner, depth, streamOpen, isStdout, filename, out, calls>>

\* What one write() call puts in the stream.
Raw == "raw"

PcStates == {"idle", "lockMsg", "check", "unlockMsg", "lockClose", "lockOpen",
             "lockName", "lockWrite", "checkWrite", "unlockWrite"}
            \cup {Parts[i] : i \in DOMAIN Parts}

TypeOK ==
    /\ pc \in [Threads -> PcStates]
    /\ owner \in Threads \cup {NoThread}
    /\ depth \in Nat
    /\ streamOpen \in BOOLEAN
    /\ isStdout \in BOOLEAN
    /\ filename \in Filenames
    /\ out \in Seq(Threads \X ({Parts[i] : i \in DOMAIN Parts} \cup {Raw}))
    /\ calls \in [Threads -> 0..MaxMessages]

\* After LogFile (filename) returned: open() succeeded (it throws otherwise),
\* on stdout for "-"; nobody holds the lock.
Init ==
    /\ pc = [t \in Threads |-> "idle"]
    /\ owner = NoThread
    /\ depth = 0
    /\ streamOpen = TRUE
    /\ isStdout = (LogName = StdoutName)
    /\ filename = LogName
    /\ out = <<>>
    /\ calls = [t \in Threads |-> 0]

\* Whether a stdio call (fprintf, fopen) succeeds.
IoResults == IF CanFail THEN BOOLEAN ELSE {TRUE}

\* Whether the caller's arguments pass the checks (not NULL, a valid fatality).
ArgResults == IF BadArgs THEN BOOLEAN ELSE {TRUE}

-----------------------------------------------------------------------------
(* ThreadLock::lock and ::unlock on the recursive mutex.                   *)

CanLock(t) == owner \in {t, NoThread}

\* Mutant of Acquire: the lock taken without regard to its owner.
AcquireAnyway(t) ==
    /\ owner' = t
    /\ depth' = depth + 1

Acquire(t) ==
    /\ CanLock(t)
    /\ owner' = t
    /\ depth' = depth + 1

\* Mutant of Release: the owner is not cleared when the count drops to 0.
ReleaseKeepsOwner(t) ==
    /\ depth' = depth - 1
    /\ owner' = t

\* Mutant of Release: message() unlocks twice on its way out.
ReleaseTwice(t) ==
    /\ depth' = depth - 2
    /\ owner' = IF depth' <= 0 THEN NoThread ELSE t

Release(t) ==
    /\ depth' = depth - 1
    /\ owner' = IF depth' = 0 THEN NoThread ELSE t

-----------------------------------------------------------------------------
(* LogFile::message.                                                       *)

\* A thread calls message(), within the bound on calls.
CallMessage(t) ==
    /\ pc[t] = "idle"
    /\ calls[t] < MaxMessages
    /\ pc' = [pc EXCEPT ![t] = "lockMsg"]
    /\ calls' = [calls EXCEPT ![t] = @ + 1]
    /\ UNCHANGED <<owner, depth, streamOpen, isStdout, filename, out>>

\* mThreadLock.lock ().
LockMsg(t) ==
    /\ pc[t] = "lockMsg"
    /\ Acquire(t)
    /\ pc' = [pc EXCEPT ![t] = "check"]
    /\ UNCHANGED <<streamOpen, isStdout, filename, out, calls>>

\* if (! mpLogStream) return MSRVERR_LOG_NOT_OPEN; then the NULL message and
\* fatality checks, which return the same way -- the lock stays held.
CheckOpen(t) ==
    /\ pc[t] = "check"
    /\ \E argsOk \in ArgResults :
         pc' = [pc EXCEPT ![t] = IF streamOpen /\ argsOk THEN Parts[1] ELSE "idle"]
    /\ UNCHANGED <<owner, depth, streamOpen, isStdout, filename, out, calls>>

\* One fprintf/vfprintf of the line.  On failure message() returns
\* MSRVERR_LOG_WRITE_FAILED at once, the lock still held.
WritePart(t) ==
    /\ \E i \in DOMAIN Parts, ok \in IoResults :
         /\ pc[t] = Parts[i]
         /\ out' = IF ok THEN Append(out, <<t, Parts[i]>>) ELSE out
         /\ pc' = [pc EXCEPT ![t] = IF ~ok THEN "idle"
                                   ELSE IF i = Len(Parts) THEN "unlockMsg"
                                   ELSE Parts[i + 1]]
    /\ UNCHANGED <<owner, depth, streamOpen, isStdout, filename, calls>>

\* Mutant of UnlockMsg: the success path returns without unlocking.
UnlockMsgKeepingLock(t) ==
    /\ pc[t] = "unlockMsg"
    /\ pc' = [pc EXCEPT ![t] = "idle"]
    /\ UNCHANGED <<owner, depth, streamOpen, isStdout, filename, out, calls>>

\* fflush (mpLogStream); mThreadLock.unlock (); return 0;
UnlockMsg(t) ==
    /\ pc[t] = "unlockMsg"
    /\ Release(t)
    /\ pc' = [pc EXCEPT ![t] = "idle"]
    /\ UNCHANGED <<streamOpen, isStdout, filename, out, calls>>

-----------------------------------------------------------------------------
(* LogFile::write: lock, the same early returns as message(), one fwrite.  *)

CallWrite(t) ==
    /\ pc[t] = "idle"
    /\ calls[t] < MaxMessages
    /\ pc' = [pc EXCEPT ![t] = "lockWrite"]
    /\ calls' = [calls EXCEPT ![t] = @ + 1]
    /\ UNCHANGED <<owner, depth, streamOpen, isStdout, filename, out>>

LockWrite(t) ==
    /\ pc[t] = "lockWrite"
    /\ Acquire(t)
    /\ pc' = [pc EXCEPT ![t] = "checkWrite"]
    /\ UNCHANGED <<streamOpen, isStdout, filename, out, calls>>

\* MSRVERR_LOG_NOT_OPEN, MSRVERR_NULL_ARGUMENT and MSRVERR_SHORT_WRITE all
\* return with the lock held; a short fwrite may have written part of the
\* data, which is still in the stream.
FWrite(t) ==
    /\ pc[t] = "checkWrite"
    /\ \E argsOk \in ArgResults, ok \in IoResults :
         /\ out' = IF streamOpen /\ argsOk THEN Append(out, <<t, Raw>>) ELSE out
         /\ pc' = [pc EXCEPT ![t] = IF streamOpen /\ argsOk /\ ok
                                   THEN "unlockWrite" ELSE "idle"]
    /\ UNCHANGED <<owner, depth, streamOpen, isStdout, filename, calls>>

UnlockWrite(t) ==
    /\ pc[t] = "unlockWrite"
    /\ Release(t)
    /\ pc' = [pc EXCEPT ![t] = "idle"]
    /\ UNCHANGED <<streamOpen, isStdout, filename, out, calls>>

-----------------------------------------------------------------------------
(* LogFile::close, ::open and ::setFilename: each locks, acts and unlocks. *)

CallClose(t) ==
    /\ Reopen /\ pc[t] = "idle"
    /\ pc' = [pc EXCEPT ![t] = "lockClose"]
    /\ UNCHANGED <<owner, depth, streamOpen, isStdout, filename, out, calls>>

\* if (mpLogStream && mpLogStream != stdout) { fclose; mpLogStream = 0; }
Close(t) ==
    /\ pc[t] = "lockClose"
    /\ CanLock(t)
    /\ streamOpen' = (streamOpen /\ isStdout)
    /\ pc' = [pc EXCEPT ![t] = "idle"]
    /\ UNCHANGED <<owner, depth, isStdout, filename, out, calls>>

CallOpen(t) ==
    /\ Reopen /\ pc[t] = "idle"
    /\ pc' = [pc EXCEPT ![t] = "lockOpen"]
    /\ UNCHANGED <<owner, depth, streamOpen, isStdout, filename, out, calls>>

\* MSRVERR_LOG_ALREADY_OPEN if open; otherwise stdout for "-", else
\* fopen (mpFilename, "a"), which may fail.  mpFilename is never NULL: the
\* log was constructed from a name and setFilename refuses NULL.
Open(t) ==
    /\ pc[t] = "lockOpen"
    /\ CanLock(t)
    /\ IF streamOpen
       THEN UNCHANGED <<streamOpen, isStdout>>
       ELSE /\ isStdout' = (filename = StdoutName)
            /\ \E ok \in IoResults : streamOpen' = (isStdout' \/ ok)
    /\ pc' = [pc EXCEPT ![t] = "idle"]
    /\ UNCHANGED <<owner, depth, filename, out, calls>>

CallSetFilename(t) ==
    /\ Reopen /\ pc[t] = "idle"
    /\ pc' = [pc EXCEPT ![t] = "lockName"]
    /\ UNCHANGED <<owner, depth, streamOpen, isStdout, filename, out, calls>>

\* Replace mpFilename under the lock; the open stream is left as it is.
SetFilename(t) ==
    /\ pc[t] = "lockName"
    /\ CanLock(t)
    /\ \E f \in Filenames : filename' = f
    /\ pc' = [pc EXCEPT ![t] = "idle"]
    /\ UNCHANGED <<owner, depth, streamOpen, isStdout, out, calls>>

-----------------------------------------------------------------------------
ThreadNext(t) ==
    \/ CallMessage(t) \/ LockMsg(t) \/ CheckOpen(t) \/ WritePart(t) \/ UnlockMsg(t)
    \/ CallWrite(t) \/ LockWrite(t) \/ FWrite(t) \/ UnlockWrite(t)
    \/ CallClose(t) \/ Close(t) \/ CallOpen(t) \/ Open(t)
    \/ CallSetFilename(t) \/ SetFilename(t)

\* Every thread has made its calls and returned.
Finished ==
    /\ \A t \in Threads : pc[t] = "idle" /\ calls[t] = MaxMessages
    /\ UNCHANGED vars

Next == (\E t \in Threads : ThreadNext(t)) \/ Finished

Spec == Init /\ [][Next]_vars

\* The steps inside a LogFile call: a thread that has entered one is
\* scheduled by the OS until it returns.  Whether a thread calls LogFile at
\* all is up to the application, so the Call actions get no fairness.
InCall(t) ==
    \/ LockMsg(t) \/ CheckOpen(t) \/ WritePart(t) \/ UnlockMsg(t)
    \/ LockWrite(t) \/ FWrite(t) \/ UnlockWrite(t)
    \/ Close(t) \/ Open(t) \/ SetFilename(t)

FairSpec == Spec /\ \A t \in Threads : WF_vars(InCall(t))

-----------------------------------------------------------------------------
(* Properties.                                                             *)

\* Log lines are not interleaved: in the stream, each part of a line other
\* than its first comes right after the previous part of the same line from
\* the same thread, because message() holds mThreadLock across its writes.
LinesWhole ==
    \A i \in DOMAIN out :
        \A k \in 2..Len(Parts) :
            out[i][2] = Parts[k] =>
                /\ i > 1
                /\ out[i - 1] = <<out[i][1], Parts[k - 1]>>

\* "after which it must be unlocked equal number of times" (ThreadLock): a
\* thread that has returned from LogFile does not keep mThreadLock, so the
\* other threads can still log.
LockFreeWhenIdle ==
    \A t \in Threads : pc[t] = "idle" => owner # t


\* Every LogFile call returns: a thread that has called message(), write(),
\* open(), close() or setFilename() eventually gets mThreadLock and comes
\* back, because every other call that takes the lock gives it back as
\* often as it took it.
CallsReturn ==
    \A t \in Threads : pc[t] # "idle" ~> pc[t] = "idle"

=============================================================================
