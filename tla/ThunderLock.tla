----------------------------- MODULE ThunderLock -----------------------------
(***************************************************************************)
(* The accept loop of the workers and the process-shared thunder lock that *)
(* serializes it (core/loop.c, wsgi_req_accept() in core/utils.c, the lock *)
(* engines of core/lock.c), with worker death, graceful stop, the deadlock *)
(* detector of the master and respawn.                                     *)
(*                                                                         *)
(* A thread is a pair <<worker, core>>.  The two halves of a lock call     *)
(* (the mutex operation and the write of uli->pid) are separate steps.     *)
(***************************************************************************)
EXTENDS Integers, FiniteSets

CONSTANTS
    NumProc,        \* upsgi.numproc
    MaxThreads,     \* the largest upsgi.threads
    Setups,         \* how the server may be started (see Setup)
    MaxConn         \* bound: connections ever arriving on a socket

Workers == 1..NumProc
Thread == Workers \X (0..(MaxThreads - 1))
Nobody == <<0, 0>>

\* The options that matter here: upsgi.use_thunder_lock, the engine behind the
\* lock, upsgi.threads, and the workers whose sockets are all mapped to them
\* alone; with the bound on crashes and requests to stop.
Setup == [useThunderLock : BOOLEAN, engine : {"robust", "plain", "fdlock", "ipcsem"},
          threads : 1..MaxThreads, exclusive : SUBSET Workers, maxEnds : Nat]

ASSUME SizeAssumption == NumProc \in Nat \ {0} /\ MaxThreads \in Nat \ {0} /\ MaxConn \in Nat
ASSUME SetupAssumption == \A s \in Setups : s \in Setup

VARIABLES
    setup,      \* the options of this instance
    pc,         \* where each thread is in simple_loop_run()/wsgi_req_accept()
    fd,         \* wsgi_req->fd is an accepted connection
    manage,     \* workers[w].manage_next_request
    pid,        \* workers[w].pid
    zombie,     \* exited workers the master has not waited for yet
    lastPid,    \* last pid the kernel gave out
    ends,       \* crashes and requests to stop so far
    owner,      \* holder of the thunder lock
    ownerDied,  \* robust mutex: the holder is dead (EOWNERDEAD pending)
    uliPid,     \* the_thunder_lock->pid
    mutex,      \* upsgi.thunder_mutex of each process
    backlog,    \* connections in the listen queue of each socket
    arrived,    \* connections that reached each socket so far
    dropped,    \* accepted connections closed by a graceful exit
    mpc,        \* master: step of upsgi_deadlock_check()
    died,       \* master: the worker waitpid() returned
    diedPid     \* master: and the pid it had

lockVars == <<owner, ownerDied, uliPid, mutex>>
procVars == <<manage, pid, zombie, lastPid, ends>>
connVars == <<fd, backlog, arrived, dropped>>
masterVars == <<mpc, died, diedPid>>
vars == <<setup, pc, lockVars, procVars, connVars, masterVars>>

-----------------------------------------------------------------------------
Threaded == setup.threads > 1

\* Where worker w accepts: a socket of its own or the shared listener.
SharedSocket == 0
SocketOf(w) == IF w \in setup.exclusive THEN w ELSE SharedSocket
Sockets == Workers \cup {SharedSocket}

\* upsgi_accept_wait_lock_acquire(): the lock taken around the wait. (With an
\* edge triggered socket, which no setup has, no lock is taken.)
LockMode(w) ==
    IF setup.useThunderLock /\ w \notin setup.exclusive THEN "thunder"
    ELSE IF Threaded THEN "thread" ELSE "none"

\* Steps at which a thread is inside the serialized section.
Inside == {"got", "held", "poll", "accept", "release"}

Steps == Inside \cup {"loop", "lock", "clear", "recv", "serve", "done", "dead"}

\* The threads of a worker; the others of Thread are never started.
Cores == 0..(setup.threads - 1)
Running == Workers \X Cores

Alive(w) == pid[w] # 0 /\ w \notin zombie

Init ==
    /\ setup \in Setups
    /\ pc = [t \in Thread |-> IF t \in Running THEN "loop" ELSE "dead"]
    /\ fd = [t \in Thread |-> FALSE]
    /\ manage = [w \in Workers |-> TRUE]
    /\ pid = [w \in Workers |-> w]
    /\ zombie = {}
    /\ lastPid = NumProc
    /\ ends = 0
    /\ owner = Nobody /\ ownerDied = FALSE /\ uliPid = 0
    /\ mutex = [w \in Workers |-> Nobody]
    /\ backlog = [s \in Sockets |-> 0]
    /\ arrived = [s \in Sockets |-> 0]
    /\ dropped = 0
    /\ mpc = "wait" /\ died = 1 /\ diedPid = 0

-----------------------------------------------------------------------------
\* simple_loop_run(): another round, or the end of the loop.
LoopTop(t) ==
    /\ pc[t] = "loop"
    /\ pc' = [pc EXCEPT ![t] = IF manage[t[1]] THEN "lock" ELSE "done"]
    /\ UNCHANGED <<lockVars, procVars, connVars, masterVars, setup>>

\* Mutant: a busy lock is taken all the same.
ThunderFreeIgnored(t) == TRUE

\* The mutex half of upsgi_lock(the_thunder_lock).  A robust mutex whose
\* owner died is made consistent and taken over.  A POSIX record lock belongs
\* to the process, so it never blocks a sibling thread of its holder.
ThunderFree(t) ==
    \/ owner = Nobody
    \/ setup.engine = "robust" /\ ownerDied
    \/ setup.engine = "fdlock" /\ owner[1] = t[1]

AcquireThunder(t) ==
    /\ pc[t] = "lock" /\ LockMode(t[1]) = "thunder"
    /\ ThunderFree(t)
    /\ owner' = t /\ ownerDied' = FALSE
    /\ pc' = [pc EXCEPT ![t] = "got"]
    /\ UNCHANGED <<uliPid, mutex, procVars, connVars, masterVars, setup>>

\* The other half: uli->pid = upsgi.mypid (ipcsem keeps no pid).
RecordPid(t) ==
    /\ pc[t] = "got"
    /\ uliPid' = IF setup.engine = "ipcsem" THEN uliPid ELSE pid[t[1]]
    /\ pc' = [pc EXCEPT ![t] = "held"]
    /\ UNCHANGED <<owner, ownerDied, mutex, procVars, connVars, masterVars, setup>>

\* pthread_mutex_lock(&upsgi.thunder_mutex), private to the process.
AcquireThread(t) ==
    /\ pc[t] = "lock" /\ LockMode(t[1]) = "thread"
    /\ mutex[t[1]] = Nobody
    /\ mutex' = [mutex EXCEPT ![t[1]] = t]
    /\ pc' = [pc EXCEPT ![t] = "held"]
    /\ UNCHANGED <<owner, ownerDied, uliPid, procVars, connVars, masterVars, setup>>

AcquireNone(t) ==
    /\ pc[t] = "lock" /\ LockMode(t[1]) = "none"
    /\ pc' = [pc EXCEPT ![t] = "held"]
    /\ UNCHANGED <<lockVars, procVars, connVars, masterVars, setup>>

\* Mutant: the recheck is the wrong way round.
RecheckInverted(t) ==
    /\ pc[t] = "held"
    /\ pc' = [pc EXCEPT ![t] = IF manage[t[1]] THEN "release" ELSE "poll"]
    /\ UNCHANGED <<lockVars, procVars, connVars, masterVars, setup>>

\* wsgi_req_accept() looks at manage_next_request again under the lock.
Recheck(t) ==
    /\ pc[t] = "held"
    /\ pc' = [pc EXCEPT ![t] = IF manage[t[1]] THEN "poll" ELSE "release"]
    /\ UNCHANGED <<lockVars, procVars, connVars, masterVars, setup>>

-----------------------------------------------------------------------------
\* event_queue_wait() returns a listening socket.
PollSocket(t) ==
    /\ pc[t] = "poll"
    /\ backlog[SocketOf(t[1])] > 0
    /\ pc' = [pc EXCEPT ![t] = "accept"]
    /\ UNCHANGED <<lockVars, procVars, connVars, masterVars, setup>>

\* event_queue_wait() returns the stop pipe, closed by gracefully_kill() or
\* simple_goodbye_cruel_world() in threaded workers only.
PollStopPipe(t) ==
    /\ pc[t] = "poll"
    /\ Threaded /\ ~manage[t[1]]
    /\ pc' = [pc EXCEPT ![t] = "release"]
    /\ UNCHANGED <<lockVars, procVars, connVars, masterVars, setup>>

\* An interrupted wait, a heartbeat timeout or a upsgi signal.
PollOther(t) ==
    /\ pc[t] = "poll"
    /\ pc' = [pc EXCEPT ![t] = "release"]
    /\ UNCHANGED <<lockVars, procVars, connVars, masterVars, setup>>

\* proto_accept(): fails when another worker emptied the queue first.
ProtoAccept(t) ==
    LET s == SocketOf(t[1]) IN
    /\ pc[t] = "accept"
    /\ fd' = [fd EXCEPT ![t] = backlog[s] > 0]
    /\ backlog' = [backlog EXCEPT ![s] = IF @ > 0 THEN @ - 1 ELSE 0]
    /\ pc' = [pc EXCEPT ![t] = "release"]
    /\ UNCHANGED <<arrived, dropped, lockVars, procVars, masterVars, setup>>

\* Mutant: a stopping worker forgets the connection it has just accepted.
AfterReleaseForgets(t) == IF fd[t] /\ manage[t[1]] THEN "recv" ELSE "loop"

AfterRelease(t) == IF fd[t] THEN "recv" ELSE "loop"

\* The mutex half of upsgi_unlock(the_thunder_lock).  Releasing a record lock
\* the process no longer holds is a no-op.
ReleaseThunder(t) ==
    /\ pc[t] = "release" /\ LockMode(t[1]) = "thunder"
    /\ owner' = IF setup.engine = "fdlock" /\ owner[1] # t[1] THEN owner ELSE Nobody
    /\ pc' = [pc EXCEPT ![t] = "clear"]
    /\ UNCHANGED <<ownerDied, uliPid, mutex, procVars, connVars, masterVars, setup>>

\* Mutant: -1 marks a lock without holder.
ClearPidSentinel(t) ==
    /\ pc[t] = "clear"
    /\ uliPid' = -1
    /\ pc' = [pc EXCEPT ![t] = AfterRelease(t)]
    /\ UNCHANGED <<owner, ownerDied, mutex, procVars, connVars, masterVars, setup>>

\* The other half: uli->pid = 0, after the lock is already free.
ClearPid(t) ==
    /\ pc[t] = "clear"
    /\ uliPid' = 0
    /\ pc' = [pc EXCEPT ![t] = AfterRelease(t)]
    /\ UNCHANGED <<owner, ownerDied, mutex, procVars, connVars, masterVars, setup>>

ReleaseOther(t) ==
    /\ pc[t] = "release" /\ LockMode(t[1]) # "thunder"
    /\ mutex' = [mutex EXCEPT ![t[1]] = Nobody]
    /\ pc' = [pc EXCEPT ![t] = AfterRelease(t)]
    /\ UNCHANGED <<owner, ownerDied, uliPid, procVars, connVars, masterVars, setup>>

-----------------------------------------------------------------------------
\* wsgi_req_recv() sets cores[i].in_request: until then the worker looks idle.
Recv(t) ==
    /\ pc[t] = "recv"
    /\ pc' = [pc EXCEPT ![t] = "serve"]
    /\ UNCHANGED <<lockVars, procVars, connVars, masterVars, setup>>

InRequest(t) == pc[t] = "serve"

\* upsgi_close_request(), also after a failed wsgi_req_recv(); the request may
\* be the last one of this process (max-requests and the other limits call
\* goodbye_cruel_world()).
CloseRequest(t) ==
    /\ pc[t] = "serve"
    /\ fd' = [fd EXCEPT ![t] = FALSE]
    /\ pc' = [pc EXCEPT ![t] = "loop"]
    /\ \/ UNCHANGED <<manage, ends>>
       \/ /\ ends < setup.maxEnds /\ ends' = ends + 1
          /\ manage' = [manage EXCEPT ![t[1]] = FALSE]
    /\ UNCHANGED <<pid, zombie, lastPid, backlog, arrived, dropped,
                   lockVars, masterVars, setup>>

\* Mutant: no robust attribute, no SEM_UNDO.
ProcessGoneKeepsLock(w) ==
    /\ pc' = [t \in Thread |-> IF t[1] = w THEN "dead" ELSE pc[t]]
    /\ fd' = [t \in Thread |-> fd[t] /\ t[1] # w]
    /\ zombie' = zombie \cup {w}
    /\ mutex' = [mutex EXCEPT ![w] = Nobody]
    /\ UNCHANGED <<pid, lastPid, owner, ownerDied, uliPid, backlog, arrived,
                   masterVars, setup>>

\* A process is gone.  The kernel marks a robust mutex, drops a record lock
\* and undoes a semaphore; a plain mutex stays locked.
ProcessGone(w) ==
    /\ pc' = [t \in Thread |-> IF t[1] = w THEN "dead" ELSE pc[t]]
    /\ fd' = [t \in Thread |-> fd[t] /\ t[1] # w]
    /\ zombie' = zombie \cup {w}
    /\ mutex' = [mutex EXCEPT ![w] = Nobody]
    /\ ownerDied' = (ownerDied \/ (setup.engine = "robust" /\ owner[1] = w))
    /\ owner' = IF owner[1] = w /\ setup.engine \in {"fdlock", "ipcsem"}
                THEN Nobody ELSE owner
    /\ UNCHANGED <<pid, lastPid, uliPid, backlog, arrived, masterVars, setup>>

\* The end of the worker: every thread left the loop and was joined (without
\* --no-threads-wait).
Exit(w) ==
    /\ Alive(w) /\ \A c \in Cores : pc[<<w, c>>] = "done"
    /\ ProcessGone(w)
    /\ dropped' = IF \E c \in Cores : fd[<<w, c>>] THEN dropped + 1 ELSE dropped
    /\ UNCHANGED <<manage, ends>>

\* SIGKILL (mercy, harakiri, OOM) or a fault.
Crash(w) ==
    /\ Alive(w) /\ ends < setup.maxEnds
    /\ ends' = ends + 1
    /\ ProcessGone(w)
    /\ UNCHANGED <<manage, dropped>>

\* gracefully_kill(), the SIGHUP handler, in a threaded worker: close the
\* stop pipe and let the threads leave the loop.
GracefullyKillThreaded(w) ==
    /\ Alive(w) /\ ends < setup.maxEnds /\ Threaded
    /\ ends' = ends + 1
    /\ manage' = [manage EXCEPT ![w] = FALSE]
    /\ UNCHANGED <<pc, pid, zombie, lastPid, lockVars, connVars, masterVars, setup>>

\* gracefully_kill() in a single-threaded worker: exit at once, unless a
\* request is being managed.
GracefullyKillSingle(w) ==
    /\ Alive(w) /\ ends < setup.maxEnds /\ ~Threaded
    /\ ends' = ends + 1
    /\ manage' = [manage EXCEPT ![w] = FALSE]
    /\ \/ /\ InRequest(<<w, 0>>)
          /\ UNCHANGED <<pc, pid, zombie, lastPid, lockVars, connVars,
                         masterVars, setup>>
       \/ /\ ~InRequest(<<w, 0>>)
          /\ ProcessGone(w)
          /\ dropped' = IF fd[<<w, 0>>] THEN dropped + 1 ELSE dropped

-----------------------------------------------------------------------------
\* master_loop(): waitpid() returns a worker; upsgi_deadlock_check() looks
\* only at locks that can deadlock.
Waitpid(w) ==
    /\ mpc = "wait" /\ w \in zombie
    /\ died' = w /\ diedPid' = pid[w]
    /\ zombie' = zombie \ {w}
    /\ pid' = [pid EXCEPT ![w] = 0]
    /\ mpc' = IF setup.engine = "plain" THEN "trylock" ELSE "respawn"
    /\ UNCHANGED <<pc, manage, lastPid, ends, lockVars, connVars, setup>>

\* upsgi_lock_fast_check(): trylock and unlock again when it is free.
DeadlockTrylock ==
    /\ mpc = "trylock"
    /\ mpc' = IF owner = Nobody THEN "respawn" ELSE "readpid"
    /\ UNCHANGED <<pc, died, diedPid, lockVars, procVars, connVars, setup>>

\* The lock is busy: is uli->pid the pid that died?
DeadlockReadPid ==
    /\ mpc = "readpid"
    /\ mpc' = IF uliPid = diedPid THEN "unlock" ELSE "respawn"
    /\ UNCHANGED <<pc, died, diedPid, lockVars, procVars, connVars, setup>>

\* upsgi_unlock() on behalf of the dead process, in its two halves.
DeadlockUnlock ==
    /\ mpc = "unlock"
    /\ owner' = Nobody
    /\ mpc' = "clear"
    /\ UNCHANGED <<pc, died, diedPid, ownerDied, uliPid, mutex, procVars,
                   connVars, setup>>

DeadlockClear ==
    /\ mpc = "clear"
    /\ uliPid' = 0
    /\ mpc' = "respawn"
    /\ UNCHANGED <<pc, died, diedPid, owner, ownerDied, mutex, procVars,
                   connVars, setup>>

\* upsgi_respawn_worker(): a new process in the slot of the dead one.
Respawn ==
    /\ mpc = "respawn"
    /\ lastPid' = lastPid + 1
    /\ pid' = [pid EXCEPT ![died] = lastPid + 1]
    /\ manage' = [manage EXCEPT ![died] = TRUE]
    /\ pc' = [t \in Thread |-> IF t \in Running /\ t[1] = died THEN "loop" ELSE pc[t]]
    /\ mpc' = "wait"
    /\ UNCHANGED <<died, diedPid, zombie, ends, lockVars, connVars, setup>>

\* A client connects.
Arrive(s) ==
    /\ arrived[s] < MaxConn /\ s \in {SocketOf(w) : w \in Workers}
    /\ arrived' = [arrived EXCEPT ![s] = @ + 1]
    /\ backlog' = [backlog EXCEPT ![s] = @ + 1]
    /\ UNCHANGED <<pc, fd, dropped, lockVars, procVars, masterVars, setup>>

-----------------------------------------------------------------------------
\* The steps of a running thread that nothing outside it can delay for ever.
ThreadStep(t) ==
    \/ LoopTop(t) \/ AcquireThunder(t) \/ RecordPid(t) \/ AcquireThread(t)
    \/ AcquireNone(t) \/ Recheck(t) \/ PollSocket(t) \/ PollStopPipe(t)
    \/ ProtoAccept(t) \/ ReleaseThunder(t) \/ ClearPid(t) \/ ReleaseOther(t)
    \/ Recv(t) \/ CloseRequest(t)

MasterStep ==
    \/ \E w \in Workers : Waitpid(w)
    \/ DeadlockTrylock \/ DeadlockReadPid \/ DeadlockUnlock \/ DeadlockClear
    \/ Respawn

Next ==
    \/ \E t \in Thread : ThreadStep(t) \/ PollOther(t)
    \/ \E w \in Workers : Exit(w) \/ Crash(w) \/ GracefullyKillThreaded(w)
                          \/ GracefullyKillSingle(w)
    \/ MasterStep
    \/ \E s \in Sockets : Arrive(s)

Spec == Init /\ [][Next]_vars

\* Every thread and the master keep running (the kernel schedules them), a
\* request ends (the application returns), and a ready socket is reported
\* even when other events keep arriving: epoll rotates its ready list.
Fairness ==
    /\ \A t \in Thread : WF_vars(ThreadStep(t)) /\ SF_vars(PollSocket(t))
    /\ \A w \in Workers : WF_vars(Exit(w))
    /\ WF_vars(MasterStep)

FairSpec == Spec /\ Fairness

-----------------------------------------------------------------------------
\* Threads, lock item, processes and sockets keep their types; in particular
\* the pid of a lock is a pid or 0.
TypeOK ==
    /\ setup \in Setups
    /\ pc \in [Thread -> Steps]
    /\ fd \in [Thread -> BOOLEAN]
    /\ manage \in [Workers -> BOOLEAN]
    /\ pid \in [Workers -> Nat]
    /\ zombie \subseteq Workers
    /\ lastPid \in Nat /\ ends \in Nat
    /\ owner \in Thread \cup {Nobody}
    /\ ownerDied \in BOOLEAN
    /\ uliPid \in Nat
    /\ mutex \in [Workers -> Thread \cup {Nobody}]
    /\ backlog \in [Sockets -> Nat] /\ arrived \in [Sockets -> Nat]
    /\ dropped \in Nat
    /\ mpc \in {"wait", "trylock", "readpid", "unlock", "clear", "respawn"}
    /\ died \in Workers /\ diedPid \in Nat

\* The engines under which the lock is sound: record locks only when a
\* worker has a single thread; plain mutexes never, because the deadlock
\* detector may open them under a live holder.
SoundEngine ==
    \/ setup.engine \in {"robust", "ipcsem"}
    \/ setup.engine = "fdlock" /\ setup.threads = 1

\* Under a sound engine threads that share listeners are serialized: of all the threads that take
\* the thunder lock at most one, in any process, is between its acquisition
\* and its release (wait, accept and all), whatever dies in between.
ThunderSerialized ==
    SoundEngine =>
        \A t, u \in Thread :
            /\ pc[t] \in Inside /\ LockMode(t[1]) = "thunder"
            /\ pc[u] \in Inside /\ LockMode(u[1]) = "thunder"
            => t = u

\* Two threads of one worker never wait on its sockets together, also when
\* the thunder lock is bypassed and only thunder_mutex is left.
CoresSerialized ==
    \A t, u \in Thread :
        SoundEngine /\ pc[t] \in Inside /\ pc[u] \in Inside /\ t[1] = u[1] => t = u

\* A dead process cannot keep a sound thunder lock: once no live thread is inside
\* or on its way out, the next thread that asks gets it.
NeverOrphaned ==
    SoundEngine /\ (\A t \in Thread : pc[t] \notin Inside)
        => \A t \in Thread : ThunderFree(t)

\* A threaded worker that stops gracefully serves what it accepted: no thread
\* reaches the end of the process with a connection in its hands.
GracefulExitDropsNothing == Threaded => dropped = 0

\* Every connection that reaches a listener is taken out of its queue, even
\* when the worker that held a sound accept lock was killed.
EveryConnectionAccepted ==
    <>[](SoundEngine => \A s \in Sockets : backlog[s] = 0)

\* The deadlock detector of the master opens a lock only when the process
\* that died was holding it: no live thread is inside at that moment.
DetectorSparesTheLiving ==
    [][DeadlockUnlock =>
         \A t \in Thread : LockMode(t[1]) = "thunder" => pc[t] \notin Inside]_vars

\* The detector does not miss a lock that carries the pid of the process that
\* died: before its slot is used again such a lock is open.
DetectorRecovers ==
    mpc = "respawn" /\ owner # Nobody /\ owner[1] = died
        => uliPid # diedPid \/ setup.engine # "plain"

\* The threads of a worker wait one at a time, a worker that stops gracefully
\* answers what it accepted, and the detector opens the lock of a dead owner.
AcceptSound == CoresSerialized /\ GracefulExitDropsNothing /\ DetectorRecovers
=============================================================================
