----------------------------- MODULE Lifecycle -----------------------------
(***************************************************************************)
(* The life of a server process around its pool: start-up (Server::Server, *)
(* serve up to its loop: signals blocked, socket bound, root given up), the *)
(* iterations of the loop with their scheduler thread, pool and queue,     *)
(* the signals that end an iteration, ~Server, and starting the program    *)
(* again after an orderly end, a failed start or a crash.  What the        *)
(* scheduler and the workers do in an iteration is in modules Scheduler,   *)
(* Worker and Server.                                                      *)
(***************************************************************************)
EXTENDS ThreadPool

CONSTANTS
    Domains,    \* of {"inet", "local"}: AF_INET and AF_INET6, AF_LOCAL
    Kinds,      \* signals that are sent, of {"halt", "flush", "yank"}
    MaxSignals, \* how many of them
    MaxStarts   \* how often the program is started

ASSUME BoundsAssumption == MaxSignals \in Nat /\ MaxStarts \in Nat \ {0}

VARIABLES
    main,       \* where the main thread is, see Stages
    sched,      \* the scheduler thread: "none", "poll" or "done"
    objects,    \* jobq, findwork, sch and the cache exist
    dowork,     \* Scheduler::dowork; FALSE also stands for the pill in jobq
    doserve,    \* Server::_doserve
    sigs,       \* signals pending for the process
    cwd,        \* the current directory: "start" (where it was started) or "mount"
    euid,       \* "root" or "untrusted"
    domain,     \* the domain of the listening socket
    safe,       \* directory -> it is not owned or writable by the untrusted user
    sockfile,   \* bindto exists in the directory "start"
    signals, starts     \* how many signals and processes are still to come

procvars == <<main, sched, objects, dowork, doserve, sigs, cwd, euid>>
world == <<domain, safe, sockfile, signals, starts>>
vars == <<poolvars, procvars, world>>

Dirs == {"start", "mount"}
Stages == {"off", "made", "blocked", "listening", "loop", "pool", "start", "creating",
           "waiting", "delete"}

TypeOK ==
    /\ PoolTypeOK
    /\ main \in Stages
    /\ sched \in {"none", "poll", "done"}
    /\ {objects, dowork, doserve, sockfile} \subseteq BOOLEAN
    /\ sigs \subseteq Kinds
    /\ cwd \in Dirs /\ euid \in {"root", "untrusted"} /\ domain \in Domains
    /\ safe \in [Dirs -> BOOLEAN]
    /\ signals \in 0..MaxSignals /\ starts \in 0..MaxStarts

Init ==
    /\ PoolInit
    /\ main = "off" /\ sched = "none" /\ objects = FALSE /\ dowork = FALSE /\ doserve = TRUE
    /\ sigs = {} /\ cwd = "start" /\ euid = "root"
    /\ domain \in Domains /\ safe \in [Dirs -> BOOLEAN] /\ sockfile = FALSE
    /\ signals = MaxSignals /\ starts = MaxStarts

----------------------------------------------------------------------------
(* The end of a process.  Nothing survives it but the file system. *)

Gone ==
    /\ at' = [t \in Threads |-> "none"]
    /\ listed' = {} /\ owner' = "nobody" /\ killed' = {} /\ wait' = "out"
    /\ main' = "off" /\ sched' = "none" /\ objects' = FALSE /\ dowork' = FALSE
    /\ sigs' = {}
    /\ UNCHANGED <<doserve, cwd, euid>>

\* exit(1), abort or SIGKILL, at any moment: ~Server does not run.
Crash ==
    /\ main # "off"
    /\ Gone
    /\ UNCHANGED world

\* ~Server: chdir(sockdir) and unlink(bindto), as the untrusted user, who may not be
\* able to; then main returns.
Destroy ==
    /\ main = "loop" /\ ~ doserve
    /\ Gone
    /\ sockfile' = (sockfile /\ safe["start"])
    /\ UNCHANGED <<domain, safe, signals, starts>>

----------------------------------------------------------------------------
(* Start-up.  Every system call may fail, which is Crash; where it must, it is Refuse. *)

\* main, Server::Server
Construct ==
    /\ main = "off" /\ starts > 0
    /\ starts' = starts - 1
    /\ main' = "made" /\ doserve' = TRUE /\ euid' = "root"
    /\ cwd' = IF domain = "local" THEN "start" ELSE "mount"
    /\ UNCHANGED <<poolvars, sched, objects, dowork, sigs, domain, safe, sockfile, signals>>

\* sigmask_caller(BLOCK_ALL)
BlockSignals ==
    /\ main = "made" /\ main' = "blocked"
    /\ UNCHANGED <<poolvars, sched, objects, dowork, doserve, sigs, cwd, euid, world>>

DirAfterBind_Forgotten == cwd

DirAfterBind == "mount"

\* socket_bind_listen: for AF_LOCAL, bind fails if the path exists, and the server
\* goes to its mount point only afterwards.
BindListen ==
    /\ main = "blocked" /\ ~ (domain = "local" /\ sockfile)
    /\ main' = "listening"
    /\ sockfile' = (sockfile \/ domain = "local")
    /\ cwd' = DirAfterBind
    /\ UNCHANGED <<poolvars, sched, objects, dowork, doserve, sigs, euid, domain, safe,
                   signals, starts>>

\* setup_AF_LOCAL: chdir(mntdir) fails, or listen does, when the file is there.
BindOnly ==
    /\ main = "blocked" /\ domain = "local" /\ ~ sockfile
    /\ Gone
    /\ sockfile' = TRUE
    /\ UNCHANGED <<domain, safe, signals, starts>>

\* root_giveup, with its checks of the current directory
GiveUpRoot ==
    /\ main = "listening" /\ safe[cwd]
    /\ main' = "loop" /\ euid' = "untrusted"
    /\ UNCHANGED <<poolvars, sched, objects, dowork, doserve, sigs, cwd, world>>

\* exit(1): the path of the socket exists, or root_giveup finds that the untrusted
\* user could write to the current directory.
Refuse ==
    /\ \/ main = "blocked" /\ domain = "local" /\ sockfile
       \/ main = "listening" /\ ~ safe[cwd]
    /\ Gone
    /\ UNCHANGED world

----------------------------------------------------------------------------
(* One iteration of the loop in serve *)

\* while (_doserve): the queue, findwork, the scheduler, the cache, the handlers and
\* the pool.
NewIteration ==
    /\ main = "loop" /\ doserve
    /\ main' = "pool" /\ objects' = TRUE /\ dowork' = TRUE
    /\ NewPool
    /\ UNCHANGED <<sched, doserve, sigs, cwd, euid, world>>

\* schedth.start()
StartScheduler ==
    /\ main = "pool" /\ main' = "start" /\ sched' = "poll"
    /\ UNCHANGED <<poolvars, objects, dowork, doserve, sigs, cwd, euid, world>>

\* wths.start()
StartPool ==
    /\ \/ main = "start" /\ StartLock /\ main' = "creating"
       \/ main = "creating" /\ (\E t \in listed : Create(t)) /\ UNCHANGED main
       \/ main = "creating" /\ StartUnlock /\ main' = "waiting"
    /\ UNCHANGED <<sched, objects, dowork, doserve, sigs, cwd, euid, world>>

\* ~ThreadPool
WaitForPool ==
    /\ main = "waiting" /\ TestEmpty
    /\ UNCHANGED <<procvars, world>>

\* ~Thread: pthread_join
JoinScheduler ==
    /\ main = "waiting" /\ wait = "over" /\ sched = "done"
    /\ main' = "delete" /\ sched' = "none"
    /\ UNCHANGED <<poolvars, objects, dowork, doserve, sigs, cwd, euid, world>>

\* delete findwork, sch and jobq; onshutdown
DeleteAll ==
    /\ main = "delete"
    /\ main' = "loop" /\ objects' = FALSE
    /\ UNCHANGED <<poolvars, sched, dowork, doserve, sigs, cwd, euid, world>>

----------------------------------------------------------------------------
(* Signals *)

\* A signal is sent.  Before they are blocked, the default action of a halt or yank
\* signal ends the process, and that of SIGCONT does nothing.
Send(s) ==
    /\ main # "off" /\ signals > 0 /\ s \notin sigs
    /\ signals' = signals - 1
    /\ IF main = "made"
       THEN IF s = "flush" THEN UNCHANGED <<poolvars, procvars>> ELSE Gone
       ELSE /\ sigs' = sigs \cup {s}
            /\ UNCHANGED <<poolvars, main, sched, objects, dowork, doserve, cwd, euid>>
    /\ UNCHANGED <<domain, safe, sockfile, starts>>

ServeAfter_Forgotten(s) == doserve

\* _doserve, after the handler of signal s
ServeAfter(s) == doserve /\ s # "halt"

\* The scheduler's _sigcb takes all pending signals, and obeys the first one only:
\* Server::halt, CachingServer::flush or UNSAFE_emerg_yank_wrapper, each of which
\* ends in Scheduler::halt.
TakeSignal(s) ==
    /\ sched = "poll" /\ s \in sigs
    /\ sigs' = {}
    /\ doserve' = ServeAfter(s)
    /\ IF s = "yank" THEN Yank ELSE UNCHANGED poolvars
    /\ dowork' = FALSE /\ sched' = "done"
    /\ UNCHANGED <<main, objects, cwd, euid, world>>

\* pthread_kill with the identifier of a thread that has not been started
YankCrashes ==
    /\ sched = "poll" /\ "yank" \in sigs /\ owner = "nobody" /\ ~ AllCreated
    /\ Gone
    /\ UNCHANGED world

\* The handler of a late yank uses a pool that has been destroyed.
LateCrashes(t) ==
    /\ t \in killed /\ at[t] = "leaving" /\ wait = "over"
    /\ Gone
    /\ UNCHANGED world

----------------------------------------------------------------------------
MainThread ==
    \/ Construct \/ BlockSignals \/ BindListen \/ BindOnly \/ GiveUpRoot \/ Refuse
    \/ NewIteration \/ StartScheduler \/ StartPool \/ WaitForPool \/ JoinScheduler
    \/ DeleteAll \/ Destroy

\* A worker's todo returns when it has dequeued the pill of Scheduler::halt.
WorkerThread(t) ==
    /\ PoolThread(t) \/ InTodo(t) \/ (~ dowork /\ Finish(t))
    /\ UNCHANGED <<procvars, world>>

SchedulerThread == (\E s \in Kinds : TakeSignal(s)) \/ YankCrashes

Next ==
    \/ MainThread \/ SchedulerThread
    \/ \E t \in Threads : WorkerThread(t) \/ LateCrashes(t)
    \/ \E s \in Kinds : Send(s)
    \/ Crash

Spec == Init /\ [][Next]_vars

\* The operating system runs the main thread, the scheduler's thread, which polls for
\* signals as long as it lives, and each thread of the pool; a working
\* thread comes out of malloc and, once the pill is there, to the end of its work,
\* unless it deadlocks.  Nobody need send a signal or start the program.
Fairness ==
    /\ WF_vars(MainThread /\ main # "off")
    /\ WF_vars(SchedulerThread)
    /\ \A t \in Threads :
          /\ WF_vars(PoolThread(t) /\ UNCHANGED <<procvars, world>>)
          /\ SF_vars(~ dowork /\ Finish(t) /\ UNCHANGED <<procvars, world>>)
          /\ WF_vars(Move(t, "heap", "work") /\ WorkerThread(t))

FairSpec == Spec /\ Fairness

----------------------------------------------------------------------------
(* Properties *)

\* "This locking is needed because when the threads finish, they try to remove
\* themselves from this very same list" (ThreadPool::start): a thread that goes
\* through the list, in operator() or in the yank's handler, finds itself in it, and
\* compares itself with no identifier that pthread_create has not written yet.
FinderIsListed ==
    \A t \in Threads : at[t] \in {"erase", "yanked"} => t \in listed /\ AllCreated

\* What a thread uses outlives it: as long as a thread of the pool has not removed
\* itself from the list, the main thread is in the pool's scope, and as long as it or
\* the scheduler thread runs, the queue, the scheduler and the cache exist.
ObjectsOutliveThreads ==
    /\ \A t \in Threads :
          at[t] \notin {"none", "leaving"} =>
              t \in listed /\ objects /\ main \in {"creating", "waiting"} /\ wait # "over"
    /\ sched # "none" => objects

\* Requests are served only by a process that has given up root, in the directory it
\* was told to serve, and only if the untrusted user cannot write there: the checks
\* of root_giveup are about the current directory, which for AF_LOCAL changes twice.
ServesSafely ==
    \A t \in Threads : at[t] = "work" => euid = "untrusted" /\ cwd = "mount" /\ safe["mount"]

\* A deadlocked worker that no yank was sent to, or a thread that a yank caught with
\* the pool's mutex or the heap's lock in its hands.
Hung == \E t \in listed : (at[t] = "stuck" /\ t \notin killed) \/ at[t] = "jam"

\* An iteration whose scheduler has halted comes to its end: all threads leave the
\* pool, the main thread hears of it, and the server starts over or ends, unless
\* one of its threads is hung.
IterationEnds ==
    (sched = "done") ~>
        main \in {"delete", "off"} \/ Hung

\* "Causes the server to end after the next iteration of serve()" (Server::halt): a
\* halt signal that is sent once signals are blocked ends the server, whether it comes
\* before there is a scheduler to take it, while the pool is being started, or between
\* two iterations.  Excepted are one that another signal is taken instead of, and
\* the threads that IterationEnds excepts.
HaltEndsServer ==
    (sigs = {"halt"}) ~>
        main = "off" \/ (doserve /\ sigs \ {"halt"} # {}) \/ Hung
============================================================================
