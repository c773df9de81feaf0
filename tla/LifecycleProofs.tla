-------------------------- MODULE LifecycleProofs --------------------------
(***************************************************************************)
(* Proofs about Lifecycle, for any number of workers, threads, signals and *)
(* starts of the program.                                                  *)
(***************************************************************************)
EXTENDS Lifecycle, FiniteSetTheorems, TLAPS

\* The main thread is between the constructors and the destructors of an iteration.
InIteration == {"pool", "start", "creating", "waiting", "delete"}

\* What the main thread's stage says about the process.
MainOK ==
    /\ objects <=> main \in InIteration
    /\ sched # "none" => main \in {"start", "creating", "waiting"}
    /\ main = "listening" => cwd = "mount"
    /\ main \in InIteration \cup {"loop"} =>
          euid = "untrusted" /\ cwd = "mount" /\ safe["mount"]

\* The list of threads, while the main thread is in the pool's scope and outside.
PoolOK ==
    /\ main \notin {"pool", "start", "creating", "waiting"} => listed = {}
    /\ wait = "over" => listed = {}
    /\ \A t \in Threads :
          at[t] \notin {"none", "leaving"} => t \in listed /\ main \in {"creating", "waiting"}
    /\ \A t \in listed : at[t] # "leaving"
    /\ main = "waiting" => AllCreated

\* The mutex is the main thread's while it creates threads, and a thread's while
\* that is in the list.
MutexOK ==
    /\ main = "creating" => owner = "main"
    /\ \A t \in Threads : at[t] \in {"erase", "yanked"} => owner = t

\* The inductive invariant.  FinderIsListed is not inductive: that a thread in the
\* list's critical section meets no uncreated thread takes the mutex (MutexOK) and
\* what is left behind when the main thread unlocks it (PoolOK).
Inv ==
    /\ TypeOK
    /\ MainOK
    /\ PoolOK
    /\ MutexOK

LEMMA InitInv == Init => Inv
<1> SUFFICES ASSUME Init PROVE Inv
  OBVIOUS
<1>1. PoolTypeOK
  BY NWorkersAssumption, FS_EmptySet DEF Init, PoolInit, PoolTypeOK, Places
<1>2. TypeOK
  <2>1. {objects, dowork, doserve, sockfile} \subseteq BOOLEAN
    BY DEF Init
  <2>2. safe \in [Dirs -> BOOLEAN]
    BY DEF Init
  <2>3. signals \in 0 .. MaxSignals /\ starts \in 0 .. MaxStarts
    BY BoundsAssumption DEF Init
  <2> QED
    BY <1>1, <2>1, <2>2, <2>3 DEF Init, TypeOK, Stages, Dirs
<1>3. MainOK /\ PoolOK /\ MutexOK
  BY DEF Init, PoolInit, MainOK, PoolOK, MutexOK, InIteration
<1> QED
  BY <1>2, <1>3 DEF Inv

\* The end of the process, however it comes.
LEMMA GoneInv ==
    ASSUME Inv, Gone, UNCHANGED <<domain, safe>>, sockfile' \in BOOLEAN,
           signals' \in 0 .. MaxSignals, starts' \in 0 .. MaxStarts
    PROVE  Inv'
<1>1. PoolTypeOK'
  BY NWorkersAssumption, FS_EmptySet DEF Gone, PoolTypeOK, Places
<1>2. TypeOK'
  BY <1>1 DEF Inv, Gone, TypeOK, Stages
<1>3. MainOK' /\ PoolOK' /\ MutexOK'
  BY DEF Gone, MainOK, PoolOK, MutexOK, InIteration
<1> QED
  BY <1>2, <1>3 DEF Inv

\* The steps that end the process.
LEMMA EndSteps ==
    ASSUME Inv, \/ Crash \/ Destroy \/ BindOnly \/ Refuse \/ YankCrashes
                \/ \E t \in Threads : LateCrashes(t)
    PROVE  Inv'
<1>0. signals \in 0 .. MaxSignals /\ starts \in 0 .. MaxStarts /\ sockfile \in BOOLEAN
  BY DEF Inv, TypeOK
<1>1. CASE Crash
  BY <1>0, <1>1, GoneInv DEF Crash, world
<1>2. CASE Destroy
  <2>1. sockfile' \in BOOLEAN
    BY <1>2 DEF Destroy
  <2> QED
    BY <1>0, <1>2, <2>1, GoneInv DEF Destroy
<1>3. CASE BindOnly
  BY <1>0, <1>3, GoneInv DEF BindOnly
<1>4. CASE YankCrashes
  BY <1>0, <1>4, GoneInv DEF YankCrashes, world
<1>5. ASSUME NEW t \in Threads, LateCrashes(t) PROVE Inv'
  BY <1>0, <1>5, GoneInv DEF LateCrashes, world
<1>6. CASE Refuse
  BY <1>0, <1>6, GoneInv DEF Refuse, world
<1> QED
  BY <1>1, <1>2, <1>3, <1>4, <1>5, <1>6

\* Start-up: no thread exists but the main thread.
LEMMA StartUpInv ==
    ASSUME Inv, Construct \/ BlockSignals \/ BindListen \/ GiveUpRoot
    PROVE  Inv'
<1>1. UNCHANGED poolvars /\ PoolTypeOK'
  BY DEF Construct, BlockSignals, BindListen, GiveUpRoot, Inv, TypeOK, poolvars, PoolTypeOK
<1>2. TypeOK'
  <2>1. CASE Construct
    BY <1>1, <2>1, BoundsAssumption DEF Inv, Construct, TypeOK, Stages, Dirs
  <2>2. CASE BlockSignals
    BY <1>1, <2>2 DEF Inv, BlockSignals, world, TypeOK, Stages, Dirs
  <2>3. CASE BindListen
    BY <1>1, <2>3 DEF Inv, BindListen, DirAfterBind, TypeOK, Stages, Dirs
  <2>4. CASE GiveUpRoot
    BY <1>1, <2>4 DEF Inv, GiveUpRoot, world, TypeOK, Stages, Dirs
  <2> QED
    BY <2>1, <2>2, <2>3, <2>4
<1>3. MainOK'
  BY DEF Construct, BlockSignals, BindListen, GiveUpRoot, DirAfterBind, world,
         Inv, TypeOK, Dirs, MainOK, InIteration
<1>4. PoolOK' /\ MutexOK'
  BY <1>1 DEF Construct, BlockSignals, BindListen, GiveUpRoot, poolvars,
         Inv, PoolOK, MutexOK, AllCreated
<1> QED
  BY <1>2, <1>3, <1>4 DEF Inv

\* The main thread in an iteration, up to the creation of the threads.
LEMMA IterationInv ==
    ASSUME Inv, NewIteration \/ StartScheduler \/ JoinScheduler \/ DeleteAll
    PROVE  Inv'
<1>1. PoolTypeOK'
  <2>1. CASE NewIteration
    <3> PICK T \in SUBSET Threads : Cardinality(T) = NWorkers /\ listed' = T
      BY <2>1 DEF NewIteration, NewPool, PoolSize
    <3>1. Cardinality(listed') <= NWorkers
      BY NWorkersAssumption
    <3>2. wait' = "out" /\ UNCHANGED <<at, owner, killed>>
      BY <2>1 DEF NewIteration, NewPool
    <3> QED
      BY <3>1, <3>2 DEF Inv, TypeOK, PoolTypeOK
  <2>2. CASE UNCHANGED poolvars
    BY <2>2 DEF poolvars, Inv, TypeOK, PoolTypeOK
  <2> QED
    BY <2>1, <2>2 DEF StartScheduler, JoinScheduler, DeleteAll
<1>2. TypeOK'
  <2>1. CASE NewIteration
    BY <1>1, <2>1 DEF Inv, NewIteration, world, TypeOK, Stages
  <2>2. CASE StartScheduler
    BY <1>1, <2>2 DEF Inv, StartScheduler, world, TypeOK, Stages
  <2>3. CASE JoinScheduler
    BY <1>1, <2>3 DEF Inv, JoinScheduler, world, TypeOK, Stages
  <2>4. CASE DeleteAll
    BY <1>1, <2>4 DEF Inv, DeleteAll, world, TypeOK, Stages
  <2> QED
    BY <2>1, <2>2, <2>3, <2>4
<1>3. MainOK'
  BY DEF NewIteration, StartScheduler, JoinScheduler, DeleteAll, world, Inv, MainOK, InIteration
<1>4. PoolOK' /\ MutexOK'
  <2>1. CASE NewIteration
    BY <2>1 DEF NewIteration, NewPool, Inv, PoolOK, MutexOK, AllCreated
  <2>2. CASE UNCHANGED poolvars
    BY <2>2 DEF poolvars, StartScheduler, JoinScheduler, DeleteAll, NewIteration,
                Inv, PoolOK, MutexOK, AllCreated
  <2> QED
    BY <2>1, <2>2 DEF StartScheduler, JoinScheduler, DeleteAll
<1> QED
  BY <1>2, <1>3, <1>4 DEF Inv

\* wths.start() and the wait in ~ThreadPool.
LEMMA StartPoolInv ==
    ASSUME Inv, StartPool \/ WaitForPool
    PROVE  Inv'
<1>0. UNCHANGED <<sched, objects, dowork, doserve, sigs, cwd, euid, world>>
  BY DEF StartPool, WaitForPool, procvars
<1>1. CASE main = "start" /\ StartLock /\ main' = "creating"
  <2>1. owner' = "main" /\ owner = "nobody" /\ UNCHANGED <<at, listed, killed, wait>>
    BY <1>1 DEF StartLock, StartOwner
  <2>2. TypeOK'
    BY <1>0, <1>1, <2>1 DEF world, Inv, TypeOK, PoolTypeOK, Stages
  <2>3. MainOK'
    BY <1>0, <1>1 DEF world, Inv, MainOK, InIteration
  <2>4. PoolOK' /\ MutexOK'
    BY <1>1, <2>1 DEF Inv, PoolOK, MutexOK
  <2> QED
    BY <2>2, <2>3, <2>4 DEF Inv
<1>2. ASSUME NEW t \in listed, main = "creating", Create(t), UNCHANGED main
      PROVE  Inv'
  <2>1. /\ t \in Threads /\ at[t] = "none" /\ at' = [at EXCEPT ![t] = "begin"]
        /\ UNCHANGED <<listed, owner, killed, wait>>
    BY <1>2 DEF Create, Move, Inv, TypeOK, PoolTypeOK
  <2>2. TypeOK'
    BY <1>0, <1>2, <2>1 DEF world, Inv, TypeOK, PoolTypeOK, Places
  <2>3. MainOK'
    BY <1>0, <1>2 DEF world, Inv, MainOK, InIteration
  <2>4. PoolOK' /\ MutexOK'
    BY <1>2, <2>1 DEF Inv, TypeOK, PoolTypeOK, PoolOK, MutexOK
  <2> QED
    BY <2>2, <2>3, <2>4 DEF Inv
<1>3. CASE main = "creating" /\ StartUnlock /\ main' = "waiting"
  <2>1. AllCreated /\ owner' = "nobody" /\ wait' = "test" /\ UNCHANGED <<at, listed, killed>>
    BY <1>3 DEF StartUnlock
  <2>2. TypeOK'
    BY <1>0, <1>3, <2>1 DEF world, Inv, TypeOK, PoolTypeOK, Stages
  <2>3. MainOK'
    BY <1>0, <1>3 DEF world, Inv, MainOK, InIteration
  <2>4. PoolOK' /\ MutexOK'
    BY <1>3, <2>1, ThreadsAssumption DEF Inv, PoolOK, MutexOK, AllCreated
  <2> QED
    BY <2>2, <2>3, <2>4 DEF Inv
<1>4. CASE WaitForPool
  <2>1. /\ wait' \in {"over", "asleep"} /\ (wait' = "over" => listed = {})
        /\ UNCHANGED <<at, listed, owner, killed, main>>
    BY <1>4 DEF WaitForPool, TestEmpty, MayLeave, procvars
  <2>2. TypeOK'
    BY <1>0, <2>1 DEF world, Inv, TypeOK, PoolTypeOK
  <2>3. MainOK'
    BY <1>0, <2>1 DEF world, Inv, MainOK
  <2>4. PoolOK' /\ MutexOK'
    BY <2>1 DEF Inv, PoolOK, MutexOK, AllCreated
  <2> QED
    BY <2>2, <2>3, <2>4 DEF Inv
<1> QED
  BY <1>1, <1>2, <1>3, <1>4 DEF StartPool

\* Leaving the list keeps it within the pool's size.
LEMMA Shrinks ==
    ASSUME PoolTypeOK, NEW t
    PROVE  listed \ {t} \subseteq Threads /\ Cardinality(listed \ {t}) <= NWorkers
<1>1. IsFiniteSet(listed)
  BY NWorkersAssumption, FS_Subset DEF PoolTypeOK
<1>2. /\ IsFiniteSet(listed \ {t})
      /\ Cardinality(listed \ {t}) <= Cardinality(listed)
  BY <1>1, FS_Subset
<1>3. Cardinality(listed) \in Nat /\ Cardinality(listed \ {t}) \in Nat
  BY <1>1, <1>2, FS_CardinalityType
<1> QED
  BY <1>2, <1>3, NWorkersAssumption DEF PoolTypeOK

\* What a step of a pool's thread must respect, apart from the types.
LEMMA ThreadStep ==
    ASSUME Inv, PoolTypeOK', UNCHANGED <<procvars, world>>,
           listed' \subseteq listed,
           wait' = "over" => wait = "over",
           \A u \in Threads : at'[u] \notin {"none", "leaving"} =>
               u \in listed' /\ at[u] \notin {"none", "leaving"},
           \A u \in listed' : at'[u] # "leaving" /\ (at[u] # "none" => at'[u] # "none"),
           main = "creating" => owner' = owner,
           \A u \in Threads : at'[u] \in {"erase", "yanked"} => owner' = u
    PROVE  Inv'
<1>1. TypeOK' /\ MainOK'
  BY DEF procvars, world, Inv, TypeOK, MainOK
<1>2. PoolOK'
  BY DEF procvars, Inv, PoolOK, AllCreated
<1>3. MutexOK'
  BY DEF procvars, Inv, MutexOK
<1> QED
  BY <1>1, <1>2, <1>3 DEF Inv

\* The steps of a thread of the pool.
LEMMA WorkerInv ==
    ASSUME Inv, NEW t \in Threads, WorkerThread(t)
    PROVE  Inv'
<1> USE DEF Inv, TypeOK
<1>0. /\ UNCHANGED <<procvars, world>>
      /\ PoolTypeOK /\ PoolOK /\ MutexOK
  BY DEF WorkerThread
<1>1. CASE Begin(t)
  <2>1. /\ at[t] = "begin" /\ \E p \in {"handler", "work"} : at' = [at EXCEPT ![t] = p]
        /\ killed' = killed \ {t} /\ UNCHANGED <<listed, owner, wait>>
    BY <1>1 DEF Begin, Move
  <2>2. PoolTypeOK'
    BY <1>0, <2>1 DEF PoolTypeOK, Places
  <2> QED
    BY <1>0, <2>1, <2>2, ThreadStep DEF PoolTypeOK, PoolOK, MutexOK
<1>2. CASE InTodo(t) \/ Finish(t)
  <2>1. /\ at[t] \in {"work", "heap"}
        /\ \E p \in {"heap", "work", "stuck", "ends"} : at' = [at EXCEPT ![t] = p]
        /\ UNCHANGED <<listed, owner, killed, wait>>
    BY <1>2 DEF InTodo, Finish, Move
  <2>2. PoolTypeOK'
    BY <1>0, <2>1 DEF PoolTypeOK, Places
  <2> QED
    BY <1>0, <2>1, <2>2, ThreadStep DEF PoolTypeOK, PoolOK, MutexOK
<1>3. CASE Lock(t)
  <2>1. /\ at[t] \in {"ends", "handler"} /\ owner = "nobody" /\ owner' = t
        /\ \E p \in {"erase", "yanked"} : at' = [at EXCEPT ![t] = p]
        /\ UNCHANGED <<listed, killed, wait>>
    BY <1>3 DEF Lock, Move
  <2>2. PoolTypeOK'
    BY <1>0, <2>1 DEF PoolTypeOK, Places
  <2> QED
    BY <1>0, <2>1, <2>2, ThreadsAssumption, ThreadStep DEF PoolTypeOK, PoolOK, MutexOK
<1>4. CASE Erase(t)
  <2>1. /\ at[t] \in {"erase", "yanked"}
        /\ \E p \in {"leaving", "none"} : at' = [at EXCEPT ![t] = p]
        /\ listed' = listed \ {t} /\ wait' \in {"test", wait} /\ owner' = "nobody"
        /\ UNCHANGED killed
    BY <1>4 DEF Erase, Move, Signalled
  <2>2. PoolTypeOK'
    BY <1>0, <2>1, Shrinks DEF PoolTypeOK, Places
  <2>3. owner = t /\ main # "creating"
    BY <1>0, <2>1, ThreadsAssumption DEF MutexOK
  <2> QED
    BY <1>0, <2>1, <2>2, <2>3, ThreadStep DEF PoolTypeOK, PoolOK, MutexOK
<1>5. CASE Exit(t) \/ DeliverLate(t)
  <2>1. /\ at[t] = "leaving" /\ at' = [at EXCEPT ![t] = "none"]
        /\ killed' = killed \ {t} /\ UNCHANGED <<listed, owner, wait>>
    BY <1>5 DEF Exit, DeliverLate, Move
  <2>2. PoolTypeOK'
    BY <1>0, <2>1 DEF PoolTypeOK, Places
  <2> QED
    BY <1>0, <2>1, <2>2, ThreadStep DEF PoolTypeOK, PoolOK, MutexOK
<1>6. CASE Deliver(t)
  <2>1. /\ at[t] \in {"work", "stuck", "ends", "erase", "heap"}
        /\ \E p \in {"handler", "jam"} : at' = [at EXCEPT ![t] = p]
        /\ owner' = owner \/ (owner = "nobody" /\ owner' = t)
        /\ killed' = killed \ {t} /\ UNCHANGED <<listed, wait>>
    BY <1>6 DEF Deliver, Move
  <2>2. PoolTypeOK'
    BY <1>0, <2>1 DEF PoolTypeOK, Places
  <2> QED
    BY <1>0, <2>1, <2>2, ThreadsAssumption, ThreadStep DEF PoolTypeOK, PoolOK, MutexOK
<1> QED
  BY <1>1, <1>2, <1>3, <1>4, <1>5, <1>6 DEF WorkerThread, PoolThread

\* A signal is sent, and the scheduler's reaction to it.
LEMMA SignalInv ==
    ASSUME Inv, NEW s \in Kinds, Send(s) \/ TakeSignal(s)
    PROVE  Inv'
<1>0. signals \in 0 .. MaxSignals /\ starts \in 0 .. MaxStarts /\ sockfile \in BOOLEAN
  BY DEF Inv, TypeOK
<1>1. CASE Send(s)
  <2>1. signals' \in 0 .. MaxSignals /\ UNCHANGED <<domain, safe, sockfile, starts>>
    BY <1>0, <1>1, BoundsAssumption DEF Send
  <2>2. CASE Gone
    BY <1>0, <2>1, <2>2, GoneInv
  <2>3. CASE sigs' \subseteq sigs \cup {s}
             /\ UNCHANGED <<poolvars, main, sched, objects, dowork, doserve, cwd, euid>>
    <3>1. TypeOK'
      BY <2>1, <2>3 DEF Inv, poolvars, TypeOK, PoolTypeOK
    <3>2. MainOK' /\ PoolOK' /\ MutexOK'
      BY <2>1, <2>3 DEF Inv, poolvars, MainOK, PoolOK, MutexOK, AllCreated
    <3> QED
      BY <3>1, <3>2 DEF Inv
  <2> QED
    BY <1>1, <2>2, <2>3 DEF Send, procvars
<1>2. CASE TakeSignal(s)
  <2>1. /\ sched = "poll" /\ sched' = "done" /\ sigs' = {} /\ dowork' = FALSE
        /\ doserve' \in BOOLEAN /\ killed' \subseteq killed \cup listed
        /\ UNCHANGED <<at, listed, owner, wait, main, objects, cwd, euid, world>>
    BY <1>2 DEF TakeSignal, ServeAfter, Yank, poolvars
  <2>2. TypeOK'
    <3>1. PoolTypeOK'
      BY <2>1 DEF Inv, TypeOK, PoolTypeOK
    <3> QED
      BY <2>1, <3>1 DEF Inv, world, TypeOK
  <2>3. MainOK' /\ PoolOK' /\ MutexOK'
    BY <2>1 DEF Inv, world, MainOK, PoolOK, MutexOK, AllCreated
  <2> QED
    BY <2>2, <2>3 DEF Inv
<1> QED
  BY <1>1, <1>2

LEMMA NextInv == Inv /\ [Next]_vars => Inv'
<1> SUFFICES ASSUME Inv, [Next]_vars PROVE Inv'
  OBVIOUS
<1>1. CASE UNCHANGED vars
  BY <1>1 DEF vars, poolvars, procvars, world, Inv, TypeOK, PoolTypeOK, MainOK, PoolOK,
              MutexOK, AllCreated
<1>2. CASE MainThread
  BY <1>2, EndSteps, StartUpInv, IterationInv, StartPoolInv DEF MainThread
<1>3. CASE SchedulerThread \/ Crash \/ \E s \in Kinds : Send(s)
  BY <1>3, EndSteps, SignalInv DEF SchedulerThread
<1>4. ASSUME NEW t \in Threads, WorkerThread(t) \/ LateCrashes(t) PROVE Inv'
  BY <1>4, EndSteps, WorkerInv
<1> QED
  BY <1>1, <1>2, <1>3, <1>4 DEF Next

\* The inductive invariant holds in every reachable state.
THEOREM Invariance == Spec => []Inv
BY InitInv, NextInv, PTL DEF Spec

\* TypeOK: the list never holds more threads than the pool was made with.
THEOREM TypeCorrect == Spec => []TypeOK
<1>1. Inv => TypeOK
  BY DEF Inv
<1> QED
  BY <1>1, Invariance, PTL

\* FinderIsListed: holding the mutex all through ThreadPool::start is enough for a
\* thread that ends, or is yanked, to find itself in a list of started threads.
THEOREM FindersAreListed == Spec => []FinderIsListed
<1>1. Inv => FinderIsListed
  <2> SUFFICES ASSUME Inv, NEW t \in Threads, at[t] \in {"erase", "yanked"}
               PROVE  t \in listed /\ AllCreated
    BY DEF FinderIsListed
  <2>1. t \in listed /\ main \in {"creating", "waiting"}
    BY DEF Inv, PoolOK
  <2>2. main # "creating"
    BY ThreadsAssumption DEF Inv, MutexOK
  <2> QED
    BY <2>1, <2>2 DEF Inv, PoolOK
<1> QED
  BY <1>1, Invariance, PTL

\* ObjectsOutliveThreads: no delete of the main thread, in any iteration, comes before
\* the last use of what it deletes.
THEOREM ObjectsOutlive == Spec => []ObjectsOutliveThreads
<1>1. Inv => ObjectsOutliveThreads
  BY DEF Inv, MainOK, PoolOK, InIteration, ObjectsOutliveThreads
<1> QED
  BY <1>1, Invariance, PTL

\* ServesSafely: no worker works as root, elsewhere than in the mount point, or in one
\* that the untrusted user can write to.
THEOREM SafelyServed == Spec => []ServesSafely
<1>1. Inv => ServesSafely
  BY DEF Inv, MainOK, PoolOK, InIteration, ServesSafely
<1> QED
  BY <1>1, Invariance, PTL
============================================================================
