----------------------------- MODULE ThreadPool -----------------------------
(***************************************************************************)
(* ThreadPool and its detached Threads.  The main thread makes the pool,   *)
(* starts its threads and, in the destructor, waits until the list of      *)
(* threads is empty.  A thread that is done takes the mutex, deletes its   *)
(* own Thread and removes it from the list (operator()).  The emergency    *)
(* yank sends every listed thread a signal whose handler does the same and *)
(* ends the thread wherever it is, a deadlock included.                    *)
(***************************************************************************)
EXTENDS Naturals, FiniteSets

CONSTANTS
    Threads,    \* identities of pool threads, more than NWorkers of them
    NWorkers    \* nworkers

ASSUME NWorkersAssumption ==
    NWorkers \in Nat \ {0} /\ IsFiniteSet(Threads) /\ Cardinality(Threads) >= NWorkers
ASSUME ThreadsAssumption == "main" \notin Threads /\ "nobody" \notin Threads

VARIABLES
    at,         \* thread -> where it is, see Places
    listed,     \* the list threads
    owner,      \* who holds the mutex m: a thread, "main", or "nobody"
    killed,     \* threads for which the pool's signal is pending
    wait        \* the main thread in the destructor: "out", "test", "asleep" or "over"

poolvars == <<at, listed, owner, killed, wait>>

\* "none" not created (th is uninitialized), "begin" before pthread_sigmask, "work"
\* in T::todo, "heap" the same inside malloc or free, "stuck" the same in a deadlock,
\* "ends" before m.lock() in operator(), "erase" holding m, "handler" before m.lock()
\* in the signal handler, "yanked" holding m there, "leaving" past m.unlock(), "jam"
\* waiting for ever for a lock that it holds itself.
Places == {"none", "begin", "work", "heap", "stuck", "ends", "erase", "handler",
           "yanked", "leaving", "jam"}

PoolTypeOK ==
    /\ at \in [Threads -> Places]
    /\ listed \subseteq Threads /\ Cardinality(listed) <= NWorkers
    /\ owner \in Threads \cup {"main", "nobody"}
    /\ killed \subseteq Threads
    /\ wait \in {"out", "test", "asleep", "over"}

PoolInit ==
    /\ at = [t \in Threads |-> "none"]
    /\ listed = {}
    /\ owner = "nobody"
    /\ killed = {}
    /\ wait = "out"

Move(t, from, to) == at[t] = from /\ at' = [at EXCEPT ![t] = to]

----------------------------------------------------------------------------
(* The main thread *)

PoolSize_OneMore == NWorkers + 1

PoolSize == NWorkers

\* ThreadPool::ThreadPool: nthreads new Threads; none of them runs yet.
NewPool ==
    /\ \E T \in SUBSET {t \in Threads : at[t] = "none"} :
          Cardinality(T) = PoolSize /\ listed' = T
    /\ wait' = "out"
    /\ UNCHANGED <<at, owner, killed>>

StartOwner_Unlocked == owner

StartOwner == "main"

\* ThreadPool::start: m.lock() ...
StartLock ==
    /\ owner = "nobody"
    /\ owner' = StartOwner
    /\ UNCHANGED <<at, listed, killed, wait>>

\* ... Thread::start for each of them: pthread_create ...
Create(t) ==
    /\ t \in listed /\ Move(t, "none", "begin")
    /\ UNCHANGED <<listed, owner, killed, wait>>

AllCreated == \A t \in listed : at[t] # "none"

\* ... m.unlock(), and on into the destructor.
StartUnlock ==
    /\ AllCreated
    /\ owner' = "nobody"
    /\ wait' = "test"
    /\ UNCHANGED <<at, listed, killed>>

MayLeave_Always == TRUE

MayLeave == listed = {}

\* while (!threads.empty()) done.wait();
TestEmpty ==
    /\ wait = "test" /\ owner = "nobody"
    /\ wait' = IF MayLeave THEN "over" ELSE "asleep"
    /\ UNCHANGED <<at, listed, owner, killed>>

----------------------------------------------------------------------------
(* The threads of the pool *)

\* pthread_create_wrapper: the thread sets its signal mask, whereupon a pending
\* signal is delivered.
Begin(t) ==
    /\ Move(t, "begin", IF t \in killed THEN "handler" ELSE "work")
    /\ killed' = killed \ {t}
    /\ UNCHANGED <<listed, owner, wait>>

\* What it may do in T::todo besides its work: allocate, or deadlock.
InTodo(t) ==
    /\ \/ Move(t, "work", "heap") \/ Move(t, "heap", "work") \/ Move(t, "work", "stuck")
    /\ UNCHANGED <<listed, owner, killed, wait>>

\* T::todo returns.
Finish(t) ==
    /\ Move(t, "work", "ends")
    /\ UNCHANGED <<listed, owner, killed, wait>>

\* operator(): m.lock()
Lock(t) ==
    /\ owner = "nobody"
    /\ Move(t, "ends", "erase") \/ Move(t, "handler", "yanked")
    /\ owner' = t
    /\ UNCHANGED <<listed, killed, wait>>

Signalled_Never == wait

\* done.signal() when the list is empty
Signalled == IF listed' = {} /\ wait = "asleep" THEN "test" ELSE wait

\* operator(): delete *it, erase, signal, m.unlock().  A thread that was yanked
\* then ends at once (pthread_exit).
Erase(t) ==
    /\ Move(t, "erase", "leaving") \/ Move(t, "yanked", "none")
    /\ listed' = listed \ {t}
    /\ wait' = Signalled
    /\ owner' = "nobody"
    /\ UNCHANGED killed

\* The thread returns from pthread_create_wrapper.
Exit(t) ==
    /\ Move(t, "leaving", "none")
    /\ killed' = killed \ {t}
    /\ UNCHANGED <<listed, owner, wait>>

----------------------------------------------------------------------------
(* The emergency yank *)

\* UNSAFE_emerg_yank, called by the scheduler thread: pthread_kill to the listed
\* threads.  The identifier of a Thread that has not been started is garbage, which
\* pthread_kill reports as an error if it survives it (YankCrashes in Lifecycle).
Yank ==
    /\ owner = "nobody"
    /\ killed' = killed \cup {t \in listed : at[t] # "none"}
    /\ UNCHANGED <<at, listed, owner, wait>>

\* The signal arrives and runs pthread_exit_wrapper.  All signals are blocked in the
\* handler.  Where the thread holds m the handler waits for it for ever; where it
\* was in malloc, delete does, once the handler holds m.
Deliver(t) ==
    /\ t \in killed
    /\ \/ /\ \E from \in {"work", "stuck", "ends"} : Move(t, from, "handler")
          /\ UNCHANGED owner
       \/ Move(t, "erase", "jam") /\ UNCHANGED owner
       \/ owner = "nobody" /\ Move(t, "heap", "jam") /\ owner' = t
    /\ killed' = killed \ {t}
    /\ UNCHANGED <<listed, wait>>

\* The signal arrives when the thread has left the list: operator() does not find it
\* (or fails, if the pool has been destroyed: LateCrashes in Lifecycle).
DeliverLate(t) ==
    /\ t \in killed /\ owner = "nobody"
    /\ Move(t, "leaving", "none")
    /\ killed' = killed \ {t}
    /\ UNCHANGED <<listed, owner, wait>>

PoolThread(t) == Begin(t) \/ Lock(t) \/ Erase(t) \/ Exit(t) \/ Deliver(t) \/ DeliverLate(t)
=============================================================================
