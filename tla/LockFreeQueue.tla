--------------------------- MODULE LockFreeQueue ---------------------------
(***************************************************************************)
(* The lock-free queue behind the job queue and Preallocated's store: a    *)
(* linked list with a dummy node at its head, moved by compare-and-swap,   *)
(* and a semaphore on which wait_deq sleeps.  One action per access to     *)
(* shared memory.  A dequeuer frees the old dummy; a node that was freed   *)
(* keeps its fields until its address is handed out again, which happens   *)
(* only if Reuse.  Without it, this is the queue of the textbook, whose    *)
(* nodes are garbage collected, with the semaphore the code adds to it.    *)
(***************************************************************************)
EXTENDS Naturals, Sequences, FiniteSets

CONSTANTS
    Enqueuers,  \* threads that enqueue
    Dequeuers,  \* threads that dequeue
    Nodes,      \* addresses that new can return; 0 is the first
    Reuse,      \* whether new may return an address that was freed
    Null,       \* the null pointer
    MaxItems    \* bound: items each enqueuer enqueues

ASSUME NodesAssumption ==
    Nodes \subseteq Nat /\ IsFiniteSet(Nodes) /\ 0 \in Nodes /\ Null \notin Nodes
ASSUME ReuseAssumption == Reuse \in BOOLEAN
ASSUME ThreadsAssumption ==
    IsFiniteSet(Enqueuers) /\ IsFiniteSet(Dequeuers) /\ Enqueuers \cap Dequeuers = {}
ASSUME MaxItemsAssumption == MaxItems \in Nat

VARIABLES
    head, tail, \* the two ends of the list
    next,       \* address -> the next field of the node there
    t,          \* address -> its t field
    heap,       \* the addresses that hold a node
    used,       \* the addresses that ever held one
    sz,         \* the semaphore
    epc,        \* enqueuer -> where it is in enq, or "idle"
    count,      \* enqueuer -> how many items it has begun to enqueue
    n,          \* enqueuer -> its local n
    dpc,        \* dequeuer -> where it is in wait_deq or nowait_deq, or "idle"
    wait,       \* dequeuer -> whether it called wait_deq
    first,      \* dequeuer -> its local first
    hd,         \* dequeuer -> the head it read in order to read head->next
    ans,        \* dequeuer -> its local ans (wait_deq) or t (nowait_deq)
    last, nxt,  \* thread -> its locals last and next
    got         \* history: dequeuer -> what it has received, in order

list == <<head, tail, next, t, heap, used>>
evars == <<epc, count, n>>
dvars == <<dpc, wait, first, hd, ans, got>>
locals == <<last, nxt>>
vars == <<list, sz, evars, dvars, locals>>

Threads == Enqueuers \cup Dequeuers
Pointers == Nodes \cup {Null}

\* The items of an enqueuer are told apart by its name and a number.
Items == Enqueuers \X (1 .. MaxItems)
NoItem == <<>>

EnqPcs == {"idle", "tail", "next", "check", "link", "swing", "up", "help"}
DeqPcs == {"idle", "head", "tail", "hd", "next", "check", "sleep", "wake", "help",
           "read", "swing", "down", "free"}

TypeOK ==
    /\ head \in Nodes /\ tail \in Nodes
    /\ next \in [Nodes -> Pointers]
    /\ t \in [Nodes -> Items \cup {NoItem}]
    /\ heap \in SUBSET Nodes /\ used \in SUBSET Nodes
    /\ sz \in Nat
    /\ epc \in [Enqueuers -> EnqPcs]
    /\ count \in [Enqueuers -> 0 .. MaxItems]
    /\ n \in [Enqueuers -> Pointers]
    /\ dpc \in [Dequeuers -> DeqPcs]
    /\ wait \in [Dequeuers -> BOOLEAN]
    /\ first \in [Dequeuers -> Pointers]
    /\ hd \in [Dequeuers -> Pointers]
    /\ ans \in [Dequeuers -> Items \cup {NoItem}]
    /\ last \in [Threads -> Pointers]
    /\ nxt \in [Threads -> Pointers]
    /\ got \in [Dequeuers -> Seq(Items)]

\* LockFreeQueue(): one dummy node
Init ==
    /\ head = 0 /\ tail = 0 /\ heap = {0} /\ used = {0}
    /\ next = [a \in Nodes |-> Null]
    /\ t = [a \in Nodes |-> NoItem]
    /\ sz = 0
    /\ epc = [e \in Enqueuers |-> "idle"]
    /\ count = [e \in Enqueuers |-> 0]
    /\ n = [e \in Enqueuers |-> Null]
    /\ dpc = [d \in Dequeuers |-> "idle"]
    /\ wait = [d \in Dequeuers |-> FALSE]
    /\ first = [d \in Dequeuers |-> Null]
    /\ hd = [d \in Dequeuers |-> Null]
    /\ ans = [d \in Dequeuers |-> NoItem]
    /\ last = [x \in Threads |-> Null]
    /\ nxt = [x \in Threads |-> Null]
    /\ got = [d \in Dequeuers |-> << >>]

----------------------------------------------------------------------------
EGoto(e, label) == epc' = [epc EXCEPT ![e] = label]
DGoto(d, label) == dpc' = [dpc EXCEPT ![d] = label]

\* Locals that will be assigned before they are read again are cleared.
Forget(x) == last' = [last EXCEPT ![x] = Null] /\ nxt' = [nxt EXCEPT ![x] = Null]

\* enq starts its loop again.
ERetry(e) == EGoto(e, "tail") /\ Forget(e)

\* A dequeue goes to sleep, starts its loop again or returns.
DLeave(d, label) ==
    /\ DGoto(d, label)
    /\ Forget(d)
    /\ first' = [first EXCEPT ![d] = Null]
    /\ hd' = [hd EXCEPT ![d] = Null]
    /\ ans' = [ans EXCEPT ![d] = NoItem]

\* __sync_bool_compare_and_swap(&tail, old, new)
CasTail(old, new) == tail' = IF tail = old THEN new ELSE tail

----------------------------------------------------------------------------
(* void enq(T t) *)

\* The addresses that new may return.  Those never used are interchangeable: one
\* stands for all.
Unused == Nodes \ used
Available ==
    {a \in Unused : \A b \in Unused : a <= b} \cup (IF Reuse THEN used \ heap ELSE {})

\* n = new node(t)
EnqNew(e, a) ==
    /\ epc[e] = "idle" /\ count[e] < MaxItems
    /\ heap' = heap \cup {a}
    /\ used' = used \cup {a}
    /\ next' = [next EXCEPT ![a] = Null]
    /\ t' = [t EXCEPT ![a] = <<e, count[e] + 1>>]
    /\ n' = [n EXCEPT ![e] = a]
    /\ count' = [count EXCEPT ![e] = @ + 1]
    /\ EGoto(e, "tail")
    /\ UNCHANGED <<head, tail, sz, dvars, locals>>

\* last = tail
EnqTail(e) ==
    /\ epc[e] = "tail"
    /\ last' = [last EXCEPT ![e] = tail]
    /\ EGoto(e, "next")
    /\ UNCHANGED <<list, sz, count, n, dvars, nxt>>

\* next = last->next
EnqNext(e) ==
    /\ epc[e] = "next"
    /\ nxt' = [nxt EXCEPT ![e] = next[last[e]]]
    /\ EGoto(e, "check")
    /\ UNCHANGED <<list, sz, count, n, dvars, last>>

\* if (tail == last) { if (next == NULL) ... else ... }
EnqCheck(e) ==
    /\ epc[e] = "check"
    /\ IF tail # last[e]
       THEN ERetry(e)
       ELSE EGoto(e, IF nxt[e] = Null THEN "link" ELSE "help") /\ UNCHANGED locals
    /\ UNCHANGED <<list, sz, count, n, dvars>>

\* the compare-and-swap of last->next from NULL to n
EnqLink(e) ==
    /\ epc[e] = "link"
    /\ IF next[last[e]] = Null
       THEN next' = [next EXCEPT ![last[e]] = n[e]] /\ EGoto(e, "swing") /\ UNCHANGED locals
       ELSE UNCHANGED next /\ ERetry(e)
    /\ UNCHANGED <<head, tail, t, heap, used, sz, count, n, dvars>>

\* the compare-and-swap of tail from last to n; it may fail
EnqSwing(e) ==
    /\ epc[e] = "swing"
    /\ CasTail(last[e], n[e])
    /\ EGoto(e, "up") /\ Forget(e)
    /\ n' = [n EXCEPT ![e] = Null]
    /\ UNCHANGED <<head, next, t, heap, used, sz, count, dvars>>

\* sz.up()
EnqUp(e) ==
    /\ epc[e] = "up"
    /\ sz' = sz + 1
    /\ EGoto(e, "idle")
    /\ UNCHANGED <<list, count, n, dvars, locals>>

HelpTarget_Null(x) == Null

\* Where a lagging tail is moved to.
HelpTarget(x) == nxt[x]

\* the tail is lagging: advance it
EnqHelp(e) ==
    /\ epc[e] = "help"
    /\ CasTail(last[e], HelpTarget(e))
    /\ ERetry(e)
    /\ UNCHANGED <<head, next, t, heap, used, sz, count, n, dvars>>

----------------------------------------------------------------------------
(* T wait_deq() and bool nowait_deq(T &t) *)

DeqCall(d, w) ==
    /\ dpc[d] = "idle"
    /\ wait' = [wait EXCEPT ![d] = w]
    /\ DGoto(d, "head")
    /\ UNCHANGED <<list, sz, evars, first, hd, ans, got, locals>>

\* first = head
DeqHead(d) ==
    /\ dpc[d] = "head"
    /\ first' = [first EXCEPT ![d] = head]
    /\ DGoto(d, "tail")
    /\ UNCHANGED <<list, sz, evars, wait, hd, ans, got, locals>>

\* last = tail
DeqTail(d) ==
    /\ dpc[d] = "tail"
    /\ last' = [last EXCEPT ![d] = tail]
    /\ DGoto(d, "hd")
    /\ UNCHANGED <<list, sz, evars, wait, first, hd, ans, got, nxt>>

\* next = head->next reads head, and then through it
DeqHd(d) ==
    /\ dpc[d] = "hd"
    /\ hd' = [hd EXCEPT ![d] = head]
    /\ DGoto(d, "next")
    /\ UNCHANGED <<list, sz, evars, wait, first, ans, got, locals>>

DeqNext(d) ==
    /\ dpc[d] = "next"
    /\ nxt' = [nxt EXCEPT ![d] = next[hd[d]]]
    /\ DGoto(d, "check")
    /\ UNCHANGED <<list, sz, evars, wait, first, hd, ans, got, last>>

\* The tests first == head, first == last and next == NULL.
AfterCheck(d) ==
    CASE first[d] # head                                        -> "head"
      [] first[d] = head /\ first[d] # last[d]                  -> "read"
      [] first[d] = head /\ first[d] = last[d] /\ nxt[d] # Null -> "help"
      [] OTHER -> IF wait[d] THEN "sleep" ELSE "idle"

DeqCheck(d) ==
    /\ dpc[d] = "check"
    /\ IF AfterCheck(d) \in {"help", "read"}
       THEN DGoto(d, AfterCheck(d)) /\ UNCHANGED <<first, hd, ans, locals>>
       ELSE DLeave(d, AfterCheck(d))
    /\ UNCHANGED <<list, sz, evars, wait, got>>

\* wait_deq: sz.down() sleeps until there is something, and sz.up() gives it back
DeqSleep(d) ==
    /\ dpc[d] = "sleep"
    /\ sz > 0 /\ sz' = sz - 1
    /\ DGoto(d, "wake")
    /\ UNCHANGED <<list, evars, wait, first, hd, ans, got, locals>>

SemAfterWake_Kept == sz

SemAfterWake == sz + 1

DeqWake(d) ==
    /\ dpc[d] = "wake"
    /\ sz' = SemAfterWake
    /\ DGoto(d, "head")
    /\ UNCHANGED <<list, evars, wait, first, hd, ans, got, locals>>

DeqHelp(d) ==
    /\ dpc[d] = "help"
    /\ CasTail(last[d], HelpTarget(d))
    /\ DLeave(d, "head")
    /\ UNCHANGED <<head, next, t, heap, used, sz, evars, wait, got>>

\* ans = next->t
DeqRead(d) ==
    /\ dpc[d] = "read"
    /\ ans' = [ans EXCEPT ![d] = t[nxt[d]]]
    /\ DGoto(d, "swing")
    /\ UNCHANGED <<list, sz, evars, wait, first, hd, got, locals>>

HeadStill_Assumed(d) == TRUE

\* The test of the compare-and-swap of head.
HeadStill(d) == head = first[d]

\* the compare-and-swap of head from first to next
DeqSwing(d) ==
    /\ dpc[d] = "swing"
    /\ IF HeadStill(d)
       THEN /\ head' = nxt[d]
            /\ got' = [got EXCEPT ![d] = Append(@, ans[d])]
            /\ DGoto(d, "down")
            /\ UNCHANGED <<first, hd, ans, locals>>
       ELSE UNCHANGED <<head, got>> /\ DLeave(d, "head")
    /\ UNCHANGED <<tail, next, t, heap, used, sz, evars, wait>>

\* sz.down()
DeqDown(d) ==
    /\ dpc[d] = "down"
    /\ sz > 0 /\ sz' = sz - 1
    /\ DGoto(d, "free")
    /\ UNCHANGED <<list, evars, wait, first, hd, ans, got, locals>>

\* delete first
DeqFree(d) ==
    /\ dpc[d] = "free"
    /\ heap' = heap \ {first[d]}
    /\ DLeave(d, "idle")
    /\ UNCHANGED <<head, tail, next, t, used, sz, evars, wait, got>>

----------------------------------------------------------------------------
Enqueue(e) ==
    \/ \E a \in Available : EnqNew(e, a)
    \/ EnqTail(e) \/ EnqNext(e) \/ EnqCheck(e) \/ EnqLink(e)
    \/ EnqSwing(e) \/ EnqUp(e) \/ EnqHelp(e)

Dequeue(d) ==
    \/ \E w \in BOOLEAN : DeqCall(d, w)
    \/ DeqHead(d) \/ DeqTail(d) \/ DeqHd(d) \/ DeqNext(d) \/ DeqCheck(d)
    \/ DeqSleep(d) \/ DeqWake(d) \/ DeqHelp(d)
    \/ DeqRead(d) \/ DeqSwing(d) \/ DeqDown(d) \/ DeqFree(d)

Next == (\E e \in Enqueuers : Enqueue(e)) \/ (\E d \in Dequeuers : Dequeue(d))

Spec == Init /\ [][Next]_vars

\* Each thread keeps running; a dequeuer calls again when it has returned, as a
\* worker does.
FairSpec ==
    /\ Spec
    /\ \A e \in Enqueuers : WF_vars(Enqueue(e))
    /\ \A d \in Dequeuers : WF_vars(Dequeue(d))

----------------------------------------------------------------------------
(* Properties *)

\* The nodes from head on, as far as the next fields lead.
Path[i \in 1 .. Cardinality(Nodes)] ==
    IF i = 1 THEN head
    ELSE LET a == Path[i - 1] IN IF a = Null THEN Null ELSE next[a]

\* The items in the nodes after the dummy, in order.
Contents ==
    [i \in 1 .. Cardinality({j \in DOMAIN Path : Path[j] # Null}) - 1 |-> t[Path[i + 1]]]

\* The queue implements ConcurrentQueue: enq takes effect when the node is linked
\* and a dequeue when head is swung, what is dequeued is the oldest item, and
\* every item is dequeued in the end.
Abstract == INSTANCE ConcurrentQueue WITH q <- Contents
ImplementsQueue == Abstract!Spec

\* "We have to show that no one else could be dereferencing first (i.e. the old
\* head) when we delete it" (nowait_deq): no thread is about to read or write
\* through a pointer to a node that has been freed.
NoFreedDereference ==
    /\ \A e \in Enqueuers : epc[e] \in {"next", "link"} => last[e] \in heap
    /\ \A d \in Dequeuers :
          /\ dpc[d] = "next" => hd[d] \in heap
          /\ dpc[d] = "read" => nxt[d] \in heap
    /\ head \in heap /\ tail \in heap

\* What is true of "the value of the semaphore equals the size of the queue" (class
\* comment): they differ by what the threads between moving a pointer and moving the
\* semaphore, or between a sleeper's down and its up, still owe it, and by nothing else,
\* so that they agree again when these threads are done.  In between the semaphore is
\* the smaller one while an enqueuer is still before its up, and a dequeuer that has
\* found an item can sleep in its down, which nowait_deq says it never does.
SemaphoreCountsItems ==
    sz + Cardinality({e \in Enqueuers : epc[e] \in {"swing", "up"}})
       + Cardinality({d \in Dequeuers : dpc[d] = "wake"})
    = Len(Contents) + Cardinality({d \in Dequeuers : dpc[d] = "down"})
============================================================================
