------------------------ MODULE LockFreeQueueProofs ------------------------
(***************************************************************************)
(* The lock-free queue, for any number of threads, nodes and items, when   *)
(* no address is handed out twice (~ Reuse).  The nodes that were ever     *)
(* linked form one chain, along which head and tail move forward; what a   *)
(* thread has read of the list is a place on that chain, and how it lies   *)
(* to the other places it has read is what its compare-and-swaps rely on.  *)
(***************************************************************************)
EXTENDS LockFreeQueue, FiniteSetTheorems, TLAPS

----------------------------------------------------------------------------
(* The inductive invariant.  s is the chain of all nodes ever linked, and    *)
(* pos its inverse: where a node is on the chain, 0 if it is not.            *)

\* The chain follows the next fields and ends in Null; a node outside it is
\* linked to nothing, and new may return only such nodes.
Chain(s, pos) ==
    /\ s \in Seq(Nodes) /\ Len(s) > 0 /\ pos \in [Nodes -> Nat]
    /\ \A i \in 1 .. Len(s) : pos[s[i]] = i
    /\ \A a \in Nodes : pos[a] # 0 => pos[a] <= Len(s) /\ s[pos[a]] = a
    /\ \A i \in 1 .. Len(s) - 1 : next[s[i]] = s[i + 1]
    /\ next[s[Len(s)]] = Null
    /\ \A a \in Nodes : pos[a] > 1 => t[a] \in Items
    /\ \A a \in Nodes \ used : pos[a] = 0

\* Neither end ever leaves the chain, and head does not overtake tail.
Ends(pos) == 1 <= pos[head] /\ pos[head] <= pos[tail]

\* a is on the chain, not behind b.
UpTo(pos, a, b) == a \in Nodes /\ 1 <= pos[a] /\ pos[a] <= pos[b]

\* b comes right after a.
After(pos, a, b) == a \in Nodes /\ b \in Nodes /\ pos[b] = pos[a] + 1

\* What enqueuer e knows at each place of enq.
Enqueuing(pos, e) ==
    /\ epc[e] \in {"tail", "next", "check", "link", "help"} =>
          /\ n[e] \in used /\ pos[n[e]] = 0
          /\ next[n[e]] = Null
          /\ count[e] \in 1 .. MaxItems /\ t[n[e]] = <<e, count[e]>>
    /\ epc[e] \in {"next", "check", "link", "help", "swing"} => UpTo(pos, last[e], tail)
    /\ epc[e] = "check" => nxt[e] = Null \/ After(pos, last[e], nxt[e])
    /\ epc[e] = "help" => After(pos, last[e], nxt[e])
    /\ epc[e] = "swing" => After(pos, last[e], n[e])

\* What dequeuer d knows at each place of wait_deq and nowait_deq.
Dequeuing(pos, d) ==
    /\ dpc[d] \in {"tail", "hd", "next", "check", "help", "read", "swing"} =>
          UpTo(pos, first[d], head)
    /\ dpc[d] \in {"hd", "next", "check", "help", "read", "swing"} =>
          UpTo(pos, last[d], tail) /\ pos[first[d]] <= pos[last[d]]
    /\ dpc[d] \in {"next", "check"} => UpTo(pos, hd[d], head) /\ pos[first[d]] <= pos[hd[d]]
    /\ dpc[d] = "check" => IF nxt[d] = Null THEN pos[last[d]] <= pos[hd[d]]
                           ELSE After(pos, hd[d], nxt[d])
    /\ dpc[d] = "help" => After(pos, last[d], nxt[d])
    /\ dpc[d] \in {"read", "swing"} =>
          After(pos, first[d], nxt[d]) /\ pos[nxt[d]] <= pos[last[d]]
    /\ dpc[d] = "swing" => ans[d] = t[nxt[d]]

Inv(s, pos) ==
    /\ Chain(s, pos) /\ Ends(pos)
    /\ \A e \in Enqueuers : Enqueuing(pos, e)
    /\ \A d \in Dequeuers : Dequeuing(pos, d)

\* With TypeOK, the invariant of the queue.
IInv == TypeOK /\ \E s, pos : Inv(s, pos)

----------------------------------------------------------------------------
(* Facts about the chain. *)

\* Where a node on the chain leads.
LEMMA ChainNext ==
  ASSUME NEW s, NEW pos, Chain(s, pos), NEW a \in Nodes, 1 <= pos[a]
  PROVE  IF next[a] = Null THEN pos[a] = Len(s) ELSE After(pos, a, next[a])
<1>1. pos[a] \in 1 .. Len(s) /\ s[pos[a]] = a
  BY DEF Chain
<1>2. CASE pos[a] = Len(s)
  BY <1>1, <1>2 DEF Chain
<1>3. CASE pos[a] # Len(s)
  <2>1. pos[a] \in 1 .. Len(s) - 1 /\ pos[a] + 1 \in 1 .. Len(s)
    BY <1>1, <1>3 DEF Chain
  <2>2. next[a] = s[pos[a] + 1] /\ next[a] \in Nodes /\ pos[next[a]] = pos[a] + 1
    BY <1>1, <2>1 DEF Chain
  <2> QED
    BY <2>2, NodesAssumption DEF After
<1> QED
  BY <1>2, <1>3

\* Two nodes at one place are one node.
LEMMA ChainInjective ==
  ASSUME NEW s, NEW pos, Chain(s, pos), NEW a \in Nodes, NEW b \in Nodes,
         1 <= pos[a], pos[a] = pos[b]
  PROVE  a = b
BY DEF Chain

\* Neither end goes back, and the list is otherwise as it was.
Forward(pos) ==
    /\ pos[head] <= pos[head'] /\ pos[tail] <= pos[tail']
    /\ UNCHANGED <<next, t, used>>

\* A step of another thread that leaves the list as it was does not make what an
\* enqueuer knows untrue.
LEMMA EnqueuerUndisturbed ==
  ASSUME TypeOK, TypeOK', NEW s, NEW pos, Inv(s, pos), Forward(pos),
         NEW x \in Enqueuers, epc'[x] = epc[x], n'[x] = n[x], count'[x] = count[x],
         last'[x] = last[x], nxt'[x] = nxt[x]
  PROVE  Enqueuing(pos, x)'
<1>1. pos \in [Nodes -> Nat] /\ tail \in Nodes /\ tail' \in Nodes
  BY DEF Inv, Chain, TypeOK
<1>2. \A a : UpTo(pos, a, tail) => UpTo(pos, a, tail')
  BY <1>1 DEF Forward, UpTo
<1>3. Enqueuing(pos, x)
  BY DEF Inv
<1> QED
  BY <1>2, <1>3 DEF Enqueuing, Forward

\* The same for a dequeuer.
LEMMA DequeuerUndisturbed ==
  ASSUME TypeOK, TypeOK', NEW s, NEW pos, Inv(s, pos), Forward(pos),
         NEW x \in Dequeuers, dpc'[x] = dpc[x], first'[x] = first[x], hd'[x] = hd[x],
         ans'[x] = ans[x], last'[x] = last[x], nxt'[x] = nxt[x]
  PROVE  Dequeuing(pos, x)'
<1>1. pos \in [Nodes -> Nat] /\ {head, head', tail, tail'} \subseteq Nodes
  BY DEF Inv, Chain, TypeOK
<1>2. \A a : /\ UpTo(pos, a, tail) => UpTo(pos, a, tail')
             /\ UpTo(pos, a, head) => UpTo(pos, a, head')
  BY <1>1 DEF Forward, UpTo
<1>3. Dequeuing(pos, x)
  BY DEF Inv
<1> QED
  BY <1>2, <1>3 DEF Dequeuing, Forward

----------------------------------------------------------------------------
(* Initially the chain is the dummy alone. *)

\* The chain and its positions at the start.
LEMMA InvInitially ==
  ASSUME Init
  PROVE  TypeOK /\ Inv(<<0>>, [a \in Nodes |-> IF a = 0 THEN 1 ELSE 0])
<1> DEFINE one == [a \in Nodes |-> IF a = 0 THEN 1 ELSE 0]
<1> USE NodesAssumption
<1>1. TypeOK
  BY MaxItemsAssumption
  DEF Init, TypeOK, Pointers, EnqPcs, DeqPcs
<1>2. Chain(<<0>>, one) /\ Ends(one)
  BY DEF Init, Chain, Ends
<1>3. \A e \in Enqueuers : Enqueuing(one, e)
  BY DEF Init, Enqueuing
<1>4. \A d \in Dequeuers : Dequeuing(one, d)
  BY DEF Init, Dequeuing
<1>5. Inv(<<0>>, one)
  BY <1>2, <1>3, <1>4 DEF Inv
<1> QED
  BY <1>1, <1>5

\* The invariant holds at the start.
LEMMA InvInit == Init => IInv
BY InvInitially DEF IInv

----------------------------------------------------------------------------
(* The steps of enq that read the list or move tail. *)

\* last = tail
LEMMA EnqTailKept ==
  ASSUME TypeOK, NEW s, NEW pos, Inv(s, pos), NEW e \in Enqueuers, EnqTail(e)
  PROVE  TypeOK' /\ Inv(s, pos)'
<1> USE DEF EnqTail, EGoto, list, evars, dvars, locals
<1>0. pos \in [Nodes -> Nat] /\ Chain(s, pos)
  BY DEF Inv, Chain
<1>1. TypeOK'
  BY NodesAssumption
  DEF Inv, Enqueuing, UpTo, After, TypeOK, EnqPcs, DeqPcs, Threads, Pointers
<1>2. Forward(pos) /\ Ends(pos)'
  BY <1>0 DEF Inv, Ends, Forward, Enqueuing, UpTo, After, TypeOK
<1>3. Chain(s, pos)'
  BY DEF Inv, Chain
<1>4. Enqueuing(pos, e)'
  BY <1>0, <1>1, ChainNext, ChainInjective, NodesAssumption
  DEF Inv, Ends, Enqueuing, UpTo, After, TypeOK, Pointers, Threads
<1>5. ASSUME NEW x \in Enqueuers PROVE Enqueuing(pos, x)'
  <2>1. CASE x = e
    BY <1>4, <2>1
  <2>2. CASE x # e
    BY <1>1, <1>2, <2>2, EnqueuerUndisturbed, ThreadsAssumption DEF TypeOK, Threads
  <2> QED
    BY <2>1, <2>2
<1>6. ASSUME NEW x \in Dequeuers PROVE Dequeuing(pos, x)'
  <2>1. x # e
    BY ThreadsAssumption
  <2> QED
    BY <1>1, <1>2, <2>1, DequeuerUndisturbed DEF TypeOK, Threads
<1> QED
  BY <1>1, <1>2, <1>3, <1>5, <1>6 DEF Inv

\* next = last->next
LEMMA EnqNextKept ==
  ASSUME TypeOK, NEW s, NEW pos, Inv(s, pos), NEW e \in Enqueuers, EnqNext(e)
  PROVE  TypeOK' /\ Inv(s, pos)'
<1> USE DEF EnqNext, EGoto, list, evars, dvars, locals
<1>0. pos \in [Nodes -> Nat] /\ Chain(s, pos)
  BY DEF Inv, Chain
<1>1. TypeOK'
  BY NodesAssumption
  DEF Inv, Enqueuing, UpTo, After, TypeOK, EnqPcs, DeqPcs, Threads, Pointers
<1>2. Forward(pos) /\ Ends(pos)'
  BY <1>0 DEF Inv, Ends, Forward, Enqueuing, UpTo, After, TypeOK
<1>3. Chain(s, pos)'
  BY DEF Inv, Chain
<1>4. Enqueuing(pos, e)'
  <2>1. UpTo(pos, last[e], tail)
    BY DEF Inv, Enqueuing
  <2>2. nxt'[e] = Null \/ After(pos, last[e], nxt'[e])
    BY <1>0, <2>1, ChainNext DEF UpTo, TypeOK, Threads
  <2> QED
    BY <2>1, <2>2 DEF Inv, Enqueuing, TypeOK
<1>5. ASSUME NEW x \in Enqueuers PROVE Enqueuing(pos, x)'
  <2>1. CASE x = e
    BY <1>4, <2>1
  <2>2. CASE x # e
    BY <1>1, <1>2, <2>2, EnqueuerUndisturbed, ThreadsAssumption DEF TypeOK, Threads
  <2> QED
    BY <2>1, <2>2
<1>6. ASSUME NEW x \in Dequeuers PROVE Dequeuing(pos, x)'
  <2>1. x # e
    BY ThreadsAssumption
  <2> QED
    BY <1>1, <1>2, <2>1, DequeuerUndisturbed DEF TypeOK, Threads
<1> QED
  BY <1>1, <1>2, <1>3, <1>5, <1>6 DEF Inv

\* The test of tail == last and of next.
LEMMA EnqCheckKept ==
  ASSUME TypeOK, NEW s, NEW pos, Inv(s, pos), NEW e \in Enqueuers, EnqCheck(e)
  PROVE  TypeOK' /\ Inv(s, pos)'
<1> USE DEF EnqCheck, EGoto, ERetry, Forget, list, evars, dvars, locals
<1>0. pos \in [Nodes -> Nat] /\ Chain(s, pos)
  BY DEF Inv, Chain
<1>1. TypeOK'
  BY NodesAssumption, ZenonT(60)
  DEF Inv, Enqueuing, UpTo, After, TypeOK, EnqPcs, DeqPcs, Threads, Pointers
<1>2. Forward(pos) /\ Ends(pos)'
  BY <1>0 DEF Inv, Ends, Forward, Enqueuing, UpTo, After, TypeOK
<1>3. Chain(s, pos)'
  BY DEF Inv, Chain
<1>4. Enqueuing(pos, e)'
  BY <1>0, <1>1, ChainNext, ChainInjective, NodesAssumption
  DEF Inv, Ends, Enqueuing, UpTo, After, TypeOK, Pointers, Threads
<1>5. ASSUME NEW x \in Enqueuers PROVE Enqueuing(pos, x)'
  <2>1. CASE x = e
    BY <1>4, <2>1
  <2>2. CASE x # e
    BY <1>1, <1>2, <2>2, EnqueuerUndisturbed, ThreadsAssumption DEF TypeOK, Threads
  <2> QED
    BY <2>1, <2>2
<1>6. ASSUME NEW x \in Dequeuers PROVE Dequeuing(pos, x)'
  <2>1. x # e
    BY ThreadsAssumption
  <2> QED
    BY <1>1, <1>2, <2>1, DequeuerUndisturbed DEF TypeOK, Threads
<1> QED
  BY <1>1, <1>2, <1>3, <1>5, <1>6 DEF Inv

\* A lagging tail is moved to the node after it.
LEMMA EnqHelpKept ==
  ASSUME TypeOK, NEW s, NEW pos, Inv(s, pos), NEW e \in Enqueuers, EnqHelp(e)
  PROVE  TypeOK' /\ Inv(s, pos)'
<1> USE DEF EnqHelp, EGoto, CasTail, HelpTarget, ERetry, Forget, list, evars, dvars, locals
<1>0. pos \in [Nodes -> Nat] /\ Chain(s, pos)
  BY DEF Inv, Chain
<1>1. TypeOK'
  BY NodesAssumption
  DEF Inv, Enqueuing, UpTo, After, TypeOK, EnqPcs, DeqPcs, Threads, Pointers
<1>2. Forward(pos) /\ Ends(pos)'
  BY <1>0 DEF Inv, Ends, Forward, Enqueuing, UpTo, After, TypeOK
<1>3. Chain(s, pos)'
  BY DEF Inv, Chain
<1>4. Enqueuing(pos, e)'
  BY <1>0, <1>1, ChainNext, ChainInjective, NodesAssumption
  DEF Inv, Ends, Enqueuing, UpTo, After, TypeOK, Pointers, Threads
<1>5. ASSUME NEW x \in Enqueuers PROVE Enqueuing(pos, x)'
  <2>1. CASE x = e
    BY <1>4, <2>1
  <2>2. CASE x # e
    BY <1>1, <1>2, <2>2, EnqueuerUndisturbed, ThreadsAssumption DEF TypeOK, Threads
  <2> QED
    BY <2>1, <2>2
<1>6. ASSUME NEW x \in Dequeuers PROVE Dequeuing(pos, x)'
  <2>1. x # e
    BY ThreadsAssumption
  <2> QED
    BY <1>1, <1>2, <2>1, DequeuerUndisturbed DEF TypeOK, Threads
<1> QED
  BY <1>1, <1>2, <1>3, <1>5, <1>6 DEF Inv

\* tail moves to the node just linked, if it has not moved already.
LEMMA EnqSwingKept ==
  ASSUME TypeOK, NEW s, NEW pos, Inv(s, pos), NEW e \in Enqueuers, EnqSwing(e)
  PROVE  TypeOK' /\ Inv(s, pos)'
<1> USE DEF EnqSwing, EGoto, CasTail, Forget, list, evars, dvars, locals
<1>0. pos \in [Nodes -> Nat] /\ Chain(s, pos)
  BY DEF Inv, Chain
<1>1. TypeOK'
  BY NodesAssumption
  DEF Inv, Enqueuing, UpTo, After, TypeOK, EnqPcs, DeqPcs, Threads, Pointers
<1>2. Forward(pos) /\ Ends(pos)'
  BY <1>0 DEF Inv, Ends, Forward, Enqueuing, UpTo, After, TypeOK
<1>3. Chain(s, pos)'
  BY DEF Inv, Chain
<1>4. Enqueuing(pos, e)'
  BY <1>0, <1>1, ChainNext, ChainInjective, NodesAssumption
  DEF Inv, Ends, Enqueuing, UpTo, After, TypeOK, Pointers, Threads
<1>5. ASSUME NEW x \in Enqueuers PROVE Enqueuing(pos, x)'
  <2>1. CASE x = e
    BY <1>4, <2>1
  <2>2. CASE x # e
    BY <1>1, <1>2, <2>2, EnqueuerUndisturbed, ThreadsAssumption DEF TypeOK, Threads
  <2> QED
    BY <2>1, <2>2
<1>6. ASSUME NEW x \in Dequeuers PROVE Dequeuing(pos, x)'
  <2>1. x # e
    BY ThreadsAssumption
  <2> QED
    BY <1>1, <1>2, <2>1, DequeuerUndisturbed DEF TypeOK, Threads
<1> QED
  BY <1>1, <1>2, <1>3, <1>5, <1>6 DEF Inv

\* sz.up()
LEMMA EnqUpKept ==
  ASSUME TypeOK, NEW s, NEW pos, Inv(s, pos), NEW e \in Enqueuers, EnqUp(e)
  PROVE  TypeOK' /\ Inv(s, pos)'
<1> USE DEF EnqUp, EGoto, list, evars, dvars, locals
<1>0. pos \in [Nodes -> Nat] /\ Chain(s, pos)
  BY DEF Inv, Chain
<1>1. TypeOK'
  BY NodesAssumption
  DEF Inv, Enqueuing, UpTo, After, TypeOK, EnqPcs, DeqPcs, Threads, Pointers
<1>2. Forward(pos) /\ Ends(pos)'
  BY <1>0 DEF Inv, Ends, Forward, Enqueuing, UpTo, After, TypeOK
<1>3. Chain(s, pos)'
  BY DEF Inv, Chain
<1>4. Enqueuing(pos, e)'
  BY <1>0, <1>1, ChainNext, ChainInjective, NodesAssumption
  DEF Inv, Ends, Enqueuing, UpTo, After, TypeOK, Pointers, Threads
<1>5. ASSUME NEW x \in Enqueuers PROVE Enqueuing(pos, x)'
  <2>1. CASE x = e
    BY <1>4, <2>1
  <2>2. CASE x # e
    BY <1>1, <1>2, <2>2, EnqueuerUndisturbed, ThreadsAssumption DEF TypeOK, Threads
  <2> QED
    BY <2>1, <2>2
<1>6. ASSUME NEW x \in Dequeuers PROVE Dequeuing(pos, x)'
  <2>1. x # e
    BY ThreadsAssumption
  <2> QED
    BY <1>1, <1>2, <2>1, DequeuerUndisturbed DEF TypeOK, Threads
<1> QED
  BY <1>1, <1>2, <1>3, <1>5, <1>6 DEF Inv

----------------------------------------------------------------------------
(* The steps of wait_deq and nowait_deq. *)

\* first = head
LEMMA DeqHeadKept ==
  ASSUME TypeOK, NEW s, NEW pos, Inv(s, pos), NEW d \in Dequeuers, DeqHead(d)
  PROVE  TypeOK' /\ Inv(s, pos)'
<1> USE DEF DeqHead, DGoto, list, evars, dvars, locals
<1>0. pos \in [Nodes -> Nat] /\ Chain(s, pos)
  BY DEF Inv, Chain
<1>1. TypeOK'
  BY NodesAssumption
  DEF Inv, Dequeuing, UpTo, After, TypeOK, EnqPcs, DeqPcs, Threads, Pointers
<1>2. Forward(pos) /\ Ends(pos)'
  BY <1>0 DEF Inv, Ends, Forward, Dequeuing, UpTo, After, TypeOK
<1>3. Chain(s, pos)'
  BY DEF Inv, Chain
<1>4. Dequeuing(pos, d)'
  BY <1>0, <1>1, ChainNext, ChainInjective, NodesAssumption
  DEF Inv, Ends, Dequeuing, UpTo, After, TypeOK, Pointers, Threads
<1>5. ASSUME NEW x \in Enqueuers PROVE Enqueuing(pos, x)'
  <2>1. x # d
    BY ThreadsAssumption
  <2> QED
    BY <1>1, <1>2, <2>1, EnqueuerUndisturbed DEF TypeOK, Threads
<1>6. ASSUME NEW x \in Dequeuers PROVE Dequeuing(pos, x)'
  <2>1. CASE x = d
    BY <1>4, <2>1
  <2>2. CASE x # d
    BY <1>1, <1>2, <2>2, DequeuerUndisturbed, ThreadsAssumption DEF TypeOK, Threads
  <2> QED
    BY <2>1, <2>2
<1> QED
  BY <1>1, <1>2, <1>3, <1>5, <1>6 DEF Inv

\* last = tail: head is not behind what was read of it before, and tail not behind head.
LEMMA DeqTailKept ==
  ASSUME TypeOK, NEW s, NEW pos, Inv(s, pos), NEW d \in Dequeuers, DeqTail(d)
  PROVE  TypeOK' /\ Inv(s, pos)'
<1> USE DEF DeqTail, DGoto, list, evars, dvars, locals
<1>0. pos \in [Nodes -> Nat] /\ Chain(s, pos)
  BY DEF Inv, Chain
<1>1. TypeOK'
  BY NodesAssumption
  DEF Inv, Dequeuing, UpTo, After, TypeOK, EnqPcs, DeqPcs, Threads, Pointers
<1>2. Forward(pos) /\ Ends(pos)'
  BY <1>0 DEF Inv, Ends, Forward, Dequeuing, UpTo, After, TypeOK
<1>3. Chain(s, pos)'
  BY DEF Inv, Chain
<1>4. Dequeuing(pos, d)'
  <2>1. UpTo(pos, first[d], head)
    BY DEF Inv, Dequeuing
  <2>2. UpTo(pos, tail, tail) /\ pos[first[d]] <= pos[tail]
    BY <1>0, <2>1 DEF UpTo, Inv, Ends, TypeOK
  <2>3. last'[d] = tail
    BY DEF TypeOK, Threads
  <2> QED
    BY <2>1, <2>2, <2>3 DEF Dequeuing, TypeOK
<1>5. ASSUME NEW x \in Enqueuers PROVE Enqueuing(pos, x)'
  <2>1. x # d
    BY ThreadsAssumption
  <2> QED
    BY <1>1, <1>2, <2>1, EnqueuerUndisturbed DEF TypeOK, Threads
<1>6. ASSUME NEW x \in Dequeuers PROVE Dequeuing(pos, x)'
  <2>1. CASE x = d
    BY <1>4, <2>1
  <2>2. CASE x # d
    BY <1>1, <1>2, <2>2, DequeuerUndisturbed, ThreadsAssumption DEF TypeOK, Threads
  <2> QED
    BY <2>1, <2>2
<1> QED
  BY <1>1, <1>2, <1>3, <1>5, <1>6 DEF Inv

\* next = head->next reads head once more.
LEMMA DeqHdKept ==
  ASSUME TypeOK, NEW s, NEW pos, Inv(s, pos), NEW d \in Dequeuers, DeqHd(d)
  PROVE  TypeOK' /\ Inv(s, pos)'
<1> USE DEF DeqHd, DGoto, list, evars, dvars, locals
<1>0. pos \in [Nodes -> Nat] /\ Chain(s, pos)
  BY DEF Inv, Chain
<1>1. TypeOK'
  BY NodesAssumption
  DEF Inv, Dequeuing, UpTo, After, TypeOK, EnqPcs, DeqPcs, Threads, Pointers
<1>2. Forward(pos) /\ Ends(pos)'
  BY <1>0 DEF Inv, Ends, Forward, Dequeuing, UpTo, After, TypeOK
<1>3. Chain(s, pos)'
  BY DEF Inv, Chain
<1>4. Dequeuing(pos, d)'
  BY <1>0, <1>1, ChainNext, ChainInjective, NodesAssumption
  DEF Inv, Ends, Dequeuing, UpTo, After, TypeOK, Pointers, Threads
<1>5. ASSUME NEW x \in Enqueuers PROVE Enqueuing(pos, x)'
  <2>1. x # d
    BY ThreadsAssumption
  <2> QED
    BY <1>1, <1>2, <2>1, EnqueuerUndisturbed DEF TypeOK, Threads
<1>6. ASSUME NEW x \in Dequeuers PROVE Dequeuing(pos, x)'
  <2>1. CASE x = d
    BY <1>4, <2>1
  <2>2. CASE x # d
    BY <1>1, <1>2, <2>2, DequeuerUndisturbed, ThreadsAssumption DEF TypeOK, Threads
  <2> QED
    BY <2>1, <2>2
<1> QED
  BY <1>1, <1>2, <1>3, <1>5, <1>6 DEF Inv

\* next = head->next: what it reads comes right after what head was.
LEMMA DeqNextKept ==
  ASSUME TypeOK, NEW s, NEW pos, Inv(s, pos), NEW d \in Dequeuers, DeqNext(d)
  PROVE  TypeOK' /\ Inv(s, pos)'
<1> USE DEF DeqNext, DGoto, list, evars, dvars, locals
<1>0. pos \in [Nodes -> Nat] /\ Chain(s, pos)
  BY DEF Inv, Chain
<1>1. TypeOK'
  BY NodesAssumption
  DEF Inv, Dequeuing, UpTo, After, TypeOK, EnqPcs, DeqPcs, Threads, Pointers
<1>2. Forward(pos) /\ Ends(pos)'
  BY <1>0 DEF Inv, Ends, Forward, Dequeuing, UpTo, After, TypeOK
<1>3. Chain(s, pos)'
  BY DEF Inv, Chain
<1>4. Dequeuing(pos, d)'
  <2>1. /\ UpTo(pos, first[d], head) /\ UpTo(pos, last[d], tail) /\ UpTo(pos, hd[d], head)
        /\ pos[first[d]] <= pos[last[d]] /\ pos[first[d]] <= pos[hd[d]]
    BY DEF Inv, Dequeuing
  <2>2. nxt'[d] = next[hd[d]]
    BY DEF TypeOK, Threads
  <2>3. pos[last[d]] <= Len(s)
    BY <1>0, <2>1 DEF Chain, UpTo
  <2>4. IF nxt'[d] = Null THEN pos[last[d]] <= pos[hd[d]] ELSE After(pos, hd[d], nxt'[d])
    BY <1>0, <2>1, <2>2, <2>3, ChainNext DEF UpTo
  <2> QED
    BY <2>1, <2>4 DEF Dequeuing, TypeOK
<1>5. ASSUME NEW x \in Enqueuers PROVE Enqueuing(pos, x)'
  <2>1. x # d
    BY ThreadsAssumption
  <2> QED
    BY <1>1, <1>2, <2>1, EnqueuerUndisturbed DEF TypeOK, Threads
<1>6. ASSUME NEW x \in Dequeuers PROVE Dequeuing(pos, x)'
  <2>1. CASE x = d
    BY <1>4, <2>1
  <2>2. CASE x # d
    BY <1>1, <1>2, <2>2, DequeuerUndisturbed, ThreadsAssumption DEF TypeOK, Threads
  <2> QED
    BY <2>1, <2>2
<1> QED
  BY <1>1, <1>2, <1>3, <1>5, <1>6 DEF Inv

\* first == head means that head has not moved since it was read: next is its successor,
\* and if last is another node, head is not the last one.
LEMMA DeqCheckKept ==
  ASSUME TypeOK, NEW s, NEW pos, Inv(s, pos), NEW d \in Dequeuers, DeqCheck(d)
  PROVE  TypeOK' /\ Inv(s, pos)'
<1> USE DEF DeqCheck, DGoto, AfterCheck, DLeave, Forget, list, evars, dvars, locals
<1>0. pos \in [Nodes -> Nat] /\ Chain(s, pos)
  BY DEF Inv, Chain
<1>1. TypeOK'
  <2>1. AfterCheck(d) \in DeqPcs
    BY DEF DeqPcs
  <2>2. dpc' = [dpc EXCEPT ![d] = AfterCheck(d)]
    OBVIOUS
  <2>3. dpc' \in [Dequeuers -> DeqPcs]
    BY <2>1, <2>2 DEF TypeOK
  <2>4. /\ first' \in [Dequeuers -> Pointers] /\ hd' \in [Dequeuers -> Pointers]
        /\ ans' \in [Dequeuers -> Items \cup {NoItem}]
        /\ last' \in [Threads -> Pointers] /\ nxt' \in [Threads -> Pointers]
    <3> HIDE DEF AfterCheck
    <3> QED
      BY DEF TypeOK, Threads, Pointers
  <2> QED
    BY <2>3, <2>4 DEF TypeOK
<1>2. Forward(pos) /\ Ends(pos)'
  BY <1>0 DEF Inv, Ends, Forward, Dequeuing, UpTo, After, TypeOK
<1>3. Chain(s, pos)'
  BY DEF Inv, Chain
<1>4. Dequeuing(pos, d)'
  <2>1. /\ UpTo(pos, first[d], head) /\ UpTo(pos, last[d], tail) /\ UpTo(pos, hd[d], head)
        /\ pos[first[d]] <= pos[last[d]] /\ pos[first[d]] <= pos[hd[d]]
        /\ IF nxt[d] = Null THEN pos[last[d]] <= pos[hd[d]] ELSE After(pos, hd[d], nxt[d])
    BY DEF Inv, Dequeuing
  <2>2. CASE AfterCheck(d) \notin {"help", "read"}
    <3>1. dpc'[d] \in {"head", "sleep", "idle"}
      BY <2>2 DEF TypeOK
    <3> QED
      BY <3>1 DEF Dequeuing
  <2>3. CASE AfterCheck(d) = "help"
    <3>1. first[d] = head /\ first[d] = last[d] /\ nxt[d] # Null
      BY <2>3
    <3>2. After(pos, last[d], nxt[d])
      BY <1>0, <2>1, <3>1 DEF UpTo, After, TypeOK
    <3>3. dpc'[d] = "help"
      BY <2>3 DEF TypeOK
    <3> HIDE DEF AfterCheck
    <3> QED
      BY <2>1, <2>3, <3>2, <3>3 DEF Dequeuing
  <2>4. CASE AfterCheck(d) = "read"
    <3>1. first[d] = head /\ first[d] # last[d]
      BY <2>4
    <3>2. pos[hd[d]] = pos[first[d]] /\ pos[first[d]] < pos[last[d]]
      BY <1>0, <2>1, <3>1, ChainInjective DEF UpTo, TypeOK
    <3>3. After(pos, first[d], nxt[d]) /\ pos[nxt[d]] <= pos[last[d]]
      BY <1>0, <2>1, <3>2 DEF UpTo, After
    <3>4. dpc'[d] = "read"
      BY <2>4 DEF TypeOK
    <3> HIDE DEF AfterCheck
    <3> QED
      BY <2>1, <2>4, <3>3, <3>4 DEF Dequeuing
  <2> QED
    BY <2>2, <2>3, <2>4
<1>5. ASSUME NEW x \in Enqueuers PROVE Enqueuing(pos, x)'
  <2>1. x # d
    BY ThreadsAssumption
  <2> QED
    BY <1>1, <1>2, <2>1, EnqueuerUndisturbed DEF TypeOK, Threads
<1>6. ASSUME NEW x \in Dequeuers PROVE Dequeuing(pos, x)'
  <2>1. CASE x = d
    BY <1>4, <2>1
  <2>2. CASE x # d
    BY <1>1, <1>2, <2>2, DequeuerUndisturbed, ThreadsAssumption DEF TypeOK, Threads
  <2> QED
    BY <2>1, <2>2
<1> QED
  BY <1>1, <1>2, <1>3, <1>5, <1>6 DEF Inv

\* sz.down() of a sleeper
LEMMA DeqSleepKept ==
  ASSUME TypeOK, NEW s, NEW pos, Inv(s, pos), NEW d \in Dequeuers, DeqSleep(d)
  PROVE  TypeOK' /\ Inv(s, pos)'
<1> USE DEF DeqSleep, DGoto, list, evars, dvars, locals
<1>0. pos \in [Nodes -> Nat] /\ Chain(s, pos)
  BY DEF Inv, Chain
<1>1. TypeOK'
  BY NodesAssumption
  DEF Inv, Dequeuing, UpTo, After, TypeOK, EnqPcs, DeqPcs, Threads, Pointers
<1>2. Forward(pos) /\ Ends(pos)'
  BY <1>0 DEF Inv, Ends, Forward, Dequeuing, UpTo, After, TypeOK
<1>3. Chain(s, pos)'
  BY DEF Inv, Chain
<1>4. Dequeuing(pos, d)'
  BY <1>0, <1>1, ChainNext, ChainInjective, NodesAssumption
  DEF Inv, Ends, Dequeuing, UpTo, After, TypeOK, Pointers, Threads
<1>5. ASSUME NEW x \in Enqueuers PROVE Enqueuing(pos, x)'
  <2>1. x # d
    BY ThreadsAssumption
  <2> QED
    BY <1>1, <1>2, <2>1, EnqueuerUndisturbed DEF TypeOK, Threads
<1>6. ASSUME NEW x \in Dequeuers PROVE Dequeuing(pos, x)'
  <2>1. CASE x = d
    BY <1>4, <2>1
  <2>2. CASE x # d
    BY <1>1, <1>2, <2>2, DequeuerUndisturbed, ThreadsAssumption DEF TypeOK, Threads
  <2> QED
    BY <2>1, <2>2
<1> QED
  BY <1>1, <1>2, <1>3, <1>5, <1>6 DEF Inv

\* sz.up() of a sleeper
LEMMA DeqWakeKept ==
  ASSUME TypeOK, NEW s, NEW pos, Inv(s, pos), NEW d \in Dequeuers, DeqWake(d)
  PROVE  TypeOK' /\ Inv(s, pos)'
<1> USE DEF DeqWake, DGoto, SemAfterWake, list, evars, dvars, locals
<1>0. pos \in [Nodes -> Nat] /\ Chain(s, pos)
  BY DEF Inv, Chain
<1>1. TypeOK'
  BY NodesAssumption
  DEF Inv, Dequeuing, UpTo, After, TypeOK, EnqPcs, DeqPcs, Threads, Pointers
<1>2. Forward(pos) /\ Ends(pos)'
  BY <1>0 DEF Inv, Ends, Forward, Dequeuing, UpTo, After, TypeOK
<1>3. Chain(s, pos)'
  BY DEF Inv, Chain
<1>4. Dequeuing(pos, d)'
  BY <1>0, <1>1, ChainNext, ChainInjective, NodesAssumption
  DEF Inv, Ends, Dequeuing, UpTo, After, TypeOK, Pointers, Threads
<1>5. ASSUME NEW x \in Enqueuers PROVE Enqueuing(pos, x)'
  <2>1. x # d
    BY ThreadsAssumption
  <2> QED
    BY <1>1, <1>2, <2>1, EnqueuerUndisturbed DEF TypeOK, Threads
<1>6. ASSUME NEW x \in Dequeuers PROVE Dequeuing(pos, x)'
  <2>1. CASE x = d
    BY <1>4, <2>1
  <2>2. CASE x # d
    BY <1>1, <1>2, <2>2, DequeuerUndisturbed, ThreadsAssumption DEF TypeOK, Threads
  <2> QED
    BY <2>1, <2>2
<1> QED
  BY <1>1, <1>2, <1>3, <1>5, <1>6 DEF Inv

\* A lagging tail is moved to the node after it.
LEMMA DeqHelpKept ==
  ASSUME TypeOK, NEW s, NEW pos, Inv(s, pos), NEW d \in Dequeuers, DeqHelp(d)
  PROVE  TypeOK' /\ Inv(s, pos)'
<1> USE DEF DeqHelp, DGoto, CasTail, HelpTarget, DLeave, Forget, list, evars, dvars, locals
<1>0. pos \in [Nodes -> Nat] /\ Chain(s, pos)
  BY DEF Inv, Chain
<1>1. TypeOK'
  BY NodesAssumption
  DEF Inv, Dequeuing, UpTo, After, TypeOK, EnqPcs, DeqPcs, Threads, Pointers
<1>2. Forward(pos) /\ Ends(pos)'
  BY <1>0 DEF Inv, Ends, Forward, Dequeuing, UpTo, After, TypeOK
<1>3. Chain(s, pos)'
  BY DEF Inv, Chain
<1>4. Dequeuing(pos, d)'
  BY <1>0, <1>1, ChainNext, ChainInjective, NodesAssumption
  DEF Inv, Ends, Dequeuing, UpTo, After, TypeOK, Pointers, Threads
<1>5. ASSUME NEW x \in Enqueuers PROVE Enqueuing(pos, x)'
  <2>1. x # d
    BY ThreadsAssumption
  <2> QED
    BY <1>1, <1>2, <2>1, EnqueuerUndisturbed DEF TypeOK, Threads
<1>6. ASSUME NEW x \in Dequeuers PROVE Dequeuing(pos, x)'
  <2>1. CASE x = d
    BY <1>4, <2>1
  <2>2. CASE x # d
    BY <1>1, <1>2, <2>2, DequeuerUndisturbed, ThreadsAssumption DEF TypeOK, Threads
  <2> QED
    BY <2>1, <2>2
<1> QED
  BY <1>1, <1>2, <1>3, <1>5, <1>6 DEF Inv

\* ans = next->t
LEMMA DeqReadKept ==
  ASSUME TypeOK, NEW s, NEW pos, Inv(s, pos), NEW d \in Dequeuers, DeqRead(d)
  PROVE  TypeOK' /\ Inv(s, pos)'
<1> USE DEF DeqRead, DGoto, list, evars, dvars, locals
<1>0. pos \in [Nodes -> Nat] /\ Chain(s, pos)
  BY DEF Inv, Chain
<1>1. TypeOK'
  BY NodesAssumption
  DEF Inv, Dequeuing, UpTo, After, TypeOK, EnqPcs, DeqPcs, Threads, Pointers
<1>2. Forward(pos) /\ Ends(pos)'
  BY <1>0 DEF Inv, Ends, Forward, Dequeuing, UpTo, After, TypeOK
<1>3. Chain(s, pos)'
  BY DEF Inv, Chain
<1>4. Dequeuing(pos, d)'
  BY <1>0, <1>1, ChainNext, ChainInjective, NodesAssumption
  DEF Inv, Ends, Dequeuing, UpTo, After, TypeOK, Pointers, Threads
<1>5. ASSUME NEW x \in Enqueuers PROVE Enqueuing(pos, x)'
  <2>1. x # d
    BY ThreadsAssumption
  <2> QED
    BY <1>1, <1>2, <2>1, EnqueuerUndisturbed DEF TypeOK, Threads
<1>6. ASSUME NEW x \in Dequeuers PROVE Dequeuing(pos, x)'
  <2>1. CASE x = d
    BY <1>4, <2>1
  <2>2. CASE x # d
    BY <1>1, <1>2, <2>2, DequeuerUndisturbed, ThreadsAssumption DEF TypeOK, Threads
  <2> QED
    BY <2>1, <2>2
<1> QED
  BY <1>1, <1>2, <1>3, <1>5, <1>6 DEF Inv

\* head moves to its successor, which is not beyond tail.
LEMMA DeqSwingKept ==
  ASSUME TypeOK, NEW s, NEW pos, Inv(s, pos), NEW d \in Dequeuers, DeqSwing(d)
  PROVE  TypeOK' /\ Inv(s, pos)'
<1> USE DEF DeqSwing, DGoto, HeadStill, DLeave, Forget, list, evars, dvars, locals
<1>0. pos \in [Nodes -> Nat] /\ Chain(s, pos)
  BY DEF Inv, Chain
<1>1. TypeOK'
  <2>1. dpc[d] = "swing" => After(pos, first[d], nxt[d]) /\ 1 <= pos[first[d]] /\ ans[d] = t[nxt[d]]
    BY DEF Inv, Dequeuing, UpTo
  <2>2. nxt[d] \in Nodes /\ ans[d] \in Items
    BY <1>0, <2>1 DEF After, Inv, Chain
  <2>3. got' \in [Dequeuers -> Seq(Items)]
    <3>1. got' = got \/ got' = [got EXCEPT ![d] = Append(got[d], ans[d])]
      OBVIOUS
    <3>2. Append(got[d], ans[d]) \in Seq(Items)
      BY <2>2 DEF TypeOK
    <3> QED
      BY <3>1, <3>2 DEF TypeOK
  <2>4. head' \in Nodes
    BY <2>2 DEF TypeOK
  <2> QED
    BY <2>3, <2>4, ZenonT(60) DEF TypeOK, DeqPcs, Threads, Pointers
<1>2. Forward(pos) /\ Ends(pos)'
  BY <1>0 DEF Inv, Ends, Forward, Dequeuing, UpTo, After, TypeOK
<1>3. Chain(s, pos)'
  BY DEF Inv, Chain
<1>4. Dequeuing(pos, d)'
  BY <1>0, <1>1, ChainNext, ChainInjective, NodesAssumption
  DEF Inv, Ends, Dequeuing, UpTo, After, TypeOK, Pointers, Threads
<1>5. ASSUME NEW x \in Enqueuers PROVE Enqueuing(pos, x)'
  <2>1. x # d
    BY ThreadsAssumption
  <2> QED
    BY <1>1, <1>2, <2>1, EnqueuerUndisturbed DEF TypeOK, Threads
<1>6. ASSUME NEW x \in Dequeuers PROVE Dequeuing(pos, x)'
  <2>1. CASE x = d
    BY <1>4, <2>1
  <2>2. CASE x # d
    BY <1>1, <1>2, <2>2, DequeuerUndisturbed, ThreadsAssumption DEF TypeOK, Threads
  <2> QED
    BY <2>1, <2>2
<1> QED
  BY <1>1, <1>2, <1>3, <1>5, <1>6 DEF Inv

\* sz.down()
LEMMA DeqDownKept ==
  ASSUME TypeOK, NEW s, NEW pos, Inv(s, pos), NEW d \in Dequeuers, DeqDown(d)
  PROVE  TypeOK' /\ Inv(s, pos)'
<1> USE DEF DeqDown, DGoto, list, evars, dvars, locals
<1>0. pos \in [Nodes -> Nat] /\ Chain(s, pos)
  BY DEF Inv, Chain
<1>1. TypeOK'
  BY NodesAssumption
  DEF Inv, Dequeuing, UpTo, After, TypeOK, EnqPcs, DeqPcs, Threads, Pointers
<1>2. Forward(pos) /\ Ends(pos)'
  BY <1>0 DEF Inv, Ends, Forward, Dequeuing, UpTo, After, TypeOK
<1>3. Chain(s, pos)'
  BY DEF Inv, Chain
<1>4. Dequeuing(pos, d)'
  BY <1>0, <1>1, ChainNext, ChainInjective, NodesAssumption
  DEF Inv, Ends, Dequeuing, UpTo, After, TypeOK, Pointers, Threads
<1>5. ASSUME NEW x \in Enqueuers PROVE Enqueuing(pos, x)'
  <2>1. x # d
    BY ThreadsAssumption
  <2> QED
    BY <1>1, <1>2, <2>1, EnqueuerUndisturbed DEF TypeOK, Threads
<1>6. ASSUME NEW x \in Dequeuers PROVE Dequeuing(pos, x)'
  <2>1. CASE x = d
    BY <1>4, <2>1
  <2>2. CASE x # d
    BY <1>1, <1>2, <2>2, DequeuerUndisturbed, ThreadsAssumption DEF TypeOK, Threads
  <2> QED
    BY <2>1, <2>2
<1> QED
  BY <1>1, <1>2, <1>3, <1>5, <1>6 DEF Inv

\* delete first
LEMMA DeqFreeKept ==
  ASSUME TypeOK, NEW s, NEW pos, Inv(s, pos), NEW d \in Dequeuers, DeqFree(d)
  PROVE  TypeOK' /\ Inv(s, pos)'
<1> USE DEF DeqFree, DGoto, DLeave, Forget, list, evars, dvars, locals
<1>0. pos \in [Nodes -> Nat] /\ Chain(s, pos)
  BY DEF Inv, Chain
<1>1. TypeOK'
  BY NodesAssumption
  DEF Inv, Dequeuing, UpTo, After, TypeOK, EnqPcs, DeqPcs, Threads, Pointers
<1>2. Forward(pos) /\ Ends(pos)'
  BY <1>0 DEF Inv, Ends, Forward, Dequeuing, UpTo, After, TypeOK
<1>3. Chain(s, pos)'
  BY DEF Inv, Chain
<1>4. Dequeuing(pos, d)'
  BY <1>0, <1>1, ChainNext, ChainInjective, NodesAssumption
  DEF Inv, Ends, Dequeuing, UpTo, After, TypeOK, Pointers, Threads
<1>5. ASSUME NEW x \in Enqueuers PROVE Enqueuing(pos, x)'
  <2>1. x # d
    BY ThreadsAssumption
  <2> QED
    BY <1>1, <1>2, <2>1, EnqueuerUndisturbed DEF TypeOK, Threads
<1>6. ASSUME NEW x \in Dequeuers PROVE Dequeuing(pos, x)'
  <2>1. CASE x = d
    BY <1>4, <2>1
  <2>2. CASE x # d
    BY <1>1, <1>2, <2>2, DequeuerUndisturbed, ThreadsAssumption DEF TypeOK, Threads
  <2> QED
    BY <2>1, <2>2
<1> QED
  BY <1>1, <1>2, <1>3, <1>5, <1>6 DEF Inv

\* A call of wait_deq or nowait_deq.
LEMMA DeqCallKept ==
  ASSUME TypeOK, NEW s, NEW pos, Inv(s, pos), NEW d \in Dequeuers, NEW w \in BOOLEAN,
         DeqCall(d, w)
  PROVE  TypeOK' /\ Inv(s, pos)'
<1> USE DEF DeqCall, DGoto, list, evars, dvars, locals
<1>0. pos \in [Nodes -> Nat] /\ Chain(s, pos)
  BY DEF Inv, Chain
<1>1. TypeOK'
  BY DEF TypeOK, DeqPcs
<1>2. Forward(pos) /\ Ends(pos)'
  BY <1>0 DEF Inv, Ends, Forward, TypeOK
<1>3. Chain(s, pos)'
  BY DEF Inv, Chain
<1>4. ASSUME NEW x \in Enqueuers PROVE Enqueuing(pos, x)'
  BY <1>1, <1>2, EnqueuerUndisturbed
<1>5. ASSUME NEW x \in Dequeuers PROVE Dequeuing(pos, x)'
  <2>1. CASE x = d
    BY <2>1 DEF Dequeuing, TypeOK
  <2>2. CASE x # d
    BY <1>1, <1>2, <2>2, DequeuerUndisturbed DEF TypeOK
  <2> QED
    BY <2>1, <2>2
<1> QED
  BY <1>1, <1>2, <1>3, <1>4, <1>5 DEF Inv

----------------------------------------------------------------------------
(* The two steps of enq that change the list: a node is made, and linked. *)

\* new returns a node outside the chain, so nothing on the chain changes.
LEMMA EnqNewKept ==
  ASSUME TypeOK, NEW s, NEW pos, Inv(s, pos), NEW e \in Enqueuers,
         NEW a \in Nodes \ used, EnqNew(e, a)
  PROVE  TypeOK' /\ Inv(s, pos)'
<1> USE DEF EnqNew, EGoto, dvars, locals
<1>0. pos \in [Nodes -> Nat] /\ Chain(s, pos) /\ pos[a] = 0
  BY DEF Inv, Chain
<1>1. count[e] + 1 \in 1 .. MaxItems /\ <<e, count[e] + 1>> \in Items
  BY MaxItemsAssumption DEF TypeOK, Items
<1>2. TypeOK'
  BY <1>1, MaxItemsAssumption DEF TypeOK, EnqPcs, Pointers
<1>3. /\ \A b \in Nodes : b # a => next'[b] = next[b] /\ t'[b] = t[b]
      /\ next'[a] = Null /\ t'[a] = <<e, count[e] + 1>>
  BY DEF TypeOK
<1>4. Chain(s, pos)'
  <2>1. \A i \in 1 .. Len(s) : s[i] \in Nodes /\ s[i] # a
    BY <1>0 DEF Chain
  <2>2. Len(s) \in 1 .. Len(s)
    BY <1>0 DEF Chain
  <2>3. next'[s[Len(s)]] = Null
    BY <1>0, <1>3, <2>1, <2>2 DEF Chain
  <2>4. \A i \in 1 .. Len(s) - 1 : next'[s[i]] = s[i + 1]
    BY <1>0, <1>3, <2>1 DEF Chain
  <2>5. \A b \in Nodes : pos[b] > 1 => t'[b] \in Items
    BY <1>0, <1>3 DEF Chain
  <2> QED
    BY <1>0, <2>3, <2>4, <2>5 DEF Chain
<1>5. Ends(pos)'
  BY DEF Inv, Ends
<1>6. ASSUME NEW x \in Enqueuers PROVE Enqueuing(pos, x)'
  <2>1. CASE x = e
    <3>1. epc'[e] = "tail" /\ n'[e] = a /\ count'[e] = count[e] + 1
      BY DEF TypeOK
    <3> QED
      BY <1>0, <1>1, <1>3, <2>1, <3>1 DEF Enqueuing
  <2>2. CASE x # e
    <3>1. epc'[x] = epc[x] /\ n'[x] = n[x] /\ count'[x] = count[x]
      BY <2>2 DEF TypeOK
    <3>2. Enqueuing(pos, x)
      BY DEF Inv
    <3>3. n[x] \in used => next'[n[x]] = next[n[x]] /\ t'[n[x]] = t[n[x]]
      BY <1>3 DEF TypeOK
    <3> QED
      BY <3>1, <3>2, <3>3 DEF Enqueuing, UpTo
  <2> QED
    BY <2>1, <2>2
<1>7. ASSUME NEW x \in Dequeuers PROVE Dequeuing(pos, x)'
  <2>1. Dequeuing(pos, x)
    BY DEF Inv
  <2>2. dpc[x] = "swing" => t'[nxt[x]] = t[nxt[x]]
    BY <1>0, <1>3, <2>1 DEF Dequeuing, After, UpTo
  <2> QED
    BY <2>1, <2>2 DEF Dequeuing, UpTo
<1> QED
  BY <1>2, <1>4, <1>5, <1>6, <1>7 DEF Inv

\* The compare-and-swap of last->next succeeds only at the end of the chain, which
\* it makes longer by one.
LEMMA EnqLinkKept ==
  ASSUME TypeOK, NEW s, NEW pos, Inv(s, pos), NEW e \in Enqueuers, EnqLink(e),
         next[last[e]] = Null, NEW b, b = n[e]
  PROVE  TypeOK' /\ Inv(Append(s, b), [pos EXCEPT ![b] = Len(s) + 1])'
<1> DEFINE s2 == Append(s, b)
           pos2 == [pos EXCEPT ![b] = Len(s) + 1]
<1> USE DEF EnqLink, EGoto, dvars, locals
<1>0. pos \in [Nodes -> Nat] /\ Chain(s, pos) /\ s \in Seq(Nodes) /\ Len(s) \in Nat
  BY DEF Inv, Chain
<1>1. /\ b \in used /\ b \in Nodes /\ pos[b] = 0 /\ next[b] = Null
      /\ count[e] \in 1 .. MaxItems /\ t[b] = <<e, count[e]>>
      /\ UpTo(pos, last[e], tail)
  BY DEF Inv, Enqueuing, TypeOK
<1>2. last[e] \in Nodes /\ pos[last[e]] = Len(s)
  BY <1>0, <1>1, ChainNext DEF UpTo
<1>3. next' = [next EXCEPT ![last[e]] = b] /\ last[e] # b /\ b # Null
  BY <1>0, <1>1, <1>2, NodesAssumption, SMTT(30) DEF Inv, Chain
<1>4. TypeOK'
  BY <1>1, <1>3 DEF TypeOK, EnqPcs, Pointers
<1>5. pos2 \in [Nodes -> Nat] /\ pos2[b] = Len(s) + 1 /\ \A a \in Nodes : a # b => pos2[a] = pos[a]
  BY <1>0, <1>1
<1>6. /\ s2 \in Seq(Nodes) /\ Len(s2) = Len(s) + 1 /\ s2[Len(s) + 1] = b
      /\ \A i \in 1 .. Len(s) : s2[i] = s[i] /\ s[i] \in Nodes /\ s[i] # b
  BY <1>0, <1>1 DEF Chain
<1>7. Chain(s2, pos2)'
  <2>1. \A i \in 1 .. Len(s2) : pos2[s2[i]] = i
    BY <1>0, <1>5, <1>6 DEF Chain
  <2>2. \A a \in Nodes : pos2[a] # 0 => pos2[a] <= Len(s2) /\ s2[pos2[a]] = a
    BY <1>0, <1>5, <1>6 DEF Chain
  <2>3. \A i \in 1 .. Len(s2) - 1 : next'[s2[i]] = s2[i + 1]
    <3> SUFFICES ASSUME NEW i \in 1 .. Len(s2) - 1 PROVE next'[s2[i]] = s2[i + 1]
      OBVIOUS
    <3>1. CASE i = Len(s)
      <4>1. s[i] = last[e]
        BY <1>0, <1>2, <3>1 DEF Chain
      <4> QED
        BY <1>0, <1>2, <1>3, <1>6, <3>1, <4>1 DEF TypeOK
    <3>2. CASE i # Len(s)
      <4>1. i \in 1 .. Len(s) - 1 /\ i \in 1 .. Len(s) /\ i + 1 \in 1 .. Len(s)
        BY <1>0, <1>6, <3>2
      <4>2. s[i] # last[e]
        BY <1>0, <1>2, <3>2, <4>1 DEF Chain
      <4>3. next[s[i]] = s[i + 1] /\ s[i] \in Nodes
        BY <1>0, <4>1 DEF Chain
      <4>4. next'[s[i]] = next[s[i]]
        BY <1>3, <4>2, <4>3 DEF TypeOK
      <4> QED
        BY <1>6, <4>1, <4>3, <4>4
    <3> QED
      BY <3>1, <3>2
  <2>4. next'[s2[Len(s2)]] = Null
    BY <1>1, <1>3, <1>6 DEF TypeOK
  <2>5. \A a \in Nodes : pos2[a] > 1 => t'[a] \in Items
    <3>1. t[b] \in Items
      BY <1>1 DEF Items
    <3> QED
      BY <1>0, <1>5, <3>1 DEF Chain
  <2>6. \A a \in Nodes \ used' : pos2[a] = 0
    BY <1>0, <1>1, <1>5 DEF Chain
  <2> QED
    BY <1>5, <1>6, <2>1, <2>2, <2>3, <2>4, <2>5, <2>6, <1>0, SMTT(30) DEF Chain
<1>8. \A a \in Nodes : 1 <= pos[a] => pos2[a] = pos[a]
  BY <1>0, <1>1, <1>5
<1>9. head \in Nodes /\ tail \in Nodes /\ 1 <= pos[head] /\ 1 <= pos[tail]
  <2>1. head \in Nodes /\ tail \in Nodes
    BY DEF TypeOK
  <2>2. 1 <= pos[head] /\ pos[head] <= pos[tail]
    BY DEF Inv, Ends
  <2> QED
    BY <1>0, <2>1, <2>2
<1>10. \A x : UpTo(pos, x, tail) => UpTo(pos2, x, tail)
  BY <1>0, <1>8, <1>9 DEF UpTo
<1>11. \A x : UpTo(pos, x, head) => UpTo(pos2, x, head)
  BY <1>0, <1>8, <1>9 DEF UpTo
<1>12. \A x, y : After(pos, x, y) /\ 1 <= pos[x] => After(pos2, x, y)
  BY <1>0, <1>8 DEF After
<1>13. Ends(pos2)'
  BY <1>8, <1>9 DEF Inv, Ends
<1>14. ASSUME NEW x \in Enqueuers PROVE Enqueuing(pos2, x)'
  <2>1. Enqueuing(pos, x)
    BY DEF Inv
  <2>2. CASE x = e
    <3>1. epc'[e] = "swing" /\ UpTo(pos2, last[e], tail) /\ After(pos2, last[e], n[e])
      BY <1>0, <1>1, <1>2, <1>3, <1>5, <1>10 DEF After, TypeOK
    <3> QED
      BY <2>2, <3>1 DEF Enqueuing
  <2>3. CASE x # e
    <3>1. epc'[x] = epc[x]
      BY <2>3 DEF TypeOK
    <3>2. /\ epc[x] \in {"next", "check", "link", "help", "swing"} => UpTo(pos2, last[x], tail)
          /\ epc[x] = "check" => nxt[x] = Null \/ After(pos2, last[x], nxt[x])
          /\ epc[x] = "help" => After(pos2, last[x], nxt[x])
          /\ epc[x] = "swing" => After(pos2, last[x], n[x])
      <4>1. epc[x] \in {"check", "help", "swing"} => 1 <= pos[last[x]]
        BY <2>1 DEF Enqueuing, UpTo
      <4> QED
        BY <2>1, <1>10, <1>12, <4>1 DEF Enqueuing
    <3>3. epc[x] \in {"tail", "next", "check", "link", "help"} =>
            /\ n[x] \in used /\ pos2[n[x]] = 0 /\ next'[n[x]] = Null
            /\ count[x] \in 1 .. MaxItems /\ t[n[x]] = <<x, count[x]>>
      <4> SUFFICES ASSUME epc[x] \in {"tail", "next", "check", "link", "help"}
                   PROVE  /\ n[x] \in used /\ pos2[n[x]] = 0 /\ next'[n[x]] = Null
                          /\ count[x] \in 1 .. MaxItems /\ t[n[x]] = <<x, count[x]>>
        OBVIOUS
      <4>1. /\ n[x] \in used /\ pos[n[x]] = 0 /\ next[n[x]] = Null
            /\ count[x] \in 1 .. MaxItems /\ t[n[x]] = <<x, count[x]>>
        BY <2>1 DEF Enqueuing
      <4>2. n[x] # b /\ n[x] \in Nodes
        BY <1>1, <2>3, <4>1 DEF TypeOK
      <4>3. n[x] # last[e]
        BY <1>0, <1>1, <4>1 DEF UpTo
      <4> QED
        BY <1>3, <1>5, <4>1, <4>2, <4>3 DEF TypeOK
    <3> QED
      BY <3>1, <3>2, <3>3 DEF Enqueuing
  <2> QED
    BY <2>2, <2>3
<1>15. ASSUME NEW x \in Dequeuers PROVE Dequeuing(pos2, x)'
  <2>1. Dequeuing(pos, x)
    BY DEF Inv
  <2>2. \A y \in {first[x], last[x], hd[x], nxt[x]} :
            y \in Nodes /\ 1 <= pos[y] => pos2[y] = pos[y]
    BY <1>8
  <2>3. \A y, z : After(pos, y, z) /\ 1 <= pos[y] => 1 <= pos[z] /\ z \in Nodes
    BY <1>0 DEF After
  <2> QED
    BY <2>1, <2>2, <2>3, <1>10, <1>11, <1>12 DEF Dequeuing, UpTo
<1> QED
  BY <1>4, <1>7, <1>13, <1>14, <1>15 DEF Inv

\* The compare-and-swap of last->next that fails changes nothing.
LEMMA EnqLinkFailKept ==
  ASSUME TypeOK, NEW s, NEW pos, Inv(s, pos), NEW e \in Enqueuers, EnqLink(e),
         next[last[e]] # Null
  PROVE  TypeOK' /\ Inv(s, pos)'
<1> USE DEF EnqLink, EGoto, ERetry, Forget, dvars, locals
<1>0. pos \in [Nodes -> Nat] /\ Chain(s, pos)
  BY DEF Inv, Chain
<1>1. TypeOK'
  BY DEF TypeOK, EnqPcs, Threads, Pointers
<1>2. Forward(pos) /\ Ends(pos)'
  BY <1>0 DEF Inv, Ends, Forward, TypeOK
<1>3. Chain(s, pos)'
  BY DEF Inv, Chain
<1>4. Enqueuing(pos, e)'
  BY DEF Inv, Enqueuing, TypeOK
<1>5. ASSUME NEW x \in Enqueuers PROVE Enqueuing(pos, x)'
  <2>1. CASE x = e
    BY <1>4, <2>1
  <2>2. CASE x # e
    BY <1>1, <1>2, <2>2, EnqueuerUndisturbed DEF TypeOK, Threads
  <2> QED
    BY <2>1, <2>2
<1>6. ASSUME NEW x \in Dequeuers PROVE Dequeuing(pos, x)'
  <2>1. x # e
    BY ThreadsAssumption
  <2> QED
    BY <1>1, <1>2, <2>1, DequeuerUndisturbed DEF TypeOK, Threads
<1> QED
  BY <1>1, <1>2, <1>3, <1>5, <1>6 DEF Inv

----------------------------------------------------------------------------
(* The invariant of the whole queue. *)

\* If no address is handed out twice, every step keeps the invariant.
LEMMA InvNext ==
  ASSUME ~ Reuse, IInv, [Next]_vars
  PROVE  IInv'
<1> PICK s, pos : Inv(s, pos)
  BY DEF IInv
<1>0. TypeOK
  BY DEF IInv
<1>1. ASSUME NEW e \in Enqueuers, Enqueue(e) PROVE IInv'
  <2>1. ASSUME NEW a \in Available, EnqNew(e, a) PROVE IInv'
    <3>1. a \in Nodes \ used
      BY <2>1 DEF Available, Unused
    <3> QED
      BY <1>0, <2>1, <3>1, EnqNewKept DEF IInv
  <2>2. CASE EnqLink(e)
    <3> PICK b : b = n[e]
      OBVIOUS
    <3>1. CASE next[last[e]] = Null
      BY <1>0, <2>2, <3>1, EnqLinkKept DEF IInv
    <3>2. CASE next[last[e]] # Null
      BY <1>0, <2>2, <3>2, EnqLinkFailKept DEF IInv
    <3> QED
      BY <3>1, <3>2
  <2>3. CASE EnqTail(e)
    BY <1>0, <2>3, EnqTailKept DEF IInv
  <2>4. CASE EnqNext(e)
    BY <1>0, <2>4, EnqNextKept DEF IInv
  <2>5. CASE EnqCheck(e)
    BY <1>0, <2>5, EnqCheckKept DEF IInv
  <2>6. CASE EnqSwing(e)
    BY <1>0, <2>6, EnqSwingKept DEF IInv
  <2>7. CASE EnqUp(e)
    BY <1>0, <2>7, EnqUpKept DEF IInv
  <2>8. CASE EnqHelp(e)
    BY <1>0, <2>8, EnqHelpKept DEF IInv
  <2> QED
    BY <1>1, <2>1, <2>2, <2>3, <2>4, <2>5, <2>6, <2>7, <2>8 DEF Enqueue
<1>2. ASSUME NEW d \in Dequeuers, Dequeue(d) PROVE IInv'
  <2>1. ASSUME NEW w \in BOOLEAN, DeqCall(d, w) PROVE IInv'
    BY <1>0, <2>1, DeqCallKept DEF IInv
  <2>2. CASE DeqHead(d)
    BY <1>0, <2>2, DeqHeadKept DEF IInv
  <2>3. CASE DeqTail(d)
    BY <1>0, <2>3, DeqTailKept DEF IInv
  <2>4. CASE DeqHd(d)
    BY <1>0, <2>4, DeqHdKept DEF IInv
  <2>5. CASE DeqNext(d)
    BY <1>0, <2>5, DeqNextKept DEF IInv
  <2>6. CASE DeqCheck(d)
    BY <1>0, <2>6, DeqCheckKept DEF IInv
  <2>7. CASE DeqSleep(d)
    BY <1>0, <2>7, DeqSleepKept DEF IInv
  <2>8. CASE DeqWake(d)
    BY <1>0, <2>8, DeqWakeKept DEF IInv
  <2>9. CASE DeqHelp(d)
    BY <1>0, <2>9, DeqHelpKept DEF IInv
  <2>10. CASE DeqRead(d)
    BY <1>0, <2>10, DeqReadKept DEF IInv
  <2>11. CASE DeqSwing(d)
    BY <1>0, <2>11, DeqSwingKept DEF IInv
  <2>12. CASE DeqDown(d)
    BY <1>0, <2>12, DeqDownKept DEF IInv
  <2>13. CASE DeqFree(d)
    BY <1>0, <2>13, DeqFreeKept DEF IInv
  <2> QED
    BY <1>2, <2>1, <2>2, <2>3, <2>4, <2>5, <2>6, <2>7, <2>8, <2>9, <2>10, <2>11,
       <2>12, <2>13
    DEF Dequeue
<1>3. CASE UNCHANGED vars
  <2>1. TypeOK' /\ Inv(s, pos)'
    BY <1>0, <1>3
    DEF TypeOK, Inv, Chain, Ends, Enqueuing, Dequeuing, UpTo, After,
        vars, list, evars, dvars, locals
  <2> QED
    BY <2>1 DEF IInv
<1> QED
  BY <1>1, <1>2, <1>3 DEF Next

\* Both ends of the list, and all that a thread reads of it, stay on one chain of
\* nodes: in LockFreeQueue.hpp no pointer that is followed is ever null, and no
\* compare-and-swap puts one into head or tail, when addresses are not reused.
THEOREM Invariance == ~ Reuse => (Spec => []IInv)
<1> SUFFICES ASSUME ~ Reuse PROVE Spec => []IInv
  OBVIOUS
<1>1. IInv /\ [Next]_vars => IInv'
  BY InvNext
<1> QED
  BY <1>1, InvInit, PTL DEF Spec

\* Every variable keeps its type; for head and tail this says that they are never
\* null, which enq and the dequeues rely on without a test.
THEOREM TypeCorrect == ~ Reuse => (Spec => []TypeOK)
<1> SUFFICES ASSUME ~ Reuse PROVE Spec => []TypeOK
  OBVIOUS
<1>0. Spec => []IInv
  BY Invariance
<1>1. IInv => TypeOK
  BY DEF IInv
<1> QED
  BY <1>0, <1>1, PTL

----------------------------------------------------------------------------
(* What the queue contains. *)

\* Every set of numbers has a least element.
LEMMA Least ==
  ASSUME NEW T \in SUBSET Nat, T # {}
  PROVE  \E x \in T : \A y \in T : x <= y
<1> DEFINE F == {1 .. k : k \in T}
           R == StrictSubsetOrdering(Nat)
<1>1. F \subseteq FiniteSubsetsOf(Nat) /\ F # {}
  <2>1. \A k \in T : IsFiniteSet(1 .. k) /\ 1 .. k \subseteq Nat
    BY FS_Interval
  <2> QED
    BY <2>1 DEF FiniteSubsetsOf
<1>2. \E m \in F : \A l \in F : ~ (<<l, m>> \in R)
  <2> HIDE DEF F, R
  <2>1. IsWellFoundedOn(R, FiniteSubsetsOf(Nat))
    BY FS_StrictSubsetOrderingWellFounded DEF R
  <2> QED
    BY <1>1, <2>1, WFMin
<1>3. PICK x \in T : \A y \in T : ~ (<<1 .. y, 1 .. x>> \in R)
  BY <1>2
<1>4. \A y \in T : y < x => 1 .. y \subseteq 1 .. x /\ x \in 1 .. x /\ x \notin 1 .. y
  OBVIOUS
<1>5. \A y \in T : y < x => <<1 .. y, 1 .. x>> \in R
  <2> SUFFICES ASSUME NEW y \in T, y < x PROVE <<1 .. y, 1 .. x>> \in R
    OBVIOUS
  <2>1. 1 .. y \in SUBSET Nat /\ 1 .. x \in SUBSET Nat
    OBVIOUS
  <2>2. 1 .. y \subseteq 1 .. x /\ 1 .. y # 1 .. x
    BY <1>4
  <2> QED
    BY <2>1, <2>2 DEF StrictSubsetOrdering
<1> HIDE DEF R
<1>6. \A y \in T : ~ (y < x)
  BY <1>3, <1>5
<1> QED
  BY <1>6

\* The chain is no longer than there are nodes.
LEMMA ChainFits ==
  ASSUME NEW s, NEW pos, Chain(s, pos)
  PROVE  Cardinality(Nodes) \in Nat /\ Len(s) <= Cardinality(Nodes)
<1>1. s \in Injection(1 .. Len(s), Nodes)
  <2>1. s \in [1 .. Len(s) -> Nodes]
    BY DEF Chain
  <2>2. \A i, j \in 1 .. Len(s) : s[i] = s[j] => i = j
    BY DEF Chain
  <2> QED
    BY <2>1, <2>2 DEF Injection, IsInjective
<1>2. Cardinality(1 .. Len(s)) <= Cardinality(Nodes)
  BY <1>1, FS_Injection, NodesAssumption
<1>3. Cardinality(1 .. Len(s)) = Len(s)
  <2>1. Len(s) \in Int /\ Len(s) > 0
    BY DEF Chain
  <2> QED
    BY <2>1, FS_Interval, SMTT(30)
<1> QED
  BY <1>2, <1>3, FS_CardinalityType, NodesAssumption

\* From head on, the path of the next fields is the rest of the chain.
LEMMA PathIsChain ==
  ASSUME NEW s, NEW pos, Inv(s, pos), TypeOK
  PROVE  Path = [i \in 1 .. Cardinality(Nodes) |->
                    IF pos[head] + i - 1 <= Len(s) THEN s[pos[head] + i - 1] ELSE Null]
<1> DEFINE N == Cardinality(Nodes)
           h == pos[head]
           rest == [i \in 1 .. N |-> IF h + i - 1 <= Len(s) THEN s[h + i - 1] ELSE Null]
           Step(f, i) == IF i = 1 THEN head
                         ELSE LET a == f[i - 1] IN IF a = Null THEN Null ELSE next[a]
<1>0. Chain(s, pos) /\ s \in Seq(Nodes) /\ Len(s) \in Nat /\ N \in Nat
  <2>1. Chain(s, pos)
    BY DEF Inv
  <2>2. N \in Nat
    BY <2>1, ChainFits
  <2> QED
    BY <2>1, <2>2 DEF Chain
<1>1. h \in 1 .. Len(s) /\ s[h] = head
  BY DEF Inv, Chain, Ends, TypeOK
<1>2. \A i \in 1 .. N : rest[i] = Step(rest, i)
  <2> SUFFICES ASSUME NEW i \in 1 .. N PROVE rest[i] = Step(rest, i)
    OBVIOUS
  <2>1. CASE i = 1
    BY <1>0, <1>1, <2>1
  <2>2. CASE i # 1 /\ h + i - 2 > Len(s)
    BY <1>0, <1>1, <2>2
  <2>3. CASE i # 1 /\ h + i - 2 <= Len(s)
    <3>1. i - 1 \in 1 .. N /\ h + i - 2 \in 1 .. Len(s)
      BY <1>0, <1>1, <2>3
    <3>2. rest[i - 1] = s[h + i - 2] /\ s[h + i - 2] \in Nodes
      BY <1>0, <1>1, <3>1
    <3>3. pos[s[h + i - 2]] = h + i - 2
      BY <1>0, <3>1 DEF Chain
    <3>4. rest[i] = next[s[h + i - 2]]
      <4>1. CASE h + i - 2 = Len(s)
        BY <1>0, <1>1, <4>1 DEF Chain
      <4>2. CASE h + i - 2 # Len(s)
        <5>1. h + i - 2 \in 1 .. Len(s) - 1 /\ (h + i - 2) + 1 = h + i - 1
          BY <1>0, <1>1, <3>1, <4>2, SMTT(30)
        <5>2. next[s[h + i - 2]] = s[h + i - 1]
          BY <1>0, <5>1 DEF Chain
        <5> QED
          BY <1>0, <1>1, <5>1, <5>2
      <4> QED
        BY <4>1, <4>2
    <3> QED
      BY <2>3, <3>2, <3>4, NodesAssumption
  <2> QED
    BY <1>0, <1>1, <2>1, <2>2, <2>3
<1>3. rest = [i \in 1 .. N |-> Step(rest, i)]
  BY <1>2
<1>4. Path = [i \in 1 .. N |-> Step(Path, i)]
  <2> HIDE DEF rest
  <2> QED
    BY <1>3 DEF Path
<1>5. \A i \in 1 .. N : Path[i] = rest[i]
  <2> DEFINE T == {i \in 1 .. N : Path[i] # rest[i]}
  <2> SUFFICES ASSUME T # {} PROVE FALSE
    OBVIOUS
  <2>1. PICK i \in T : \A j \in T : i <= j
    <3>1. T \in SUBSET Nat
      BY <1>0
    <3> HIDE DEF T
    <3> QED
      BY <3>1, Least
  <2> HIDE DEF rest
  <2>2. Path[i] = Step(Path, i) /\ rest[i] = Step(rest, i)
    BY <1>2, <1>4
  <2>3. i # 1 => Path[i - 1] = rest[i - 1]
    BY <1>0, <2>1
  <2> QED
    BY <2>2, <2>3
<1> QED
  BY <1>4, <1>5

\* The contents of the queue are the items of the chain behind head.
BehindHead ==
    \A s, pos : TypeOK /\ Inv(s, pos) =>
        Contents = [i \in 1 .. Len(s) - pos[head] |-> t[s[pos[head] + i]]]

\* The items of the queue are those of the nodes behind head.
LEMMA ContentsOfChain == BehindHead
<1> USE DEF BehindHead
<1> SUFFICES ASSUME NEW s, NEW pos, TypeOK, Inv(s, pos)
             PROVE  Contents = [i \in 1 .. Len(s) - pos[head] |-> t[s[pos[head] + i]]]
  OBVIOUS
<1> DEFINE N == Cardinality(Nodes)
           h == pos[head]
<1>0. Chain(s, pos) /\ s \in Seq(Nodes) /\ Len(s) \in Nat /\ N \in Nat /\ Len(s) <= N
  BY ChainFits, SMTT(30) DEF Inv, Chain
<1>1. h \in 1 .. Len(s)
  BY DEF Inv, Chain, Ends, TypeOK
<1>2. Path = [i \in 1 .. N |-> IF h + i - 1 <= Len(s) THEN s[h + i - 1] ELSE Null]
  BY PathIsChain
<1>3. {j \in DOMAIN Path : Path[j] # Null} = 1 .. Len(s) - h + 1
  <2>1. DOMAIN Path = 1 .. N
    BY <1>2
  <2>2. \A j \in 1 .. N : Path[j] # Null <=> h + j - 1 <= Len(s)
    BY <1>0, <1>1, <1>2, NodesAssumption
  <2> QED
    BY <1>0, <1>1, <2>1, <2>2
<1>4. Cardinality({j \in DOMAIN Path : Path[j] # Null}) - 1 = Len(s) - h
  <2>1. Len(s) - h + 1 \in Int /\ 1 <= Len(s) - h + 1
    BY <1>0, <1>1
  <2>2. Cardinality(1 .. Len(s) - h + 1) = Len(s) - h + 1
    BY <2>1, FS_Interval
  <2> DEFINE J == {j \in DOMAIN Path : Path[j] # Null}
  <2>3. Cardinality(J) = Len(s) - h + 1
    BY <1>3, <2>2
  <2> HIDE DEF J
  <2>4. Cardinality(J) - 1 = Len(s) - h
    BY <1>0, <1>1, <2>3
  <2> QED
    BY <2>4 DEF J
<1>5. \A i \in 1 .. Len(s) - h : Path[i + 1] = s[h + i]
  BY <1>0, <1>1, <1>2
<1> QED
  BY <1>4, <1>5 DEF Contents

\* The same in the state after a step.
LEMMA ContentsOfChainNext ==
  ASSUME NEW s, NEW pos, TypeOK', Inv(s, pos)'
  PROVE  Contents' = [i \in 1 .. Len(s) - pos[head'] |-> t'[s[pos[head'] + i]]]
<1>1. BehindHead'
  BY ContentsOfChain, PTL
<1> QED
  BY <1>1 DEF BehindHead

\* Where the contents of the queue are on the chain.
LEMMA ContentsPlace ==
  ASSUME NEW s, NEW pos, TypeOK, Inv(s, pos)
  PROVE  /\ Chain(s, pos) /\ pos \in [Nodes -> Nat] /\ s \in Seq(Nodes)
         /\ head \in Nodes /\ pos[head] \in 1 .. Len(s) /\ Len(s) \in Nat
         /\ Contents = [i \in 1 .. Len(s) - pos[head] |-> t[s[pos[head] + i]]]
         /\ Contents \in Seq(Items) /\ Len(Contents) = Len(s) - pos[head]
<1>1. Chain(s, pos) /\ pos \in [Nodes -> Nat] /\ s \in Seq(Nodes) /\ Len(s) \in Nat
  BY DEF Inv, Chain
<1>2. head \in Nodes /\ pos[head] \in 1 .. Len(s)
  BY DEF Inv, Chain, Ends, TypeOK
<1>3. Contents = [i \in 1 .. Len(s) - pos[head] |-> t[s[pos[head] + i]]]
  BY ContentsOfChain DEF BehindHead
<1>4. \A i \in 1 .. Len(s) - pos[head] : t[s[pos[head] + i]] \in Items
  <2> SUFFICES ASSUME NEW i \in 1 .. Len(s) - pos[head]
               PROVE  t[s[pos[head] + i]] \in Items
    OBVIOUS
  <2>1. pos[head] + i \in 1 .. Len(s) /\ pos[head] + i > 1
    BY <1>1, <1>2
  <2>2. s[pos[head] + i] \in Nodes /\ pos[s[pos[head] + i]] > 1
    BY <1>1, <2>1 DEF Chain
  <2> QED
    BY <1>1, <2>2 DEF Chain
<1>5. Len(s) - pos[head] \in Nat
  BY <1>1, <1>2
<1>6. Contents \in Seq(Items) /\ Len(Contents) = Len(s) - pos[head]
  <2> DEFINE m == Len(s) - pos[head]
             f == [i \in 1 .. m |-> t[s[pos[head] + i]]]
  <2>1. f \in [1 .. m -> Items]
    BY <1>4
  <2> HIDE DEF f, m
  <2>2. m \in Nat
    BY <1>5 DEF m
  <2>3. f \in Seq(Items) /\ Len(f) = m
    BY <2>1, <2>2
  <2> QED
    BY <1>3, <2>3 DEF f, m
<1> QED
  BY <1>1, <1>2, <1>3, <1>6

\* A node that was made and not linked is not in the queue.
LEMMA MadeNotQueued ==
  ASSUME IInv, NEW e \in Enqueuers, NEW a \in Nodes \ used, EnqNew(e, a)
  PROVE  Contents' = Contents
<1>1. TypeOK /\ \E s, pos : Inv(s, pos)
  BY DEF IInv
<1> PICK s, pos : Inv(s, pos)
  BY <1>1
<1>2. TypeOK' /\ Inv(s, pos)'
  BY <1>1, EnqNewKept
<1>3. head' = head /\ \A b \in Nodes : b # a => t'[b] = t[b]
  BY <1>1 DEF EnqNew, TypeOK
<1>4. /\ Chain(s, pos) /\ pos[head] \in 1 .. Len(s) /\ Len(s) \in Nat
      /\ Contents = [i \in 1 .. Len(s) - pos[head] |-> t[s[pos[head] + i]]]
  BY <1>1, ContentsPlace
<1>5. \A i \in 1 .. Len(s) : s[i] \in Nodes /\ s[i] # a
  BY <1>4 DEF Chain
<1>6. \A i \in 1 .. Len(s) : t'[s[i]] = t[s[i]]
  BY <1>3, <1>5
<1>7. \A i \in 1 .. Len(s) - pos[head] : t'[s[pos[head] + i]] = t[s[pos[head] + i]]
  <2>1. \A i \in 1 .. Len(s) - pos[head] : pos[head] + i \in 1 .. Len(s)
    BY <1>4
  <2> QED
    BY <1>6, <2>1
<1>8. Contents' = [i \in 1 .. Len(s) - pos[head'] |-> t'[s[pos[head'] + i]]]
  BY <1>2, ContentsOfChainNext
<1> QED
  BY <1>3, <1>4, <1>7, <1>8

\* Linking a node is the instant at which its item enters the queue.
LEMMA LinkEnqueues ==
  ASSUME IInv, NEW e \in Enqueuers, EnqLink(e), next[last[e]] = Null
  PROVE  /\ t[n[e]] \in Items /\ Contents \in Seq(Items)
         /\ Contents' = Append(Contents, t[n[e]])
<1>1. TypeOK /\ \E s, pos : Inv(s, pos)
  BY DEF IInv
<1> PICK s, pos : Inv(s, pos)
  BY <1>1
<1> PICK b : b = n[e]
  OBVIOUS
<1> DEFINE s2 == Append(s, b)
           pos2 == [pos EXCEPT ![b] = Len(s) + 1]
           h == pos[head]
<1>2. TypeOK' /\ Inv(s2, pos2)'
  BY <1>1, EnqLinkKept
<1>3. /\ b \in Nodes /\ pos[b] = 0
      /\ count[e] \in 1 .. MaxItems /\ t[b] = <<e, count[e]>>
  BY <1>1 DEF Inv, Enqueuing, TypeOK, EnqLink
<1>4. /\ Chain(s, pos) /\ pos \in [Nodes -> Nat] /\ s \in Seq(Nodes)
      /\ head \in Nodes /\ h \in 1 .. Len(s) /\ Len(s) \in Nat
      /\ Contents = [i \in 1 .. Len(s) - h |-> t[s[h + i]]]
      /\ Contents \in Seq(Items) /\ Len(Contents) = Len(s) - h
  BY <1>1, ContentsPlace
<1>5. head' = head /\ t' = t
  BY DEF EnqLink
<1>6. pos2[head] = h /\ Len(s2) = Len(s) + 1 /\ s2[Len(s) + 1] = b
  BY <1>3, <1>4
<1>7. \A i \in 1 .. Len(s) : s2[i] = s[i]
  BY <1>3, <1>4
<1>9. Contents' = [i \in 1 .. Len(s) + 1 - h |-> t[s2[h + i]]]
  <2> HIDE DEF s2, pos2
  <2>1. Contents' = [i \in 1 .. Len(s2) - pos2[head'] |-> t'[s2[pos2[head'] + i]]]
    BY <1>2, ContentsOfChainNext
  <2>2. pos2[head'] = h /\ Len(s2) - pos2[head'] = Len(s) + 1 - h
    BY <1>4, <1>5, <1>6
  <2> QED
    BY <1>5, <2>1, <2>2
<1>10. t[b] \in Items
  BY <1>3 DEF Items
<1>12. \A i \in 1 .. Len(s) + 1 - h : t[s2[h + i]] = Append(Contents, t[b])[i]
  <2> SUFFICES ASSUME NEW i \in 1 .. Len(s) + 1 - h
               PROVE  t[s2[h + i]] = Append(Contents, t[b])[i]
    OBVIOUS
  <2>1. CASE i = Len(s) + 1 - h
    <3>1. h + i = Len(s) + 1
      BY <1>4, <2>1
    <3> QED
      BY <1>4, <1>6, <1>10, <2>1, <3>1, SMTT(30)
  <2>2. CASE i # Len(s) + 1 - h
    <3>1. i \in 1 .. Len(s) - h /\ h + i \in 1 .. Len(s)
      <4>1. Len(s) \in Nat /\ h \in Nat /\ i \in Nat /\ 1 <= i /\ i < Len(s) + 1 - h
        BY <1>4, <2>2
      <4> HIDE DEF h
      <4> QED
        BY <4>1
    <3> HIDE DEF s2
    <3>2. t[s2[h + i]] = Contents[i]
      BY <1>4, <1>7, <3>1
    <3> QED
      BY <1>4, <1>10, <3>1, <3>2, SMTT(30)
  <2> QED
    BY <2>1, <2>2
<1>13. /\ Append(Contents, t[b]) \in Seq(Items)
       /\ DOMAIN Append(Contents, t[b]) = 1 .. Len(s) + 1 - h
  BY <1>4, <1>10
<1>14. Append(Contents, t[b]) = [i \in 1 .. Len(s) + 1 - h |-> Append(Contents, t[b])[i]]
  <2> DEFINE q == Append(Contents, t[b])
  <2>1. q \in Seq(Items) /\ DOMAIN q = 1 .. Len(s) + 1 - h
    BY <1>13
  <2> HIDE DEF q
  <2>2. q = [i \in DOMAIN q |-> q[i]]
    BY <2>1
  <2> QED
    BY <2>1, <2>2 DEF q
<1> QED
  <2> HIDE DEF s2
  <2> QED
    BY <1>9, <1>4, <1>10, <1>12, <1>14

\* Swinging head is the instant at which the oldest item leaves the queue, and it
\* is the item that was read before.
LEMMA SwingDequeues ==
  ASSUME IInv, NEW d \in Dequeuers, DeqSwing(d), HeadStill(d)
  PROVE  /\ Contents \in Seq(Items) /\ Contents # << >>
         /\ Contents' = Tail(Contents)
         /\ ans[d] = Head(Contents)
<1>1. TypeOK /\ \E s, pos : Inv(s, pos)
  BY DEF IInv
<1> PICK s, pos : Inv(s, pos)
  BY <1>1
<1> DEFINE h == pos[head]
<1>2. TypeOK' /\ Inv(s, pos)'
  BY <1>1, DeqSwingKept
<1>3. /\ Chain(s, pos) /\ pos \in [Nodes -> Nat] /\ s \in Seq(Nodes)
      /\ head \in Nodes /\ h \in 1 .. Len(s) /\ Len(s) \in Nat
  BY <1>1, ContentsPlace
<1>4. head = first[d] /\ After(pos, first[d], nxt[d]) /\ ans[d] = t[nxt[d]]
  BY DEF Inv, Dequeuing, DeqSwing, HeadStill
<1>5. nxt[d] \in Nodes /\ pos[nxt[d]] = h + 1 /\ h + 1 \in 1 .. Len(s) /\ s[h + 1] = nxt[d]
  BY <1>3, <1>4 DEF After, Chain
<1>6. head' = nxt[d] /\ t' = t
  BY DEF DeqSwing
<1>7. Contents = [i \in 1 .. Len(s) - h |-> t[s[h + i]]]
  BY <1>1, ContentsPlace
<1>8. Contents' = [i \in 1 .. Len(s) - (h + 1) |-> t[s[h + 1 + i]]]
  <2>1. Contents' = [i \in 1 .. Len(s) - pos[head'] |-> t'[s[pos[head'] + i]]]
    BY <1>2, ContentsOfChainNext
  <2> QED
    BY <1>5, <1>6, <2>1
<1>9. Contents \in Seq(Items) /\ Len(Contents) = Len(s) - h
  BY <1>1, ContentsPlace
<1>10. Contents # << >> /\ Head(Contents) = t[nxt[d]]
  BY <1>3, <1>5, <1>7, <1>9
<1>11. /\ Tail(Contents) \in Seq(Items) /\ Len(Tail(Contents)) = Len(s) - (h + 1)
       /\ \A i \in 1 .. Len(s) - (h + 1) : Tail(Contents)[i] = Contents[i + 1]
  <2>1. Len(Contents) = Len(s) - h /\ Len(s) - h - 1 = Len(s) - (h + 1)
    BY <1>3, <1>9
  <2>2. Len(Tail(Contents)) = Len(Contents) - 1 /\ Tail(Contents) \in Seq(Items)
    BY <1>9, <1>10
  <2>3. \A i \in 1 .. Len(Contents) - 1 : Tail(Contents)[i] = Contents[i + 1]
    BY <1>9, <1>10
  <2> QED
    BY <2>1, <2>2, <2>3
<1>12. \A i \in 1 .. Len(s) - (h + 1) : Contents[i + 1] = t[s[h + 1 + i]]
  <2> SUFFICES ASSUME NEW i \in 1 .. Len(s) - (h + 1)
               PROVE  Contents[i + 1] = t[s[h + 1 + i]]
    OBVIOUS
  <2>1. i + 1 \in 1 .. Len(s) - h /\ h + (i + 1) = h + 1 + i
    <3>1. Len(s) \in Nat /\ h \in Nat /\ i \in Nat /\ 1 <= i /\ i <= Len(s) - (h + 1)
      BY <1>3
    <3> HIDE DEF h
    <3> QED
      BY <3>1
  <2> QED
    BY <1>7, <2>1
<1>13. Tail(Contents) = [i \in 1 .. Len(s) - (h + 1) |-> t[s[h + 1 + i]]]
  <2> DEFINE q == Tail(Contents)
  <2>1. q \in Seq(Items) /\ Len(q) = Len(s) - (h + 1)
    BY <1>11
  <2>2. \A i \in 1 .. Len(s) - (h + 1) : q[i] = t[s[h + 1 + i]]
    BY <1>11, <1>12
  <2> HIDE DEF q
  <2>3. q = [i \in 1 .. Len(s) - (h + 1) |-> q[i]]
    BY <2>1
  <2> QED
    BY <2>2, <2>3 DEF q
<1> QED
  BY <1>4, <1>8, <1>9, <1>10, <1>13

\* The contents depend on head and on the fields of the nodes.
LEMMA ContentsUnchanged ==
  ASSUME UNCHANGED <<head, next, t>>
  PROVE  Contents' = Contents
BY DEF Contents, Path

\* The new queue is empty.
LEMMA InitiallyEmpty ==
  ASSUME Init
  PROVE  Contents = << >>
<1> DEFINE one == [a \in Nodes |-> IF a = 0 THEN 1 ELSE 0]
<1>1. TypeOK /\ Inv(<<0>>, one)
  BY InvInitially
<1>2. one[head] = 1 /\ Len(<<0>>) = 1
  BY NodesAssumption DEF Init
<1>3. Len(Contents) = 0 /\ Contents \in Seq(Items)
  <2> HIDE DEF one
  <2>1. Contents \in Seq(Items) /\ Len(Contents) = Len(<<0>>) - one[head]
    BY <1>1, ContentsPlace
  <2> QED
    BY <1>2, <2>1
<1> QED
  BY <1>3

----------------------------------------------------------------------------
(* The semaphore. *)

\* The threads that owe the semaphore something: enqueuers that have linked a node
\* and not yet gone up, sleepers that will give back what they took, and dequeuers
\* that have taken an item and not yet gone down.
Linkers == {e \in Enqueuers : epc[e] \in {"swing", "up"}}
Woken == {d \in Dequeuers : dpc[d] = "wake"}
Takers == {d \in Dequeuers : dpc[d] = "down"}

\* The threads that owe or are owed an up or a down can be counted.
LEMMA DebtsAreNumbers ==
  /\ IsFiniteSet(Linkers) /\ IsFiniteSet(Woken) /\ IsFiniteSet(Takers)
  /\ Cardinality(Linkers) \in Nat /\ Cardinality(Woken) \in Nat
  /\ Cardinality(Takers) \in Nat
BY FS_Subset, FS_CardinalityType, ThreadsAssumption DEF Linkers, Woken, Takers

Bit(p) == IF p THEN 1 ELSE 0

\* How the size of a finite set changes with one of its elements.
LEMMA CountOne ==
  ASSUME NEW A, IsFiniteSet(A), NEW x, NEW B, B \ {x} = A \ {x}
  PROVE  Cardinality(B) = Cardinality(A) - Bit(x \in A) + Bit(x \in B)
<1>1. Cardinality(A) \in Nat
  BY FS_CardinalityType
<1>2. CASE x \in B
  <2>1. B = (A \ {x}) \cup {x} /\ x \notin A \ {x}
    BY <1>2
  <2> QED
    BY <1>1, <1>2, <2>1, FS_RemoveElement, FS_AddElement DEF Bit
<1>3. CASE x \notin B
  <2>1. B = A \ {x}
    BY <1>3
  <2> QED
    BY <1>1, <1>3, <2>1, FS_RemoveElement DEF Bit
<1> QED
  BY <1>2, <1>3

\* A step of enqueuer e changes only its own debt.
LEMMA EnqueuerDebt ==
  ASSUME TypeOK, NEW e \in Enqueuers, NEW label, EGoto(e, label), UNCHANGED dpc
  PROVE  /\ Cardinality(Linkers') = Cardinality(Linkers)
                - Bit(epc[e] \in {"swing", "up"}) + Bit(label \in {"swing", "up"})
         /\ Woken' = Woken /\ Takers' = Takers
<1>1. epc' = [epc EXCEPT ![e] = label] /\ epc \in [Enqueuers -> EnqPcs]
  BY DEF EGoto, TypeOK
<1>2. Linkers' \ {e} = Linkers \ {e}
  BY <1>1 DEF Linkers
<1>3. /\ e \in Linkers <=> epc[e] \in {"swing", "up"}
      /\ e \in Linkers' <=> label \in {"swing", "up"}
  BY <1>1 DEF Linkers
<1>4. Cardinality(Linkers') = Cardinality(Linkers) - Bit(e \in Linkers) + Bit(e \in Linkers')
  BY <1>2, CountOne, DebtsAreNumbers
<1> QED
  BY <1>3, <1>4 DEF Bit, Woken, Takers

\* A step of dequeuer d changes only its own debts.
LEMMA DequeuerDebt ==
  ASSUME TypeOK, NEW d \in Dequeuers, NEW label, DGoto(d, label), UNCHANGED epc
  PROVE  /\ Cardinality(Woken') = Cardinality(Woken) - Bit(dpc[d] = "wake") + Bit(label = "wake")
         /\ Cardinality(Takers') = Cardinality(Takers) - Bit(dpc[d] = "down") + Bit(label = "down")
         /\ Linkers' = Linkers
<1>1. dpc' = [dpc EXCEPT ![d] = label] /\ dpc \in [Dequeuers -> DeqPcs]
  BY DEF DGoto, TypeOK
<1>2. Woken' \ {d} = Woken \ {d} /\ Takers' \ {d} = Takers \ {d}
  BY <1>1 DEF Woken, Takers
<1>3. /\ d \in Woken <=> dpc[d] = "wake"
      /\ d \in Woken' <=> label = "wake"
      /\ d \in Takers <=> dpc[d] = "down"
      /\ d \in Takers' <=> label = "down"
  BY <1>1 DEF Woken, Takers
<1>4. Cardinality(Woken') = Cardinality(Woken) - Bit(d \in Woken) + Bit(d \in Woken')
  BY <1>2, CountOne, DebtsAreNumbers
<1>5. Cardinality(Takers') = Cardinality(Takers) - Bit(d \in Takers) + Bit(d \in Takers')
  BY <1>2, CountOne, DebtsAreNumbers
<1> QED
  BY <1>3, <1>4, <1>5 DEF Bit, Linkers

\* Every step pays or takes over what the semaphore is off by.
LEMMA SemaphoreNext ==
  ASSUME ~ Reuse, IInv, IInv', SemaphoreCountsItems, [Next]_vars
  PROVE  SemaphoreCountsItems'
<1> DEFINE l == Cardinality(Linkers)
           w == Cardinality(Woken)
           k == Cardinality(Takers)
           c == Len(Contents)
<1>0. TypeOK /\ sz \in Nat /\ \E s, pos : Inv(s, pos)
  BY DEF IInv, TypeOK
<1>1. l \in Nat /\ w \in Nat /\ k \in Nat /\ c \in Nat /\ sz + l + w = c + k
  <2>1. Contents \in Seq(Items)
    BY <1>0, ContentsPlace
  <2> QED
    BY <2>1, DebtsAreNumbers DEF SemaphoreCountsItems, Linkers, Woken, Takers
<1> SUFFICES sz' + l' + w' = c' + k'
  BY DEF SemaphoreCountsItems, Linkers, Woken, Takers
<1> HIDE DEF l, w, k, c
<1>2. ASSUME NEW e \in Enqueuers, Enqueue(e) PROVE sz' + l' + w' = c' + k'
  <2> USE DEF list, evars, dvars, locals
  <2>1. ASSUME NEW a \in Available, EnqNew(e, a) PROVE sz' + l' + w' = c' + k'
    <3>1. a \in Nodes \ used
      BY <2>1 DEF Available, Unused
    <3>2. c' = c
      BY <2>1, <3>1, MadeNotQueued DEF c
    <3>3. l' = l /\ w' = w /\ k' = k
      BY <1>0, <1>1, <2>1, EnqueuerDebt DEF EnqNew, Bit, l, w, k
    <3>4. sz' = sz
      BY <2>1 DEF EnqNew
    <3> QED
      BY <1>1, <3>2, <3>3, <3>4
  <2>2. CASE EnqLink(e) /\ next[last[e]] = Null
    <3>1. c' = c + 1
      BY <2>2, LinkEnqueues DEF c
    <3>2. l' = l + 1 /\ w' = w /\ k' = k
      BY <1>0, <1>1, <2>2, EnqueuerDebt DEF EnqLink, Bit, l, w, k
    <3>3. sz' = sz
      BY <2>2 DEF EnqLink
    <3> QED
      BY <1>0, <1>1, <3>1, <3>2, <3>3
  <2>3. CASE EnqLink(e) /\ next[last[e]] # Null
    <3>1. c' = c
      BY <2>3, ContentsUnchanged DEF EnqLink, c
    <3>2. l' = l /\ w' = w /\ k' = k
      BY <1>0, <1>1, <2>3, EnqueuerDebt DEF EnqLink, ERetry, Bit, l, w, k
    <3>3. sz' = sz
      BY <2>3 DEF EnqLink
    <3> QED
      BY <1>0, <1>1, <3>1, <3>2, <3>3
  <2>4. CASE EnqUp(e)
    <3>1. c' = c
      BY <2>4, ContentsUnchanged DEF EnqUp, c
    <3>2. l' = l - 1 /\ w' = w /\ k' = k
      BY <1>0, <1>1, <2>4, EnqueuerDebt DEF EnqUp, Bit, l, w, k
    <3>3. sz' = sz + 1
      BY <2>4 DEF EnqUp
    <3> QED
      BY <1>0, <1>1, <3>1, <3>2, <3>3
  <2>5. CASE EnqTail(e) \/ EnqNext(e) \/ EnqCheck(e) \/ EnqSwing(e) \/ EnqHelp(e)
    <3>1. c' = c
      BY <2>5, ContentsUnchanged DEF EnqTail, EnqNext, EnqCheck, EnqSwing, EnqHelp, c
    <3>2. l' = l /\ w' = w /\ k' = k
      <4>1. PICK label : /\ EGoto(e, label) /\ UNCHANGED dpc
                         /\ label \in {"swing", "up"} <=> epc[e] \in {"swing", "up"}
        BY <2>5 DEF EnqTail, EnqNext, EnqCheck, EnqSwing, EnqHelp, ERetry
      <4> QED
        BY <1>0, <1>1, <4>1, EnqueuerDebt DEF Bit, l, w, k
    <3>3. sz' = sz
      BY <2>5 DEF EnqTail, EnqNext, EnqCheck, EnqSwing, EnqHelp
    <3> QED
      BY <1>0, <1>1, <3>1, <3>2, <3>3
  <2> QED
    BY <1>2, <2>1, <2>2, <2>3, <2>4, <2>5 DEF Enqueue
<1>3. ASSUME NEW d \in Dequeuers, Dequeue(d) PROVE sz' + l' + w' = c' + k'
  <2> USE DEF list, evars, dvars, locals
  <2>1. CASE DeqSleep(d)
    <3>1. c' = c
      BY <2>1, ContentsUnchanged DEF DeqSleep, c
    <3>2. l' = l /\ w' = w + 1 /\ k' = k
      BY <1>0, <1>1, <2>1, DequeuerDebt DEF DeqSleep, Bit, l, w, k
    <3>3. sz' = sz - 1
      BY <2>1 DEF DeqSleep
    <3> QED
      BY <1>0, <1>1, <3>1, <3>2, <3>3
  <2>2. CASE DeqWake(d)
    <3>1. c' = c
      BY <2>2, ContentsUnchanged DEF DeqWake, c
    <3>2. l' = l /\ w' = w - 1 /\ k' = k
      BY <1>0, <1>1, <2>2, DequeuerDebt DEF DeqWake, Bit, l, w, k
    <3>3. sz' = sz + 1
      BY <2>2 DEF DeqWake, SemAfterWake
    <3> QED
      BY <1>0, <1>1, <3>1, <3>2, <3>3
  <2>3. CASE DeqSwing(d) /\ HeadStill(d)
    <3>1. c' = c - 1
      BY <2>3, SwingDequeues DEF c
    <3>2. l' = l /\ w' = w /\ k' = k + 1
      BY <1>0, <1>1, <2>3, DequeuerDebt DEF DeqSwing, Bit, l, w, k
    <3>3. sz' = sz
      BY <2>3 DEF DeqSwing
    <3> QED
      BY <1>0, <1>1, <3>1, <3>2, <3>3
  <2>4. CASE DeqDown(d)
    <3>1. c' = c
      BY <2>4, ContentsUnchanged DEF DeqDown, c
    <3>2. l' = l /\ w' = w /\ k' = k - 1
      BY <1>0, <1>1, <2>4, DequeuerDebt DEF DeqDown, Bit, l, w, k
    <3>3. sz' = sz - 1
      BY <2>4 DEF DeqDown
    <3> QED
      BY <1>0, <1>1, <3>1, <3>2, <3>3
  <2>5. CASE \/ \E b \in BOOLEAN : DeqCall(d, b)
             \/ DeqHead(d) \/ DeqTail(d) \/ DeqHd(d) \/ DeqNext(d) \/ DeqCheck(d)
             \/ DeqHelp(d) \/ DeqRead(d) \/ DeqFree(d)
             \/ DeqSwing(d) /\ ~ HeadStill(d)
    <3> USE DEF DeqCall, DeqHead, DeqTail, DeqHd, DeqNext, DeqCheck, DeqHelp, DeqRead,
                DeqFree, DeqSwing
    <3>1. c' = c
      BY <2>5, ContentsUnchanged DEF c
    <3>2. l' = l /\ w' = w /\ k' = k
      <4>1. PICK label : /\ DGoto(d, label) /\ UNCHANGED epc
                         /\ label # "wake" /\ dpc[d] # "wake"
                         /\ label # "down" /\ dpc[d] # "down"
        BY <2>5 DEF DLeave, AfterCheck
      <4> QED
        BY <1>0, <1>1, <4>1, DequeuerDebt DEF Bit, l, w, k
    <3>3. sz' = sz
      BY <2>5
    <3> QED
      BY <1>0, <1>1, <3>1, <3>2, <3>3
  <2> QED
    BY <1>3, <2>1, <2>2, <2>3, <2>4, <2>5 DEF Dequeue
<1>4. CASE UNCHANGED vars
  BY <1>1, <1>4, ContentsUnchanged
  DEF vars, list, evars, dvars, l, w, k, c, Linkers, Woken, Takers
<1> QED
  BY <1>2, <1>3, <1>4 DEF Next

\* "The value of the semaphore equals the size of the queue" up to what the threads
\* in the middle of an operation still owe it, for any number of threads: once all of
\* them are done, wait_deq sleeps only if there is nothing for it to take.
THEOREM SemaphoreCounts == ~ Reuse => (Spec => []SemaphoreCountsItems)
<1> SUFFICES ASSUME ~ Reuse PROVE Spec => []SemaphoreCountsItems
  OBVIOUS
<1>1. Spec => []IInv
  BY Invariance
<1>2. Init => SemaphoreCountsItems
  <2> SUFFICES ASSUME Init PROVE SemaphoreCountsItems
    OBVIOUS
  <2>1. {e \in Enqueuers : epc[e] \in {"swing", "up"}} = {}
    BY DEF Init
  <2>2. {d \in Dequeuers : dpc[d] = "wake"} = {} /\ {d \in Dequeuers : dpc[d] = "down"} = {}
    BY DEF Init
  <2>3. Contents = << >>
    BY InitiallyEmpty
  <2>4. sz = 0 /\ Len(Contents) = 0
    BY <2>3 DEF Init
  <2>5. /\ Cardinality({e \in Enqueuers : epc[e] \in {"swing", "up"}}) = 0
        /\ Cardinality({d \in Dequeuers : dpc[d] = "wake"}) = 0
        /\ Cardinality({d \in Dequeuers : dpc[d] = "down"}) = 0
    BY <2>1, <2>2, FS_EmptySet
  <2> QED
    BY <2>4, <2>5 DEF SemaphoreCountsItems
<1>3. IInv /\ IInv' /\ SemaphoreCountsItems /\ [Next]_vars => SemaphoreCountsItems'
  BY SemaphoreNext
<1> QED
  BY <1>1, <1>2, <1>3, PTL DEF Spec

----------------------------------------------------------------------------
(* The queue implements ConcurrentQueue. *)

\* The safety part of ImplementsQueue.
ImplementsQueueSafely == Abstract!Init /\ [][Abstract!Next]_(Abstract!vars)

\* A step changes the queue as one operation of it, or not at all.
LEMMA QueueStep ==
  ASSUME ~ Reuse, IInv, [Next]_vars
  PROVE  [Abstract!Next]_(Abstract!vars)
<1> USE DEF list, evars, dvars, locals, Abstract!Next, Abstract!vars
<1>1. ASSUME NEW e \in Enqueuers, Enqueue(e) PROVE [Abstract!Next]_(Abstract!vars)
  <2>1. ASSUME NEW a \in Available, EnqNew(e, a) PROVE UNCHANGED Abstract!vars
    <3>1. a \in Nodes \ used
      BY <2>1 DEF Available, Unused
    <3> QED
      BY <2>1, <3>1, MadeNotQueued DEF EnqNew
  <2>2. CASE EnqLink(e) /\ next[last[e]] = Null
    <3>1. t[n[e]] \in Items /\ Contents' = Append(Contents, t[n[e]]) /\ got' = got
      BY <2>2, LinkEnqueues DEF EnqLink
    <3> QED
      BY <3>1 DEF Abstract!Enq
  <2>3. CASE EnqLink(e) /\ next[last[e]] # Null
    BY <2>3, ContentsUnchanged DEF EnqLink
  <2>4. CASE EnqTail(e) \/ EnqNext(e) \/ EnqCheck(e) \/ EnqSwing(e) \/ EnqHelp(e) \/ EnqUp(e)
    BY <2>4, ContentsUnchanged DEF EnqTail, EnqNext, EnqCheck, EnqSwing, EnqHelp, EnqUp
  <2> QED
    BY <1>1, <2>1, <2>2, <2>3, <2>4 DEF Enqueue
<1>2. ASSUME NEW d \in Dequeuers, Dequeue(d) PROVE [Abstract!Next]_(Abstract!vars)
  <2>1. CASE DeqSwing(d) /\ HeadStill(d)
    <3>1. /\ Contents # << >> /\ Contents' = Tail(Contents) /\ ans[d] = Head(Contents)
          /\ got' = [got EXCEPT ![d] = Append(@, ans[d])]
      BY <2>1, SwingDequeues DEF DeqSwing
    <3> QED
      BY <3>1 DEF Abstract!Deq
  <2>2. CASE DeqSwing(d) /\ ~ HeadStill(d)
    BY <2>2, ContentsUnchanged DEF DeqSwing
  <2>3. CASE \/ \E b \in BOOLEAN : DeqCall(d, b)
             \/ DeqHead(d) \/ DeqTail(d) \/ DeqHd(d) \/ DeqNext(d) \/ DeqCheck(d)
             \/ DeqHelp(d) \/ DeqRead(d) \/ DeqFree(d)
             \/ DeqSleep(d) \/ DeqWake(d) \/ DeqDown(d)
    BY <2>3, ContentsUnchanged
    DEF DeqCall, DeqHead, DeqTail, DeqHd, DeqNext, DeqCheck, DeqHelp, DeqRead,
        DeqFree, DeqSleep, DeqWake, DeqDown
  <2> QED
    BY <1>2, <2>1, <2>2, <2>3 DEF Dequeue
<1>3. CASE UNCHANGED vars
  BY <1>3, ContentsUnchanged DEF vars
<1> QED
  BY <1>1, <1>2, <1>3 DEF Next

\* Linearizability of LockFreeQueue, for any number of threads, when addresses are
\* not reused: each enq takes effect when its node is linked, each dequeue when head
\* is swung, and what a dequeuer has received is what was at the head of the queue
\* at that instant.  (That every item is dequeued in the end is left to TLC.)
THEOREM Refinement == ~ Reuse => (Spec => ImplementsQueueSafely)
<1> SUFFICES ASSUME ~ Reuse PROVE Spec => ImplementsQueueSafely
  OBVIOUS
<1>1. Spec => []IInv
  BY Invariance
<1>2. Init => Abstract!Init
  BY InitiallyEmpty DEF Init, Abstract!Init
<1>3. IInv /\ [Next]_vars => [Abstract!Next]_(Abstract!vars)
  BY QueueStep
<1> QED
  BY <1>1, <1>2, <1>3, PTL DEF Spec, ImplementsQueueSafely
============================================================================
