--------------------------- MODULE RedisPool_proofs ---------------------------
(***************************************************************************)
(* Safety of the lane pool for any set of tasks and any max_in_flight.     *)
(*                                                                         *)
(* The pool has no lock: what keeps in_flight within max_in_flight is the  *)
(* order of the steps.  The argument counts tasks by program point.  Every *)
(* action moves one task from one point to another, which changes each     *)
(* count by at most one (Moved); the semaphore operators keep the sum of   *)
(* free and granted permits (GiveBackKeeps, DropAcquireKeeps); so each     *)
(* counter of the code stays equal to the count it stands for.             *)
(***************************************************************************)
EXTENDS RedisPool, FiniteSetTheorems, TLAPS

USE PoolAssumption

(* The number of tasks at some of the program points.                      *)
Count(where) == Cardinality(At(where))

(* Permits are free, owned by a task, or granted; none is free while a     *)
(* call is queued.                                                         *)
Books ==
  /\ available + Count(OwnerPcs) + Cardinality(granted) = Lanes
  /\ queue # {} => available = 0

Gauges ==
  /\ in_flight = Count(CountedPcs)
  /\ waiters = Count(WaiterPcs) + hist.abandoned

Stragglers ==
  /\ ~closed => hist.late = 0
  /\ closed => hist.late + Count({"admitted"}) <= Lanes

(* The inductive invariant.  TypeOK by itself is not inductive: the gauges *)
(* stay natural numbers because they equal counts, and those stay within   *)
(* Lanes because permits are conserved.                                    *)
IInv == TypeOK /\ QueueConsistent /\ Books /\ Gauges /\ Stragglers
-----------------------------------------------------------------------------
(* The tasks at given program points are a finite set.                     *)
LEMMA AtFinite ==
  ASSUME NEW S
  PROVE  IsFiniteSet(At(S)) /\ Count(S) \in Nat
<1>1. IsFiniteSet(At(S))
  BY FS_Subset DEF At
<1>2. QED  BY <1>1, FS_CardinalityType DEF Count

(* Likewise the granted permits.                                           *)
LEMMA GrantedFinite ==
  ASSUME TypeOK
  PROVE  IsFiniteSet(granted) /\ Cardinality(granted) \in Nat
BY FS_Subset, FS_CardinalityType DEF TypeOK

(* Moving one task changes the count of a set of program points by one if  *)
(* the task enters or leaves the set, and not at all otherwise.            *)
LEMMA Moved ==
  ASSUME pc \in [Tasks -> Pcs], NEW t \in Tasks, NEW w \in Pcs, Goto(t, w),
         NEW S
  PROVE  /\ pc' \in [Tasks -> Pcs]
         /\ Count(S)' \in Nat /\ Count(S) \in Nat
         /\ w \in S /\ pc[t] \notin S => Count(S)' = Count(S) + 1
         /\ w \notin S /\ pc[t] \in S => Count(S)' = Count(S) - 1
         /\ (w \in S) = (pc[t] \in S) => Count(S)' = Count(S)
<1> DEFINE A == At(S)
           B == At(S)'
<1>1. pc' \in [Tasks -> Pcs] /\ pc'[t] = w
      /\ \A u \in Tasks \ {t} : pc'[u] = pc[u]
  BY DEF Goto
<1>2. IsFiniteSet(A) /\ Count(S) \in Nat
  BY AtFinite
<1>3. B = IF w \in S THEN A \cup {t} ELSE A \ {t}
  BY <1>1 DEF At
<1>4. (t \in A) = (pc[t] \in S)
  BY DEF At
<1>5. Cardinality(B) = IF w \in S
                     THEN IF t \in A THEN Cardinality(A) ELSE Cardinality(A) + 1
                     ELSE IF t \in A THEN Cardinality(A) - 1 ELSE Cardinality(A)
  <2> HIDE DEF A, B
  <2>1. CASE w \in S
    BY <1>2, <1>3, <2>1, FS_AddElement
  <2>2. CASE w \notin S
    BY <1>2, <1>3, <2>2, FS_RemoveElement
  <2>3. QED  BY <2>1, <2>2
<1>6. Count(S)' \in Nat
  <2>1. IsFiniteSet(B)
    BY <1>2, <1>3, FS_AddElement, FS_RemoveElement
  <2>2. QED  BY <2>1, FS_CardinalityType DEF Count
<1>7. QED  BY <1>1, <1>2, <1>4, <1>5, <1>6 DEF Count

(* Returning a permit neither loses nor invents one, and a waiting call    *)
(* that is handed it leaves the queue.                                     *)
LEMMA GiveBackKeeps ==
  ASSUME NEW q \in SUBSET Tasks, NEW g \in SUBSET Tasks, q \cap g = {},
         available \in Nat, GiveBack(q, g)
  PROVE  /\ available' \in Nat /\ Cardinality(granted') \in Nat
         /\ available' + Cardinality(granted') = available + Cardinality(g) + 1
         /\ queue' \cup granted' = q \cup g
         /\ queue' \cap granted' = {}
         /\ queue' # {} => available' = available
<1>1. IsFiniteSet(g) /\ Cardinality(g) \in Nat
  BY FS_Subset, FS_CardinalityType
<1>2. CASE \E u \in q : /\ queue' = q \ {u}
                        /\ granted' = g \cup {u}
                        /\ UNCHANGED available
  <2>1. PICK u \in q : queue' = q \ {u} /\ granted' = g \cup {u}
                       /\ available' = available
    BY <1>2
  <2>2. Cardinality(granted') = Cardinality(g) + 1
    BY <1>1, <2>1, FS_AddElement
  <2>3. QED  BY <1>1, <2>1, <2>2
<1>3. CASE q = {} /\ queue' = q /\ granted' = g /\ available' = available + 1
  BY <1>1, <1>3
<1>4. QED  BY <1>2, <1>3 DEF GiveBack

(* Dropping an Acquire future, queued or already granted, keeps the sum of *)
(* free and granted permits and takes just its task off the books.         *)
LEMMA DropAcquireKeeps ==
  ASSUME NEW t \in Tasks, queue \subseteq Tasks, granted \subseteq Tasks,
         queue \cap granted = {}, available \in Nat, DropAcquire(t),
         queue # {} => available = 0
  PROVE  /\ available' \in Nat /\ Cardinality(granted') \in Nat
         /\ available' + Cardinality(granted') = available + Cardinality(granted)
         /\ queue' \cup granted' = (queue \cup granted) \ {t}
         /\ queue' \cap granted' = {}
         /\ queue' # {} => available' = 0
<1>1. IsFiniteSet(granted) /\ Cardinality(granted) \in Nat
  BY FS_Subset, FS_CardinalityType
<1>2. CASE t \in queue /\ queue' = queue \ {t} /\ UNCHANGED <<available, granted>>
  BY <1>1, <1>2
<1>3. CASE t \in granted /\ GiveBack(queue, granted \ {t})
  <2>1. Cardinality(granted \ {t}) = Cardinality(granted) - 1
    BY <1>1, <1>3, FS_RemoveElement
  <2>2. /\ available' \in Nat /\ Cardinality(granted') \in Nat
        /\ available' + Cardinality(granted')
             = available + Cardinality(granted \ {t}) + 1
        /\ queue' \cup granted' = queue \cup (granted \ {t})
        /\ queue' \cap granted' = {}
        /\ queue' # {} => available' = available
    BY <1>3, GiveBackKeeps
  <2>3. queue' # {} => queue # {}
    BY <1>3 DEF GiveBack
  <2>4. QED  BY <1>1, <1>3, <2>1, <2>2, <2>3
<1>4. QED  BY <1>2, <1>3 DEF DropAcquire
-----------------------------------------------------------------------------
(* What a step from one program point to another does to the four counts.  *)
Same(S) == Count(S)' = Count(S)
More(S) == Count(S)' = Count(S) + 1
Less(S) == Count(S)' = Count(S) - 1

LEMMA RegisterStep ==
  ASSUME IInv, NEW t \in Tasks, Register(t)
  PROVE  IInv'
<1> USE DEF IInv
<1>1. More(WaiterPcs) /\ Same(CountedPcs) /\ Same({"admitted"})
  BY Moved DEF TypeOK, Register, PollAcquire, More, Same, Pcs, WaiterPcs,
       CountedPcs
<1>2. TypeOK'
  BY Moved DEF TypeOK, Register, PollAcquire, Pcs
<1>3. QueueConsistent'
  BY DEF TypeOK, QueueConsistent, Register, PollAcquire, Goto, At
<1>4. Books'
  <2>1. CASE available > 0 /\ available' = available - 1 /\ Goto(t, "got")
             /\ UNCHANGED <<queue, granted>>
    <3>1. More(OwnerPcs)
      BY <2>1, Moved DEF TypeOK, Register, More, Pcs, OwnerPcs
    <3>2. QED  BY <2>1, <3>1, AtFinite, GrantedFinite DEF TypeOK, Books, More
  <2>2. CASE available = 0 /\ queue' = queue \cup {t} /\ Goto(t, "waiting")
             /\ UNCHANGED <<available, granted>>
    <3>1. Same(OwnerPcs)
      BY <2>2, Moved DEF TypeOK, Register, Same, Pcs, OwnerPcs
    <3>2. QED  BY <2>2, <3>1, AtFinite, GrantedFinite DEF TypeOK, Books, Same
  <2>3. QED  BY <2>1, <2>2 DEF Register, PollAcquire
<1>5. Gauges' /\ Stragglers'
  BY <1>1, AtFinite DEF TypeOK, History, Register, Gauges, Stragglers, Same, More
<1>6. QED  BY <1>2, <1>3, <1>4, <1>5

LEMMA WakeStep ==
  ASSUME IInv, NEW t \in Tasks, Wake(t)
  PROVE  IInv'
<1> USE DEF IInv
<1>1. More(OwnerPcs) /\ Same(WaiterPcs) /\ Same(CountedPcs) /\ Same({"admitted"})
  BY Moved DEF TypeOK, Wake, More, Same, Pcs, WaiterPcs, CountedPcs, OwnerPcs
<1>2. TypeOK'
  BY Moved DEF TypeOK, Wake, Pcs
<1>3. QueueConsistent'
  BY DEF TypeOK, QueueConsistent, Wake, Goto, At
<1>4. Books'
  <2>1. Cardinality(granted') = Cardinality(granted) - 1
    BY GrantedFinite, FS_RemoveElement DEF Wake
  <2>2. QED  BY <1>1, <2>1, AtFinite, GrantedFinite DEF TypeOK, Books, Wake, More
<1>5. Gauges' /\ Stragglers'
  BY <1>1, AtFinite DEF TypeOK, History, Wake, Gauges, Stragglers, Same
<1>6. QED  BY <1>2, <1>3, <1>4, <1>5

(* Moving a task within the same sets of program points, the shared words  *)
(* untouched, keeps everything but the types, which only a counter can     *)
(* then disturb.                                                           *)
LEMMA QuietMove ==
  ASSUME IInv, NEW t \in Tasks, NEW w \in Pcs, Goto(t, w),
         \A S \in {OwnerPcs, CountedPcs, WaiterPcs, {"admitted"},
                   {"waiting", "expired"}} : (w \in S) = (pc[t] \in S),
         UNCHANGED <<closed, semaphore, in_flight, waiters>>,
         hist'.abandoned = hist.abandoned, hist'.late = hist.late
  PROVE  QueueConsistent' /\ Books' /\ Gauges' /\ Stragglers'
<1> USE DEF IInv
<1>1. Same(OwnerPcs) /\ Same(WaiterPcs) /\ Same(CountedPcs) /\ Same({"admitted"})
  BY Moved DEF TypeOK, Same
<1>2. At({"waiting", "expired"})' = At({"waiting", "expired"})
  BY DEF TypeOK, Goto, At
<1>3. QED
  BY <1>1, <1>2
  DEF QueueConsistent, Books, Gauges, Stragglers, Same, semaphore

LEMMA EnterStep ==
  ASSUME IInv, NEW t \in Tasks, Enter(t)
  PROVE  IInv'
<1> USE DEF IInv
<1>1. hist' \in History /\ metrics' \in Metrics
  <2>1. hist.calls + 1 \in Nat /\ hist.unconnected + 1 \in Nat
    BY DEF TypeOK, History
  <2>2. [hist EXCEPT !.calls = @ + 1] \in History
    BY <2>1 DEF TypeOK, History
  <2>3. [hist EXCEPT !.calls = @ + 1, !.unconnected = @ + 1] \in History
    <3> DEFINE h == [hist EXCEPT !.calls = @ + 1]
    <3>1. [hist EXCEPT !.calls = @ + 1, !.unconnected = @ + 1]
            = [h EXCEPT !.unconnected = hist.unconnected + 1]
      BY DEF TypeOK, History
    <3>2. QED  BY <2>1, <2>2, <3>1 DEF History
  <2>4. [metrics EXCEPT !.rejected_closed = @ + 1] \in Metrics
    BY DEF TypeOK, Metrics
  <2>5. QED  BY <2>2, <2>3, <2>4 DEF Enter, TypeOK
<1>2. hist'.abandoned = hist.abandoned /\ hist'.late = hist.late
  BY DEF TypeOK, History, Enter
<1>3. CASE UNCHANGED pc
  <2>1. UNCHANGED <<closed, semaphore, in_flight, waiters, backend, closer>>
    BY DEF Enter
  <2>2. QED
    BY <1>1, <1>2, <1>3, <2>1
    DEF TypeOK, QueueConsistent, Books, Gauges, Stragglers, Count, At, semaphore
<1>4. CASE Goto(t, "entered")
  <2>1. TypeOK'
    BY <1>1, <1>4, Moved DEF TypeOK, Enter, Pcs, semaphore
  <2>2. QED
    BY <1>2, <1>4, <2>1, QuietMove
    DEF Enter, Pcs, OwnerPcs, CountedPcs, WaiterPcs
<1>5. QED  BY <1>3, <1>4 DEF Enter

LEMMA ExpireStep ==
  ASSUME IInv, NEW t \in Tasks, Expire(t)
  PROVE  IInv'
<1>1. TypeOK'
  BY Moved DEF IInv, TypeOK, Expire, Pcs, semaphore
<1>2. QED
  BY <1>1, QuietMove DEF IInv, Expire, Pcs, OwnerPcs, CountedPcs, WaiterPcs

(* Steps that change the semaphore by GiveBack or DropAcquire have the     *)
(* same consequences for it.                                               *)
Settled(freed) ==
  /\ available' \in Nat /\ Cardinality(granted') \in Nat
  /\ available' + Cardinality(granted')
       = available + Cardinality(granted) + freed
  /\ queue' # {} => available' = 0

LEMMA GiveBackSettles ==
  ASSUME IInv, GiveBack(queue, granted)
  PROVE  /\ Settled(1)
         /\ queue' \cup granted' = queue \cup granted /\ queue' \cap granted' = {}
<1>1. queue' # {} => queue # {}
  BY DEF GiveBack
<1>2. /\ available' \in Nat /\ Cardinality(granted') \in Nat
      /\ available' + Cardinality(granted')
           = available + Cardinality(granted) + 1
      /\ queue' \cup granted' = queue \cup granted
      /\ queue' \cap granted' = {}
      /\ queue' # {} => available' = available
  BY GiveBackKeeps DEF IInv, TypeOK, QueueConsistent
<1>3. QED  BY <1>1, <1>2 DEF IInv, Books, Settled

LEMMA DropAcquireSettles ==
  ASSUME IInv, NEW t \in Tasks, DropAcquire(t)
  PROVE  /\ Settled(0)
         /\ queue' \cup granted' = (queue \cup granted) \ {t}
         /\ queue' \cap granted' = {}
BY DropAcquireKeeps, GrantedFinite
DEF IInv, TypeOK, QueueConsistent, Books, Settled

LEMMA LapseStep ==
  ASSUME IInv, NEW t \in Tasks, Lapse(t)
  PROVE  IInv'
<1> USE DEF IInv
<1>1. /\ Settled(0)
      /\ queue' \cup granted' = (queue \cup granted) \ {t}
      /\ queue' \cap granted' = {}
  BY DropAcquireSettles DEF Lapse
<1>2. Same(OwnerPcs) /\ Less(WaiterPcs) /\ Same(CountedPcs) /\ Same({"admitted"})
  BY Moved DEF TypeOK, Lapse, Less, Same, Pcs, WaiterPcs, CountedPcs, OwnerPcs
<1>3. QueueConsistent'
  BY <1>1 DEF TypeOK, QueueConsistent, Lapse, Goto, At
<1>4. Books'
  BY <1>1, <1>2, AtFinite, GrantedFinite DEF TypeOK, Books, Settled, Same
<1>5. TypeOK'
  <2>1. queue' \subseteq Tasks /\ granted' \subseteq Tasks
    BY <1>3 DEF QueueConsistent, At
  <2>2. available' \in 0..Lanes
    BY <1>1, <1>2, <1>4, AtFinite DEF Books, Settled, Same
  <2>3. waiters' \in Nat
    BY <1>2, Moved, AtFinite
    DEF TypeOK, History, Gauges, Lapse, Less, Pcs, WaiterPcs
  <2>4. pc' \in [Tasks -> Pcs] /\ metrics' \in Metrics
    BY DEF TypeOK, Lapse, Goto, Pcs, Metrics
  <2>5. QED  BY <2>1, <2>2, <2>3, <2>4 DEF TypeOK, Lapse
<1>6. Gauges' /\ Stragglers'
  BY <1>2, AtFinite DEF TypeOK, History, Lapse, Gauges, Stragglers, Same, Less
<1>7. QED  BY <1>3, <1>4, <1>5, <1>6

LEMMA CancelAcquireStep ==
  ASSUME IInv, NEW t \in Tasks, CancelAcquire(t)
  PROVE  IInv'
<1> USE DEF IInv
<1>1. /\ Settled(0)
      /\ queue' \cup granted' = (queue \cup granted) \ {t}
      /\ queue' \cap granted' = {}
  BY DropAcquireSettles DEF CancelAcquire
<1>2. Same(OwnerPcs) /\ Less(WaiterPcs) /\ Same(CountedPcs) /\ Same({"admitted"})
  BY Moved DEF TypeOK, CancelAcquire, Less, Same, Pcs, WaiterPcs, CountedPcs,
       OwnerPcs
<1>3. QueueConsistent'
  BY <1>1 DEF TypeOK, QueueConsistent, CancelAcquire, Goto, At
<1>4. Books'
  BY <1>1, <1>2, AtFinite, GrantedFinite DEF TypeOK, Books, Settled, Same
<1>5. TypeOK'
  <2>1. queue' \subseteq Tasks /\ granted' \subseteq Tasks
    BY <1>3 DEF QueueConsistent, At
  <2>2. available' \in 0..Lanes
    BY <1>1, <1>2, <1>4, AtFinite DEF Books, Settled, Same
  <2>3. pc' \in [Tasks -> Pcs] /\ hist' \in History
    BY DEF TypeOK, CancelAcquire, Goto, Pcs, History
  <2>4. QED  BY <2>1, <2>2, <2>3 DEF TypeOK, CancelAcquire
<1>6. Gauges'
  (* one waiter fewer in the queue, one abandoned acquisition more *)
  BY <1>2, AtFinite DEF TypeOK, History, CancelAcquire, Gauges, Same, Less
<1>7. Stragglers'
  BY <1>2 DEF TypeOK, History, CancelAcquire, Stragglers, Same
<1>8. QED  BY <1>3, <1>4, <1>5, <1>6, <1>7

LEMMA RecheckStep ==
  ASSUME IInv, NEW t \in Tasks, Recheck(t)
  PROVE  IInv'
<1> USE DEF IInv
<1>1. Same(OwnerPcs) /\ Less(WaiterPcs) /\ Same(CountedPcs)
  BY Moved DEF TypeOK, Recheck, Less, Same, Pcs, WaiterPcs, CountedPcs, OwnerPcs
<1>2. closed => Same({"admitted"})
  BY Moved DEF TypeOK, Recheck, Same, Pcs
<1>3. TypeOK'
  <2>1. waiters' \in Nat
    BY <1>1, Moved, AtFinite
    DEF TypeOK, History, Gauges, Recheck, Less, Pcs, WaiterPcs
  <2>2. QED  BY <2>1, Moved DEF TypeOK, Recheck, Pcs, semaphore
<1>4. QueueConsistent'
  BY DEF TypeOK, QueueConsistent, Recheck, Goto, At, semaphore
<1>5. Books' /\ Gauges'
  BY <1>1, AtFinite
  DEF TypeOK, History, Recheck, Books, Gauges, Same, Less, semaphore
<1>6. Stragglers'
  (* once closed, nobody is admitted any more *)
  BY <1>2 DEF Recheck, Stragglers, Same
<1>7. QED  BY <1>3, <1>4, <1>5, <1>6

LEMMA RefuseStep ==
  ASSUME IInv, NEW t \in Tasks, Refuse(t)
  PROVE  IInv'
<1> USE DEF IInv
<1>1. /\ Settled(1)
      /\ queue' \cup granted' = queue \cup granted /\ queue' \cap granted' = {}
  BY GiveBackSettles DEF Refuse
<1>2. Less(OwnerPcs) /\ Same(WaiterPcs) /\ Same(CountedPcs) /\ Same({"admitted"})
  BY Moved DEF TypeOK, Refuse, Less, Same, Pcs, WaiterPcs, CountedPcs, OwnerPcs
<1>3. QueueConsistent'
  BY <1>1 DEF TypeOK, QueueConsistent, Refuse, Goto, At
<1>4. Books'
  BY <1>1, <1>2, AtFinite, GrantedFinite DEF TypeOK, Books, Settled, Less
<1>5. TypeOK'
  <2>1. queue' \subseteq Tasks /\ granted' \subseteq Tasks
    BY <1>3 DEF QueueConsistent, At
  <2>2. Count(OwnerPcs)' \in Nat
    BY Moved DEF TypeOK, Refuse, Pcs
  <2>3. available' \in 0..Lanes
    BY <1>1, <1>4, <2>2 DEF Books, Settled
  <2>4. pc' \in [Tasks -> Pcs] /\ metrics' \in Metrics
    BY DEF TypeOK, Refuse, Goto, Pcs, Metrics
  <2>5. QED  BY <2>1, <2>3, <2>4 DEF TypeOK, Refuse
<1>6. Gauges' /\ Stragglers'
  BY <1>2 DEF Refuse, Gauges, Stragglers, Same
<1>7. QED  BY <1>3, <1>4, <1>5, <1>6

LEMMA AdmitStep ==
  ASSUME IInv, NEW t \in Tasks, Admit(t)
  PROVE  IInv'
<1> USE DEF IInv
<1>1. Same(OwnerPcs) /\ Same(WaiterPcs) /\ More(CountedPcs) /\ Less({"admitted"})
  BY Moved DEF TypeOK, Admit, More, Less, Same, Pcs, WaiterPcs, CountedPcs,
       OwnerPcs
<1>2. TypeOK'
  <2>1. hist' \in History
    <3> DEFINE h == [hist EXCEPT !.issued = @ + 1]
    <3>1. h \in History /\ h.late \in Nat
      BY DEF TypeOK, History
    <3>2. hist' = [h EXCEPT !.late = h.late + IF closed THEN 1 ELSE 0]
      BY DEF Admit, TypeOK, History
    <3>3. h.late + (IF closed THEN 1 ELSE 0) \in Nat
      BY <3>1
    <3>4. QED  BY <3>1, <3>2, <3>3 DEF History
  <2>2. QED  BY <2>1, Moved DEF TypeOK, Admit, Pcs, semaphore
<1>3. QueueConsistent'
  BY DEF TypeOK, QueueConsistent, Admit, Goto, At, semaphore
<1>4. Books'
  BY <1>1 DEF Admit, Books, Same, semaphore
<1>5. Gauges'
  BY <1>1, AtFinite DEF TypeOK, History, Admit, Gauges, Same, More
<1>6. Stragglers'
  (* a late permit is one admitted call fewer *)
  BY <1>1, AtFinite DEF TypeOK, History, Admit, Stragglers, Less
<1>7. QED  BY <1>2, <1>3, <1>4, <1>5, <1>6

(* The steps of a command move its task within the permit's lifetime.      *)
LEMMA CommandStep ==
  ASSUME IInv, NEW t \in Tasks,
         \/ Begin(t) \/ NoBudget(t) \/ Reply(t) \/ CommandTimeout(t)
         \/ CancelCommand(t)
  PROVE  IInv'
<1>1. PICK w \in {"holding", "running", "served"} : Goto(t, w)
  BY DEF Begin, NoBudget, Reply, CommandTimeout, CancelCommand, AfterCommand
<1>2. pc[t] \in {"holding", "running"}
  BY DEF Begin, NoBudget, Reply, CommandTimeout, CancelCommand
<1>3. UNCHANGED <<closed, semaphore, in_flight, waiters, backend, closer>>
  BY DEF Begin, NoBudget, Reply, CommandTimeout, CancelCommand
<1>4. hist' \in History /\ hist'.abandoned = hist.abandoned
      /\ hist'.late = hist.late
  BY DEF IInv, TypeOK, History, Begin, NoBudget, Reply, CommandTimeout,
         CancelCommand
<1>5. metrics' \in Metrics
  BY DEF IInv, TypeOK, Metrics, Begin, NoBudget, Reply, CommandTimeout,
         CancelCommand
<1>6. TypeOK'
  BY <1>1, <1>3, <1>4, <1>5, Moved DEF IInv, TypeOK, Pcs, semaphore
<1>7. QED
  BY <1>1, <1>2, <1>3, <1>4, <1>6, QuietMove
  DEF IInv, Pcs, OwnerPcs, CountedPcs, WaiterPcs

LEMMA DropPermitStep ==
  ASSUME IInv, NEW t \in Tasks, DropPermit(t)
  PROVE  IInv'
<1> USE DEF IInv
<1>1. Same(OwnerPcs) /\ Same(WaiterPcs) /\ Less(CountedPcs) /\ Same({"admitted"})
  BY Moved DEF TypeOK, DropPermit, Less, Same, Pcs, WaiterPcs, CountedPcs,
       OwnerPcs
<1>2. Count(CountedPcs)' \in Nat
  BY Moved DEF TypeOK, DropPermit, Pcs
<1>3. TypeOK'
  BY <1>1, <1>2, Moved DEF TypeOK, Gauges, DropPermit, Less, Pcs, semaphore
<1>4. QueueConsistent'
  BY DEF TypeOK, QueueConsistent, DropPermit, Goto, At, semaphore
<1>5. Books' /\ Gauges' /\ Stragglers'
  BY <1>1 DEF DropPermit, Books, Gauges, Stragglers, Same, Less, semaphore
<1>6. QED  BY <1>3, <1>4, <1>5

LEMMA ReleaseStep ==
  ASSUME IInv, NEW t \in Tasks, Release(t)
  PROVE  IInv'
<1> USE DEF IInv
<1>1. /\ Settled(1)
      /\ queue' \cup granted' = queue \cup granted /\ queue' \cap granted' = {}
  BY GiveBackSettles DEF Release
<1>2. Less(OwnerPcs) /\ Same(WaiterPcs) /\ Same(CountedPcs) /\ Same({"admitted"})
  BY Moved DEF TypeOK, Release, Less, Same, Pcs, WaiterPcs, CountedPcs, OwnerPcs
<1>3. QueueConsistent'
  BY <1>1 DEF TypeOK, QueueConsistent, Release, Goto, At
<1>4. Books'
  BY <1>1, <1>2, AtFinite, GrantedFinite DEF TypeOK, Books, Settled, Less
<1>5. TypeOK'
  <2>1. queue' \subseteq Tasks /\ granted' \subseteq Tasks
    BY <1>3 DEF QueueConsistent, At
  <2>2. Count(OwnerPcs)' \in Nat
    BY Moved DEF TypeOK, Release, Pcs
  <2>3. available' \in 0..Lanes
    BY <1>1, <1>4, <2>2 DEF Books, Settled
  <2>4. QED  BY <2>1, <2>3, Moved DEF TypeOK, Release, Pcs
<1>6. Gauges' /\ Stragglers'
  BY <1>2 DEF Release, Gauges, Stragglers, Same
<1>7. QED  BY <1>3, <1>4, <1>5, <1>6

(* The calls admitted when closed is stored own lanes, so there are at     *)
(* most Lanes of them.                                                     *)
LEMMA CloserStep ==
  ASSUME IInv, NEW c \in Closers, Close(c) \/ CloseReturns(c) \/ CancelClose(c)
  PROVE  IInv'
<1> USE DEF IInv
<1>1. UNCHANGED <<backend, taskVars>> /\ closed' \in BOOLEAN
      /\ (closed' = closed \/ closed' = TRUE)
  BY DEF TypeOK, Close, CloseReturns, CancelClose
<1>2. closer' \in [Closers -> {"idle", "draining", "ok", "timeout"}]
  BY DEF TypeOK, Close, CloseReturns, CancelClose
<1>3. TypeOK' /\ QueueConsistent' /\ Books' /\ Gauges'
  BY <1>1, <1>2 DEF TypeOK, QueueConsistent, Books, Gauges, Count, At, taskVars
<1>4. Stragglers'
  <2>1. Count({"admitted"})' = Count({"admitted"}) /\ hist' = hist
    BY <1>1 DEF Count, At, taskVars
  <2>2. Count({"admitted"}) <= Lanes
    <3>1. At({"admitted"}) \in SUBSET At(OwnerPcs)
      BY DEF At, OwnerPcs
    <3>2. Count({"admitted"}) <= Count(OwnerPcs)
      BY <3>1, AtFinite, FS_Subset DEF Count
    <3>3. QED  BY <3>2, AtFinite, GrantedFinite DEF TypeOK, Books
  <2>3. QED  BY <1>1, <2>1, <2>2, AtFinite DEF TypeOK, History, Stragglers
<1>5. QED  BY <1>3, <1>4
-----------------------------------------------------------------------------
LEMMA InitIInv == Init => IInv
<1> SUFFICES ASSUME Init PROVE IInv
  OBVIOUS
<1>1. \A S \in {OwnerPcs, CountedPcs, WaiterPcs, {"admitted"}} : Count(S) = 0
  <2>1. \A S \in {OwnerPcs, CountedPcs, WaiterPcs, {"admitted"}} : At(S) = {}
    BY DEF Init, At, OwnerPcs, CountedPcs, WaiterPcs
  <2>2. QED  BY <2>1, FS_EmptySet DEF Count
<1>2. TypeOK
  <2>1. metrics \in Metrics /\ hist \in History
    BY DEF Init, Metrics, History
  <2>2. pc \in [Tasks -> Pcs] /\ available \in 0..Lanes
    BY DEF Init, Pcs
  <2>3. QED  BY <2>1, <2>2 DEF Init, TypeOK
<1>3. QueueConsistent
  BY DEF Init, QueueConsistent, At
<1>4. Books /\ Gauges /\ Stragglers
  BY <1>1, FS_EmptySet DEF Init, Books, Gauges, Stragglers
<1>5. QED  BY <1>2, <1>3, <1>4 DEF IInv

LEMMA NextIInv == IInv /\ [Next]_vars => IInv'
<1> SUFFICES ASSUME IInv, [Next]_vars PROVE IInv'
  OBVIOUS
<1>1. CASE \E t \in Tasks : TaskStep(t)
  BY <1>1, EnterStep, RegisterStep, WakeStep, ExpireStep, LapseStep,
     RecheckStep, RefuseStep, AdmitStep, CancelAcquireStep, CommandStep,
     DropPermitStep, ReleaseStep DEF TaskStep
<1>2. CASE \E c \in Closers : Close(c) \/ CloseReturns(c) \/ CancelClose(c)
  BY <1>2, CloserStep
<1>3. CASE UNCHANGED vars
  BY <1>3 DEF vars, IInv, TypeOK, QueueConsistent, Books, Gauges, Stragglers,
              Count, At
<1>4. QED  BY <1>1, <1>2, <1>3 DEF Next

LEMMA Invariance == Spec => []IInv
BY InitIInv, NextIInv, PTL DEF Spec

(* The permits in the hands of tasks and those granted to queued calls.    *)
LEMMA OwnersCount ==
  ASSUME IInv
  PROVE  Cardinality(Owners) = Count(OwnerPcs) + Cardinality(granted)
<1>1. At(OwnerPcs) \cap granted = {}
  BY DEF IInv, QueueConsistent, At, OwnerPcs
<1>2. Cardinality(At(OwnerPcs) \cup granted)
        = Cardinality(At(OwnerPcs)) + Cardinality(granted)
          - Cardinality(At(OwnerPcs) \cap granted)
  BY AtFinite, GrantedFinite, FS_Union DEF IInv
<1>3. Count(OwnerPcs) \in Nat /\ Cardinality(granted) \in Nat
  BY AtFinite, GrantedFinite DEF IInv
<1>4. QED  BY <1>1, <1>2, <1>3, FS_EmptySet DEF Owners, Count
-----------------------------------------------------------------------------
(* Every reachable state is well typed: no counter goes below zero and no  *)
(* more than max_in_flight permits are ever free.                          *)
THEOREM TypeCorrect == Spec => []TypeOK
<1>1. IInv => TypeOK
  BY DEF IInv
<1>2. QED  BY <1>1, Invariance, PTL

(* Permits are conserved, and a call is queued only while every one of     *)
(* them has an owner.                                                      *)
THEOREM PermitsConserved == Spec => [](LaneConservation /\ QueuedMeansSaturated)
<1>1. IInv => LaneConservation /\ QueuedMeansSaturated
  BY OwnersCount, AtFinite, GrantedFinite
  DEF IInv, TypeOK, Books, LaneConservation, QueuedMeansSaturated
<1>2. QED  BY <1>1, Invariance, PTL

(* in_flight counts the live permits and never exceeds max_in_flight.      *)
THEOREM BackpressureBound == Spec => []InFlightExact
<1>1. ASSUME IInv PROVE InFlightExact
  <2>1. At(CountedPcs) \in SUBSET At(OwnerPcs)
    BY DEF At, CountedPcs, OwnerPcs
  <2>2. Count(CountedPcs) <= Count(OwnerPcs)
    BY <2>1, AtFinite, FS_Subset DEF Count
  <2>3. QED
    BY <1>1, <2>2, AtFinite, GrantedFinite
    DEF IInv, TypeOK, Books, Gauges, InFlightExact, Count
<1>2. QED  BY <1>1, Invariance, PTL

(* At most max_in_flight permits are issued after the pool was closed.     *)
THEOREM CloseCutsOff == Spec => []StragglersBounded
<1>1. IInv => StragglersBounded
  BY DEF IInv, Stragglers, StragglersBounded, Count
<1>2. QED  BY <1>1, Invariance, PTL

(* The waiters gauge exceeds the number of queued calls by the number of   *)
(* acquisitions that were dropped while queued.                            *)
THEOREM GaugeDrift == Spec => []WaitersDrift
<1>1. IInv => WaitersDrift
  BY DEF IInv, Gauges, WaitersDrift, Count
<1>2. QED  BY <1>1, Invariance, PTL
-----------------------------------------------------------------------------
(* The pool implements the abstract gate.  Seen from outside, a call is    *)
(* inside from its second closed check to the decrement of in_flight.      *)
InsidePcs == {"admitted", "holding", "running", "served"}

(* The check that lets a call in finds the gate open and a lane free: the  *)
(* call itself already owns one of the Lanes permits.                      *)
LEMMA RecheckLetsIn ==
  ASSUME IInv, NEW t \in Tasks, Recheck(t), ~closed
  PROVE  Gate!LetIn(t)
<1>1. At(InsidePcs)' = At(InsidePcs) \cup {t} /\ t \notin At(InsidePcs)
  BY DEF IInv, TypeOK, Recheck, Goto, At, InsidePcs
<1>2. Cardinality(At(InsidePcs)) < Lanes
  <2>1. At(InsidePcs) \in SUBSET (At(OwnerPcs) \ {t})
    BY DEF Recheck, At, InsidePcs, OwnerPcs
  <2>2. t \in At(OwnerPcs)
    BY DEF Recheck, At, OwnerPcs
  <2>3. Cardinality(At(OwnerPcs) \ {t}) = Count(OwnerPcs) - 1
        /\ IsFiniteSet(At(OwnerPcs) \ {t})
    BY <2>2, AtFinite, FS_RemoveElement DEF Count
  <2>4. Cardinality(At(InsidePcs)) <= Count(OwnerPcs) - 1
    BY <2>1, <2>3, FS_Subset
  <2>5. Count(InsidePcs) \in Nat /\ Count(OwnerPcs) \in Nat
    BY AtFinite
  <2>6. QED  BY <2>4, <2>5, GrantedFinite DEF IInv, TypeOK, Books, Count
<1>3. closed' = closed
  BY DEF Recheck
<1>4. Gate!Cardinality(At(InsidePcs)) = Cardinality(At(InsidePcs))
  BY DEF Cardinality, Gate!Cardinality
<1>5. QED  BY <1>1, <1>2, <1>3, <1>4 DEF Gate!LetIn, InsidePcs

(* Every other step of a task leaves the gate alone or lets the task out.  *)
LEMMA TaskStepOfGate ==
  ASSUME IInv, NEW t \in Tasks, TaskStep(t)
  PROVE  Gate!LetIn(t) \/ Gate!LetOut(t) \/ UNCHANGED Gate!gateVars
<1>1. CASE Recheck(t)
  <2>1. CASE closed
    <3>1. At(InsidePcs)' = At(InsidePcs) /\ closed' = closed
      BY <1>1, <2>1 DEF IInv, TypeOK, Recheck, Goto, At, InsidePcs
    <3>2. QED  BY <3>1 DEF Gate!gateVars, InsidePcs
  <2>2. QED  BY <1>1, <2>1, RecheckLetsIn
<1>2. CASE DropPermit(t)
  <2>1. At(InsidePcs)' = At(InsidePcs) \ {t} /\ t \in At(InsidePcs)
        /\ closed' = closed
    BY <1>2 DEF IInv, TypeOK, DropPermit, Goto, At, InsidePcs
  <2>2. QED  BY <2>1 DEF Gate!LetOut, InsidePcs
<1>3. CASE ~(Recheck(t) \/ DropPermit(t))
  <2>1. closed' = closed
    BY <1>3 DEF TaskStep, Enter, Register, Wake, Expire, Lapse, Refuse, Admit,
         CancelAcquire, Begin, NoBudget, Reply, CommandTimeout, CancelCommand,
         Release
  <2>2. \/ UNCHANGED pc
        \/ \E w \in Pcs : Goto(t, w)
                          /\ (w \in InsidePcs) = (pc[t] \in InsidePcs)
    BY <1>3
    DEF TaskStep, Enter, Register, PollAcquire, Wake, Expire, Lapse, Refuse,
        Admit, CancelAcquire, Begin, NoBudget, Reply, CommandTimeout,
        CancelCommand, AfterCommand, Release, Pcs, InsidePcs
  <2>3. At(InsidePcs)' = At(InsidePcs)
    BY <2>2 DEF IInv, TypeOK, Goto, At
  <2>4. QED  BY <2>1, <2>3 DEF Gate!gateVars, InsidePcs
<1>4. QED  BY <1>1, <1>2, <1>3

LEMMA StepOfGate == IInv /\ [Next]_vars => [Gate!Next]_(Gate!gateVars)
<1> SUFFICES ASSUME IInv, [Next]_vars
             PROVE  Gate!Next \/ UNCHANGED Gate!gateVars
  OBVIOUS
<1>1. CASE \E t \in Tasks : TaskStep(t)
  BY <1>1, TaskStepOfGate DEF Gate!Next
<1>2. CASE \E c \in Closers : Close(c) \/ CloseReturns(c) \/ CancelClose(c)
  <2>1. UNCHANGED pc /\ (closed' = closed \/ closed' = TRUE)
    BY <1>2 DEF Close, CloseReturns, CancelClose, taskVars
  <2>2. At(InsidePcs)' = At(InsidePcs)
    BY <2>1 DEF At
  <2>3. QED  BY <2>1, <2>2 DEF Gate!Next, Gate!Shut, Gate!gateVars, InsidePcs
<1>3. CASE UNCHANGED vars
  BY <1>3 DEF vars, Gate!gateVars, At
<1>4. QED  BY <1>1, <1>2, <1>3 DEF Next

(* Whatever the tasks do, callers see a gate that holds at most            *)
(* max_in_flight of them, lets nobody in once closed and never reopens.    *)
THEOREM PoolImplementsGate == Spec => ImplementsLaneGate
<1>1. Init => Gate!Init
  BY DEF Init, Gate!Init, At
<1>2. QED
  BY <1>1, StepOfGate, Invariance, PTL DEF Spec, ImplementsLaneGate, Gate!Spec
-----------------------------------------------------------------------------
(* Accounting: each call that leaves the program points of an acquisition  *)
(* adds one to exactly one counter, and so does each command.              *)
LEMMA Numbers ==
  ASSUME TypeOK
  PROVE  /\ hist.calls \in Nat /\ hist.unconnected \in Nat
         /\ hist.abandoned \in Nat /\ hist.issued \in Nat
         /\ hist.begun \in Nat /\ hist.dropped \in Nat
         /\ metrics.commands_ok \in Nat /\ metrics.commands_err \in Nat
         /\ metrics.commands_timeout \in Nat
         /\ metrics.acquire_timeout \in Nat /\ metrics.rejected_closed \in Nat
         /\ Resolved \in Nat /\ Finished \in Nat
<1>1. /\ hist.calls \in Nat /\ hist.unconnected \in Nat
      /\ hist.abandoned \in Nat /\ hist.issued \in Nat
      /\ hist.begun \in Nat /\ hist.dropped \in Nat
  BY DEF TypeOK, History
<1>2. /\ metrics.commands_ok \in Nat /\ metrics.commands_err \in Nat
      /\ metrics.commands_timeout \in Nat
      /\ metrics.acquire_timeout \in Nat /\ metrics.rejected_closed \in Nat
  BY DEF TypeOK, Metrics
<1>3. QED  BY <1>1, <1>2 DEF Resolved, Finished

(* The two ways an acquisition's books can change.                         *)
LEMMA OneMoreCall ==
  ASSUME IInv, AcquireAccounted, hist'.calls = hist.calls + 1,
         \/ More(Acquiring) /\ Resolved' = Resolved
         \/ Same(Acquiring) /\ Resolved' = Resolved + 1
  PROVE  AcquireAccounted'
BY Numbers, AtFinite DEF IInv, AcquireAccounted, Count, More, Same

LEMMA NoMoreCalls ==
  ASSUME IInv, AcquireAccounted, hist'.calls = hist.calls,
         \/ Same(Acquiring) /\ Resolved' = Resolved
         \/ Less(Acquiring) /\ Resolved' = Resolved + 1
  PROVE  AcquireAccounted'
BY Numbers, AtFinite DEF IInv, AcquireAccounted, Count, Less, Same

LEMMA AcquireAccountedStep ==
  ASSUME IInv, AcquireAccounted, NEW t \in Tasks, TaskStep(t)
  PROVE  AcquireAccounted'
<1>1. CASE Enter(t)
  <2>1. hist'.calls = hist.calls + 1
    BY <1>1 DEF IInv, TypeOK, History, Enter
  <2>2. CASE closed
    <3>1. Resolved' = Resolved + 1
      BY <1>1, <2>2, Numbers DEF IInv, TypeOK, History, Metrics, Enter, Resolved
    <3>2. Same(Acquiring)
      BY <1>1, <2>2 DEF Enter, Same, Count, At
    <3>3. QED  BY <2>1, <3>1, <3>2, OneMoreCall
  <2>3. CASE ~closed /\ ~backend
    <3>1. Resolved' = Resolved + 1
      <4>1. /\ hist'.unconnected = hist.unconnected + 1
            /\ hist'.issued = hist.issued /\ hist'.abandoned = hist.abandoned
            /\ metrics' = metrics
        BY <1>1, <2>3 DEF IInv, TypeOK, History, Enter
      <4>2. QED  BY <4>1, Numbers DEF IInv, Resolved
    <3>2. Same(Acquiring)
      BY <1>1, <2>3 DEF Enter, Same, Count, At
    <3>3. QED  BY <2>1, <3>1, <3>2, OneMoreCall
  <2>4. CASE ~closed /\ backend
    <3>1. Resolved' = Resolved
      BY <1>1, <2>4, Numbers DEF IInv, TypeOK, History, Metrics, Enter, Resolved
    <3>2. More(Acquiring)
      BY <1>1, <2>4, Moved DEF IInv, TypeOK, Enter, More, Pcs, Acquiring
    <3>3. QED  BY <2>1, <3>1, <3>2, OneMoreCall
  <2>5. QED  BY <2>2, <2>3, <2>4 DEF IInv, TypeOK
<1>2. CASE Register(t) \/ Wake(t) \/ Expire(t) \/ Recheck(t)
  <2>1. Same(Acquiring)
    BY <1>2, Moved
    DEF IInv, TypeOK, Register, PollAcquire, Wake, Expire, Recheck, Same, Pcs,
        Acquiring
  <2>2. UNCHANGED <<metrics, hist>>
    BY <1>2 DEF Register, Wake, Expire, Recheck
  <2>3. QED  BY <2>1, <2>2, NoMoreCalls DEF Resolved
<1>3. CASE Lapse(t) \/ Refuse(t) \/ Admit(t) \/ CancelAcquire(t)
  <2>1. Less(Acquiring)
    BY <1>3, Moved
    DEF IInv, TypeOK, Lapse, Refuse, Admit, CancelAcquire, Less, Pcs, Acquiring
  <2>2. hist'.calls = hist.calls
    BY <1>3 DEF IInv, TypeOK, History, Lapse, Refuse, Admit, CancelAcquire
  <2>3. Resolved' = Resolved + 1
    <3>1. CASE Lapse(t) \/ Refuse(t)
      BY <3>1, Numbers DEF IInv, TypeOK, Metrics, Lapse, Refuse, Resolved
    <3>2. CASE Admit(t)
      <4>1. /\ hist'.issued = hist.issued + 1
            /\ hist'.unconnected = hist.unconnected
            /\ hist'.abandoned = hist.abandoned /\ metrics' = metrics
        BY <3>2 DEF IInv, TypeOK, History, Admit
      <4>2. QED  BY <4>1, Numbers DEF IInv, Resolved
    <3>3. CASE CancelAcquire(t)
      BY <3>3, Numbers DEF IInv, TypeOK, History, CancelAcquire, Resolved
    <3>4. QED  BY <1>3, <3>1, <3>2, <3>3
  <2>4. QED  BY <2>1, <2>2, <2>3, NoMoreCalls
<1>4. CASE \/ Begin(t) \/ NoBudget(t) \/ Reply(t) \/ CommandTimeout(t)
           \/ CancelCommand(t) \/ DropPermit(t) \/ Release(t)
  <2>1. Same(Acquiring)
    BY <1>4, Moved
    DEF IInv, TypeOK, Begin, NoBudget, Reply, CommandTimeout, CancelCommand,
        AfterCommand, DropPermit, Release, Same, Pcs, Acquiring
  <2>2. /\ hist'.calls = hist.calls /\ hist'.issued = hist.issued
        /\ hist'.unconnected = hist.unconnected
        /\ hist'.abandoned = hist.abandoned
    BY <1>4
    DEF IInv, TypeOK, History, Begin, NoBudget, Reply, CommandTimeout,
        CancelCommand, DropPermit, Release
  <2>3. /\ metrics'.rejected_closed = metrics.rejected_closed
        /\ metrics'.acquire_timeout = metrics.acquire_timeout
    BY <1>4
    DEF IInv, TypeOK, Metrics, Begin, NoBudget, Reply, CommandTimeout,
        CancelCommand, DropPermit, Release
  <2>4. QED  BY <2>1, <2>2, <2>3, NoMoreCalls DEF Resolved
<1>5. QED  BY <1>1, <1>2, <1>3, <1>4 DEF TaskStep

LEMMA CommandsAccountedStep ==
  ASSUME IInv, CommandsAccounted, NEW t \in Tasks, TaskStep(t)
  PROVE  CommandsAccounted'
<1> DEFINE R == {"running"}
<1>1. CASE Begin(t)
  <2>1. More(R)
    BY <1>1, Moved DEF IInv, TypeOK, Begin, More, Pcs
  <2>2. hist'.begun = hist.begun + 1 /\ Finished' = Finished
    BY <1>1 DEF IInv, TypeOK, History, Begin, Finished
  <2>3. QED
    BY <2>1, <2>2, Numbers, AtFinite DEF IInv, CommandsAccounted, Count, More
<1>2. CASE NoBudget(t)
  <2>1. Same(R)
    BY <1>2, Moved DEF IInv, TypeOK, NoBudget, Same, Pcs
  <2>2. hist'.begun = hist.begun + 1 /\ hist'.dropped = hist.dropped
    BY <1>2 DEF IInv, TypeOK, History, NoBudget
  <2>3. Finished' = Finished + 1
    BY <1>2, <2>2, Numbers DEF IInv, TypeOK, Metrics, NoBudget, Finished
  <2>4. QED
    BY <2>1, <2>2, <2>3, Numbers, AtFinite
    DEF IInv, CommandsAccounted, Count, Same
<1>3. CASE Reply(t) \/ CommandTimeout(t) \/ CancelCommand(t)
  <2>1. Less(R)
    BY <1>3, Moved
    DEF IInv, TypeOK, Reply, CommandTimeout, CancelCommand, AfterCommand, Less,
        Pcs
  <2>2. hist'.begun = hist.begun
    BY <1>3 DEF IInv, TypeOK, History, Reply, CommandTimeout, CancelCommand
  <2>3. Finished' = Finished + 1
    <3>1. CASE Reply(t) \/ CommandTimeout(t)
      BY <3>1, Numbers
      DEF IInv, TypeOK, Metrics, Reply, CommandTimeout, Finished
    <3>2. CASE CancelCommand(t)
      BY <3>2, Numbers DEF IInv, TypeOK, History, CancelCommand, Finished
    <3>3. QED  BY <1>3, <3>1, <3>2
  <2>4. QED
    BY <2>1, <2>2, <2>3, Numbers, AtFinite
    DEF IInv, CommandsAccounted, Count, Less
<1>4. CASE \/ Enter(t) \/ Register(t) \/ Wake(t) \/ Expire(t) \/ Lapse(t)
           \/ Recheck(t) \/ Refuse(t) \/ Admit(t) \/ CancelAcquire(t)
           \/ DropPermit(t) \/ Release(t)
  <2>1. At(R)' = At(R)
    <3>1. pc[t] # "running" /\ \/ UNCHANGED pc
                               \/ \E w \in Pcs \ R : Goto(t, w)
      BY <1>4
      DEF Enter, Register, PollAcquire, Wake, Expire, Lapse, Recheck, Refuse,
          Admit, CancelAcquire, DropPermit, Release, Pcs
    <3>2. QED  BY <3>1 DEF IInv, TypeOK, Goto, At
  <2>2. hist'.begun = hist.begun /\ hist'.dropped = hist.dropped
    BY <1>4
    DEF IInv, TypeOK, History, Enter, Register, Wake, Expire, Lapse, Recheck,
        Refuse, Admit, CancelAcquire, DropPermit, Release
  <2>3. /\ metrics'.commands_ok = metrics.commands_ok
        /\ metrics'.commands_err = metrics.commands_err
        /\ metrics'.commands_timeout = metrics.commands_timeout
    BY <1>4
    DEF IInv, TypeOK, Metrics, Enter, Register, Wake, Expire, Lapse, Recheck,
        Refuse, Admit, CancelAcquire, DropPermit, Release
  <2>4. QED  BY <2>1, <2>2, <2>3 DEF CommandsAccounted, Finished
<1>5. QED  BY <1>1, <1>2, <1>3, <1>4 DEF TaskStep

(* Every acquisition and every command is counted exactly once.            *)
THEOREM EveryCallCounted == Spec => [](AcquireAccounted /\ CommandsAccounted)
<1> DEFINE I == IInv /\ AcquireAccounted /\ CommandsAccounted
<1>1. Init => I
  <2> SUFFICES ASSUME Init PROVE AcquireAccounted /\ CommandsAccounted
    BY InitIInv
  <2>1. At(Acquiring) = {} /\ At({"running"}) = {}
    BY DEF Init, At, Acquiring
  <2>2. Cardinality(At(Acquiring)) = 0 /\ Cardinality(At({"running"})) = 0
    BY <2>1, FS_EmptySet
  <2>3. QED
    BY <2>2
    DEF Init, AcquireAccounted, CommandsAccounted, Resolved, Finished
<1>2. I /\ [Next]_vars => I'
  <2> SUFFICES ASSUME I, [Next]_vars
               PROVE  AcquireAccounted' /\ CommandsAccounted'
    BY NextIInv
  <2>1. CASE \E t \in Tasks : TaskStep(t)
    BY <2>1, AcquireAccountedStep, CommandsAccountedStep
  <2>2. CASE \E c \in Closers : Close(c) \/ CloseReturns(c) \/ CancelClose(c)
    BY <2>2 DEF Close, CloseReturns, CancelClose, taskVars, At,
                AcquireAccounted, CommandsAccounted, Resolved, Finished
  <2>3. CASE UNCHANGED vars
    BY <2>3 DEF vars, At, AcquireAccounted, CommandsAccounted, Resolved,
                Finished
  <2>4. QED  BY <2>1, <2>2, <2>3 DEF Next
<1>3. QED  BY <1>1, <1>2, PTL DEF Spec
=============================================================================
