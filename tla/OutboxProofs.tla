---------------------------- MODULE OutboxProofs ----------------------------
(***************************************************************************)
(* Proofs about Outbox, for every set of keys, every number of workers and *)
(* every combination of faults.                                            *)
(*                                                                         *)
(* That no more messages go out than a key was armed for is not inductive: *)
(* it counts what has been delivered, and says nothing of the deliveries   *)
(* to come.  CopiesInv adds them: a PENDING row will be reserved, and each *)
(* worker that holds the key unsent will send it.  Nor does the bound on   *)
(* the attempts carry itself over a step: AttemptsInv adds the workers     *)
(* that have read the attempts and will put the row back whatever it says  *)
(* by then.  When the last attempt is taken, each of them holds the key,   *)
(* and so does the worker that takes it; CopiesInv says how many can.      *)
(***************************************************************************)
EXTENDS Outbox, FiniteSetTheorems, TLAPS

\* the worker in state s has the message of k still to send
Holds(s, k) == k \in s.batch \/ (s.key = k /\ s.result \in {"none", "error", "retry"})

Copies(f, k) == {w \in Workers : Holds(f[w], k)}

\* the worker in state s has read that k has an attempt left
Retrying(s, k) == s.key = k /\ s.result = "retry"

Retriers(f, k) == {w \in Workers : Retrying(f[w], k)}

InHandOnce == \A w \in Workers : worker[w].key \notin worker[w].batch

CopiesInv ==
    \A k \in Keys :
        delivered[k] + Cardinality(Copies(worker, k)) + Waiting(job[k]) <= armed[k]

OnceInv == \A k \in Once : armed[k] <= 1 /\ (job[k].status = "ABSENT" => armed[k] = 0)

AttemptsInv ==
    \A k \in Keys : job[k].attempts >= MaxAttempts =>
        job[k].attempts + Cardinality(Retriers(worker, k)) + Waiting(job[k])
            <= MaxAttempts + Rivals(armed[k])

IInv == TypeOK /\ AttemptsInv /\ InHandOnce /\ CopiesInv /\ OnceInv

-----------------------------------------------------------------------------
(* Types. *)

LEMMA FreshType ==
    ASSUME NEW due \in 0..Horizon
    PROVE  Fresh(due) \in Row
  BY DEF Fresh, Row, Live

LEMMA CancelledType ==
    ASSUME NEW row \in Row
    PROVE  Cancelled(row) \in Row
  BY DEF Cancelled, Row, Live, Final

LEMMA ReservedType ==
    ASSUME NEW row \in Row
    PROVE  Reserved(row) \in Row
  <1>1. row.attempts + 1 \in Nat
    BY DEF Row
  <1> QED
    BY <1>1 DEF Reserved, Row, Live

LEMMA ByType ==
    ASSUME NEW t \in Nat
    PROVE  By(t) \in 0..Horizon
  BY OutboxConstants DEF By

LEMMA AfterType ==
    ASSUME NEW row \in Row, NEW result \in {"true", "false", "retry", "failed"},
           NEW at \in 0..Horizon
    PROVE  After(row, result, at) \in Row
  <1>1. By(at + Backoff) \in 0..Horizon
    BY OutboxConstants, ByType
  <1>2. StatusAfter(result) \in Live \cup Final
    BY DEF StatusAfter, Live, Final
  <1> QED
    BY <1>1, <1>2 DEF After, Row

LEMMA IdleType == Idle \in Worker
  BY OutboxConstants DEF Idle, Worker

LEMMA InitType ==
    ASSUME Init
    PROVE  TypeOK
  BY OutboxConstants, IdleType DEF Init, TypeOK, Absent, Row

LEMMA EnqueueType ==
    ASSUME TypeOK, NEW cancel, NEW fresh, NEW due \in [fresh -> 0..Horizon],
           Enqueue(cancel, fresh, due)
    PROVE  TypeOK'
  <1>1. ASSUME NEW k \in Keys PROVE job'[k] \in Row
    <2>1. job[k] \in Row
      BY DEF TypeOK
    <2>2. CASE k \in fresh
      <3>1. due[k] \in 0..Horizon
        BY <2>2, OutboxConstants DEF TypeOK
      <3> QED
        BY <2>1, <2>2, <3>1, FreshType DEF Enqueue
    <2>3. CASE k \notin fresh
      BY <2>1, <2>3, CancelledType DEF Enqueue
    <2> QED
      BY <2>2, <2>3
  <1>2. job' \in [Keys -> Row]
    BY <1>1 DEF Enqueue
  <1>3. armed' \in [Keys -> Nat]
    BY DEF Enqueue, TypeOK
  <1> QED
    BY <1>2, <1>3 DEF Enqueue, TypeOK

LEMMA ReserveType ==
    ASSUME TypeOK, NEW w \in Workers, NEW batch, Reserve(w, batch)
    PROVE  TypeOK'
  <1>1. batch \subseteq Keys
    BY DEF Reserve, Earliest, DuePending
  <1>2. [Idle EXCEPT !.batch = batch, !.at = now] \in Worker
    BY <1>1, IdleType DEF Worker, Idle, TypeOK
  <1>3. \A k \in Keys : job[k] \in Row /\ Reserved(job[k]) \in Row
    BY ReservedType DEF TypeOK
  <1>4. job' \in [Keys -> Row]
    BY <1>3 DEF Reserve
  <1>5. worker' \in [Workers -> Worker]
    BY <1>2 DEF Reserve, TypeOK
  <1> QED
    BY <1>4, <1>5 DEF Reserve, TypeOK

LEMMA DroppedType ==
    ASSUME TypeOK, NEW w \in Workers, Dropped(w)
    PROVE  worker' \in [Workers -> Worker]
  <1>1. worker[w] \in Worker
    BY DEF TypeOK
  <1>2. [worker[w] EXCEPT !.key = NoKey, !.result = "none"] \in Worker
    BY <1>1 DEF Worker
  <1> QED
    BY <1>2, IdleType DEF Dropped, TypeOK

LEMMA ProcessType ==
    ASSUME TypeOK, NEW w \in Workers, Process(w)
    PROVE  TypeOK'
  <1>0. worker[w] \in Worker
    BY DEF TypeOK
  <1>1. CASE \E k \in Keys, verdict \in {"none", "false"} : Take(w, k, verdict)
    <2>1. PICK k \in Keys, verdict \in {"none", "false"} : Take(w, k, verdict)
      BY <1>1
    <2>2. [batch |-> worker[w].batch \ {k}, key |-> k,
           result |-> verdict, at |-> worker[w].at] \in Worker
      BY <1>0 DEF Worker
    <2> QED
      BY <2>1, <2>2 DEF Take, TypeOK
  <1>2. CASE Deliver(w)
    <2>1. worker[w].key \in Keys
      BY <1>0, <1>2 DEF Deliver, Worker
    <2> QED
      BY <1>0, <1>2, <2>1 DEF Deliver, TypeOK, Worker
  <1>3. CASE DeliverRefused(w)
    BY <1>0, <1>3 DEF DeliverRefused, TypeOK, Worker
  <1>4. CASE SendError(w)
    BY <1>0, <1>4 DEF SendError, TypeOK, Worker
  <1>5. CASE Finalize(w)
    <2>1. /\ worker[w].key \in Keys
          /\ worker[w].result \in {"true", "false", "retry", "failed"}
          /\ worker[w].at \in 0..Horizon
      BY <1>0, <1>5 DEF Finalize, Worker
    <2>2. job[worker[w].key] \in Row
      BY <2>1 DEF TypeOK
    <2>3. After(job[worker[w].key], worker[w].result, worker[w].at) \in Row
      BY <2>1, <2>2, AfterType
    <2>4. job' \in [Keys -> Row]
      BY <1>5, <2>3 DEF Finalize, TypeOK
    <2> QED
      BY <1>5, <2>4, DroppedType DEF Finalize, TypeOK
  <1>6. CASE FinalizeFails(w)
    BY <1>6, DroppedType DEF FinalizeFails, TypeOK
  <1>7. CASE ReadAttempts(w)
    BY <1>0, <1>7 DEF ReadAttempts, TypeOK, Worker
  <1> QED
    BY <1>1, <1>2, <1>3, <1>4, <1>5, <1>6, <1>7 DEF Process

LEMMA NextType ==
    ASSUME TypeOK, [Next]_vars
    PROVE  TypeOK'
  <1>1. CASE Operate
    BY <1>1, EnqueueType DEF Operate
  <1>2. ASSUME NEW w \in Workers, Work(w) PROVE TypeOK'
    BY <1>2, ReserveType, ProcessType DEF Work
  <1>3. ASSUME NEW w \in Workers, Die(w) PROVE TypeOK'
    BY <1>3, IdleType DEF Die, TypeOK
  <1>4. CASE Tick
    BY <1>4, OutboxConstants DEF Tick, TypeOK
  <1>5. CASE UNCHANGED vars
    BY <1>5 DEF vars, TypeOK
  <1> QED
    BY <1>1, <1>2, <1>3, <1>4, <1>5 DEF Next

\* Every variable keeps its type, for all values of the constants.
THEOREM TypeCorrect == Spec => []TypeOK
  BY InitType, NextType, PTL DEF Spec

-----------------------------------------------------------------------------
(* Counting the workers that hold a key. *)

LEMMA CopiesFinite ==
    ASSUME NEW f, NEW k
    PROVE  IsFiniteSet(Copies(f, k)) /\ Cardinality(Copies(f, k)) \in Nat
  <1>1. Copies(f, k) \in SUBSET Workers
    BY DEF Copies
  <1>2. IsFiniteSet(Copies(f, k))
    BY <1>1, OutboxConstants, FS_Subset
  <1> QED
    BY <1>2, FS_CardinalityType

\* one worker's part of the count
LEMMA SplitCopies ==
    ASSUME NEW f, NEW w \in Workers, NEW k
    PROVE  /\ IsFiniteSet(Copies(f, k))
           /\ IsFiniteSet(Copies(f, k) \ {w})
           /\ Cardinality(Copies(f, k)) \in Nat
           /\ Cardinality(Copies(f, k) \ {w}) \in Nat
           /\ Cardinality(Copies(f, k)) =
                 Cardinality(Copies(f, k) \ {w}) + (IF Holds(f[w], k) THEN 1 ELSE 0)
  <1>2. IsFiniteSet(Copies(f, k))
    BY CopiesFinite
  <1>3. w \in Copies(f, k) <=> Holds(f[w], k)
    BY DEF Copies
  <1>4. /\ IsFiniteSet(Copies(f, k) \ {w})
        /\ Cardinality(Copies(f, k) \ {w}) =
              IF w \in Copies(f, k) THEN Cardinality(Copies(f, k)) - 1
              ELSE Cardinality(Copies(f, k))
    BY <1>2, FS_RemoveElement
  <1>5. Cardinality(Copies(f, k)) \in Nat /\ Cardinality(Copies(f, k) \ {w}) \in Nat
    BY <1>2, <1>4, FS_CardinalityType
  <1> QED
    BY <1>2, <1>3, <1>4, <1>5

\* a step that changes one worker's state changes no other worker's part
LEMMA CopiesChange ==
    ASSUME NEW f \in [Workers -> Worker], NEW g \in [Workers -> Worker],
           NEW w \in Workers, NEW k,
           \A v \in Workers \ {w} : g[v] = f[v]
    PROVE  Cardinality(Copies(g, k)) + (IF Holds(f[w], k) THEN 1 ELSE 0) =
           Cardinality(Copies(f, k)) + (IF Holds(g[w], k) THEN 1 ELSE 0)
  <1>1. Copies(f, k) \ {w} = Copies(g, k) \ {w}
    BY DEF Copies
  <1>2. /\ Cardinality(Copies(f, k)) \in Nat
        /\ Cardinality(Copies(f, k) \ {w}) \in Nat
        /\ Cardinality(Copies(f, k)) =
              Cardinality(Copies(f, k) \ {w}) + (IF Holds(f[w], k) THEN 1 ELSE 0)
    BY SplitCopies
  <1>3. /\ Cardinality(Copies(g, k)) \in Nat
        /\ Cardinality(Copies(g, k)) =
              Cardinality(Copies(g, k) \ {w}) + (IF Holds(g[w], k) THEN 1 ELSE 0)
    BY SplitCopies
  <1> QED
    BY <1>1, <1>2, <1>3

Part(s, k) == IF Holds(s, k) THEN 1 ELSE 0

\* what a worker's step has to show, key by key, for the count to hold
LEMMA CountStep ==
    ASSUME TypeOK, TypeOK', CopiesInv, armed' = armed, NEW w \in Workers,
           \A v \in Workers \ {w} : worker'[v] = worker[v],
           \A k \in Keys :
               delivered'[k] + Part(worker'[w], k) + Waiting(job'[k])
                   <= delivered[k] + Part(worker[w], k) + Waiting(job[k])
    PROVE  CopiesInv'
  <1> SUFFICES ASSUME NEW k \in Keys
               PROVE  delivered'[k] + Cardinality(Copies(worker', k)) + Waiting(job'[k])
                          <= armed'[k]
    BY DEF CopiesInv
  <1>1. Cardinality(Copies(worker', k)) + Part(worker[w], k) =
        Cardinality(Copies(worker, k)) + Part(worker'[w], k)
    BY CopiesChange DEF TypeOK, Part
  <1>2. Cardinality(Copies(worker', k)) \in Nat /\ Cardinality(Copies(worker, k)) \in Nat
    BY SplitCopies
  <1>3. /\ delivered[k] \in Nat /\ delivered'[k] \in Nat /\ armed[k] \in Nat
        /\ Waiting(job[k]) \in Nat /\ Waiting(job'[k]) \in Nat
        /\ Part(worker[w], k) \in Nat /\ Part(worker'[w], k) \in Nat
    BY DEF TypeOK, Waiting, Part
  <1>4. delivered[k] + Cardinality(Copies(worker, k)) + Waiting(job[k]) <= armed[k]
    BY DEF CopiesInv
  <1>5. delivered'[k] + Part(worker'[w], k) + Waiting(job'[k])
            <= delivered[k] + Part(worker[w], k) + Waiting(job[k])
    OBVIOUS
  <1> QED
    BY <1>1, <1>2, <1>3, <1>4, <1>5

-----------------------------------------------------------------------------
(* The workers that will put a row back, whatever it says by then. *)

LEMMA RivalsType ==
    ASSUME NEW arms \in Nat
    PROVE  Rivals(arms) \in Nat
  <1>1. Cardinality(Workers) \in Nat
    BY OutboxConstants, FS_CardinalityType
  <1> QED
    BY <1>1 DEF Rivals

LEMMA RetriersFinite ==
    ASSUME NEW f, NEW k
    PROVE  IsFiniteSet(Retriers(f, k)) /\ Cardinality(Retriers(f, k)) \in Nat
  <1>1. Retriers(f, k) \in SUBSET Workers
    BY DEF Retriers
  <1>2. IsFiniteSet(Retriers(f, k))
    BY <1>1, OutboxConstants, FS_Subset
  <1> QED
    BY <1>2, FS_CardinalityType

LEMMA RetriersFewer ==
    ASSUME NEW f, NEW g, NEW k, Retriers(g, k) \subseteq Retriers(f, k)
    PROVE  Cardinality(Retriers(g, k)) <= Cardinality(Retriers(f, k))
  <1>1. IsFiniteSet(Retriers(f, k))
    BY RetriersFinite
  <1> QED
    BY <1>1, FS_Subset

\* the worker that puts the row back was counted, and is no more
LEMMA RetriersLose ==
    ASSUME NEW f, NEW g, NEW k, NEW w \in Workers,
           Retrying(f[w], k), ~Retrying(g[w], k), \A v \in Workers \ {w} : g[v] = f[v]
    PROVE  Cardinality(Retriers(g, k)) = Cardinality(Retriers(f, k)) - 1
  <1>1. Retriers(g, k) = Retriers(f, k) \ {w} /\ w \in Retriers(f, k)
    BY DEF Retriers
  <1>2. IsFiniteSet(Retriers(f, k))
    BY RetriersFinite
  <1> QED
    BY <1>1, <1>2, FS_RemoveElement

\* the workers that will put k back and one more that has k to send
LEMMA RetriersRivals ==
    ASSUME NEW f, NEW arms \in Nat, NEW k, NEW w \in Workers,
           Holds(f[w], k), ~Retrying(f[w], k), Cardinality(Copies(f, k)) <= arms
    PROVE  Cardinality(Retriers(f, k)) <= Rivals(arms)
  <1>1. /\ Retriers(f, k) \cup {w} \subseteq Copies(f, k)
        /\ Copies(f, k) \subseteq Workers
        /\ w \notin Retriers(f, k)
    BY DEF Retriers, Copies, Holds, Retrying
  <1>2. IsFiniteSet(Copies(f, k)) /\ Cardinality(Copies(f, k)) \in Nat
    BY CopiesFinite
  <1>3. IsFiniteSet(Retriers(f, k)) /\ Cardinality(Retriers(f, k)) \in Nat
    BY RetriersFinite
  <1>4. Cardinality(Retriers(f, k) \cup {w}) = Cardinality(Retriers(f, k)) + 1
    BY <1>1, <1>3, FS_AddElement
  <1>5. Cardinality(Retriers(f, k) \cup {w}) <= Cardinality(Copies(f, k))
    BY <1>1, <1>2, FS_Subset
  <1>6. Cardinality(Copies(f, k)) <= Cardinality(Workers) /\ Cardinality(Workers) \in Nat
    BY <1>1, OutboxConstants, FS_Subset, FS_CardinalityType
  <1> QED
    BY <1>2, <1>3, <1>4, <1>5, <1>6 DEF Rivals

\* a step that leaves the row alone and adds nobody who will put it back
LEMMA AttemptsKept ==
    ASSUME TypeOK, AttemptsInv, NEW k \in Keys,
           job'[k] = job[k], armed'[k] = armed[k],
           job[k].attempts >= MaxAttempts => Retriers(worker', k) \subseteq Retriers(worker, k)
    PROVE  job'[k].attempts >= MaxAttempts =>
               job'[k].attempts + Cardinality(Retriers(worker', k)) + Waiting(job'[k])
                   <= MaxAttempts + Rivals(armed'[k])
  <1> SUFFICES ASSUME job[k].attempts >= MaxAttempts
               PROVE  job[k].attempts + Cardinality(Retriers(worker', k)) + Waiting(job[k])
                          <= MaxAttempts + Rivals(armed[k])
    OBVIOUS
  <1>1. Cardinality(Retriers(worker', k)) <= Cardinality(Retriers(worker, k))
    BY RetriersFewer
  <1>2. Cardinality(Retriers(worker', k)) \in Nat /\ Cardinality(Retriers(worker, k)) \in Nat
    BY RetriersFinite
  <1>3. job[k].attempts + Cardinality(Retriers(worker, k)) + Waiting(job[k])
            <= MaxAttempts + Rivals(armed[k])
    BY DEF AttemptsInv
  <1>4. job[k].attempts \in Nat /\ Waiting(job[k]) \in Nat
    BY DEF TypeOK, Row, Waiting
  <1>5. Rivals(armed[k]) \in Nat /\ MaxAttempts \in Nat
    BY OutboxConstants, RivalsType DEF TypeOK
  <1> QED
    BY <1>1, <1>2, <1>3, <1>4, <1>5

-----------------------------------------------------------------------------
(* The invariant. *)

LEMMA InitInv ==
    ASSUME Init
    PROVE  IInv
  <1>1. TypeOK
    BY InitType
  <1>2. AttemptsInv /\ InHandOnce /\ OnceInv
    BY OutboxConstants DEF Init, AttemptsInv, InHandOnce, OnceInv, Absent, Idle, Keys
  <1>3. \A k \in Keys : Copies(worker, k) = {}
    BY OutboxConstants DEF Init, Copies, Holds, Idle
  <1>4. CopiesInv
    BY <1>3, FS_EmptySet DEF Init, CopiesInv, Waiting, Absent
  <1> QED
    BY <1>1, <1>2, <1>4 DEF IInv

LEMMA EnqueueInv ==
    ASSUME IInv, TypeOK', NEW cancel, NEW fresh, NEW due, Enqueue(cancel, fresh, due)
    PROVE  IInv'
  <1>1. ASSUME NEW k \in Keys
        PROVE  \/ /\ k \in fresh
                  /\ job'[k].status = "PENDING" /\ job'[k].attempts = 0
                  /\ armed'[k] = armed[k] + 1
               \/ /\ job'[k].status = job[k].status \/ job'[k].status = "CANCELLED"
                  /\ job'[k].status = "ABSENT" <=> job[k].status = "ABSENT"
                  /\ job'[k].attempts = job[k].attempts
                  /\ armed'[k] = armed[k]
    <2>1. job[k] \in Row
      BY DEF IInv, TypeOK
    <2>2. CASE k \in fresh
      BY <2>2 DEF Enqueue, Fresh
    <2>3. CASE k \notin fresh
      BY <2>1, <2>3 DEF Enqueue, Cancelled, Row, Live
    <2> QED
      BY <2>2, <2>3
  <1>2. AttemptsInv'
    <2> SUFFICES ASSUME NEW k \in Keys, job'[k].attempts >= MaxAttempts
                 PROVE  job'[k].attempts + Cardinality(Retriers(worker', k)) + Waiting(job'[k])
                            <= MaxAttempts + Rivals(armed'[k])
      BY DEF AttemptsInv
    <2>1. job'[k].attempts # 0
      BY OutboxConstants
    <2>2. /\ job'[k].attempts = job[k].attempts /\ armed'[k] = armed[k]
          /\ job'[k].status = job[k].status \/ job'[k].status = "CANCELLED"
      BY <1>1, <2>1
    <2>3. Waiting(job'[k]) <= Waiting(job[k])
      BY <2>2 DEF Waiting
    <2>4. job[k].attempts + Cardinality(Retriers(worker, k)) + Waiting(job[k])
              <= MaxAttempts + Rivals(armed[k])
      BY <2>2 DEF IInv, AttemptsInv
    <2>5. worker' = worker /\ Rivals(armed'[k]) = Rivals(armed[k])
      BY <2>2 DEF Enqueue
    <2>6. /\ job[k].attempts \in Nat /\ Waiting(job[k]) \in Nat /\ Waiting(job'[k]) \in Nat
          /\ MaxAttempts \in Nat
      BY OutboxConstants DEF IInv, TypeOK, Row, Waiting
    <2>7. Cardinality(Retriers(worker, k)) \in Nat /\ Rivals(armed[k]) \in Nat
      BY RetriersFinite, RivalsType DEF IInv, TypeOK
    <2> QED
      BY <2>2, <2>3, <2>4, <2>5, <2>6, <2>7
  <1>3. InHandOnce'
    BY DEF Enqueue, IInv, InHandOnce
  <1>4. OnceInv'
    <2> SUFFICES ASSUME NEW k \in Once
                 PROVE  armed'[k] <= 1 /\ (job'[k].status = "ABSENT" => armed'[k] = 0)
      BY DEF OnceInv
    <2>1. k \in Keys
      BY DEF Keys
    <2>2. CASE k \in fresh
      <3>1. job[k].status = "ABSENT"
        BY <2>2, OutboxConstants
           DEF Enqueue, Armable, Insertable, Refreshable, Snoozable
      <3>2. armed'[k] = 1 /\ job'[k].status = "PENDING"
        BY <2>1, <2>2, <3>1 DEF Enqueue, Fresh, IInv, OnceInv
      <3> QED
        BY <3>2
    <2>3. CASE k \notin fresh
      BY <1>1, <2>1, <2>3 DEF IInv, OnceInv
    <2> QED
      BY <2>2, <2>3
  <1>5. CopiesInv'
    <2> SUFFICES ASSUME NEW k \in Keys
                 PROVE  delivered'[k] + Cardinality(Copies(worker', k)) + Waiting(job'[k])
                            <= armed'[k]
      BY DEF CopiesInv
    <2>1. worker' = worker /\ delivered' = delivered
      BY DEF Enqueue
    <2>2. Cardinality(Copies(worker, k)) \in Nat
      BY CopiesFinite
    <2>3. delivered[k] + Cardinality(Copies(worker, k)) + Waiting(job[k]) <= armed[k]
      BY DEF IInv, CopiesInv
    <2>4. delivered[k] \in Nat /\ armed[k] \in Nat
      BY DEF IInv, TypeOK
    <2> QED
      BY <1>1, <2>1, <2>2, <2>3, <2>4 DEF Waiting
  <1> QED
    BY <1>2, <1>3, <1>4, <1>5 DEF IInv

\* a reservation turns what waits into a copy in the worker's hands
LEMMA ReserveInv ==
    ASSUME IInv, TypeOK', NEW w \in Workers, NEW batch, Reserve(w, batch)
    PROVE  IInv'
  <1>1. batch \subseteq DuePending /\ DuePending \subseteq Keys
    BY DEF Reserve, Earliest, DuePending
  <1>2. ASSUME NEW k \in Keys
        PROVE  IF k \in batch
               THEN /\ job[k].status = "PENDING" /\ job'[k].status = "SENDING"
                    /\ job'[k].attempts = job[k].attempts + 1
               ELSE job'[k] = job[k]
    <2>1. job[k] \in Row
      BY DEF IInv, TypeOK
    <2> QED
      BY <1>1, <2>1 DEF Reserve, Reserved, DuePending, Row
  <1>4. worker' = [worker EXCEPT ![w] = worker'[w]]
        /\ worker'[w].batch = batch /\ worker'[w].key = NoKey
    BY DEF Reserve, Idle, IInv, TypeOK
  <1>5. InHandOnce'
    BY <1>1, <1>4, OutboxConstants DEF IInv, TypeOK, InHandOnce
  <1>6. OnceInv'
    BY <1>2 DEF Reserve, IInv, OnceInv, Keys
  <1>7. ASSUME NEW k \in Keys
        PROVE  delivered'[k] + Part(worker'[w], k) + Waiting(job'[k])
                   <= delivered[k] + Part(worker[w], k) + Waiting(job[k])
    <2>1. worker[w].batch = {} /\ worker[w].key = NoKey /\ k # NoKey
      BY OutboxConstants DEF Reserve
    <2>2. ~Holds(worker[w], k) /\ (Holds(worker'[w], k) <=> k \in batch)
      BY <1>4, <2>1 DEF Holds
    <2>3. delivered'[k] = delivered[k] /\ delivered[k] \in Nat
      BY DEF Reserve, IInv, TypeOK
    <2> QED
      BY <1>2, <2>2, <2>3 DEF Part, Waiting
  <1>8. CopiesInv'
    BY <1>4, <1>7, CountStep DEF Reserve, IInv, TypeOK
  <1>3. AttemptsInv'
    <2> SUFFICES ASSUME NEW k \in Keys, job'[k].attempts >= MaxAttempts
                 PROVE  job'[k].attempts + Cardinality(Retriers(worker', k)) + Waiting(job'[k])
                            <= MaxAttempts + Rivals(armed'[k])
      BY DEF AttemptsInv
    <2>1. ~Retrying(worker[w], k) /\ ~Retrying(worker'[w], k)
      BY <1>4, OutboxConstants DEF Reserve, Retrying
    <2>2. Retriers(worker', k) = Retriers(worker, k)
      BY <1>4, <2>1 DEF Retriers, IInv, TypeOK
    <2>3. armed' = armed /\ job[k].attempts \in Nat /\ MaxAttempts \in Nat
      BY OutboxConstants DEF Reserve, IInv, TypeOK, Row
    <2>4. Cardinality(Retriers(worker, k)) \in Nat /\ Rivals(armed[k]) \in Nat
      BY RetriersFinite, RivalsType DEF IInv, TypeOK
    <2>5. Rivals(armed'[k]) = Rivals(armed[k])
      BY <2>3
    <2>6. job[k].attempts >= MaxAttempts =>
              job[k].attempts + Cardinality(Retriers(worker, k)) + Waiting(job[k])
                  <= MaxAttempts + Rivals(armed[k])
      BY DEF IInv, AttemptsInv
    <2>7. CASE k \notin batch
      <3>1. job'[k] = job[k]
        BY <1>2, <2>7
      <3> QED
        BY <2>2, <2>5, <2>6, <3>1
    <2>8. CASE k \in batch
      <3>1. /\ job'[k].attempts = job[k].attempts + 1
            /\ Waiting(job[k]) = 1 /\ Waiting(job'[k]) = 0
        BY <1>2, <2>8 DEF Waiting
      <3>2. CASE job[k].attempts >= MaxAttempts
        BY <2>2, <2>3, <2>4, <2>5, <2>6, <3>1, <3>2
      <3>3. CASE job[k].attempts < MaxAttempts
        <4>1. Holds(worker'[w], k)
          BY <1>4, <2>8 DEF Holds
        <4>2. Cardinality(Copies(worker', k)) <= armed'[k]
          <5>1. delivered'[k] + Cardinality(Copies(worker', k)) + Waiting(job'[k]) <= armed'[k]
            BY <1>8 DEF CopiesInv
          <5>2. /\ delivered'[k] \in Nat /\ armed'[k] \in Nat /\ Waiting(job'[k]) \in Nat
                /\ Cardinality(Copies(worker', k)) \in Nat
            BY CopiesFinite DEF TypeOK, Waiting
          <5> QED
            BY <5>1, <5>2
        <4>4. Cardinality(Retriers(worker', k)) <= Rivals(armed'[k])
          BY <2>1, <4>1, <4>2, RetriersRivals DEF TypeOK
        <4>3. job'[k].attempts = MaxAttempts
          BY <2>3, <3>1, <3>3
        <4> QED
          BY <2>2, <2>3, <2>4, <2>5, <3>1, <4>3, <4>4
      <3> QED
        BY <2>3, <3>2, <3>3
    <2> QED
      BY <2>7, <2>8
  <1> QED
    BY <1>3, <1>5, <1>6, <1>8 DEF IInv

\* what one worker does to itself adds to those who will put a row back only itself
LEMMA AttemptsQuiet ==
    ASSUME IInv, NEW w \in Workers, job' = job, armed' = armed,
           \A v \in Workers \ {w} : worker'[v] = worker[v],
           \A k \in Keys : Retrying(worker'[w], k) =>
               Retrying(worker[w], k) \/ ~(job[k].attempts >= MaxAttempts)
    PROVE  AttemptsInv'
  <1> SUFFICES ASSUME NEW k \in Keys
               PROVE  job'[k].attempts >= MaxAttempts =>
                   job'[k].attempts + Cardinality(Retriers(worker', k)) + Waiting(job'[k])
                       <= MaxAttempts + Rivals(armed'[k])
    BY DEF AttemptsInv
  <1>1. job[k].attempts >= MaxAttempts => Retriers(worker', k) \subseteq Retriers(worker, k)
    BY DEF Retriers
  <1> QED
    BY <1>1, AttemptsKept DEF IInv

\* a job in hand is in no batch of its worker, so what is done about it
\* changes that worker's part of the count for one key only
LEMMA TakeInv ==
    ASSUME IInv, TypeOK', NEW w \in Workers, NEW l \in Keys, NEW verdict \in {"none", "false"},
           Take(w, l, verdict)
    PROVE  IInv'
  <1>1. /\ worker'[w].batch = worker[w].batch \ {l}
        /\ worker'[w].key = l /\ worker'[w].result = verdict
        /\ \A v \in Workers \ {w} : worker'[v] = worker[v]
    BY DEF Take, IInv, TypeOK
  <1>2. AttemptsInv' /\ OnceInv'
    <2>1. \A k \in Keys : ~Retrying(worker'[w], k)
      BY <1>1 DEF Retrying
    <2> QED
      BY <1>1, <2>1, AttemptsQuiet DEF Take, IInv, OnceInv
  <1>3. InHandOnce'
    BY <1>1 DEF IInv, InHandOnce
  <1>4. ASSUME NEW k \in Keys
        PROVE  delivered'[k] + Part(worker'[w], k) + Waiting(job'[k])
                   <= delivered[k] + Part(worker[w], k) + Waiting(job[k])
    <2>1. Holds(worker'[w], k) => Holds(worker[w], k)
      BY <1>1 DEF Holds, Take
    <2>2. /\ delivered'[k] = delivered[k] /\ delivered[k] \in Nat
          /\ Waiting(job'[k]) = Waiting(job[k]) /\ Waiting(job[k]) \in Nat
      BY DEF Take, IInv, TypeOK, Waiting
    <2> QED
      BY <2>1, <2>2 DEF Part
  <1>5. CopiesInv'
    BY <1>1, <1>4, CountStep DEF Take, IInv
  <1> QED
    BY <1>2, <1>3, <1>5 DEF IInv

LEMMA DeliverInv ==
    ASSUME IInv, TypeOK', NEW w \in Workers, Deliver(w)
    PROVE  IInv'
  <1>0. worker[w] \in Worker
    BY DEF IInv, TypeOK
  <1>1. /\ worker'[w].batch = worker[w].batch
        /\ worker'[w].key = worker[w].key /\ worker'[w].result = "true"
        /\ \A v \in Workers \ {w} : worker'[v] = worker[v]
    BY <1>0 DEF Deliver, IInv, TypeOK, Worker
  <1>2. AttemptsInv' /\ OnceInv'
    <2>1. \A k \in Keys : ~Retrying(worker'[w], k)
      BY <1>1 DEF Retrying
    <2> QED
      BY <1>1, <2>1, AttemptsQuiet DEF Deliver, IInv, OnceInv
  <1>3. InHandOnce'
    BY <1>1 DEF IInv, InHandOnce
  <1>4. ASSUME NEW k \in Keys
        PROVE  delivered'[k] + Part(worker'[w], k) + Waiting(job'[k])
                   <= delivered[k] + Part(worker[w], k) + Waiting(job[k])
    <2>1. /\ delivered[k] \in Nat
          /\ Waiting(job'[k]) = Waiting(job[k]) /\ Waiting(job[k]) \in Nat
      BY DEF Deliver, IInv, TypeOK, Waiting
    <2>2. CASE k = worker[w].key
      <3>1. Holds(worker[w], k) /\ ~Holds(worker'[w], k)
        BY <1>1, <2>2 DEF Holds, Deliver, IInv, InHandOnce
      <3>2. delivered'[k] = delivered[k] + 1
        BY <2>2 DEF Deliver, IInv, TypeOK
      <3> QED
        BY <2>1, <3>1, <3>2 DEF Part
    <2>3. CASE k # worker[w].key
      <3>1. Holds(worker'[w], k) <=> Holds(worker[w], k)
        BY <1>1, <2>3 DEF Holds
      <3>2. delivered'[k] = delivered[k]
        BY <2>3 DEF Deliver, IInv, TypeOK
      <3> QED
        BY <2>1, <3>1, <3>2 DEF Part
    <2> QED
      BY <2>2, <2>3
  <1>5. CopiesInv'
    BY <1>1, <1>4, CountStep DEF Deliver, IInv
  <1> QED
    BY <1>2, <1>3, <1>5 DEF IInv

\* steps of a worker that deliver nothing and leave the rows alone
LEMMA QuietInv ==
    ASSUME IInv, TypeOK', NEW w \in Workers, UNCHANGED <<job, armed, delivered>>,
           \A v \in Workers \ {w} : worker'[v] = worker[v],
           worker'[w].key \notin worker'[w].batch,
           \A k \in Keys : Holds(worker'[w], k) => Holds(worker[w], k),
           \A k \in Keys : Retrying(worker'[w], k) =>
               Retrying(worker[w], k) \/ ~(job[k].attempts >= MaxAttempts)
    PROVE  IInv'
  <1>1. AttemptsInv' /\ OnceInv'
    BY AttemptsQuiet DEF IInv, OnceInv
  <1>2. InHandOnce'
    BY DEF IInv, InHandOnce
  <1>3. ASSUME NEW k \in Keys
        PROVE  delivered'[k] + Part(worker'[w], k) + Waiting(job'[k])
                   <= delivered[k] + Part(worker[w], k) + Waiting(job[k])
    <2>1. /\ delivered'[k] = delivered[k] /\ delivered[k] \in Nat
          /\ Waiting(job'[k]) = Waiting(job[k]) /\ Waiting(job[k]) \in Nat
      BY DEF IInv, TypeOK, Waiting
    <2> QED
      BY <2>1 DEF Part
  <1>4. CopiesInv'
    BY <1>3, CountStep DEF IInv
  <1> QED
    BY <1>1, <1>2, <1>4 DEF IInv

\* the worker lets go of the job in hand
LEMMA DroppedShape ==
    ASSUME IInv, NEW w \in Workers, Dropped(w), worker[w].key # NoKey
    PROVE  /\ worker'[w].key = NoKey /\ worker'[w].batch = worker[w].batch
           /\ worker'[w].key \notin worker'[w].batch
           /\ \A v \in Workers \ {w} : worker'[v] = worker[v]
           /\ \A k \in Keys : Holds(worker'[w], k) => Holds(worker[w], k) /\ k # worker[w].key
           /\ \A k \in Keys : ~Retrying(worker'[w], k)
  <1>0. worker[w] \in Worker
    BY DEF IInv, TypeOK
  <1>1. /\ worker'[w].key = NoKey /\ worker'[w].batch = worker[w].batch
        /\ \A v \in Workers \ {w} : worker'[v] = worker[v]
    <2>1. CASE worker[w].batch = {}
      BY <2>1 DEF Dropped, Idle, IInv, TypeOK
    <2>2. CASE worker[w].batch # {}
      BY <1>0, <2>2 DEF Dropped, IInv, TypeOK, Worker
    <2> QED
      BY <2>1, <2>2
  <1>2. worker'[w].key \notin worker'[w].batch
    BY <1>0, <1>1, OutboxConstants DEF Worker
  <1>3. \A k \in Keys : k # NoKey
    BY OutboxConstants
  <1> QED
    BY <1>1, <1>2, <1>3 DEF Holds, Retrying, IInv, InHandOnce

LEMMA FinalizeInv ==
    ASSUME IInv, TypeOK', NEW w \in Workers, Finalize(w)
    PROVE  IInv'
  <1> DEFINE l == worker[w].key
  <1>0. /\ worker[w] \in Worker
        /\ l \in Keys
        /\ worker[w].result \in {"true", "false", "retry", "failed"}
        /\ \A k \in Keys : job[k] \in Row
    BY DEF Finalize, IInv, TypeOK, Worker
  <1>1. /\ worker'[w].key \notin worker'[w].batch
        /\ \A v \in Workers \ {w} : worker'[v] = worker[v]
        /\ \A k \in Keys : Holds(worker'[w], k) => Holds(worker[w], k) /\ k # l
        /\ \A k \in Keys : ~Retrying(worker'[w], k)
    BY DroppedShape DEF Finalize
  <1>2. \A k \in Keys \ {l} : job'[k] = job[k]
    BY DEF Finalize, IInv, TypeOK
  <1>3. job'[l].attempts = job[l].attempts /\ job'[l].status = StatusAfter(worker[w].result)
    BY <1>0 DEF Finalize, IInv, TypeOK, After, Row
  <1>4. /\ job'[l].status # "ABSENT"
        /\ job'[l].status = "PENDING" =>
              worker[w].result = "retry"
    BY <1>0, <1>3 DEF StatusAfter
  <1>5. AttemptsInv'
    <2> SUFFICES ASSUME NEW k \in Keys
                 PROVE  job'[k].attempts >= MaxAttempts =>
                     job'[k].attempts + Cardinality(Retriers(worker', k)) + Waiting(job'[k])
                         <= MaxAttempts + Rivals(armed'[k])
      BY DEF AttemptsInv
    <2>1. armed' = armed /\ Rivals(armed'[k]) = Rivals(armed[k])
      BY DEF Finalize
    <2>2. Retriers(worker', k) \subseteq Retriers(worker, k)
      BY <1>1 DEF Retriers
    <2>3. CASE k # l
      BY <1>2, <2>1, <2>2, <2>3, AttemptsKept DEF IInv
    <2>4. CASE k = l
      <3> SUFFICES ASSUME job[k].attempts >= MaxAttempts
                   PROVE  job[k].attempts + Cardinality(Retriers(worker', k)) + Waiting(job'[k])
                              <= MaxAttempts + Rivals(armed[k])
        BY <1>3, <2>1, <2>4
      <3>1. job[k].attempts + Cardinality(Retriers(worker, k)) + Waiting(job[k])
                <= MaxAttempts + Rivals(armed[k])
        BY DEF IInv, AttemptsInv
      <3>2. /\ job[k].attempts \in Nat /\ Waiting(job[k]) \in Nat /\ MaxAttempts \in Nat
            /\ Rivals(armed[k]) \in Nat
            /\ Cardinality(Retriers(worker, k)) \in Nat
            /\ Cardinality(Retriers(worker', k)) \in Nat
        BY <1>0, OutboxConstants, RetriersFinite, RivalsType DEF IInv, TypeOK, Row, Waiting
      <3>3. CASE worker[w].result = "retry"
        <4>1. Retrying(worker[w], k) /\ ~Retrying(worker'[w], k)
          BY <1>1, <2>4, <3>3 DEF Retrying
        <4>2. Cardinality(Retriers(worker', k)) = Cardinality(Retriers(worker, k)) - 1
          BY <1>1, <4>1, RetriersLose
        <4>3. Waiting(job'[k]) \in {0, 1}
          BY DEF Waiting
        <4> QED
          BY <3>1, <3>2, <4>2, <4>3
      <3>4. CASE worker[w].result # "retry"
        <4>1. Waiting(job'[k]) = 0
          BY <1>4, <2>4, <3>4 DEF Waiting
        <4>2. Cardinality(Retriers(worker', k)) <= Cardinality(Retriers(worker, k))
          BY <2>2, RetriersFewer
        <4> QED
          BY <3>1, <3>2, <4>1, <4>2
      <3> QED
        BY <3>3, <3>4
    <2> QED
      BY <2>3, <2>4
  <1>6. InHandOnce'
    BY <1>1 DEF IInv, InHandOnce
  <1>7. OnceInv'
    BY <1>2, <1>4 DEF Finalize, IInv, OnceInv, Keys
  <1>8. ASSUME NEW k \in Keys
        PROVE  delivered'[k] + Part(worker'[w], k) + Waiting(job'[k])
                   <= delivered[k] + Part(worker[w], k) + Waiting(job[k])
    <2>1. delivered'[k] = delivered[k] /\ delivered[k] \in Nat
      BY DEF Finalize, IInv, TypeOK
    <2>2. CASE k = l
      <3>1. ~Holds(worker'[w], k)
        BY <1>1, <2>2
      <3>2. worker[w].result = "retry" => Holds(worker[w], k)
        BY <2>2 DEF Holds
      <3> QED
        BY <1>4, <2>1, <2>2, <3>1, <3>2 DEF Part, Waiting
    <2>3. CASE k # l
      BY <1>1, <1>2, <2>1, <2>3 DEF Part, Waiting
    <2> QED
      BY <2>2, <2>3
  <1>9. CopiesInv'
    BY <1>1, <1>8, CountStep DEF Finalize, IInv
  <1> QED
    BY <1>5, <1>6, <1>7, <1>9 DEF IInv

LEMMA ProcessInv ==
    ASSUME IInv, TypeOK', NEW w \in Workers, Process(w)
    PROVE  IInv'
  <1>0. worker[w] \in Worker /\ worker[w].key \notin worker[w].batch
    BY DEF IInv, TypeOK, InHandOnce
  <1>1. CASE \E k \in Keys, verdict \in {"none", "false"} : Take(w, k, verdict)
    BY <1>1, TakeInv
  <1>2. CASE Deliver(w)
    BY <1>2, DeliverInv
  <1>3. CASE DeliverRefused(w)
    <2>1. /\ worker'[w].batch = worker[w].batch
          /\ worker'[w].key = worker[w].key /\ worker'[w].result = "true"
          /\ \A v \in Workers \ {w} : worker'[v] = worker[v]
      BY <1>0, <1>3 DEF DeliverRefused, IInv, TypeOK, Worker
    <2>2. \A k \in Keys : Holds(worker'[w], k) => Holds(worker[w], k)
      BY <2>1 DEF Holds
    <2>3. \A k \in Keys : ~Retrying(worker'[w], k)
      BY <2>1 DEF Retrying
    <2> QED
      BY <1>0, <1>3, <2>1, <2>2, <2>3, QuietInv DEF DeliverRefused
  <1>4. CASE SendError(w)
    <2>1. /\ worker'[w].batch = worker[w].batch
          /\ worker'[w].key = worker[w].key /\ worker'[w].result = "error"
          /\ \A v \in Workers \ {w} : worker'[v] = worker[v]
      BY <1>0, <1>4 DEF SendError, IInv, TypeOK, Worker
    <2>2. \A k \in Keys : Holds(worker'[w], k) => Holds(worker[w], k)
      BY <1>4, <2>1 DEF Holds, SendError
    <2>3. \A k \in Keys : ~Retrying(worker'[w], k)
      BY <2>1 DEF Retrying
    <2> QED
      BY <1>0, <1>4, <2>1, <2>2, <2>3, QuietInv DEF SendError
  <1>5. CASE Finalize(w)
    BY <1>5, FinalizeInv
  <1>6. CASE FinalizeFails(w)
    <2>1. Dropped(w) /\ worker[w].key # NoKey /\ UNCHANGED <<job, armed, delivered>>
      BY <1>6 DEF FinalizeFails
    <2> QED
      BY <2>1, DroppedShape, QuietInv
  <1>7. CASE ReadAttempts(w)
    <2>1. /\ worker'[w].batch = worker[w].batch /\ worker'[w].key = worker[w].key
          /\ worker'[w].result =
                IF AttemptLeft(job[worker[w].key]) THEN "retry" ELSE "failed"
          /\ \A v \in Workers \ {w} : worker'[v] = worker[v]
      BY <1>0, <1>7 DEF ReadAttempts, IInv, TypeOK, Worker
    <2>2. \A k \in Keys : Holds(worker'[w], k) => Holds(worker[w], k)
      BY <1>7, <2>1 DEF Holds, ReadAttempts
    <2>3. \A k \in Keys : job[k].attempts \in Nat
      BY DEF IInv, TypeOK, Row
    <2>4. \A k \in Keys : Retrying(worker'[w], k) => ~(job[k].attempts >= MaxAttempts)
      BY <2>1, <2>3, OutboxConstants DEF Retrying, AttemptLeft
    <2> QED
      BY <1>0, <1>7, <2>1, <2>2, <2>4, QuietInv DEF ReadAttempts
  <1> QED
    BY <1>1, <1>2, <1>3, <1>4, <1>5, <1>6, <1>7 DEF Process

LEMMA NextInv ==
    ASSUME IInv, [Next]_vars
    PROVE  IInv'
  <1>0. TypeOK'
    BY NextType DEF IInv
  <1>1. CASE Operate
    BY <1>0, <1>1, EnqueueInv DEF Operate
  <1>2. ASSUME NEW w \in Workers, Work(w) PROVE IInv'
    BY <1>0, <1>2, ReserveInv, ProcessInv DEF Work
  <1>3. ASSUME NEW w \in Workers, Die(w) PROVE IInv'
    <2>1. worker'[w] = Idle /\ \A v \in Workers \ {w} : worker'[v] = worker[v]
      BY <1>3 DEF Die, IInv, TypeOK
    <2>2. \A k \in Keys : ~Holds(Idle, k) /\ ~Retrying(Idle, k)
      BY OutboxConstants DEF Holds, Retrying, Idle
    <2> QED
      BY <1>0, <1>3, <2>1, <2>2, QuietInv DEF Die, Idle
  <1>4. ASSUME UNCHANGED <<job, worker, armed, delivered>> PROVE IInv'
    BY <1>0, <1>4 DEF IInv, AttemptsInv, InHandOnce, CopiesInv, OnceInv
  <1> QED
    BY <1>1, <1>2, <1>3, <1>4 DEF Next, Tick, vars

LEMMA Inductive == Spec => []IInv
  BY InitInv, NextInv, PTL DEF Spec

LEMMA CopiesBound ==
    ASSUME IInv
    PROVE  AtMostOncePerArming
  <1> SUFFICES ASSUME NEW k \in Keys
               PROVE  delivered[k] <= armed[k]
    BY DEF AtMostOncePerArming
  <1>1. Cardinality(Copies(worker, k)) \in Nat /\ Waiting(job[k]) \in Nat
    BY CopiesFinite DEF Waiting
  <1>2. delivered[k] + Cardinality(Copies(worker, k)) + Waiting(job[k]) <= armed[k]
    BY DEF IInv, CopiesInv
  <1>3. delivered[k] \in Nat /\ armed[k] \in Nat
    BY DEF IInv, TypeOK
  <1> QED
    BY <1>1, <1>2, <1>3

LEMMA OnceBound ==
    ASSUME IInv
    PROVE  OnceEver
  <1> SUFFICES ASSUME NEW k \in Once
               PROVE  delivered[k] <= 1
    BY DEF OnceEver
  <1>1. k \in Keys
    BY DEF Keys
  <1>2. delivered[k] \in Nat /\ armed[k] \in Nat
    BY <1>1 DEF IInv, TypeOK
  <1>3. delivered[k] <= armed[k] /\ armed[k] <= 1
    BY <1>1, CopiesBound DEF AtMostOncePerArming, IInv, OnceInv
  <1> QED
    BY <1>2, <1>3

\* With any number of workers, deaths, failed finalisations, cancellations and
\* re-armings, no key delivers more messages than it was armed for.
THEOREM AtMostOncePerArmingHolds == Spec => []AtMostOncePerArming
  BY CopiesBound, Inductive, PTL

\* A message that is inserted once is delivered once at most.
THEOREM OnceEverHolds == Spec => []OnceEver
  BY OnceBound, Inductive, PTL

LEMMA AttemptsBound ==
    ASSUME IInv
    PROVE  AttemptsBounded
  <1> SUFFICES ASSUME NEW k \in Keys
               PROVE  job[k].attempts + Waiting(job[k]) <= MaxAttempts + Rivals(armed[k])
    BY DEF AttemptsBounded
  <1>1. Cardinality(Retriers(worker, k)) \in Nat /\ Rivals(armed[k]) \in Nat
    BY RetriersFinite, RivalsType DEF IInv, TypeOK
  <1>2. job[k].attempts \in Nat /\ Waiting(job[k]) \in {0, 1} /\ MaxAttempts \in Nat
    BY OutboxConstants DEF IInv, TypeOK, Row, Waiting
  <1>3. job[k].attempts >= MaxAttempts =>
            job[k].attempts + Cardinality(Retriers(worker, k)) + Waiting(job[k])
                <= MaxAttempts + Rivals(armed[k])
    BY DEF IInv, AttemptsInv
  <1> QED
    BY <1>1, <1>2, <1>3

\* Between two armings a job is tried MaxAttempts times, and once more at most for
\* every worker but one that can have it in hand from an arming of its own; so with
\* one worker, or under a key inserted once, never more often, and what may be
\* reserved has an attempt left.
THEOREM AttemptsBoundedHolds == Spec => []AttemptsBounded
  BY AttemptsBound, Inductive, PTL

=============================================================================
