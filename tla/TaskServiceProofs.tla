-------------------------- MODULE TaskServiceProofs --------------------------
(***************************************************************************)
(* Proofs about TaskService for every finite set of tasks and every limit. *)
(***************************************************************************)
EXTENDS TaskService, FiniteSetTheorems, TLAPS

(* Which state a worker's place goes with.  `state` is what clients read,  *)
(* `pc` is what the worker will do next: most properties relate the two.   *)
PlaceFitsState ==
  \A t \in Task :
    /\ pc[t] \in {"absent", "rejected"} => 
         state[t] = "absent" /\ t \notin listed /\ ~outcome[t]
    /\ pc[t] \in {"spawned", "waiting", "holding", "starting", "cancelling"} =>
         state[t] = "queued"
    /\ pc[t] \in {"body", "succeeding", "publishing", "failing"} => state[t] = "running"
    /\ pc[t] = "releasing" => state[t] \in {"succeeded", "failed"}
    /\ pc[t] = "done" => state[t] \in Terminal

(* The flag is set exactly when somebody asked, and a request that came    *)
(* before the worker read the flag keeps it on the way to "cancelled".     *)
FlagRemembered ==
  \A t \in Task :
    /\ cancelled[t] <=> askedAt[t] # "never"
    /\ pc[t] = "cancelling" => cancelled[t]
    /\ state[t] = "cancelled" => cancelled[t]
    /\ askedAt[t] \in {"spawned", "waiting", "holding"} =>
         \/ pc[t] \in {"spawned", "waiting", "holding", "cancelling"}
         \/ pc[t] = "done" /\ state[t] = "cancelled"

(* The semaphore's queue holds waiting workers, each once, and only while  *)
(* no permit is free.                                                      *)
QueueSound ==
  /\ \A i \in 1..Len(waiters) : pc[waiters[i]] = "waiting"
  /\ \A i, j \in 1..Len(waiters) : waiters[i] = waiters[j] => i = j
  /\ waiters # <<>> => permits = 0

PermitCount == permits + Cardinality(Holders) = MaxConcurrent

(* The inductive invariant of the worker and the semaphore.                *)
WorkerInv ==
  TypeOK /\ PlaceFitsState /\ FlagRemembered /\ InFlightListed /\ QueueSound /\ PermitCount

LEMMA HoldersFinite ==
  /\ IsFiniteSet(Holders) /\ Cardinality(Holders) \in Nat
  /\ IsFiniteSet(Holders') /\ Cardinality(Holders') \in Nat
<1>1. Holders \in SUBSET Task /\ Holders' \in SUBSET Task
  BY DEF Holders
<1>2. QED
  BY <1>1, TaskAssumption, FS_Subset, FS_CardinalityType

(* Where the head of the queue, when there is one, can be.                 *)
LEMMA HeadOfQueue ==
  ASSUME TypeOK, QueueSound, waiters # <<>>
  PROVE  /\ Head(waiters) \in Task
         /\ pc[Head(waiters)] = "waiting"
         /\ Tail(waiters) \in Seq(Task)
         /\ \A i \in 1..Len(Tail(waiters)) : pc[Tail(waiters)[i]] = "waiting"
         /\ \A i \in 1..Len(Tail(waiters)) : Tail(waiters)[i] # Head(waiters)
         /\ \A i, j \in 1..Len(Tail(waiters)) :
              Tail(waiters)[i] = Tail(waiters)[j] => i = j
<1>1. Len(waiters) \in Nat /\ Len(waiters) >= 1 /\ Head(waiters) = waiters[1]
  BY DEF TypeOK
<1>2. /\ Tail(waiters) \in Seq(Task)
      /\ Len(Tail(waiters)) = Len(waiters) - 1
      /\ \A i \in 1..Len(Tail(waiters)) : Tail(waiters)[i] = waiters[i+1]
  BY DEF TypeOK
<1>3. \A i \in 1..Len(Tail(waiters)) : i+1 \in 1..Len(waiters) /\ i+1 # 1
  BY <1>1, <1>2
<1>4. 1 \in 1..Len(waiters)
  BY <1>1
<1>5. QED
  BY <1>1, <1>2, <1>3, <1>4 DEF TypeOK, QueueSound

(* A worker with a permit keeps at least one permit away from the rest.    *)
LEMMA HolderTakesPermit ==
  ASSUME TypeOK, PermitCount, NEW t \in Task, pc[t] \in Holding
  PROVE  permits < MaxConcurrent
<1>1. t \in Holders
  BY DEF Holders
<1>2. Cardinality(Holders) # 0
  BY <1>1, HoldersFinite, FS_EmptySet
<1>3. QED
  BY <1>2, HoldersFinite, LimitAssumption DEF TypeOK, PermitCount

(* A move that neither takes nor drops a permit, by a worker not queued.   *)
LEMMA QuietMove ==
  ASSUME TypeOK, QueueSound, PermitCount, NEW t \in Task, NEW next \in Place,
         pc[t] # "waiting",
         pc[t] \in Holding <=> next \in Holding,
         pc' = [pc EXCEPT ![t] = next], permits' = permits, waiters' = waiters
  PROVE  pc' \in [Task -> Place] /\ QueueSound' /\ PermitCount'
<1>1. pc' \in [Task -> Place]
  BY DEF TypeOK
<1>2. Holders' = Holders
  BY DEF TypeOK, Holders
<1>3. PermitCount'
  BY <1>2 DEF PermitCount
<1>4. ASSUME NEW i \in 1..Len(waiters)
      PROVE  pc'[waiters[i]] = "waiting"
  <2>1. waiters[i] \in Task /\ pc[waiters[i]] = "waiting"
    BY <1>4 DEF TypeOK, QueueSound
  <2>2. QED
    BY <2>1 DEF TypeOK
<1>5. QED
  BY <1>1, <1>3, <1>4 DEF QueueSound

(* Dropping a permit moves its owner, and wakes at most the oldest waiter. *)
LEMMA DropPermitEffect ==
  ASSUME TypeOK, QueueSound, PermitCount, NEW t \in Task, NEW next \in Place \ Holding,
         next # "waiting", pc[t] \in Holding, DropPermit(t, next)
  PROVE  /\ pc' \in [Task -> Place] /\ permits' \in 0..MaxConcurrent /\ waiters' \in Seq(Task)
         /\ pc'[t] = next
         /\ \A u \in Task \ {t} :
              \/ pc'[u] = pc[u]
              \/ pc[u] = "waiting" /\ pc'[u] = "holding"
         /\ QueueSound'
         /\ PermitCount'
<1> permits < MaxConcurrent /\ MaxConcurrent \in Nat
  BY HolderTakesPermit, LimitAssumption
<1> t \in Holders
  BY DEF Holders
<1>1. CASE waiters = <<>>
  <2>1. pc' = [pc EXCEPT ![t] = next] /\ permits' = permits + 1 /\ waiters' = waiters
    BY <1>1, Zenon DEF DropPermit
  <2>2. Holders' = Holders \ {t}
    BY <2>1 DEF TypeOK, Holders
  <2>3. Cardinality(Holders') = Cardinality(Holders) - 1
    BY <2>2, HoldersFinite, FS_RemoveElement
  <2>4. PermitCount'
    BY <2>1, <2>3, HoldersFinite DEF PermitCount, TypeOK
  <2>5. QueueSound'
    BY <1>1, <2>1 DEF QueueSound
  <2>6. QED
    BY <2>1, <2>4, <2>5 DEF TypeOK
<1>2. CASE waiters # <<>>
  <2> DEFINE h == Head(waiters)
  <2>1. h \in Task /\ pc[h] = "waiting" /\ Tail(waiters) \in Seq(Task)
    BY <1>2, HeadOfQueue
  <2>2. h # t /\ h \notin Holders
    BY <2>1 DEF Holding, Holders
  <2>3. pc' = [pc EXCEPT ![t] = next, ![h] = "holding"]
        /\ waiters' = Tail(waiters) /\ permits' = permits
    BY <1>2 DEF DropPermit
  <2>4. Holders' = (Holders \ {t}) \cup {h}
    <3> HIDE DEF h
    <3> QED
      BY <2>1, <2>2, <2>3 DEF TypeOK, Holders, Holding
  <2>5. Cardinality(Holders') = Cardinality(Holders)
    <3> HIDE DEF h
    <3>1. IsFiniteSet(Holders \ {t}) /\ Cardinality(Holders \ {t}) = Cardinality(Holders) - 1
      BY HoldersFinite, FS_RemoveElement
    <3>2. h \notin Holders \ {t}
      BY <2>2
    <3>3. Cardinality(Holders') = Cardinality(Holders \ {t}) + 1
      BY <2>4, <3>1, <3>2, FS_AddElement
    <3>4. QED
      BY <3>1, <3>3, HoldersFinite
  <2>6. PermitCount'
    BY <2>3, <2>5 DEF PermitCount
  <2>7. ASSUME NEW i \in 1..Len(waiters')
        PROVE  pc'[waiters'[i]] = "waiting"
    <3>1. waiters'[i] \in Task /\ pc[waiters'[i]] = "waiting" /\ waiters'[i] # h
      BY <1>2, <2>1, <2>3, HeadOfQueue
    <3>2. waiters'[i] # t
      BY <3>1 DEF Holding
    <3>3. QED
      BY <3>1, <3>2, <2>3 DEF TypeOK
  <2>8. QueueSound'
    <3>1. permits' = 0
      BY <1>2, <2>3 DEF QueueSound
    <3>2. \A i, j \in 1..Len(waiters') : waiters'[i] = waiters'[j] => i = j
      BY <1>2, <2>3, HeadOfQueue
    <3>3. QED
      BY <2>7, <3>1, <3>2 DEF QueueSound
  <2>9. QED
    BY <2>1, <2>2, <2>3, <2>6, <2>8 DEF TypeOK, Place
<1>3. QED
  BY <1>1, <1>2

(* Taking a free permit, or joining the queue behind everybody else.       *)
LEMMA AskPermitEffect ==
  ASSUME TypeOK, QueueSound, PermitCount, NEW t \in Task, AskPermit(t)
  PROVE  /\ pc' \in [Task -> Place] /\ permits' \in 0..MaxConcurrent /\ waiters' \in Seq(Task)
         /\ pc'[t] \in {"holding", "waiting"}
         /\ \A u \in Task \ {t} : pc'[u] = pc[u]
         /\ QueueSound'
         /\ PermitCount'
<1> t \notin Holders /\ pc[t] = "spawned"
  BY DEF AskPermit, Holders, Holding
<1> MaxConcurrent \in Nat
  BY LimitAssumption
<1>1. CASE permits > 0
  <2>1. permits' = permits - 1 /\ pc' = [pc EXCEPT ![t] = "holding"] /\ waiters' = waiters
    BY <1>1 DEF AskPermit, TypeOK
  <2>2. Holders' = Holders \cup {t}
    BY <2>1 DEF TypeOK, Holders, Holding
  <2>3. Cardinality(Holders') = Cardinality(Holders) + 1
    BY <2>2, HoldersFinite, FS_AddElement
  <2>4. PermitCount'
    BY <2>1, <2>3, HoldersFinite DEF PermitCount, TypeOK
  <2>5. waiters = <<>>
    BY <1>1 DEF QueueSound
  <2>6. QueueSound'
    BY <2>1, <2>5 DEF QueueSound
  <2>7. QED
    BY <1>1, <2>1, <2>4, <2>6 DEF TypeOK, Place
<1>2. CASE permits = 0
  <2>1. permits' = 0 /\ pc' = [pc EXCEPT ![t] = "waiting"] /\ waiters' = Append(waiters, t)
    BY <1>2 DEF AskPermit, TypeOK
  <2>2. Holders' = Holders
    BY <2>1 DEF TypeOK, Holders, Holding
  <2>3. PermitCount'
    BY <1>2, <2>1, <2>2 DEF PermitCount
  <2>4. /\ Len(waiters') = Len(waiters) + 1 /\ waiters'[Len(waiters) + 1] = t
        /\ Len(waiters) \in Nat
        /\ \A i \in 1..Len(waiters) : waiters'[i] = waiters[i]
    BY <2>1 DEF TypeOK
  <2>5. \A i \in 1..Len(waiters) : waiters[i] \in Task /\ waiters[i] # t
                                   /\ pc[waiters[i]] = "waiting"
    BY DEF TypeOK, QueueSound
  <2>6. QueueSound'
    BY <2>1, <2>4, <2>5 DEF QueueSound, TypeOK
  <2>7. QED
    BY <2>1, <2>3, <2>6 DEF TypeOK, Place
<1>3. QED
  BY <1>1, <1>2 DEF TypeOK

(* The queue and the permit count do not look at anything but the places.  *)
LEMMA WorkerUntouched ==
  ASSUME QueueSound, PermitCount, UNCHANGED worker
  PROVE  QueueSound' /\ PermitCount'
BY DEF QueueSound, PermitCount, Holders, worker

LEMMA InitWorkerInv == Init => WorkerInv
<1> SUFFICES ASSUME Init PROVE WorkerInv
  OBVIOUS
<1>1. TypeOK
  BY LimitAssumption DEF Init, TypeOK, TaskState, Terminal, Place
<1>2. PlaceFitsState /\ FlagRemembered /\ InFlightListed
  BY DEF Init, PlaceFitsState, FlagRemembered, InFlightListed
<1>3. QueueSound
  BY DEF Init, QueueSound
<1>4. Holders = {}
  BY DEF Init, Holders, Holding
<1>5. PermitCount
  BY <1>4, FS_EmptySet, LimitAssumption DEF Init, PermitCount
<1>6. QED
  BY <1>1, <1>2, <1>3, <1>5 DEF WorkerInv

LEMMA AdmitWorkerInv ==
  ASSUME WorkerInv, NEW t \in Task, Admit(t)
  PROVE  WorkerInv'
<1> USE DEF WorkerInv
<1>1. /\ pc[t] = "absent" /\ pc' = [pc EXCEPT ![t] = "spawned"]
      /\ state' = [state EXCEPT ![t] = "queued"]
      /\ payload' = [payload EXCEPT ![t] = "held"]
      /\ admissions' = admissions + 1 /\ born' = [born EXCEPT ![t] = admissions + 1]
      /\ permits' = permits /\ waiters' = waiters
      /\ asking' = asking /\ cancelled' = cancelled /\ askedAt' = askedAt
  BY DEF Admit
<1>2. outcome' \in [Task -> BOOLEAN]
  BY DEF Admit, TypeOK
<1>3. PICK dropped \in SUBSET Finished : listed' = (listed \cup {t}) \ dropped
  BY DEF Admit, Droppable
<1>4. \A u \in dropped : u \in listed /\ state[u] \in Terminal
  BY <1>3 DEF Finished
<1>5. t \notin dropped
  BY <1>1, <1>4 DEF PlaceFitsState
<1>6. QueueSound' /\ PermitCount' /\ pc' \in [Task -> Place]
  BY <1>1, QuietMove DEF Place, Holding
<1>7. TypeOK'
  BY <1>1, <1>2, <1>3, <1>6 DEF TypeOK, TaskState
<1>8. PlaceFitsState'
  BY <1>1, <1>2, <1>3 DEF PlaceFitsState, TypeOK, Admit
<1>9. FlagRemembered'
  BY <1>1 DEF FlagRemembered, TypeOK
<1>10. InFlightListed'
  <2> SUFFICES ASSUME NEW u \in Task, state'[u] \in {"queued", "running"}
               PROVE  u \in listed'
    BY DEF InFlightListed
  <2>1. CASE u = t
    BY <2>1, <1>3, <1>5
  <2>2. CASE u # t
    BY <2>2, <1>1, <1>3, <1>4 DEF InFlightListed, TypeOK, Terminal
  <2>3. QED
    BY <2>1, <2>2
<1>11. QED
  BY <1>6, <1>7, <1>8, <1>9, <1>10

LEMMA WorkWorkerInv ==
  ASSUME WorkerInv, NEW t \in Task, Work(t)
  PROVE  WorkerInv'
<1> USE DEF WorkerInv
<1> SUFFICES TypeOK' /\ PlaceFitsState' /\ FlagRemembered' /\ InFlightListed'
             /\ QueueSound' /\ PermitCount'
  OBVIOUS
<1>1. CASE AskPermit(t)
  <2>1. /\ pc[t] = "spawned"
        /\ UNCHANGED <<state, asking, cancelled, payload, outcome, listed, born, admissions,
                     askedAt>>
    BY <1>1 DEF AskPermit, registry
  <2>2. /\ pc' \in [Task -> Place] /\ permits' \in 0..MaxConcurrent /\ waiters' \in Seq(Task)
        /\ pc'[t] \in {"holding", "waiting"}
        /\ \A u \in Task \ {t} : pc'[u] = pc[u]
        /\ QueueSound' /\ PermitCount'
    BY <1>1, AskPermitEffect
  <2>3. TypeOK'
    BY <2>1, <2>2 DEF TypeOK
  <2>4. PlaceFitsState'
    BY <2>1, <2>2 DEF PlaceFitsState
  <2>5. FlagRemembered' /\ InFlightListed'
    BY <2>1, <2>2 DEF FlagRemembered, InFlightListed
  <2>6. QED
    BY <2>2, <2>3, <2>4, <2>5
<1>2. CASE CheckCancel(t) /\ CancelSeen(t)
  <2>1. /\ pc[t] = "holding" /\ cancelled[t] /\ DropPermit(t, "cancelling")
        /\ UNCHANGED <<state, asking, cancelled, payload, outcome, listed, born, admissions,
                     askedAt>>
    BY <1>2 DEF CheckCancel, CancelSeen, registry
  <2>2. /\ pc' \in [Task -> Place] /\ permits' \in 0..MaxConcurrent /\ waiters' \in Seq(Task)
        /\ pc'[t] = "cancelling"
        /\ \A u \in Task \ {t} :
             \/ pc'[u] = pc[u]
             \/ pc[u] = "waiting" /\ pc'[u] = "holding"
        /\ QueueSound' /\ PermitCount'
    BY <2>1, DropPermitEffect DEF Holding, Place
  <2>3. TypeOK'
    BY <2>1, <2>2 DEF TypeOK
  <2>4. PlaceFitsState'
    BY <2>1, <2>2 DEF PlaceFitsState
  <2>5. FlagRemembered' /\ InFlightListed'
    BY <2>1, <2>2 DEF FlagRemembered, InFlightListed
  <2>6. QED
    BY <2>2, <2>3, <2>4, <2>5
<1>3. CASE ReleasePermit(t)
  <2>1. /\ pc[t] = "releasing" /\ DropPermit(t, "done")
        /\ UNCHANGED <<state, asking, cancelled, payload, outcome, listed, born, admissions,
                     askedAt>>
    BY <1>3 DEF ReleasePermit, registry
  <2>2. /\ pc' \in [Task -> Place] /\ permits' \in 0..MaxConcurrent /\ waiters' \in Seq(Task)
        /\ pc'[t] = "done"
        /\ \A u \in Task \ {t} :
             \/ pc'[u] = pc[u]
             \/ pc[u] = "waiting" /\ pc'[u] = "holding"
        /\ QueueSound' /\ PermitCount'
    BY <2>1, DropPermitEffect DEF Holding, Place
  <2>3. TypeOK'
    BY <2>1, <2>2 DEF TypeOK
  <2>4. PlaceFitsState'
    BY <2>1, <2>2 DEF PlaceFitsState, Terminal
  <2>5. FlagRemembered' /\ InFlightListed'
    BY <2>1, <2>2 DEF FlagRemembered, InFlightListed
  <2>6. QED
    BY <2>2, <2>3, <2>4, <2>5
(* Every other step moves only t, and keeps or leaves the permit alone.    *)
<1>4. CASE \/ CheckCancel(t) /\ ~CancelSeen(t)
           \/ MarkCancelled(t) \/ MarkRunning(t) \/ FinishBody(t) \/ StoreOutcome(t)
           \/ CommitSucceeded(t) \/ MarkFailed(t)
  <2>1. PICK next \in Place :
          /\ pc' = [pc EXCEPT ![t] = next] /\ pc[t] # "waiting"
          /\ pc[t] \in Holding <=> next \in Holding
          /\ UNCHANGED <<permits, waiters, listed, born, admissions, asking, cancelled, askedAt>>
    BY <1>4 DEF CheckCancel, MarkCancelled, MarkRunning, FinishBody, StoreOutcome,
                CommitSucceeded, MarkFailed, Place, Holding, registry
  <2>2. QueueSound' /\ PermitCount' /\ pc' \in [Task -> Place]
    BY <2>1, QuietMove
  <2>3. TypeOK'
    BY <1>4, <2>1, <2>2 DEF TypeOK, CheckCancel, MarkCancelled, MarkRunning, FinishBody,
         StoreOutcome, CommitSucceeded, MarkFailed, TaskState, Terminal
  <2>4. PlaceFitsState'
    BY <1>4, <2>1 DEF PlaceFitsState, TypeOK, CheckCancel, MarkCancelled, MarkRunning,
         FinishBody, StoreOutcome, CommitSucceeded, MarkFailed, Terminal
  <2>5. FlagRemembered'
    BY <1>4, <2>1 DEF FlagRemembered, PlaceFitsState, TypeOK, CheckCancel, CancelSeen,
         MarkCancelled, MarkRunning, FinishBody, StoreOutcome, CommitSucceeded, MarkFailed
  <2>6. InFlightListed'
    BY <1>4, <2>1 DEF InFlightListed, PlaceFitsState, TypeOK, CheckCancel, MarkCancelled,
         MarkRunning, FinishBody, StoreOutcome, CommitSucceeded, MarkFailed
  <2>7. QED
    BY <2>2, <2>3, <2>4, <2>5, <2>6
<1>5. QED
  BY <1>1, <1>2, <1>3, <1>4 DEF Work, CheckCancel

(* Both steps of a cancellation leave the worker where it is.              *)
LEMMA CancelWorkerInv ==
  ASSUME WorkerInv, NEW t \in Task, CancelReads(t) \/ CancelStores(t)
  PROVE  WorkerInv'
<1> USE DEF WorkerInv
<1>1. /\ UNCHANGED <<state, payload, outcome, listed, born, admissions>>
      /\ pc' = pc /\ permits' = permits /\ waiters' = waiters
  BY DEF CancelReads, CancelStores, registry, worker
<1>2. asking' \in SUBSET Task
  BY DEF CancelReads, CancelStores, TypeOK
<1>3. CASE CancelReads(t)
  <2>1. cancelled' = cancelled /\ askedAt' = askedAt
    BY <1>3 DEF CancelReads
  <2>2. QED
    BY <1>1, <1>2, <2>1, WorkerUntouched
       DEF TypeOK, PlaceFitsState, InFlightListed, FlagRemembered, worker
<1>4. CASE CancelStores(t)
  <2>1. /\ cancelled' = [cancelled EXCEPT ![t] = TRUE]
        /\ askedAt' = [askedAt EXCEPT ![t] = IF @ = "never" THEN pc[t] ELSE @]
    BY <1>4 DEF CancelStores
  <2>2. TypeOK'
    BY <1>1, <1>2, <2>1 DEF TypeOK
  <2>3. PlaceFitsState' /\ InFlightListed'
    BY <1>1 DEF PlaceFitsState, InFlightListed
  <2>4. FlagRemembered'
    BY <1>1, <2>1 DEF FlagRemembered, TypeOK, Place
  <2>5. QueueSound' /\ PermitCount'
    BY <1>1, WorkerUntouched DEF worker
  <2>6. QED
    BY <2>2, <2>3, <2>4, <2>5
<1>5. QED
  BY <1>3, <1>4

LEMMA RejectWorkerInv ==
  ASSUME WorkerInv, NEW t \in Task, Reject(t)
  PROVE  WorkerInv'
<1> USE DEF WorkerInv
<1>1. /\ pc[t] = "absent" /\ pc' = [pc EXCEPT ![t] = "rejected"]
      /\ UNCHANGED <<state, asking, cancelled, payload, outcome, listed, born, admissions,
                     askedAt>>
      /\ permits' = permits /\ waiters' = waiters
  BY DEF Reject, registry
<1>2. QueueSound' /\ PermitCount' /\ pc' \in [Task -> Place]
  BY <1>1, QuietMove DEF Place, Holding
<1>3. TypeOK' /\ PlaceFitsState' /\ FlagRemembered' /\ InFlightListed'
  BY <1>1, <1>2 DEF TypeOK, PlaceFitsState, FlagRemembered, InFlightListed
<1>4. QED
  BY <1>2, <1>3

LEMMA NextWorkerInv == WorkerInv /\ [Next]_vars => WorkerInv'
<1> SUFFICES ASSUME WorkerInv, [Next]_vars
             PROVE  WorkerInv'
  OBVIOUS
<1>1. CASE UNCHANGED vars
  BY <1>1 DEF vars, WorkerInv, TypeOK, PlaceFitsState, FlagRemembered, InFlightListed,
              QueueSound, PermitCount, Holders
<1>2. ASSUME NEW t \in Task, Admit(t) \/ Reject(t) \/ CancelReads(t) \/ CancelStores(t) \/ Work(t)
      PROVE  WorkerInv'
  BY <1>2, AdmitWorkerInv, RejectWorkerInv, CancelWorkerInv, WorkWorkerInv
<1>3. QED
  BY <1>1, <1>2 DEF Next

(* The inductive invariant holds of the specification.                     *)
THEOREM WorkerInvariant == Spec => []WorkerInv
<1>1. QED
  BY InitWorkerInv, NextWorkerInv, PTL DEF Spec

(* Type correctness, for every finite set of tasks and every limit.        *)
THEOREM TypeCorrect == Spec => []TypeOK
<1>1. WorkerInv => TypeOK
  BY DEF WorkerInv
<1>2. QED
  BY <1>1, WorkerInvariant, PTL

(* The permits of the semaphore and the workers that hold one always add   *)
(* up, whichever path through `execute` each worker takes.                 *)
THEOREM PermitsAddUp == Spec => []PermitsConserved
<1>1. WorkerInv => PermitsConserved
  BY DEF WorkerInv, PermitCount, QueueSound, PermitsConserved
<1>2. QED
  BY <1>1, WorkerInvariant, PTL

(* A ticket whose task has not ended resolves, whatever is pruned.         *)
THEOREM UnfinishedResolves == Spec => []InFlightListed
<1>1. WorkerInv => InFlightListed
  BY DEF WorkerInv
<1>2. QED
  BY <1>1, WorkerInvariant, PTL

(* A cancellation accepted before the worker reads the flag is honoured.   *)
THEOREM EarlyCancelHonoured == Spec => []EarlyCancelSticks
<1>1. WorkerInv => EarlyCancelSticks
  BY DEF WorkerInv, FlagRemembered, PlaceFitsState, EarlyCancelSticks
<1>2. QED
  BY <1>1, WorkerInvariant, PTL

-----------------------------------------------------------------------------
(* Admission and retention. *)

(* In-flight tasks whose result is still to come.                          *)
Pending == {t \in InFlight : ~outcome[t]}

(* Inductive: the results held, and those the tasks in flight may still    *)
(* add, together; and the tasks in flight by themselves.                   *)
RetentionInv ==
  /\ Cardinality(InFlight) <= Capacity
  /\ Cardinality(Held) + Cardinality(Pending) <= KeepResults + Capacity

LEMMA SubsetsOfTaskFinite ==
  ASSUME NEW S \in SUBSET Task
  PROVE  /\ IsFiniteSet(S) /\ Cardinality(S) \in Nat
         /\ \A T \in SUBSET S : Cardinality(T) <= Cardinality(S)
BY TaskAssumption, FS_Subset, FS_CardinalityType

LEMMA RetentionSetsFinite ==
  ASSUME TypeOK
  PROVE  /\ Held \in SUBSET Task /\ IsFiniteSet(Held) /\ Cardinality(Held) \in Nat
         /\ InFlight \in SUBSET Task /\ IsFiniteSet(InFlight) /\ Cardinality(InFlight) \in Nat
         /\ Pending \in SUBSET InFlight /\ IsFiniteSet(Pending) /\ Cardinality(Pending) \in Nat
<1>1. Held \in SUBSET Task /\ InFlight \in SUBSET Task /\ Pending \in SUBSET InFlight
  BY DEF TypeOK, Held, InFlight, Pending
<1>2. Pending \in SUBSET Task
  BY <1>1
<1>3. QED
  BY <1>1, <1>2, SubsetsOfTaskFinite

(* Dropping the oldest members of a set beyond a bound leaves the bound.   *)
LEMMA EvictionLeavesBound ==
  ASSUME NEW S \in SUBSET Task, NEW E \in SUBSET S, NEW bound \in Nat,
         AreOldest(E, S, Excess(S, bound))
  PROVE  Cardinality(S \ E) <= bound
<1>1. /\ IsFiniteSet(S) /\ Cardinality(S) \in Nat /\ Cardinality(E) \in Nat
      /\ Cardinality(S \ E) \in Nat /\ Cardinality(S \ E) <= Cardinality(S)
  BY SubsetsOfTaskFinite
<1>2. Cardinality(S \ E) = Cardinality(S) - Cardinality(E)
  <2>1. S \cap E = E
    OBVIOUS
  <2>2. QED
    BY <1>1, <2>1, FS_Difference
<1>3. CASE Cardinality(S) <= bound
  BY <1>1, <1>3
<1>4. CASE Cardinality(S) > bound
  <2>1. Cardinality(E) <= Cardinality(S) - bound
        /\ (Cardinality(E) < Cardinality(S) - bound => E = S)
    BY <1>4 DEF AreOldest, Excess
  <2>2. CASE E = S
    BY <1>1, <1>2, <2>2
  <2>3. CASE E # S
    BY <1>1, <1>2, <2>1, <2>3
  <2>4. QED
    BY <2>2, <2>3
<1>5. QED
  BY <1>1, <1>3, <1>4

LEMMA AdmitRetention ==
  ASSUME TypeOK, TypeOK', PlaceFitsState, RetentionInv, NEW t \in Task, Admit(t)
  PROVE  RetentionInv'
<1> Capacity \in Nat /\ KeepResults \in Nat /\ Capacity' = Capacity
  BY LimitAssumption DEF Capacity
<1>1. PICK evicted \in SUBSET Held :
        /\ AreOldest(evicted, Held, Excess(Held, KeepResults))
        /\ outcome' = [u \in Task |-> outcome[u] /\ u \notin evicted]
  BY DEF Admit
<1>2. PICK dropped \in SUBSET Finished : listed' = (listed \cup {t}) \ dropped
  BY DEF Admit, Droppable
<1>3. pc[t] = "absent" /\ state' = [state EXCEPT ![t] = "queued"]
      /\ Cardinality(InFlight) < Capacity
  BY DEF Admit
<1>4. t \notin listed /\ ~outcome[t]
  BY <1>3 DEF PlaceFitsState
<1>5. Cardinality(Held') <= KeepResults
  <2>1. ASSUME NEW u \in Held'
        PROVE  u \in Held \ evicted
    <3>1. u \in Task /\ u \in listed \cup {t} /\ outcome'[u]
      BY <1>2 DEF Held, TypeOK
    <3>2. outcome[u] /\ u \notin evicted
      BY <1>1, <3>1
    <3>3. u \in listed
      BY <1>4, <3>1, <3>2
    <3>4. QED
      BY <3>2, <3>3 DEF Held
  <2>2. Cardinality(Held \ evicted) <= KeepResults
    BY <1>1, EvictionLeavesBound, RetentionSetsFinite
  <2>3. Held \ evicted \in SUBSET Task
    BY RetentionSetsFinite
  <2>4. Held' \in SUBSET (Held \ evicted) /\ Held' \in SUBSET Task
    BY <2>1, <2>3
  <2>5. /\ Cardinality(Held') <= Cardinality(Held \ evicted)
        /\ Cardinality(Held') \in Nat /\ Cardinality(Held \ evicted) \in Nat
    BY <2>3, <2>4, SubsetsOfTaskFinite
  <2>6. QED
    BY <2>2, <2>5
<1>6. Cardinality(InFlight') <= Capacity
  <2>1. InFlight' = InFlight \cup {t}
    BY <1>2, <1>3, <1>4 DEF InFlight, Finished, TypeOK, Terminal
  <2>2. IsFiniteSet(InFlight) /\ Cardinality(InFlight) \in Nat /\ t \notin InFlight
    BY <1>4, RetentionSetsFinite DEF InFlight
  <2>3. Cardinality(InFlight \cup {t}) = Cardinality(InFlight) + 1
    BY <2>2, FS_AddElement
  <2>4. QED
    BY <1>3, <2>1, <2>2, <2>3
<1>7. Pending' \in SUBSET InFlight' /\ InFlight' \in SUBSET Task /\ Held' \in SUBSET Task
  BY DEF Pending, InFlight, Held, TypeOK
<1>8. /\ Cardinality(Pending') <= Cardinality(InFlight') /\ Cardinality(Pending') \in Nat
      /\ Cardinality(InFlight') \in Nat /\ Cardinality(Held') \in Nat
  BY <1>7, SubsetsOfTaskFinite
<1>9. QED
  BY <1>5, <1>6, <1>8 DEF RetentionInv

(* Storing a result moves its task from one count to the other.            *)
LEMMA StoreRetention ==
  ASSUME TypeOK, PlaceFitsState, InFlightListed, RetentionInv, NEW t \in Task, StoreOutcome(t)
  PROVE  RetentionInv'
<1>1. /\ outcome' = [outcome EXCEPT ![t] = TRUE]
      /\ state[t] = "running" /\ state' = state /\ listed' = listed
  BY DEF StoreOutcome, PlaceFitsState, registry
<1>2. t \in InFlight /\ t \in listed
  BY <1>1 DEF InFlight, InFlightListed, Terminal
<1>3. InFlight' = InFlight
  BY <1>1 DEF InFlight
<1>4. Held' = Held \cup {t}
  <2>1. \A u \in listed : outcome'[u] <=> (outcome[u] \/ u = t)
    BY <1>1 DEF TypeOK
  <2>2. QED
    BY <1>1, <1>2, <2>1 DEF Held
<1>5. Pending' = Pending \ {t}
  <2>1. \A u \in InFlight : ~outcome'[u] <=> (~outcome[u] /\ u # t)
    BY <1>1 DEF TypeOK, InFlight
  <2>2. QED
    BY <1>3, <2>1 DEF Pending
<1>6. IsFiniteSet(Held) /\ Cardinality(Held) \in Nat
      /\ IsFiniteSet(Pending) /\ Cardinality(Pending) \in Nat
  BY RetentionSetsFinite
<1>7. Cardinality(Held \cup {t}) + Cardinality(Pending \ {t})
        = Cardinality(Held) + Cardinality(Pending)
  <2>1. CASE outcome[t]
    <3>1. t \in Held /\ t \notin Pending
      BY <1>2, <2>1 DEF Held, Pending
    <3>2. Held \cup {t} = Held /\ Pending \ {t} = Pending
      BY <3>1
    <3>3. QED
      BY <3>2
  <2>2. CASE ~outcome[t]
    <3>1. t \notin Held /\ t \in Pending
      BY <1>2, <2>2 DEF Held, Pending
    <3>2. Cardinality(Held \cup {t}) = Cardinality(Held) + 1
      BY <1>6, <3>1, FS_AddElement
    <3>3. Cardinality(Pending \ {t}) = Cardinality(Pending) - 1
      BY <1>6, <3>1, FS_RemoveElement
    <3>4. QED
      BY <1>6, <3>2, <3>3
  <2>3. QED
    BY <2>1, <2>2
<1>8. QED
  BY <1>3, <1>4, <1>5, <1>7 DEF RetentionInv, Capacity

(* Every other step keeps the results and lets tasks in flight end.        *)
LEMMA OtherRetention ==
  ASSUME TypeOK, RetentionInv, outcome' = outcome, listed' = listed,
         \A u \in listed : state[u] \in Terminal => state'[u] \in Terminal
  PROVE  RetentionInv'
<1>1. Held' = Held
  BY DEF Held
<1>2. InFlight' \in SUBSET InFlight
  BY DEF InFlight
<1>3. Pending' \in SUBSET Pending
  BY <1>2 DEF Pending
<1>4. /\ InFlight \in SUBSET Task /\ Cardinality(InFlight) \in Nat
      /\ Pending \in SUBSET Task /\ Cardinality(Pending) \in Nat /\ Cardinality(Held) \in Nat
  BY RetentionSetsFinite
<1>5. Cardinality(InFlight') <= Cardinality(InFlight) /\ Cardinality(InFlight') \in Nat
      /\ Cardinality(Pending') <= Cardinality(Pending) /\ Cardinality(Pending') \in Nat
  <2>1. InFlight' \in SUBSET Task /\ Pending' \in SUBSET Task
    BY <1>2, <1>3, <1>4
  <2>2. QED
    BY <1>2, <1>3, <1>4, <2>1, SubsetsOfTaskFinite
<1>6. Capacity \in Nat /\ KeepResults \in Nat
  BY LimitAssumption DEF Capacity
<1>7. QED
  BY <1>1, <1>4, <1>5, <1>6 DEF RetentionInv, Capacity

LEMMA NextRetention == WorkerInv /\ WorkerInv' /\ RetentionInv /\ [Next]_vars => RetentionInv'
<1> SUFFICES ASSUME WorkerInv, WorkerInv', RetentionInv, [Next]_vars
             PROVE  RetentionInv'
  OBVIOUS
<1> USE DEF WorkerInv
<1>1. CASE UNCHANGED vars
  BY <1>1, OtherRetention DEF vars
<1>2. ASSUME NEW t \in Task, Admit(t)
      PROVE  RetentionInv'
  BY <1>2, AdmitRetention
<1>3. ASSUME NEW t \in Task, StoreOutcome(t)
      PROVE  RetentionInv'
  BY <1>3, StoreRetention
<1>4. ASSUME NEW t \in Task,
             \/ Reject(t) \/ CancelReads(t) \/ CancelStores(t) \/ AskPermit(t) \/ CheckCancel(t)
             \/ MarkCancelled(t) \/ MarkRunning(t) \/ FinishBody(t) \/ CommitSucceeded(t) \/ MarkFailed(t)
             \/ ReleasePermit(t)
      PROVE  RetentionInv'
  <2>1. outcome' = outcome /\ listed' = listed
    BY <1>4 DEF Reject, CancelReads, CancelStores, AskPermit, CheckCancel, MarkCancelled,
                MarkRunning, FinishBody, CommitSucceeded, MarkFailed, ReleasePermit, registry
  <2>2. \A u \in listed : state[u] \in Terminal => state'[u] \in Terminal
    <3> SUFFICES ASSUME NEW u \in listed, state[u] \in Terminal
                 PROVE  state'[u] \in Terminal
      OBVIOUS
    <3>1. u \in Task
      BY DEF TypeOK
    <3>2. CASE state' = state
      BY <3>2
    <3>3. CASE MarkRunning(t)
      BY <3>1, <3>3 DEF MarkRunning, PlaceFitsState, TypeOK, Terminal
    <3>4. CASE MarkCancelled(t) \/ CommitSucceeded(t) \/ MarkFailed(t)
      BY <3>1, <3>4 DEF MarkCancelled, CommitSucceeded, MarkFailed, TypeOK, Terminal
    <3>5. QED
      BY <1>4, <3>2, <3>3, <3>4 DEF Reject, CancelReads, CancelStores, AskPermit, CheckCancel,
                                    FinishBody, ReleasePermit
  <2>3. QED
    BY <2>1, <2>2, OtherRetention
<1>5. QED
  BY <1>1, <1>2, <1>3, <1>4 DEF Next, Work

LEMMA InitRetention == Init => RetentionInv
<1> SUFFICES ASSUME Init PROVE RetentionInv
  OBVIOUS
<1>1. Held = {} /\ InFlight = {} /\ Pending = {}
  BY DEF Init, Held, InFlight, Pending
<1>2. QED
  BY <1>1, FS_EmptySet, LimitAssumption DEF RetentionInv, Capacity

(* The two counts are invariant; WorkerInv supplies the facts about places *)
(* that admission and completion need.                                     *)
THEOREM RetentionInvariant == Spec => []RetentionInv
<1>1. QED
  BY InitRetention, NextRetention, WorkerInvariant, PTL DEF Spec

(* Admission never exceeds the configured capacity, for any limits.        *)
THEOREM CapacityIsHonoured == Spec => []CapacityHonoured
<1>1. WorkerInv /\ RetentionInv => CapacityHonoured
  <2> SUFFICES ASSUME WorkerInv, RetentionInv PROVE CapacityHonoured
    OBVIOUS
  <2>1. InFlight = {t \in Task : state[t] \in {"queued", "running"}}
    <3>1. \A t \in listed : t \in Task /\ state[t] # "absent"
      BY DEF WorkerInv, TypeOK, PlaceFitsState, Place, Terminal
    <3>2. QED
      BY <3>1 DEF WorkerInv, InFlight, InFlightListed, TypeOK, TaskState, Terminal
  <2>2. QED
    BY <2>1 DEF RetentionInv, CapacityHonoured, Capacity
<1>2. QED
  BY <1>1, WorkerInvariant, RetentionInvariant, PTL

(* The memory bound on results: KeepResults plus one per task in flight.   *)
THEOREM RetentionIsBounded == Spec => []RetentionBound
<1>1. RetentionInv => RetentionBound
  <2>1. Pending = {t \in InFlight : ~outcome[t]}
    BY DEF Pending
  <2>2. KeepResults + Capacity = KeepResults + MaxConcurrent + QueueCapacity
    BY LimitAssumption DEF Capacity
  <2>3. QED
    BY <2>1, <2>2 DEF RetentionInv, RetentionBound
<1>2. QED
  BY <1>1, RetentionInvariant, PTL
-----------------------------------------------------------------------------
(* The service implements the ticket lifecycle. *)

(* The values the refinement mapping gives to `result` and `asked`.        *)
ShownResult == [t \in Task |-> Result(t)]
Asked == {t \in Task : cancelled[t]}

LEMMA InitRefines == Init => Lifecycle!Init
<1> SUFFICES ASSUME Init PROVE Lifecycle!Init
  OBVIOUS
<1>1. \A t \in Task : Result(t) = "none" /\ ~cancelled[t]
  BY DEF Init, Result
<1>2. QED
  BY <1>1 DEF Init, Lifecycle!Init

(* A step that moves neither a state, a flag nor the table, and takes no   *)
(* result from a success, is not seen.                                     *)
LEMMA UnseenStep ==
  ASSUME state' = state, asking' = asking, cancelled' = cancelled, listed' = listed,
         \A t \in Task : state[t] = "succeeded" => outcome'[t] = outcome[t]
  PROVE  UNCHANGED Lifecycle!vars
<1>1. \A t \in Task : Result(t)' = Result(t)
  BY DEF Result
<1>2. QED
  BY <1>1 DEF Lifecycle!vars

(* A step that changes one state, and leaves the results of the others.    *)
LEMMA OneStateMoves ==
  ASSUME NEW t \in Task, NEW s \in TaskState, TypeOK, outcome' = outcome,
         state' = [state EXCEPT ![t] = s]
  PROVE  ShownResult' = [ShownResult EXCEPT ![t] =
           IF s # "succeeded" THEN "none" ELSE IF outcome[t] THEN "ready" ELSE "gone"]
<1>1. \A u \in Task \ {t} : Result(u)' = Result(u)
  BY DEF Result, TypeOK
<1>2. Result(t)' = IF s # "succeeded" THEN "none" ELSE IF outcome[t] THEN "ready" ELSE "gone"
  BY DEF Result, TypeOK
<1>3. QED
  BY <1>1, <1>2 DEF ShownResult

LEMMA ResultsStay ==
  ASSUME NEW t \in Task, NEW s \in TaskState \ {"succeeded"}, TypeOK, outcome' = outcome,
         state[t] # "succeeded", state' = [state EXCEPT ![t] = s]
  PROVE  ShownResult' = ShownResult
<1>1. \A u \in Task : Result(u)' = Result(u)
  BY DEF Result, TypeOK
<1>2. QED
  BY <1>1 DEF ShownResult

(* Admission submits the ticket, and what it prunes is what a client sees  *)
(* forgotten: results of successes, and entries that have ended.           *)
LEMMA AdmitRefines ==
  ASSUME WorkerInv, NEW t \in Task, Admit(t)
  PROVE  Lifecycle!Submit(t)
<1> USE DEF WorkerInv
<1>1. PICK evicted \in SUBSET Held :
        outcome' = [u \in Task |-> outcome[u] /\ u \notin evicted]
  BY DEF Admit
<1>2. PICK dropped \in SUBSET Finished : listed' = (listed \cup {t}) \ dropped
  BY DEF Admit, Droppable
<1>3. /\ state' = [state EXCEPT ![t] = "queued"] /\ asking' = asking
      /\ cancelled' = cancelled /\ state[t] = "absent"
  BY DEF Admit, PlaceFitsState
<1> DEFINE gone == {u \in evicted : Result(u) = "ready"}
<1>4. gone \in SUBSET {u \in Task : ShownResult[u] = "ready"}
  BY DEF Held, TypeOK, ShownResult
<1>5. ASSUME NEW u \in Task
      PROVE  Result(u)' = IF u \in gone THEN "gone" ELSE Result(u)
  <2>1. CASE u = t
    BY <1>3, <2>1 DEF Result, TypeOK
  <2>2. CASE u # t
    <3>1. state'[u] = state[u] /\ (outcome'[u] <=> outcome[u] /\ u \notin evicted)
      BY <1>1, <1>3, <2>2 DEF TypeOK
    <3>2. QED
      BY <3>1 DEF Result
  <2>3. QED
    BY <2>1, <2>2
<1>6. ShownResult' = [u \in Task |-> IF u \in gone THEN "gone" ELSE ShownResult[u]]
  BY <1>5 DEF ShownResult
<1>7. dropped \in SUBSET {u \in listed : state[u] \in Lifecycle!Ended}
  BY <1>2 DEF Finished, Terminal, Lifecycle!Ended
<1> HIDE DEF gone
<1>8. QED
  BY <1>2, <1>3, <1>4, <1>6, <1>7 DEF Lifecycle!Submit, ShownResult

(* A worker that starts finds room: every running ticket has a permit, and *)
(* so does the one that starts.  The instance has a Cardinality of its     *)
(* own, which is the same function.                                        *)
LEMMA RoomToStart ==
  ASSUME WorkerInv, NEW t \in Task, pc[t] = "starting"
  PROVE  Lifecycle!Cardinality(Lifecycle!Running) < MaxConcurrent
<1> USE DEF WorkerInv
<1>1. Lifecycle!Running \subseteq Holders \ {t}
  <2> SUFFICES ASSUME NEW u \in Task, state[u] = "running"
               PROVE  pc[u] \in Holding /\ u # t
    BY DEF Lifecycle!Running, Holders
  <2>1. pc[u] \in Place
    BY DEF TypeOK
  <2>2. QED
    BY <2>1 DEF PlaceFitsState, Place, Holding, Terminal
<1>2. t \in Holders
  BY DEF Holders, Holding
<1>3. IsFiniteSet(Holders \ {t}) /\ Cardinality(Holders \ {t}) = Cardinality(Holders) - 1
  BY <1>2, HoldersFinite, FS_RemoveElement
<1>4. Cardinality(Lifecycle!Running) <= Cardinality(Holders) - 1
      /\ Cardinality(Lifecycle!Running) \in Nat
  BY <1>1, <1>3, FS_Subset, FS_CardinalityType
<1>5. Lifecycle!Cardinality(Lifecycle!Running) = Cardinality(Lifecycle!Running)
  BY DEF Lifecycle!Cardinality, Cardinality
<1>6. QED
  BY <1>4, <1>5, HoldersFinite, LimitAssumption DEF PermitCount, TypeOK

LEMMA WorkRefines ==
  ASSUME WorkerInv, WorkerInv', NEW t \in Task, Work(t)
  PROVE  Lifecycle!Start(t) \/ Lifecycle!Succeed(t) \/ Lifecycle!Fail(t)
         \/ Lifecycle!Cancel(t) \/ UNCHANGED Lifecycle!vars
<1> USE DEF WorkerInv
<1>1. CASE MarkRunning(t)
  <2>1. /\ pc[t] = "starting" /\ state[t] = "queued"
        /\ state' = [state EXCEPT ![t] = "running"]
        /\ UNCHANGED <<asking, cancelled, outcome, listed>>
    BY <1>1 DEF MarkRunning, PlaceFitsState, registry
  <2>2. ShownResult' = ShownResult
    BY <2>1, ResultsStay DEF TaskState, Terminal
  <2>3. Lifecycle!Cardinality(Lifecycle!Running) < MaxConcurrent
    BY <2>1, RoomToStart
  <2>4. Asked' = Asked
    BY <2>1 DEF Asked
  <2>5. Lifecycle!Start(t)
    BY <2>1, <2>2, <2>3, <2>4 DEF Lifecycle!Start, ShownResult, Asked
  <2>6. QED
    BY <2>5
<1>2. CASE CommitSucceeded(t)
  <2>1. /\ state[t] = "running" /\ state' = [state EXCEPT ![t] = "succeeded"]
        /\ UNCHANGED <<asking, cancelled, outcome, listed>>
    BY <1>2 DEF CommitSucceeded, PlaceFitsState, registry
  <2>2. ShownResult' = [ShownResult EXCEPT ![t] = IF outcome[t] THEN "ready" ELSE "gone"]
    BY <2>1, OneStateMoves DEF TaskState, Terminal
  <2>3. Lifecycle!Succeed(t)
    BY <2>1, <2>2 DEF Lifecycle!Succeed, ShownResult
  <2>4. QED
    BY <2>3
<1>3. CASE MarkFailed(t)
  <2>1. /\ state[t] = "running" /\ state' = [state EXCEPT ![t] = "failed"]
        /\ UNCHANGED <<asking, cancelled, outcome, listed>>
    BY <1>3 DEF MarkFailed, PlaceFitsState, registry
  <2>2. ShownResult' = ShownResult
    BY <2>1, ResultsStay DEF TaskState, Terminal
  <2>3. Lifecycle!Fail(t)
    BY <2>1, <2>2 DEF Lifecycle!Fail, ShownResult
  <2>4. QED
    BY <2>3
<1>4. CASE MarkCancelled(t)
  <2>1. /\ pc[t] = "cancelling" /\ state[t] = "queued" /\ cancelled[t]
        /\ state' = [state EXCEPT ![t] = "cancelled"]
        /\ UNCHANGED <<asking, cancelled, outcome, listed>>
    BY <1>4 DEF MarkCancelled, PlaceFitsState, FlagRemembered, registry
  <2>2. ShownResult' = ShownResult
    BY <2>1, ResultsStay DEF TaskState, Terminal
  <2>3. Lifecycle!Cancel(t)
    BY <2>1, <2>2 DEF Lifecycle!Cancel, ShownResult
  <2>4. QED
    BY <2>3
(* A result is stored while its ticket still runs.                         *)
<1>5. CASE StoreOutcome(t)
  <2>1. /\ state[t] = "running" /\ outcome' = [outcome EXCEPT ![t] = TRUE]
        /\ UNCHANGED <<state, asking, cancelled, listed>>
    BY <1>5 DEF StoreOutcome, PlaceFitsState, registry
  <2>2. \A u \in Task : state[u] = "succeeded" => outcome'[u] = outcome[u]
    BY <2>1 DEF TypeOK
  <2>3. QED
    BY <2>1, <2>2, UnseenStep
<1>6. CASE AskPermit(t) \/ CheckCancel(t) \/ FinishBody(t) \/ ReleasePermit(t)
  <2>1. UNCHANGED <<state, asking, cancelled, outcome, listed>>
    BY <1>6 DEF AskPermit, CheckCancel, FinishBody, ReleasePermit, registry
  <2>2. QED
    BY <2>1, UnseenStep
<1>7. QED
  BY <1>1, <1>2, <1>3, <1>4, <1>5, <1>6 DEF Work

(* The read of a cancellation finds a ticket that has not ended.           *)
LEMMA CancelReadsRefines ==
  ASSUME WorkerInv, NEW t \in Task, CancelReads(t)
  PROVE  Lifecycle!Ask(t)
<1> USE DEF WorkerInv
<1>1. /\ t \in listed /\ state[t] \notin Terminal /\ asking' = asking \cup {t}
      /\ UNCHANGED <<state, cancelled, outcome, listed>>
  BY DEF CancelReads, registry
<1>2. state[t] \in {"queued", "running"}
  BY <1>1 DEF PlaceFitsState, TypeOK, Place, TaskState, Terminal
<1>3. Asked' = Asked /\ ShownResult' = ShownResult
  BY <1>1 DEF Asked, ShownResult, Result
<1>4. QED
  BY <1>1, <1>2, <1>3 DEF Lifecycle!Ask, Asked, ShownResult

(* Its store accepts it, whatever has become of the ticket since.          *)
LEMMA CancelStoresRefines ==
  ASSUME WorkerInv, NEW t \in Task, CancelStores(t)
  PROVE  Lifecycle!Accept(t)
<1> USE DEF WorkerInv
<1>1. /\ t \in asking /\ cancelled' = [cancelled EXCEPT ![t] = TRUE]
      /\ UNCHANGED <<state, asking, outcome, listed>>
  BY DEF CancelStores, registry
<1>2. Asked' = Asked \cup {t}
  BY <1>1 DEF Asked, TypeOK
<1>3. ShownResult' = ShownResult
  BY <1>1 DEF ShownResult, Result
<1>4. QED
  BY <1>1, <1>2, <1>3 DEF Lifecycle!Accept, Asked, ShownResult

LEMMA NextRefines ==
  WorkerInv /\ WorkerInv' /\ [Next]_vars => [Lifecycle!Next]_(Lifecycle!vars)
<1> SUFFICES ASSUME WorkerInv, WorkerInv', [Next]_vars
             PROVE  Lifecycle!Next \/ UNCHANGED Lifecycle!vars
  OBVIOUS
<1>1. CASE UNCHANGED vars
  BY <1>1, UnseenStep DEF vars
<1>2. ASSUME NEW t \in Task, Admit(t)
      PROVE  Lifecycle!Next
  BY <1>2, AdmitRefines DEF Lifecycle!Next
<1>3. ASSUME NEW t \in Task, Reject(t)
      PROVE  UNCHANGED Lifecycle!vars
  BY <1>3, UnseenStep DEF Reject, registry
<1>4. ASSUME NEW t \in Task, CancelReads(t) \/ CancelStores(t)
      PROVE  Lifecycle!Next
  BY <1>4, CancelReadsRefines, CancelStoresRefines DEF Lifecycle!Next
<1>5. ASSUME NEW t \in Task, Work(t)
      PROVE  Lifecycle!Next \/ UNCHANGED Lifecycle!vars
  BY <1>5, WorkRefines DEF Lifecycle!Next
<1>6. QED
  BY <1>1, <1>2, <1>3, <1>4, <1>5 DEF Next

(* The registry and the runner keep the promise of the ticket lifecycle:   *)
(* one end per ticket, at most MaxConcurrent running, only what has ended  *)
(* is forgotten, only what was asked for is cancelled, what is accepted    *)
(* was alive when its call looked, a cancellation accepted after the end   *)
(* changes nothing, and a result that is gone stays gone.                  *)
THEOREM ServiceIsTicketLifecycle == Spec => LifecycleSpec
<1>1. QED
  BY InitRefines, NextRefines, WorkerInvariant, PTL
     DEF Spec, LifecycleSpec, Lifecycle!Spec
=============================================================================
