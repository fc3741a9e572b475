-------------------------- MODULE TaskRecordProofs ---------------------------
(***************************************************************************)
(* What a reader of a task's record can rely on, for any number of readers *)
(* and of reported stages; and what the callers of the service are told of *)
(* a task's data, for any calls, tickets and bounds of the table.          *)
(***************************************************************************)
EXTENDS TaskRecord, ServiceAnswers, SequenceTheorems, WellFoundedInduction, TLAPS, FiniteSetTheorems

-----------------------------------------------------------------------------
(* One record (TaskRecord).                                                *)

(* The stage and the progress that belong to an end.                       *)
Fits(state, stage, progress) ==
  \/ state = "succeeded" /\ stage = "done" /\ progress = "full"
  \/ state = "failed" /\ stage = "failed" /\ progress = "none"
  \/ state = "cancelled" /\ stage = "cancelled" /\ progress = "none"

(* Where the worker is in the stores of an end.                            *)
Ending(state, stage, progress) ==
  \/ todo = <<Set("stage", stage), Set("progress", progress), Set("finished", TRUE),
              Set("state", state)>>
  \/ /\ todo = <<Set("progress", progress), Set("finished", TRUE), Set("state", state)>>
     /\ record.stage = stage
  \/ /\ todo = <<Set("finished", TRUE), Set("state", state)>>
     /\ record.stage = stage /\ record.progress = progress
  \/ /\ todo = <<Set("state", state)>>
     /\ record.stage = stage /\ record.progress = progress

ResultKept == record.outcome \/ evicted

(* Between transitions the record agrees with itself; within one, `todo`   *)
(* is a tail of its stores, and a task that ends is not ended yet.         *)
WorkerInv ==
  /\ record \in Record
  /\ evicted \in BOOLEAN
  /\ \/ /\ todo = <<>>
        /\ record.state \in Terminal => Fits(record.state, record.stage, record.progress)
        /\ record.state = "succeeded" => ResultKept
     \/ /\ record.state = "queued"
        /\ \/ todo = MarkRunning
           \/ todo = <<Set("stage", "running"), Set("progress", "none"), Set("state", "running")>>
           \/ todo = <<Set("progress", "none"), Set("state", "running")>>
           \/ todo = <<Set("state", "running")>>
           \/ Ending("cancelled", "cancelled", "none")
     \/ /\ record.state = "running"
        /\ \/ todo = Observe
           \/ todo = <<Set("progress", "some")>>
           \/ todo = MarkSucceeded
           \/ Ending("succeeded", "done", "full") /\ ResultKept
           \/ todo = MarkFailed
           \/ Ending("failed", "failed", "none")

(* A reader that has seen an end holds what belongs to it: the end is      *)
(* final, so what it reads afterwards is of that end too.                  *)
DtoInv ==
  \A r \in Reader : plan[r] = ToDto =>
    /\ got[r] \in 0..6
    /\ seen[r].state \in Terminal => got[r] >= 4 /\ record.state = seen[r].state
    /\ seen[r].state \in Terminal /\ got[r] >= 5 => seen[r].stage = record.stage
    /\ seen[r].state \in Terminal /\ got[r] >= 6 => seen[r].progress = record.progress

ResultInv ==
  \A r \in Reader : plan[r] = ResultDto =>
    /\ got[r] \in 0..2
    /\ seen[r].state = "succeeded" => got[r] >= 1 /\ record.state = "succeeded"
    /\ seen[r].state = "succeeded" /\ got[r] = 2 => seen[r].outcome \/ evicted

ReaderInv ==
  /\ plan \in [Reader -> Plans]
  /\ got \in [Reader -> Nat]
  /\ seen \in [Reader -> Record]
  /\ DtoInv
  /\ ResultInv

Inv == WorkerInv /\ ReaderInv

LEMMA Prepend ==
  ASSUME NEW S, NEW x \in S, NEW s \in Seq(S)
  PROVE  /\ <<x>> \o s # <<>>
         /\ Head(<<x>> \o s) = x
         /\ Tail(<<x>> \o s) = s
<1>1. <<x>> \in Seq(S) /\ Len(<<x>>) = 1 /\ <<x>>[1] = x
  OBVIOUS
<1>2. /\ <<x>> \o s \in Seq(S) /\ Len(<<x>> \o s) = 1 + Len(s)
      /\ \A i \in 1..(1 + Len(s)) :
           (<<x>> \o s)[i] = IF i <= 1 THEN <<x>>[i] ELSE s[i - 1]
  BY <1>1, ConcatProperties
<1>3. Len(s) \in Nat
  OBVIOUS
<1>4. Head(<<x>> \o s) = x /\ <<x>> \o s # <<>>
  BY <1>1, <1>2, <1>3
<1>5. Tail(<<x>> \o s) \in Seq(S) /\ Len(Tail(<<x>> \o s)) = Len(s)
  BY <1>2, <1>3, <1>4
<1>6. \A i \in 1..Len(s) : Tail(<<x>> \o s)[i] = s[i]
  BY <1>2, <1>3, <1>4
<1>7. Tail(<<x>> \o s) = s
  BY <1>3, <1>5, <1>6, SeqEqual
<1> QED
  BY <1>4, <1>7

(* The first store of each transition that has one before its commit.      *)
LEMMA FirstStores ==
  /\ MarkRunning # <<>> /\ Head(MarkRunning) = Set("started", TRUE)
  /\ Tail(MarkRunning) =
       <<Set("stage", "running"), Set("progress", "none"), Set("state", "running")>>
  /\ MarkSucceeded # <<>> /\ Head(MarkSucceeded) = Set("outcome", TRUE)
  /\ Tail(MarkSucceeded) =
       <<Set("stage", "done"), Set("progress", "full"), Set("finished", TRUE),
         Set("state", "succeeded")>>
  /\ MarkFailed # <<>> /\ Head(MarkFailed) = Set("error", TRUE)
  /\ Tail(MarkFailed) =
       <<Set("stage", "failed"), Set("progress", "none"), Set("finished", TRUE),
         Set("state", "failed")>>
<1> DEFINE S == [field : {"state", "stage", "progress", "started", "finished", "error", "outcome"},
                 value : {"queued", "running", "core", "done", "failed", "cancelled", "succeeded",
                          "none", "zero", "some", "full"} \cup BOOLEAN]
<1>1. Commit("running", "running", "none") =
        <<Set("stage", "running"), Set("progress", "none"), Set("state", "running")>>
  BY DEF Commit, Terminal
<1>2. Commit("succeeded", "done", "full") =
        <<Set("stage", "done"), Set("progress", "full"), Set("finished", TRUE),
          Set("state", "succeeded")>>
  BY DEF Commit, Terminal
<1>3. Commit("failed", "failed", "none") =
        <<Set("stage", "failed"), Set("progress", "none"), Set("finished", TRUE),
          Set("state", "failed")>>
  BY DEF Commit, Terminal
<1>4. /\ Set("started", TRUE) \in S /\ Set("outcome", TRUE) \in S /\ Set("error", TRUE) \in S
      /\ Set("finished", TRUE) \in S
      /\ \A v \in {"running", "done", "failed"} : Set("stage", v) \in S
      /\ \A v \in {"none", "full"} : Set("progress", v) \in S
      /\ \A v \in {"running", "succeeded", "failed"} : Set("state", v) \in S
  BY DEF Set
<1>5. /\ Commit("running", "running", "none") \in Seq(S)
      /\ Commit("succeeded", "done", "full") \in Seq(S)
      /\ Commit("failed", "failed", "none") \in Seq(S)
  <2> HIDE DEF S
  <2>1. ASSUME NEW a \in S, NEW b \in S, NEW c \in S, NEW d \in S
        PROVE  <<a, b, c>> \in Seq(S) /\ <<a, b, c, d>> \in Seq(S)
    OBVIOUS
  <2>2. Commit("running", "running", "none") \in Seq(S)
    <3>1. Set("stage", "running") \in S /\ Set("progress", "none") \in S
          /\ Set("state", "running") \in S
      BY <1>4
    <3>2. QED
      BY <3>1, <2>1, <1>1
  <2>3. Commit("succeeded", "done", "full") \in Seq(S)
    <3>1. Set("stage", "done") \in S /\ Set("progress", "full") \in S
          /\ Set("finished", TRUE) \in S /\ Set("state", "succeeded") \in S
      BY <1>4
    <3>2. QED
      BY <3>1, <2>1, <1>2
  <2>4. Commit("failed", "failed", "none") \in Seq(S)
    <3>1. Set("stage", "failed") \in S /\ Set("progress", "none") \in S
          /\ Set("finished", TRUE) \in S /\ Set("state", "failed") \in S
      BY <1>4
    <3>2. QED
      BY <3>1, <2>1, <1>3
  <2>5. QED
    BY <2>2, <2>3, <2>4
<1> HIDE DEF S
<1>6. QED
  BY <1>1, <1>2, <1>3, <1>4, <1>5, Prepend DEF MarkRunning, MarkSucceeded, MarkFailed

LEMMA Tails ==
  ASSUME NEW a, NEW b, NEW c, NEW d
  PROVE  Tail(<<a, b, c, d>>) = <<b, c, d>> /\ Tail(<<a, b, c>>) = <<b, c>>
OBVIOUS

LEMMA StoredAs ==
  ASSUME NEW field, NEW value, Store, Head(todo) = Set(field, value)
  PROVE  record' = [record EXCEPT ![field] = value]
<1>1. Head(todo).field = field /\ Head(todo).value = value
  BY DEF Set
<1>2. QED
  BY <1>1 DEF Store

(* What storing one field leaves of the record.                            *)
LEMMA StoredField ==
  ASSUME record \in Record
  PROVE  /\ LET r == [record EXCEPT !.started = TRUE]
            IN  r \in Record /\ r.state = record.state
         /\ LET r == [record EXCEPT !.outcome = TRUE]
            IN  r \in Record /\ r.state = record.state /\ r.outcome
         /\ LET r == [record EXCEPT !.error = TRUE]
            IN  r \in Record /\ r.state = record.state
         /\ LET r == [record EXCEPT !.finished = TRUE]
            IN  /\ r \in Record /\ r.state = record.state /\ r.outcome = record.outcome
                /\ r.stage = record.stage /\ r.progress = record.progress
BY DEF Record

LEMMA StoredValue ==
  ASSUME record \in Record, NEW v
  PROVE  /\ v \in {"running", "core", "done", "failed", "cancelled"} =>
              LET r == [record EXCEPT !.stage = v]
              IN  /\ r \in Record /\ r.state = record.state /\ r.stage = v
                  /\ r.outcome = record.outcome
         /\ v \in {"none", "some", "full"} =>
              LET r == [record EXCEPT !.progress = v]
              IN  /\ r \in Record /\ r.state = record.state /\ r.progress = v
                  /\ r.outcome = record.outcome /\ r.stage = record.stage
         /\ v \in {"running"} \cup Terminal =>
              LET r == [record EXCEPT !.state = v]
              IN  /\ r \in Record /\ r.state = v /\ r.progress = record.progress
                  /\ r.outcome = record.outcome /\ r.stage = record.stage
BY DEF Record, Terminal

LEMMA InitInv == Init => Inv
<1> SUFFICES ASSUME Init PROVE Inv
  OBVIOUS
<1>1. New \in Record
  BY DEF New, Record, Terminal
<1>2. WorkerInv
  BY <1>1 DEF Init, WorkerInv, New, Terminal
<1>3. plan \in [Reader -> Plans] /\ got \in [Reader -> Nat] /\ seen \in [Reader -> Record]
  BY <1>1 DEF Init
<1>4. DtoInv /\ ResultInv
  BY DEF Init, DtoInv, ResultInv, New, Terminal
<1> QED
  BY <1>2, <1>3, <1>4 DEF Inv, ReaderInv

(* A worker that begins a transition.                                      *)
LEMMA BeginWorker == ASSUME WorkerInv, Begin PROVE WorkerInv'
<1>1. UNCHANGED <<record, evicted>> /\ todo = <<>>
  BY DEF Begin
<1>2. CASE record.state = "queued" /\ todo' = MarkRunning
  BY <1>1, <1>2 DEF WorkerInv
<1>3. CASE record.state = "queued" /\ todo' = MarkCancelled
  <2>1. Ending("cancelled", "cancelled", "none")'
    BY <1>3 DEF MarkCancelled, Commit, Terminal, Ending
  <2>2. QED
    BY <1>1, <1>3, <2>1 DEF WorkerInv
<1>4. CASE record.state = "running" /\ todo' \in {MarkSucceeded, MarkFailed, Observe}
  BY <1>1, <1>4 DEF WorkerInv
<1>5. QED
  BY <1>2, <1>3, <1>4 DEF Begin

(* One store: the tail of the transition that is left.                     *)
LEMMA StoreWorker == ASSUME WorkerInv, Store PROVE WorkerInv'
<1>1. /\ todo # <<>> /\ evicted' = evicted /\ todo' = Tail(todo)
      /\ record \in Record
  BY DEF Store, WorkerInv
<1>2. ASSUME NEW state, NEW stage, NEW progress, Fits(state, stage, progress),
             Ending(state, stage, progress), record.state \in {"queued", "running"},
             state = "succeeded" => ResultKept
      PROVE  /\ record' \in Record
             /\ \/ record'.state = record.state /\ Ending(state, stage, progress)'
                \/ /\ todo' = <<>>
                   /\ record'.state = state /\ record'.stage = stage
                   /\ record'.progress = progress
             /\ state = "succeeded" => ResultKept'
  <2>1. CASE todo = <<Set("stage", stage), Set("progress", progress), Set("finished", TRUE),
                      Set("state", state)>>
    <3>0. Head(todo) = Set("stage", stage)
      BY <2>1
    <3>1. record' = [record EXCEPT !.stage = stage]
      BY <3>0, StoredAs
    <3>2. Tail(todo) = <<Set("progress", progress), Set("finished", TRUE), Set("state", state)>>
      <4> DEFINE a == Set("stage", stage)  b == Set("progress", progress)
                 c == Set("finished", TRUE)  d == Set("state", state)
      <4>1. todo = <<a, b, c, d>>
        BY <2>1
      <4>2. Tail(todo) = <<b, c, d>>
        <5> HIDE DEF a, b, c, d
        <5> QED BY <4>1, Tails
      <4>3. QED
        BY <4>2
    <3>a. stage \in {"running", "core", "done", "failed", "cancelled"}
      <4>1. Fits(state, stage, progress)
        BY <1>2
      <4>2. QED
        BY <4>1 DEF Fits
    <3>3. record'.state = record.state /\ record'.outcome = record.outcome
          /\ record' \in Record /\ record'.stage = stage
      BY <1>1, <2>1, <3>a, <3>1, StoredValue
    <3>4. QED
      BY <1>1, <1>2, <3>2, <3>3 DEF Ending, ResultKept
  <2>2. CASE /\ todo = <<Set("progress", progress), Set("finished", TRUE), Set("state", state)>>
             /\ record.stage = stage
    <3>0. Head(todo) = Set("progress", progress)
      BY <2>2
    <3>1. record' = [record EXCEPT !.progress = progress]
      BY <3>0, StoredAs
    <3>2. Tail(todo) = <<Set("finished", TRUE), Set("state", state)>>
      <4> DEFINE a == Set("progress", progress)  b == Set("finished", TRUE)
                 c == Set("state", state)
      <4>1. todo = <<a, b, c>>
        BY <2>2
      <4>2. Tail(todo) = <<b, c>>
        <5> HIDE DEF a, b, c
        <5> QED BY <4>1, Tails
      <4>3. QED
        BY <4>2
    <3>a. progress \in {"none", "some", "full"}
      <4>1. Fits(state, stage, progress)
        BY <1>2
      <4>2. QED
        BY <4>1 DEF Fits
    <3>3. record'.state = record.state /\ record'.outcome = record.outcome
          /\ record' \in Record /\ record'.stage = stage /\ record'.progress = progress
      BY <1>1, <2>2, <3>a, <3>1, StoredValue
    <3>4. QED
      BY <1>1, <1>2, <3>2, <3>3 DEF Ending, ResultKept
  <2>3. CASE /\ todo = <<Set("finished", TRUE), Set("state", state)>>
             /\ record.stage = stage /\ record.progress = progress
    <3>0. Head(todo) = Set("finished", TRUE)
      BY <2>3
    <3>1. record' = [record EXCEPT !.finished = TRUE]
      BY <3>0, StoredAs
    <3>2. Tail(todo) = <<Set("state", state)>>
      BY <2>3
    <3>3. QED
      BY <1>1, <1>2, <2>3, <3>1, <3>2, StoredField, StoredValue
         DEF Ending, Fits, ResultKept, Terminal
  <2>4. CASE /\ todo = <<Set("state", state)>>
             /\ record.stage = stage /\ record.progress = progress
    <3>0. Head(todo) = Set("state", state)
      BY <2>4
    <3>1. record' = [record EXCEPT !.state = state]
      BY <3>0, StoredAs
    <3>2. Tail(todo) = <<>>
      BY <2>4
    <3>3. QED
      BY <1>1, <1>2, <2>4, <3>1, <3>2, StoredField, StoredValue
         DEF Ending, Fits, ResultKept, Terminal
  <2>5. QED
    BY <1>2, <2>1, <2>2, <2>3, <2>4 DEF Ending
<1>3. CASE record.state = "queued"
  <2>1. CASE todo = MarkRunning
    <3>0. Head(todo) = Set("started", TRUE)
      BY <2>1, FirstStores
    <3>1. record' = [record EXCEPT !.started = TRUE]
      BY <3>0, StoredAs
    <3>2. todo' = <<Set("stage", "running"), Set("progress", "none"), Set("state", "running")>>
      BY <1>1, <2>1, FirstStores
    <3>3. record' \in Record /\ record'.state = record.state
      BY <1>1, <3>1, StoredField
    <3>4. QED
      BY <1>1, <1>3, <3>2, <3>3 DEF WorkerInv
  <2>2. CASE todo = <<Set("stage", "running"), Set("progress", "none"), Set("state", "running")>>
    <3>0. Head(todo) = Set("stage", "running")
      BY <2>2
    <3>1. record' = [record EXCEPT !.stage = "running"]
      BY <3>0, StoredAs
    <3>2. todo' = <<Set("progress", "none"), Set("state", "running")>>
      BY <1>1, <2>2
    <3>3. record' \in Record /\ record'.state = record.state
      BY <1>1, <3>1, StoredValue DEF Terminal
    <3>4. QED
      BY <1>1, <1>3, <3>2, <3>3 DEF WorkerInv
  <2>3. CASE todo = <<Set("progress", "none"), Set("state", "running")>>
    <3>0. Head(todo) = Set("progress", "none")
      BY <2>3
    <3>1. record' = [record EXCEPT !.progress = "none"]
      BY <3>0, StoredAs
    <3>2. todo' = <<Set("state", "running")>>
      BY <1>1, <2>3
    <3>3. record' \in Record /\ record'.state = record.state
      BY <1>1, <3>1, StoredValue DEF Terminal
    <3>4. QED
      BY <1>1, <1>3, <3>2, <3>3 DEF WorkerInv
  <2>4. CASE todo = <<Set("state", "running")>>
    <3>0. Head(todo) = Set("state", "running")
      BY <2>4
    <3>1. record' = [record EXCEPT !.state = "running"]
      BY <3>0, StoredAs
    <3>2. todo' = <<>>
      BY <1>1, <2>4
    <3>3. record' \in Record /\ record'.state = "running"
      BY <1>1, <3>1, StoredValue DEF Terminal
    <3>4. QED
      BY <1>1, <1>3, <3>2, <3>3 DEF WorkerInv, Terminal
  <2>5. CASE Ending("cancelled", "cancelled", "none")
    BY <1>1, <1>2, <1>3, <2>5 DEF WorkerInv, Fits, Terminal
  <2>6. QED
    BY <1>1, <1>3, <2>1, <2>2, <2>3, <2>4, <2>5 DEF WorkerInv
<1>4. CASE record.state = "running"
  <2>1. CASE todo = Observe
    <3>0. Head(todo) = Set("stage", "core")
      BY <2>1 DEF Observe
    <3>1. record' = [record EXCEPT !.stage = "core"]
      BY <3>0, StoredAs
    <3>2. todo' = <<Set("progress", "some")>>
      BY <1>1, <2>1 DEF Observe
    <3>3. record' \in Record /\ record'.state = record.state
      BY <1>1, <3>1, StoredValue DEF Terminal
    <3>4. QED
      BY <1>1, <1>4, <3>2, <3>3 DEF WorkerInv
  <2>2. CASE todo = <<Set("progress", "some")>>
    <3>0. Head(todo) = Set("progress", "some")
      BY <2>2
    <3>1. record' = [record EXCEPT !.progress = "some"]
      BY <3>0, StoredAs
    <3>2. todo' = <<>>
      BY <1>1, <2>2
    <3>3. record' \in Record /\ record'.state = record.state
      BY <1>1, <3>1, StoredValue DEF Terminal
    <3>4. QED
      BY <1>1, <1>4, <3>2, <3>3 DEF WorkerInv, Terminal
  <2>3. CASE todo = MarkSucceeded
    <3>0. Head(todo) = Set("outcome", TRUE)
      BY <2>3, FirstStores
    <3>1. record' = [record EXCEPT !.outcome = TRUE]
      BY <3>0, StoredAs
    <3>2. todo' = <<Set("stage", "done"), Set("progress", "full"),
                  Set("finished", TRUE), Set("state", "succeeded")>>
      BY <1>1, <2>3, FirstStores
    <3>3. record' \in Record /\ record'.state = record.state /\ record'.outcome
      BY <1>1, <3>1, StoredField
    <3>4. QED
      BY <1>1, <1>4, <3>2, <3>3 DEF WorkerInv, Ending, ResultKept
  <2>4. CASE Ending("succeeded", "done", "full") /\ ResultKept
    BY <1>1, <1>2, <1>4, <2>4 DEF WorkerInv, Fits, Terminal
  <2>5. CASE todo = MarkFailed
    <3>0. Head(todo) = Set("error", TRUE)
      BY <2>5, FirstStores
    <3>1. record' = [record EXCEPT !.error = TRUE]
      BY <3>0, StoredAs
    <3>2. todo' = <<Set("stage", "failed"), Set("progress", "none"),
                  Set("finished", TRUE), Set("state", "failed")>>
      BY <1>1, <2>5, FirstStores
    <3>3. record' \in Record /\ record'.state = record.state
      BY <1>1, <3>1, StoredField
    <3>4. QED
      BY <1>1, <1>4, <3>2, <3>3 DEF WorkerInv, Ending
  <2>6. CASE Ending("failed", "failed", "none")
    BY <1>1, <1>2, <1>4, <2>6 DEF WorkerInv, Fits, Terminal
  <2>7. QED
    BY <1>1, <1>4, <2>1, <2>2, <2>3, <2>4, <2>5, <2>6 DEF WorkerInv
<1>5. QED
  BY <1>1, <1>3, <1>4 DEF WorkerInv

(* Evictions and readers leave the worker alone.                           *)
LEMMA OtherWorker ==
  ASSUME WorkerInv, Evict \/ (\E r \in Reader : Read(r)) PROVE WorkerInv'
<1>1. CASE Evict
  <2>1. /\ record' \in Record /\ record'.state = record.state /\ record'.stage = record.stage
        /\ record'.progress = record.progress /\ evicted' = TRUE /\ todo' = todo
    BY <1>1 DEF Evict, WorkerInv, Record
  <2>2. \A state, stage, progress :
           Ending(state, stage, progress) => Ending(state, stage, progress)'
    BY <2>1 DEF Ending
  <2>3. ResultKept'
    BY <2>1 DEF ResultKept
  <2>4. QED
    BY <2>1, <2>2, <2>3 DEF WorkerInv
<1>2. CASE \E r \in Reader : Read(r)
  <2>1. record' = record /\ todo' = todo /\ evicted' = evicted
    BY <1>2 DEF Read
  <2>2. QED
    BY <2>1 DEF WorkerInv, Ending, ResultKept
<1>3. QED
  BY <1>1, <1>2

(* An end is final: no store touches a record that has ended.              *)
LEMMA EndIsFinal ==
  ASSUME WorkerInv, Begin \/ Store \/ Evict, record.state \in Terminal
  PROVE  /\ record'.state = record.state /\ record'.stage = record.stage
         /\ record'.progress = record.progress
<1>1. todo = <<>>
  BY DEF WorkerInv, Terminal
<1>2. record \in Record
  BY DEF WorkerInv
<1>3. QED
  BY <1>1, <1>2 DEF Begin, Store, Evict, Terminal, Record

(* The worker's side of the readers' invariants.                           *)
LEMMA WorkerReaders ==
  ASSUME Inv, Begin \/ Store \/ Evict PROVE ReaderInv'
<1>1. UNCHANGED reading /\ (evicted => evicted')
  BY DEF Begin, Store, Evict
<1>2. UNCHANGED <<got, plan, seen>>
  BY <1>1 DEF reading
<1>3. record.state \in Terminal =>
        /\ record'.state = record.state /\ record'.stage = record.stage
        /\ record'.progress = record.progress
  BY EndIsFinal DEF Inv
<1>4. DtoInv'
  BY <1>2, <1>3 DEF Inv, ReaderInv, DtoInv
<1>5. ResultInv'
  BY <1>1, <1>2, <1>3 DEF Inv, ReaderInv, ResultInv, Terminal
<1>6. QED
  BY <1>2, <1>4, <1>5 DEF Inv, ReaderInv

(* One read of a dto.                                                      *)
LEMMA ReadDto ==
  ASSUME Inv, NEW r \in Reader, Read(r), plan[r] = ToDto
  PROVE  /\ got'[r] \in 0..6
         /\ seen'[r] \in Record
         /\ seen'[r].state \in Terminal => got'[r] >= 4 /\ record.state = seen'[r].state
         /\ seen'[r].state \in Terminal /\ got'[r] >= 5 => seen'[r].stage = record.stage
         /\ seen'[r].state \in Terminal /\ got'[r] >= 6 => seen'[r].progress = record.progress
<1>1. /\ got[r] \in 0..5 /\ got'[r] = got[r] + 1
      /\ seen'[r] = [seen[r] EXCEPT ![ToDto[got[r] + 1]] = record[ToDto[got[r] + 1]]]
      /\ seen[r] \in Record /\ record \in Record
  BY DEF Read, Inv, ReaderInv, DtoInv, ToDto, WorkerInv
<1>2. /\ seen[r].state \in Terminal => got[r] >= 4 /\ record.state = seen[r].state
      /\ seen[r].state \in Terminal /\ got[r] >= 5 => seen[r].stage = record.stage
      /\ seen[r].state \in Terminal /\ got[r] >= 6 => seen[r].progress = record.progress
  BY DEF Inv, ReaderInv, DtoInv
<1>3. CASE got[r] = 0
  <2>1. seen'[r] = [seen[r] EXCEPT !.error = record.error]
    BY <1>1, <1>3 DEF ToDto
  <2>2. QED
    BY <1>1, <1>2, <1>3, <2>1 DEF Record
<1>4. CASE got[r] = 1
  <2>1. seen'[r] = [seen[r] EXCEPT !.started = record.started]
    BY <1>1, <1>4 DEF ToDto
  <2>2. QED
    BY <1>1, <1>2, <1>4, <2>1 DEF Record
<1>5. CASE got[r] = 2
  <2>1. seen'[r] = [seen[r] EXCEPT !.finished = record.finished]
    BY <1>1, <1>5 DEF ToDto
  <2>2. QED
    BY <1>1, <1>2, <1>5, <2>1 DEF Record
<1>6. CASE got[r] = 3
  <2>1. seen'[r] = [seen[r] EXCEPT !.state = record.state]
    BY <1>1, <1>6 DEF ToDto
  <2>2. QED
    BY <1>1, <1>2, <1>6, <2>1 DEF Record
<1>7. CASE got[r] = 4
  <2>1. seen'[r] = [seen[r] EXCEPT !.stage = record.stage]
    BY <1>1, <1>7 DEF ToDto
  <2>2. QED
    BY <1>1, <1>2, <1>7, <2>1 DEF Record
<1>8. CASE got[r] = 5
  <2>1. seen'[r] = [seen[r] EXCEPT !.progress = record.progress]
    BY <1>1, <1>8 DEF ToDto
  <2>2. QED
    BY <1>1, <1>2, <1>8, <2>1 DEF Record
<1>9. QED
  BY <1>1, <1>3, <1>4, <1>5, <1>6, <1>7, <1>8

(* One read towards a result.                                              *)
LEMMA ReadResult ==
  ASSUME Inv, NEW r \in Reader, Read(r), plan[r] = ResultDto
  PROVE  /\ got'[r] \in 0..2
         /\ seen'[r] \in Record
         /\ seen'[r].state = "succeeded" => got'[r] >= 1 /\ record.state = "succeeded"
         /\ seen'[r].state = "succeeded" /\ got'[r] = 2 => seen'[r].outcome \/ evicted
<1>1. /\ got[r] \in 0..1 /\ got'[r] = got[r] + 1
      /\ seen'[r] = [seen[r] EXCEPT ![ResultDto[got[r] + 1]] = record[ResultDto[got[r] + 1]]]
      /\ seen[r] \in Record /\ record \in Record
  BY DEF Read, Inv, ReaderInv, ResultInv, ResultDto, WorkerInv
<1>2. seen[r].state = "succeeded" => got[r] >= 1 /\ record.state = "succeeded"
  BY DEF Inv, ReaderInv, ResultInv
<1>3. record.state = "succeeded" => ResultKept
  BY DEF Inv, WorkerInv
<1>4. CASE got[r] = 0
  <2>1. seen'[r] = [seen[r] EXCEPT !.state = record.state]
    BY <1>1, <1>4 DEF ResultDto
  <2>2. QED
    BY <1>1, <1>2, <1>4, <2>1 DEF Record
<1>5. CASE got[r] = 1
  <2>1. seen'[r] = [seen[r] EXCEPT !.outcome = record.outcome]
    BY <1>1, <1>5 DEF ResultDto
  <2>2. QED
    BY <1>1, <1>2, <1>3, <1>5, <2>1 DEF Record, ResultKept
<1>6. QED
  BY <1>1, <1>4, <1>5

LEMMA ReadReaders ==
  ASSUME Inv, NEW r \in Reader, Read(r) PROVE ReaderInv'
<1>1. /\ plan' = plan /\ record' = record /\ evicted' = evicted
      /\ got' = [got EXCEPT ![r] = got[r] + 1]
      /\ \A q \in Reader \ {r} : got'[q] = got[q] /\ seen'[q] = seen[q]
      /\ plan \in [Reader -> Plans] /\ got \in [Reader -> Nat] /\ seen \in [Reader -> Record]
  BY DEF Read, Inv, ReaderInv
<1>2. plan[r] = ToDto \/ plan[r] = ResultDto
  BY <1>1 DEF Plans
<1>3. seen'[r] \in Record
  BY <1>2, ReadDto, ReadResult
<1>4. got' \in [Reader -> Nat] /\ seen' \in [Reader -> Record]
  <2>1. seen' = [seen EXCEPT ![r] = seen'[r]]
    BY <1>1 DEF Read
  <2>2. QED
    BY <1>1, <1>3, <2>1
<1>5. DtoInv'
  <2>1. SUFFICES ASSUME NEW q \in Reader, plan[q] = ToDto
        PROVE  /\ got'[q] \in 0..6
               /\ seen'[q].state \in Terminal => got'[q] >= 4 /\ record.state = seen'[q].state
               /\ seen'[q].state \in Terminal /\ got'[q] >= 5 => seen'[q].stage = record.stage
               /\ seen'[q].state \in Terminal /\ got'[q] >= 6 =>
                    seen'[q].progress = record.progress
    BY <1>1 DEF DtoInv
  <2>2. CASE q = r
    BY <2>1, <2>2, ReadDto
  <2>3. CASE q # r
    BY <1>1, <2>1, <2>3 DEF Inv, ReaderInv, DtoInv
  <2>4. QED
    BY <2>2, <2>3
<1>6. ResultInv'
  <2>1. SUFFICES ASSUME NEW q \in Reader, plan[q] = ResultDto
        PROVE  /\ got'[q] \in 0..2
               /\ seen'[q].state = "succeeded" => got'[q] >= 1 /\ record.state = "succeeded"
               /\ seen'[q].state = "succeeded" /\ got'[q] = 2 => seen'[q].outcome \/ evicted
    BY <1>1 DEF ResultInv
  <2>2. CASE q = r
    BY <2>1, <2>2, ReadResult
  <2>3. CASE q # r
    BY <1>1, <2>1, <2>3 DEF Inv, ReaderInv, ResultInv
  <2>4. QED
    BY <2>2, <2>3
<1>7. QED
  BY <1>1, <1>4, <1>5, <1>6 DEF ReaderInv

THEOREM RecordInvariant == Spec => []Inv
<1>1. Inv /\ [Next]_vars => Inv'
  <2>1. SUFFICES ASSUME Inv, [Next]_vars PROVE Inv'
    OBVIOUS
  <2>2. CASE Begin
    BY <2>1, <2>2, BeginWorker, WorkerReaders DEF Inv
  <2>3. CASE Store
    BY <2>1, <2>3, StoreWorker, WorkerReaders DEF Inv
  <2>4. CASE Evict
    BY <2>1, <2>4, OtherWorker, WorkerReaders DEF Inv
  <2>5. CASE \E r \in Reader : Read(r)
    BY <2>1, <2>5, OtherWorker, ReadReaders DEF Inv
  <2>6. CASE UNCHANGED vars
    BY <2>1, <2>6 DEF Inv, WorkerInv, ReaderInv, DtoInv, ResultInv, Ending, ResultKept, vars
  <2>7. QED
    BY <2>1, <2>2, <2>3, <2>4, <2>5, <2>6 DEF Next
<1>2. QED
  BY <1>1, InitInv, PTL DEF Spec

(* A dto that reports an end carries the stage and the progress of that    *)
(* end, whatever the worker stores while `to_dto` collects the fields.     *)
THEOREM EndsCarryTheirStage == Spec => []StageFitsState
<1>1. Inv => StageFitsState
  <2>1. SUFFICES ASSUME Inv, NEW r \in Reader, plan[r] = ToDto, got[r] = 6,
                        seen[r].state \in Terminal
        PROVE  Fits(seen[r].state, seen[r].stage, seen[r].progress)
    BY DEF StageFitsState, Answered, ToDto, Fits, Terminal
  <2>2. /\ seen[r].state = record.state /\ seen[r].stage = record.stage
        /\ seen[r].progress = record.progress
    BY <2>1 DEF Inv, ReaderInv, DtoInv
  <2>3. Fits(record.state, record.stage, record.progress)
    BY <2>1, <2>2 DEF Inv, WorkerInv, Terminal
  <2>4. QED
    BY <2>2, <2>3
<1>2. QED
  BY <1>1, RecordInvariant, PTL

(* A request that finds the task succeeded finds its result, unless an     *)
(* admission evicted it: the outcome is stored before the state is.        *)
THEOREM SuccessHasItsResult == Spec => []ResultFollowsSuccess
<1>1. Inv => ResultFollowsSuccess
  BY DEF Inv, ReaderInv, ResultInv, ResultFollowsSuccess, Answered, ResultDto
<1>2. QED
  BY <1>1, RecordInvariant, PTL

(* Both together: what a request reads while the worker stores fits the    *)
(* end it reports.                                                         *)
THEOREM AnswersFit == Spec => []AnswersFitTheEnd
<1>1. StageFitsState /\ ResultFollowsSuccess => AnswersFitTheEnd
  BY DEF AnswersFitTheEnd
<1>2. QED
  BY <1>1, EndsCarryTheirStage, SuccessHasItsResult, PTL

-----------------------------------------------------------------------------
(* The calls of the service (ServiceAnswers).                              *)

(* A set of numbers has a least one, and what holds of 0 and of n + 1       *)
(* whenever it holds of n holds of all of them.                             *)
LEMMA LeastNatural ==
  ASSUME NEW T \in SUBSET Nat, T # {}
  PROVE  \E n \in T : \A m \in T : n <= m
<1> DEFINE R == OpToRel(<, Nat)
<1>1. IsWellFoundedOn(R, Nat)
  BY NatLessThanWellFounded
<1>2. \A i, j \in Nat : i < j => <<i, j>> \in R
  BY DEF OpToRel
<1> HIDE DEF R
<1>3. PICK n \in T : \A m \in T : ~(<<m, n>> \in R)
  BY <1>1, WFMin
<1>4. n \in Nat /\ \A m \in T : m \in Nat
  OBVIOUS
<1>5. ASSUME NEW m \in T PROVE n <= m
  <2>1. ~(m < n)
    BY <1>2, <1>3, <1>4
  <2> QED
    BY <2>1, <1>4
<1> QED
  BY <1>5

(* Induction, over a set instead of a predicate.                            *)
LEMMA InductionOnNat ==
  ASSUME NEW S, 0 \in S, \A n \in Nat : n \in S => n + 1 \in S
  PROVE  Nat \subseteq S
<1> DEFINE T == Nat \ S
<1>1. SUFFICES ASSUME T # {} PROVE FALSE
  OBVIOUS
<1>2. PICK n \in T : \A m \in T : n <= m
  BY <1>1, LeastNatural
<1>3. n # 0 /\ n - 1 \in Nat
  OBVIOUS
<1>4. n - 1 \in S
  BY <1>2, <1>3
<1> QED
  BY <1>4, <1>3

(* What Without does with a value.                                          *)
Spared(left, t, gone) == IF t \in gone THEN left ELSE Append(left, t)

(* The Max of the library is the greatest member.                           *)
LEMMA MaxOfInterval ==
  ASSUME NEW n \in Nat, NEW T \in SUBSET (1..n + 1), n + 1 \in T
  PROVE  Max(T) = n + 1
<1>1. Max(T) \in T /\ \A k \in T : Max(T) >= k
  <2>1. \A k \in T : n + 1 >= k
    OBVIOUS
  <2> QED
    BY <2>1 DEF Max
<1>2. \A m \in T : m >= n + 1 => m = n + 1
  OBVIOUS
<1> QED
  BY <1>1, <1>2

(* The function the fold over the table is defined by.                       *)
LeavesOf(f, D, s, gone) ==
  f = [S \in SUBSET D |-> IF S = {} THEN <<>> ELSE Spared(f[S \ {Max(S)}], s[Max(S)], gone)]

(* It exists, for a table of any length.                                     *)
LEMMA LeavingExists ==
  ASSUME NEW s, NEW gone
  PROVE  \A n \in Nat : \E f : LeavesOf(f, 1..n, s, gone)
<1> DEFINE Has == {n \in Nat : \E f : LeavesOf(f, 1..n, s, gone)}
<1>1. 0 \in Has
  <2> DEFINE f == [S \in SUBSET (1..0) |-> <<>>]
  <2>1. \A S \in SUBSET (1..0) : S = {}
    OBVIOUS
  <2>2. LeavesOf(f, 1..0, s, gone)
    BY <2>1 DEF LeavesOf
  <2> QED
    BY <2>2
<1>2. ASSUME NEW n \in Nat, n \in Has PROVE n + 1 \in Has
  <2>1. PICK f : LeavesOf(f, 1..n, s, gone)
    BY <1>2
  <2> DEFINE g == [S \in SUBSET (1..n + 1) |->
                     IF n + 1 \in S THEN Spared(f[S \ {n + 1}], s[n + 1], gone) ELSE f[S]]
  <2>2. ASSUME NEW S \in SUBSET (1..n + 1)
        PROVE  g[S] = IF S = {} THEN <<>> ELSE Spared(g[S \ {Max(S)}], s[Max(S)], gone)
    <3>1. CASE n + 1 \in S
      <4>1. Max(S) = n + 1
        BY <3>1, MaxOfInterval
      <4>2. S \ {n + 1} \in SUBSET (1..n + 1) /\ n + 1 \notin S \ {n + 1} /\ S # {}
        BY <3>1
      <4>3. g[S \ {n + 1}] = f[S \ {n + 1}]
        BY <4>2
      <4> HIDE DEF g
      <4>4. g[S] = Spared(f[S \ {n + 1}], s[n + 1], gone)
        BY <3>1 DEF g
      <4> QED
        BY <4>1, <4>2, <4>3, <4>4
    <3>2. CASE n + 1 \notin S
      <4>1. S \in SUBSET (1..n)
        BY <3>2
      <4>2. g[S] = f[S]
        BY <3>2
      <4>3. f[S] = IF S = {} THEN <<>> ELSE Spared(f[S \ {Max(S)}], s[Max(S)], gone)
        BY <2>1, <4>1 DEF LeavesOf
      <4>4. g[S \ {Max(S)}] = f[S \ {Max(S)}]
        BY <3>2
      <4> HIDE DEF g
      <4> QED
        BY <4>2, <4>3, <4>4
    <3> QED
      BY <3>1, <3>2
  <2>3. LeavesOf(g, 1..n + 1, s, gone)
    <3> DEFINE h == [S \in SUBSET (1..n + 1) |->
                 IF S = {} THEN <<>> ELSE Spared(g[S \ {Max(S)}], s[Max(S)], gone)]
    <3>1. \A S \in SUBSET (1..n + 1) : g[S] = h[S]
      BY <2>2
    <3> HIDE DEF h
    <3>2. g = h
      BY <3>1 DEF h
    <3> QED
      BY <3>2 DEF LeavesOf, h
  <2> QED
    BY <2>3
<1> HIDE DEF Has
<1>3. Nat \subseteq Has
  BY <1>1, <1>2, InductionOnNat
<1> QED
  BY <1>3 DEF Has

(* r has some of the first n entries of s.                                  *)
SomeOf(r, s, n, R) ==
  /\ r \in Seq(R) /\ Len(r) <= n
  /\ \A i \in 1..Len(r) : \E j \in 1..n : r[i] = s[j]

(* What is left of a sequence without some of its values is of the others. *)
LEMMA WithoutLeavesSome ==
  ASSUME NEW R, NEW s \in Seq(R), NEW gone
  PROVE  SomeOf(Without(s, gone), s, Len(s), R)
<1> DEFINE rest == Without(s, gone)
           f == CHOOSE g : LeavesOf(g, 1..Len(s), s, gone)
<1>1. DOMAIN s = 1..Len(s) /\ Len(s) \in Nat
  OBVIOUS
<1>2. rest = f[1..Len(s)]
  BY <1>1 DEF Without, FoldLeft, MapThenFoldSet, LeavesOf, Spared
<1>3. LeavesOf(f, 1..Len(s), s, gone)
  BY <1>1, LeavingExists
<1> HIDE DEF f
<1> DEFINE Has == {n \in Nat : n <= Len(s) => SomeOf(f[1..n], s, n, R)}
<1>4. 0 \in Has
  <2>1. 1..0 = {} /\ f[{}] = <<>>
    BY <1>3 DEF LeavesOf
  <2>2. <<>> \in Seq(R) /\ Len(<<>>) = 0
    OBVIOUS
  <2> QED
    <3>1. \A i \in 1..Len(<<>>) : FALSE
      BY <2>2
    <3>2. SomeOf(<<>>, s, 0, R)
      BY <2>2, <3>1 DEF SomeOf
    <3>3. f[1..0] = <<>>
      BY <2>1
    <3> QED
      BY <3>2, <3>3
<1>5. ASSUME NEW n \in Nat, n \in Has PROVE n + 1 \in Has
  <2> SUFFICES ASSUME n + 1 <= Len(s) PROVE SomeOf(f[1..n + 1], s, n + 1, R)
    OBVIOUS
  <2> DEFINE left == f[1..n]
  <2>1. SomeOf(left, s, n, R)
    BY <1>1, <1>5
  <2>2. f[1..n + 1] = Spared(left, s[n + 1], gone)
    <3>1. 1..n + 1 \in SUBSET (1..Len(s)) /\ n + 1 \in 1..n + 1 /\ 1..n + 1 # {}
      <4>1. \A i \in 1..n + 1 : i \in 1..Len(s)
        BY <1>1
      <4>2. n + 1 \in 1..n + 1
        OBVIOUS
      <4> QED
        BY <4>1, <4>2
    <3>2. Max(1..n + 1) = n + 1
      BY <3>1, MaxOfInterval
    <3>3. (1..n + 1) \ {n + 1} = 1..n
      OBVIOUS
    <3> QED
      BY <1>3, <3>1, <3>2, <3>3 DEF LeavesOf
  <2> HIDE DEF left
  <2>3. s[n + 1] \in R /\ n + 1 \in 1..n + 1 /\ \A j \in 1..n : j \in 1..n + 1
    BY <1>1
  <2>4. CASE f[1..n + 1] = left
    BY <2>1, <2>3, <2>4 DEF SomeOf
  <2>5. CASE f[1..n + 1] = Append(left, s[n + 1])
    <3>1. /\ Append(left, s[n + 1]) \in Seq(R) /\ Len(Append(left, s[n + 1])) = Len(left) + 1
          /\ \A i \in 1..Len(left) : Append(left, s[n + 1])[i] = left[i]
          /\ Append(left, s[n + 1])[Len(left) + 1] = s[n + 1]
      BY <2>1, <2>3, AppendProperties DEF SomeOf
    <3>2. Len(left) \in Nat /\ \A i \in 1..Len(left) + 1 : i \in 1..Len(left) \/ i = Len(left) + 1
      BY <2>1 DEF SomeOf
    <3> QED
      BY <2>1, <2>3, <2>5, <3>1, <3>2 DEF SomeOf
  <2> QED
    BY <2>2, <2>4, <2>5 DEF Spared
<1> HIDE DEF Has
<1>6. Len(s) \in Has
  BY <1>1, <1>4, <1>5, InductionOnNat
<1>7. SomeOf(f[1..Len(s)], s, Len(s), R)
  BY <1>1, <1>6 DEF Has
<1> HIDE DEF rest
<1>8. SomeOf(rest, s, Len(s), R)
  BY <1>2, <1>7
<1> QED
  BY <1>8 DEF rest

Lives == {"queued", "running", "succeeded", "failed"}
Flawed == {"sound", "section", "chunk"}

(* A call that was begun.                                                  *)
Call(call) ==
  /\ call = [at |-> call.at, ask |-> call.ask, next |-> call.next, entry |-> call.entry,
             kind |-> call.kind, floor |-> call.floor]
  /\ call.at \in {"checking", "answered"} /\ call.ask \in Asks /\ call.next \in Nat
  /\ call.floor \in 0..3

ServiceTyped ==
  /\ sort \in Seq({"run", "plan"}) /\ Len(sort) \in Nat
  /\ life \in Seq(Lives) /\ Len(life) = Len(sort)
  /\ reached \in Seq(0..3) /\ Len(reached) = Len(sort)
  /\ table \in Seq(Nat) /\ Range(table) \subseteq 1..Len(sort)
  /\ library \in [file : {"none", "sound", "torn"}, cached : BOOLEAN, flaw : Flawed]
  /\ DOMAIN calls = Caller

(* What was told of a ticket's data still stands.                          *)
Stands(t, stage) ==
  /\ stage \in {1, 2} => life[t] = "succeeded"
  /\ stage = 2 => t \notin kept
  /\ stage = 3 => t \notin Range(table)

(* A read stands where its checks have brought it, and what was told when  *)
(* it began still stands.                                                  *)
ReadInv(call) ==
  LET t == call.ask.ticket
      done(check) == \E i \in 1..call.next - 1 : Todo(call)[i] = check
  IN  /\ t \in 1..Len(sort)
      /\ Stands(t, call.floor)
      /\ call.at = "checking" =>
           /\ call.next \in 1..Len(Todo(call))
           /\ call.kind = "ok"
           /\ done("known") => call.floor # 3
           /\ done("ended") => life[t] = "succeeded"
           /\ done("kept") => call.floor # 2
      /\ call.at = "answered" /\ call.ask.flaws = {} => Stage(call.kind) >= call.floor

CallInv(call) == Call(call) /\ (call.ask.op \in Reads => ReadInv(call))

AnswersInv ==
  /\ ServiceTyped
  /\ \A t \in 1..Len(sort) : Stands(t, reached[t])
  /\ \A c \in Caller : calls[c] = Idle \/ CallInv(calls[c])

-----------------------------------------------------------------------------
(* The checks of a read, in their order: known, ended, kept, and what the  *)
(* request alone decides around them.                                      *)
ReadOrder(S) ==
  /\ Len(S) \in Nat /\ DOMAIN S = 1..Len(S)
  /\ \A i \in 1..Len(S) :
       S[i] \in {"shape", "format", "query", "channel", "known", "ended", "kept"}
  /\ \A i \in 1..Len(S) : S[i] = "ended" => \E j \in 1..i - 1 : S[j] = "known"
  /\ \A i \in 1..Len(S) : S[i] = "kept" => \E j \in 1..i - 1 : S[j] = "ended"
  /\ \E i \in 1..Len(S) : S[i] = "kept"

(* A concatenation is known by its length and its elements.                *)
LEMMA Joined ==
  ASSUME NEW S, NEW s \in Seq(S), NEW t \in Seq(S), NEW r \in Seq(S), Len(r) = Len(s) + Len(t),
         \A i \in 1..Len(r) : r[i] = IF i <= Len(s) THEN s[i] ELSE t[i - Len(s)]
  PROVE  s \o t = r
<1>1. /\ s \o t \in Seq(S) /\ Len(s \o t) = Len(s) + Len(t)
      /\ \A i \in 1..Len(s) + Len(t) : (s \o t)[i] = IF i <= Len(s) THEN s[i] ELSE t[i - Len(s)]
  BY ConcatProperties
<1> QED
  BY <1>1, SeqEqual

Check == {"shape", "format", "query", "channel", "known", "ended", "kept"}

(* The sequences of the two doors.                                         *)
LEMMA ReadSequences ==
  /\ HttpRead = <<"shape", "known", "ended", "kept">>
  /\ HttpSensors = <<"shape", "known", "ended", "kept", "query", "channel">>
  /\ HttpExport = <<"shape", "format", "known", "ended", "kept">>
  /\ RpcRead = <<"known", "ended", "kept">>
  /\ RpcSensors = <<"known", "ended", "kept", "channel">>
<1>1. HttpRead = <<"shape", "known", "ended", "kept">>
  <2> DEFINE s == <<"shape", "known">>
             t == <<"ended", "kept">>
             r == <<"shape", "known", "ended", "kept">>
  <2>1. /\ s \in Seq(Check) /\ t \in Seq(Check) /\ r \in Seq(Check)
        /\ Len(r) = Len(s) + Len(t)
        /\ \A i \in 1..Len(r) : r[i] = IF i <= Len(s) THEN s[i] ELSE t[i - Len(s)]
    BY DEF Check
  <2>2. HttpRead = s \o t
    BY Zenon DEF HttpRead, Finished
  <2> HIDE DEF s, t, r
  <2>3. s \o t = r
    BY <2>1, Joined
  <2> QED
    BY <2>2, <2>3 DEF r
<1>2. RpcRead = <<"known", "ended", "kept">>
  <2> DEFINE s == <<"known">>
             t == <<"ended", "kept">>
             r == <<"known", "ended", "kept">>
  <2>1. /\ s \in Seq(Check) /\ t \in Seq(Check) /\ r \in Seq(Check)
        /\ Len(r) = Len(s) + Len(t)
        /\ \A i \in 1..Len(r) : r[i] = IF i <= Len(s) THEN s[i] ELSE t[i - Len(s)]
    BY DEF Check
  <2>2. RpcRead = s \o t
    BY Zenon DEF RpcRead, Finished
  <2> HIDE DEF s, t, r
  <2>3. s \o t = r
    BY <2>1, Joined
  <2> QED
    BY <2>2, <2>3 DEF r
<1>3. HttpExport = <<"shape", "format", "known", "ended", "kept">>
  <2> DEFINE s == <<"shape", "format", "known">>
             t == <<"ended", "kept">>
             r == <<"shape", "format", "known", "ended", "kept">>
  <2>1. /\ s \in Seq(Check) /\ t \in Seq(Check) /\ r \in Seq(Check)
        /\ Len(r) = Len(s) + Len(t)
        /\ \A i \in 1..Len(r) : r[i] = IF i <= Len(s) THEN s[i] ELSE t[i - Len(s)]
    BY DEF Check
  <2>2. HttpExport = s \o t
    BY Zenon DEF HttpExport, Finished
  <2> HIDE DEF s, t, r
  <2>3. s \o t = r
    BY <2>1, Joined
  <2> QED
    BY <2>2, <2>3 DEF r
<1>4. HttpSensors = <<"shape", "known", "ended", "kept", "query", "channel">>
  <2> DEFINE s == <<"shape", "known", "ended", "kept">>
             t == <<"query", "channel">>
             r == <<"shape", "known", "ended", "kept", "query", "channel">>
  <2>1. /\ s \in Seq(Check) /\ t \in Seq(Check) /\ r \in Seq(Check)
        /\ Len(r) = Len(s) + Len(t)
        /\ \A i \in 1..Len(r) : r[i] = IF i <= Len(s) THEN s[i] ELSE t[i - Len(s)]
    BY DEF Check
  <2>2. HttpSensors = s \o t
    BY <1>1, Zenon DEF HttpSensors
  <2> HIDE DEF s, t, r
  <2>3. s \o t = r
    BY <2>1, Joined
  <2> QED
    BY <2>2, <2>3 DEF r
<1>5. RpcSensors = <<"known", "ended", "kept", "channel">>
  <2> DEFINE s == <<"known", "ended", "kept">>
             t == <<"channel">>
             r == <<"known", "ended", "kept", "channel">>
  <2>1. /\ s \in Seq(Check) /\ t \in Seq(Check) /\ r \in Seq(Check)
        /\ Len(r) = Len(s) + Len(t)
        /\ \A i \in 1..Len(r) : r[i] = IF i <= Len(s) THEN s[i] ELSE t[i - Len(s)]
    BY DEF Check
  <2>2. RpcSensors = s \o t
    BY <1>2, Zenon DEF RpcSensors
  <2> HIDE DEF s, t, r
  <2>3. s \o t = r
    BY <2>1, Joined
  <2> QED
    BY <2>2, <2>3 DEF r
<1> QED
  BY <1>1, <1>2, <1>3, <1>4, <1>5

(* Each of them is in that order.                                          *)
LEMMA SequencesInOrder ==
  /\ ReadOrder(HttpRead) /\ ReadOrder(HttpSensors) /\ ReadOrder(HttpExport)
  /\ ReadOrder(RpcRead) /\ ReadOrder(RpcSensors)
<1>1. ReadOrder(<<"shape", "known", "ended", "kept">>)
  BY DEF ReadOrder
<1>2. ReadOrder(<<"shape", "known", "ended", "kept", "query", "channel">>)
  BY DEF ReadOrder
<1>3. ReadOrder(<<"shape", "format", "known", "ended", "kept">>)
  BY DEF ReadOrder
<1>4. ReadOrder(<<"known", "ended", "kept">>)
  BY DEF ReadOrder
<1>5. ReadOrder(<<"known", "ended", "kept", "channel">>)
  BY DEF ReadOrder
<1> QED
  BY <1>1, <1>2, <1>3, <1>4, <1>5, ReadSequences

(* Whatever read is asked for, at either door.                             *)
LEMMA ReadsAreOrdered ==
  ASSUME NEW ask \in Asks, ask.op \in Reads
  PROVE  ReadOrder(Checks(ask.door, ask.op))
<1>1. ask.door \in {"http", "rpc"} /\ (ask.op \in {"export", "compare"} => ask.door = "http")
  BY AsksAssumption DEF Doors, HttpOnly
<1>2. ask.op \in {"summary", "truth", "sensors", "export", "compare"}
  BY DEF Reads
<1>3. CASE ask.door = "http"
  <2>1. Checks(ask.door, ask.op) = Http(ask.op)
    BY <1>3 DEF Checks
  <2>2. /\ Http("summary") = HttpRead /\ Http("truth") = HttpRead /\ Http("compare") = HttpRead
        /\ Http("sensors") = HttpSensors /\ Http("export") = HttpExport
    BY DEF Http
  <2> QED
    BY <1>2, <2>1, <2>2, SequencesInOrder
<1>4. CASE ask.door = "rpc"
  <2>1. Checks(ask.door, ask.op) = Rpc(ask.op) /\ ask.op \in {"summary", "truth", "sensors"}
    BY <1>1, <1>2, <1>4 DEF Checks
  <2>2. Rpc("summary") = RpcRead /\ Rpc("truth") = RpcRead /\ Rpc("sensors") = RpcSensors
    BY DEF Rpc
  <2> QED
    BY <2>1, <2>2, SequencesInOrder
<1> QED
  BY <1>1, <1>3, <1>4

(* What a check of a read looks at, and what it is answered with.          *)
LEMMA ReadChecks ==
  ASSUME NEW ask, NEW entry
  PROVE  /\ Passes("known", ask, entry) <=> ask.ticket \in Range(table)
         /\ Passes("ended", ask, entry) <=> life[ask.ticket] = "succeeded"
         /\ Passes("kept", ask, entry) <=> ask.ticket \in kept
         /\ \A check \in {"shape", "format", "query", "channel"} :
              /\ Passes(check, ask, entry) <=> check \notin ask.flaws
              /\ KindOf(check) = "invalid"
         /\ KindOf("known") = "not_found"
         /\ KindOf("ended") = "conflict"
         /\ KindOf("kept") = "unsupported"
<1>1. /\ "known" \notin Flaws /\ "ended" \notin Flaws /\ "kept" \notin Flaws
      /\ {"shape", "format", "query", "channel"} \subseteq Flaws
  BY DEF Flaws
<1>2. Passes("known", ask, entry) <=> ask.ticket \in Range(table)
  BY <1>1 DEF Passes
<1>3. Passes("ended", ask, entry) <=> life[ask.ticket] = "succeeded"
  BY <1>1 DEF Passes
<1>4. Passes("kept", ask, entry) <=> ask.ticket \in kept
  BY <1>1 DEF Passes
<1>5. ASSUME NEW check \in {"shape", "format", "query", "channel"}
      PROVE  (Passes(check, ask, entry) <=> check \notin ask.flaws) /\ KindOf(check) = "invalid"
  <2>1. Passes(check, ask, entry) <=> check \notin ask.flaws
    BY <1>1 DEF Passes
  <2>2. KindOf(check) = "invalid"
    BY DEF KindOf
  <2> QED
    BY <2>1, <2>2
<1>6. KindOf("known") = "not_found"
  BY DEF KindOf
<1>7. KindOf("ended") = "conflict"
  BY DEF KindOf
<1>8. KindOf("kept") = "unsupported"
  BY DEF KindOf
<1> QED
  BY <1>2, <1>3, <1>4, <1>5, <1>6, <1>7, <1>8

(* How far an answer is.                                                   *)
LEMMA Stages ==
  /\ Stage("conflict") = 0 /\ Stage("ok") = 1 /\ Stage("unsupported") = 2
  /\ Stage("not_found") = 3
BY DEF Stage

-----------------------------------------------------------------------------
(* What every step leaves true of a ticket that was given out.             *)
Onward ==
  /\ Len(sort) <= Len(sort')
  /\ \A t \in 1..Len(sort) :
       /\ t \in Range(table') => t \in Range(table)
       /\ life[t] = "succeeded" => life'[t] = "succeeded"
       /\ life[t] = "succeeded" /\ t \in kept' => t \in kept

(* An admission: one more ticket, and of the others some are pushed out.   *)
LEMMA AdmitOnward ==
  ASSUME ServiceTyped, NEW kind \in {"run", "plan"}, Admit(kind)
  PROVE  /\ sort' \in Seq({"run", "plan"}) /\ Len(sort') = Len(sort) + 1
         /\ life' \in Seq(Lives) /\ Len(life') = Len(sort')
         /\ reached' \in Seq(0..3) /\ Len(reached') = Len(sort')
         /\ table' \in Seq(Nat) /\ Range(table') \subseteq 1..Len(sort')
         /\ \A t \in 1..Len(sort) : reached'[t] = reached[t]
         /\ reached'[Len(sort')] = 0
         /\ Onward
<1> DEFINE n == Len(sort)
           tasks == Append(table, n + 1)
<1>1. n \in Nat /\ n + 1 \in Nat /\ "queued" \in Lives /\ 0 \in 0..3
  BY DEF ServiceTyped, Lives
<1>2. sort' \in Seq({"run", "plan"}) /\ Len(sort') = n + 1
  BY AppendProperties DEF Admit, ServiceTyped
<1>3. /\ life' \in Seq(Lives) /\ Len(life') = n + 1
      /\ \A t \in 1..n : life'[t] = life[t]
  BY <1>1, AppendProperties DEF Admit, ServiceTyped
<1>4. /\ reached' \in Seq(0..3) /\ Len(reached') = n + 1
      /\ \A t \in 1..n : reached'[t] = reached[t]
      /\ reached'[n + 1] = 0
  <2> DEFINE R == 0..3
  <2>1. reached \in Seq(R) /\ 0 \in R /\ reached' = Append(reached, 0) /\ Len(reached) = n
    BY <1>1 DEF Admit, ServiceTyped
  <2> HIDE DEF R
  <2>2. /\ reached' \in Seq(R) /\ Len(reached') = n + 1
        /\ \A t \in 1..n : reached'[t] = reached[t]
        /\ reached'[n + 1] = 0
    BY <2>1, AppendProperties
  <2> QED
    BY <2>2 DEF R
<1>5. /\ tasks \in Seq(Nat) /\ Len(tasks) = Len(table) + 1 /\ Len(table) \in Nat
      /\ \A i \in 1..Len(table) : tasks[i] = table[i]
      /\ tasks[Len(table) + 1] = n + 1
  BY <1>1, AppendProperties DEF ServiceTyped
<1>6. \A i \in 1..Len(tasks) : tasks[i] = n + 1 \/ tasks[i] \in Range(table)
  <2>1. DOMAIN table = 1..Len(table)
    BY DEF ServiceTyped
  <2>2. \A i \in 1..Len(table) : table[i] \in Range(table)
    BY <2>1 DEF Range
  <2>3. \A i \in 1..Len(tasks) : i \in 1..Len(table) \/ i = Len(table) + 1
    BY <1>5
  <2> QED
    BY <2>2, <2>3, <1>5
<1>7. table' = Without(tasks, Dropped(tasks))
  BY DEF Admit
<1> HIDE DEF tasks
<1>8. SomeOf(table', tasks, Len(tasks), Nat)
  BY <1>5, <1>7, WithoutLeavesSome
<1>9. table' \in Seq(Nat) /\ \A t \in Range(table') : t = n + 1 \/ t \in Range(table)
  <2>1. table' \in Seq(Nat) /\ DOMAIN table' = 1..Len(table')
    BY <1>8 DEF SomeOf
  <2>2. \A i \in 1..Len(table') : \E j \in 1..Len(tasks) : table'[i] = tasks[j]
    BY <1>8 DEF SomeOf
  <2> QED
    BY <2>1, <2>2, <1>6 DEF Range
<1>10. Range(table') \subseteq 1..Len(sort')
  BY <1>1, <1>2, <1>9 DEF ServiceTyped
<1>11. Onward
  <2>1. kept' \subseteq kept
    BY DEF Admit
  <2>2. \A t \in 1..n : t # n + 1
    BY <1>1
  <2> QED
    BY <1>1, <1>2, <1>3, <1>9, <2>1, <2>2 DEF Onward
<1> QED
  BY <1>2, <1>3, <1>4, <1>9, <1>10, <1>11

(* What telling a reader leaves of what was told before.                   *)
LEMMA TellRaises ==
  ASSUME ServiceTyped, NEW ask, NEW kind, Tell(ask, kind),
         ask.op \in Reads => ask.ticket \in 1..Len(sort)
  PROVE  /\ reached' \in Seq(0..3) /\ Len(reached') = Len(reached)
         /\ \A t \in 1..Len(sort) :
              \/ reached'[t] = reached[t]
              \/ /\ t = ask.ticket /\ ask.op \in Reads /\ kind # "invalid"
                 /\ reached'[t] = Stage(kind) /\ Stage(kind) > reached[t]
<1>1. CASE ask.op \in Reads /\ kind # "invalid"
  <2>1. ask.ticket \in DOMAIN reached /\ DOMAIN reached = 1..Len(sort) /\ Len(sort) \in Nat
    BY <1>1 DEF ServiceTyped
  <2>2. Stage(kind) \in 0..3
    BY DEF Stage
  <2>3. reached' = [reached EXCEPT ![ask.ticket] =
                      IF Stage(kind) > reached[ask.ticket] THEN Stage(kind) ELSE reached[ask.ticket]]
    BY <1>1, <2>1 DEF Tell
  <2> DEFINE R == 0..3
             raised == IF Stage(kind) > reached[ask.ticket] THEN Stage(kind) ELSE reached[ask.ticket]
  <2>4. reached \in Seq(R) /\ raised \in R
    BY <2>1, <2>2 DEF ServiceTyped
  <2>5. /\ \A t \in 1..Len(sort) : reached'[t] = IF t = ask.ticket THEN raised ELSE reached[t]
    BY <2>1, <2>3
  <2>6. reached' = [reached EXCEPT ![ask.ticket] = raised]
    BY <2>3
  <2>7. reached' \in Seq(R) /\ Len(reached') = Len(reached)
    <3> HIDE DEF R, raised
    <3> QED
      BY <2>1, <2>4, <2>6
  <2> QED
    BY <1>1, <2>5, <2>7
<1>2. CASE ~(ask.op \in Reads /\ kind # "invalid")
  <2>1. reached' = reached
    BY <1>2 DEF Tell
  <2> QED
    BY <2>1 DEF ServiceTyped
<1> QED
  BY <1>1, <1>2

(* Telling disturbs nothing else.                                          *)
LEMMA QuietStep ==
  ASSUME ServiceTyped, reached' \in Seq(0..3), Len(reached') = Len(reached),
         UNCHANGED <<sort, life, table, kept>>,
         library' \in [file : {"none", "sound", "torn"}, cached : BOOLEAN, flaw : Flawed],
         DOMAIN calls' = DOMAIN calls
  PROVE  ServiceTyped' /\ Onward
<1>1. Range(table') = Range(table)
  BY DEF Range
<1>2. ServiceTyped'
  BY <1>1 DEF ServiceTyped, Range
<1>3. Onward
  BY <1>1 DEF Onward, ServiceTyped
<1> QED
  BY <1>2, <1>3

(* The library after a check.                                              *)
LEMMA LibraryTyped ==
  ASSUME ServiceTyped, NEW check
  PROVE  /\ Cached(check) \in BOOLEAN
         /\ library.cached \in BOOLEAN /\ library.flaw \in Flawed
         /\ \A cached \in BOOLEAN : [library EXCEPT !.cached = cached] \in
              [file : {"none", "sound", "torn"}, cached : BOOLEAN, flaw : Flawed]
         /\ Removed \in [file : {"none", "sound", "torn"}, cached : BOOLEAN, flaw : Flawed]
BY DEF ServiceTyped, Cached, Removed, Flawed

(* Whatever step is taken, what was true of a ticket stays true.           *)
LEMMA StepOnward ==
  ASSUME AnswersInv, AnswersNext
  PROVE  ServiceTyped' /\ Onward
<1>0. ServiceTyped
  BY DEF AnswersInv
<1>1. ASSUME NEW c \in Caller, Pass(c) PROVE ServiceTyped' /\ Onward
  <2>1. library' \in [file : {"none", "sound", "torn"}, cached : BOOLEAN, flaw : Flawed]
    BY <1>0, <1>1, LibraryTyped DEF Pass
  <2>2. UNCHANGED <<sort, life, table, kept, reached>> /\ DOMAIN calls' = DOMAIN calls
    BY <1>1 DEF Pass, taskVars
  <2> QED
    BY <1>0, <2>1, <2>2, QuietStep DEF ServiceTyped
<1>2. ASSUME NEW c \in Caller, Refuse(c) PROVE ServiceTyped' /\ Onward
  <2>1. library' \in [file : {"none", "sound", "torn"}, cached : BOOLEAN, flaw : Flawed]
    BY <1>0, <1>2, LibraryTyped DEF Refuse, ServiceTyped
  <2>2. UNCHANGED <<sort, life, table, kept>> /\ DOMAIN calls' = DOMAIN calls
    BY <1>2 DEF Refuse
  <2>3. \E kind : Tell(calls[c].ask, kind)
    BY <1>2 DEF Refuse
  <2>4. calls[c].ask.op \in Reads => calls[c].ask.ticket \in 1..Len(sort)
    BY <1>2 DEF AnswersInv, CallInv, ReadInv, Refuse, Idle
  <2>5. reached' \in Seq(0..3) /\ Len(reached') = Len(reached)
    BY <1>0, <2>3, <2>4, TellRaises
  <2> QED
    BY <1>0, <2>1, <2>2, <2>5, QuietStep
<1>3. ASSUME NEW c \in Caller, Accept(c) PROVE ServiceTyped' /\ Onward
  <2>1. library' \in [file : {"none", "sound", "torn"}, cached : BOOLEAN, flaw : Flawed]
    BY <1>0, <1>3, LibraryTyped DEF Accept
  <2>2. DOMAIN calls' = DOMAIN calls
    BY <1>3 DEF Accept
  <2>3. CASE calls[c].ask.op \in Submits
    <3>1. PICK kind \in {"run", "plan"} : Admit(kind)
      BY <1>3, <2>3 DEF Accept
    <3> QED
      BY <1>0, <2>1, <2>2, <3>1, AdmitOnward DEF ServiceTyped
  <2>4. CASE calls[c].ask.op \notin Submits
    <3>1. Tell(calls[c].ask, "ok") /\ UNCHANGED <<sort, life, table, kept>>
      BY <1>3, <2>4 DEF Accept
    <3>2. calls[c].ask.op \in Reads => calls[c].ask.ticket \in 1..Len(sort)
      BY <1>3 DEF AnswersInv, CallInv, ReadInv, Accept, Idle
    <3>3. reached' \in Seq(0..3) /\ Len(reached') = Len(reached)
      BY <1>0, <3>1, <3>2, TellRaises
    <3> QED
      BY <1>0, <2>1, <2>2, <3>1, <3>3, QuietStep
  <2> QED
    BY <2>3, <2>4
<1>4. ASSUME NEW c \in Caller, NEW ask \in Asks, BeginCall(c, ask) PROVE ServiceTyped' /\ Onward
  <2>1. UNCHANGED <<sort, life, table, kept, reached, library>> /\ DOMAIN calls' = DOMAIN calls
    BY <1>4 DEF BeginCall, taskVars
  <2> QED
    BY <1>0, <2>1, QuietStep DEF ServiceTyped
<1>5. ASSUME NEW kind \in {"run", "plan"}, Arrive(kind) PROVE ServiceTyped' /\ Onward
  <2>1. Admit(kind) /\ UNCHANGED <<library, calls>>
    BY <1>5 DEF Arrive
  <2> QED
    BY <1>0, <2>1, AdmitOnward DEF ServiceTyped
<1>6. ASSUME NEW t \in DOMAIN life, Work(t) PROVE ServiceTyped' /\ Onward
  <2>1. UNCHANGED <<table, sort, reached, library, calls>>
    BY <1>6 DEF Work
  <2>2. t \in 1..Len(sort) /\ life \in Seq(Lives) /\ Len(sort) \in Nat /\ DOMAIN life = 1..Len(sort)
    BY <1>0 DEF ServiceTyped
  <2>3. PICK end \in Lives : /\ life' = [life EXCEPT ![t] = end]
                             /\ life[t] # "succeeded"
                             /\ kept' \subseteq kept \cup {t}
    BY <1>6 DEF Work, Lives
  <2>4. life' \in Seq(Lives) /\ Len(life') = Len(life) /\ \A u \in 1..Len(sort) : u # t => life'[u] = life[u]
    BY <2>2, <2>3
  <2>5. Range(table') = Range(table)
    BY <2>1 DEF Range
  <2>6. ServiceTyped'
    BY <1>0, <2>1, <2>4, <2>5 DEF ServiceTyped, Range
  <2>7. Onward
    BY <2>1, <2>2, <2>3, <2>4, <2>5 DEF Onward
  <2> QED
    BY <2>6, <2>7
<1>7. ASSUME NEW file \in {"sound", "torn"}, NEW flaw \in {"sound", "section", "chunk"},
             WriteFile(file, flaw)
      PROVE  ServiceTyped' /\ Onward
  <2>1. library' \in [file : {"none", "sound", "torn"}, cached : BOOLEAN, flaw : Flawed]
    BY <1>7 DEF WriteFile, Flawed
  <2>2. UNCHANGED <<sort, life, table, kept, reached, calls>>
    BY <1>7 DEF WriteFile, taskVars
  <2> QED
    BY <1>0, <2>1, <2>2, QuietStep DEF ServiceTyped
<1>8. ASSUME UNCHANGED <<taskVars, flagged, library, calls, spent>> PROVE ServiceTyped' /\ Onward
  <2>1. UNCHANGED <<sort, life, table, kept, reached, library, calls>>
    BY <1>8 DEF taskVars
  <2> QED
    BY <1>0, <2>1, QuietStep DEF ServiceTyped
<1> QED
  BY <1>1, <1>2, <1>3, <1>4, <1>5, <1>6, <1>7, <1>8 DEF AnswersNext, OpenSweep, NextPage

(* So what a call was promised stays true while others act.                *)
LEMMA PromisesLast ==
  ASSUME ServiceTyped, ServiceTyped', Onward
  PROVE  /\ \A t \in 1..Len(sort), stage \in 0..3 : Stands(t, stage) => Stands(t, stage)'
         /\ \A call : CallInv(call) => CallInv(call)'
<1>1. ASSUME NEW t \in 1..Len(sort), NEW stage \in 0..3, Stands(t, stage) PROVE Stands(t, stage)'
  BY <1>1 DEF Stands, Onward
<1>2. ASSUME NEW call, CallInv(call) PROVE CallInv(call)'
  <2>1. SUFFICES ASSUME call.ask.op \in Reads PROVE ReadInv(call)'
    BY <1>2 DEF CallInv
  <2> DEFINE t == call.ask.ticket
  <2>2. ReadInv(call) /\ Call(call)
    BY <1>2, <2>1 DEF CallInv
  <2>3. t \in 1..Len(sort) /\ t \in 1..Len(sort')
    BY <2>2 DEF ReadInv, Onward, ServiceTyped
  <2>4. Stands(t, call.floor)'
    BY <1>1, <2>2, <2>3 DEF ReadInv, Call
  <2>5. life[t] = "succeeded" => life'[t] = "succeeded"
    BY <2>3 DEF Onward
  <2> QED
    BY <2>2, <2>3, <2>4, <2>5 DEF ReadInv
<1> QED
  BY <1>1, <1>2

(* A call that begins has passed nothing yet, and is promised what was     *)
(* told before.                                                            *)
LEMMA BeginCallInv ==
  ASSUME AnswersInv, NEW c \in Caller, NEW ask \in Asks, BeginCall(c, ask)
  PROVE  CallInv(calls[c])' /\ \A d \in Caller \ {c} : calls'[d] = calls[d]
<1> DEFINE new == [at |-> "checking", ask |-> ask, next |-> 1, entry |-> "none", kind |-> "ok",
                   floor |-> IF ask.op \in Reads THEN reached[ask.ticket] ELSE 0]
<1>1. calls' = [calls EXCEPT ![c] = new]
  BY DEF BeginCall
<1>2. DOMAIN calls = Caller /\ ServiceTyped
  BY DEF AnswersInv, ServiceTyped
<1>3. calls'[c] = new /\ \A d \in Caller \ {c} : calls'[d] = calls[d]
  BY <1>1, <1>2
<1>4. UNCHANGED <<table, sort, life, kept, reached>>
  BY DEF BeginCall, taskVars
<1>5. ask.op \in Reads => ask.ticket \in 1..Len(sort)
  BY <1>2 DEF BeginCall, ServiceTyped, Reads, Submits
<1>6. Call(new)
  <2>1. ask.op \in Reads => reached[ask.ticket] \in 0..3
    BY <1>2, <1>5 DEF ServiceTyped
  <2>2. (IF ask.op \in Reads THEN reached[ask.ticket] ELSE 0) \in 0..3
    BY <2>1
  <2> QED
    BY <2>2 DEF Call
<1>7. ASSUME ask.op \in Reads PROVE ReadInv(new)
  <2>1. /\ new.at = "checking" /\ new.ask = ask /\ new.next = 1 /\ new.kind = "ok"
        /\ new.floor = reached[ask.ticket]
    BY <1>7
  <2>2. Stands(ask.ticket, reached[ask.ticket])
    BY <1>5, <1>7 DEF AnswersInv
  <2>3. 1 \in 1..Len(Todo(new))
    <3>1. ReadOrder(Checks(ask.door, ask.op))
      BY <1>7, ReadsAreOrdered
    <3> QED
      BY <2>1, <3>1 DEF ReadOrder, Todo
  <2> HIDE DEF new
  <2>4. 1..new.next - 1 = {}
    BY <2>1
  <2> QED
    BY <1>5, <1>7, <2>1, <2>2, <2>3, <2>4 DEF ReadInv
<1>8. CallInv(new)
  <2>1. new.ask = ask
    OBVIOUS
  <2> HIDE DEF new
  <2> QED
    BY <1>6, <1>7, <2>1 DEF CallInv
<1> HIDE DEF new
<1>9. PICK now : now = new
  OBVIOUS
<1>10. CallInv(now)'
  BY <1>4, <1>8, <1>9 DEF CallInv, ReadInv, Stands, Range
<1> QED
  BY <1>3, <1>9, <1>10 DEF CallInv, ReadInv, Stands, Todo

(* A read whose next check passes: what it looked at rules out what would  *)
(* contradict it.                                                          *)
LEMMA PassedRead ==
  ASSUME NEW old, NEW new, Call(old), ReadInv(old), old.ask.op \in Reads, old.at = "checking",
         old.next < Len(Todo(old)), Passes(Todo(old)[old.next], old.ask, old.entry),
         new.at = "checking", new.ask = old.ask, new.next = old.next + 1, new.kind = old.kind,
         new.floor = old.floor
  PROVE  ReadInv(new)
<1> DEFINE S == Todo(old)
           t == old.ask.ticket
           i == old.next
<1>1. Todo(new) = S
  BY DEF Todo
<1>2. /\ t \in 1..Len(sort) /\ Stands(t, old.floor) /\ i \in 1..Len(S) /\ old.kind = "ok"
      /\ \A check : (\E j \in 1..i - 1 : S[j] = check) =>
           /\ check = "known" => old.floor # 3
           /\ check = "ended" => life[t] = "succeeded"
           /\ check = "kept" => old.floor # 2
  BY DEF ReadInv
<1>3. i \in Nat /\ Len(S) \in Nat /\ i + 1 \in 1..Len(S)
  <2>1. ReadOrder(S)
    BY ReadsAreOrdered DEF Call, Todo
  <2> QED
    BY <1>2, <2>1 DEF ReadOrder, Call
<1>4. /\ S[i] = "known" => old.floor # 3
      /\ S[i] = "ended" => life[t] = "succeeded"
      /\ S[i] = "kept" => old.floor # 2
  BY <1>2, ReadChecks DEF Stands
<1>5. \A j \in 1..new.next - 1 : j \in 1..i - 1 \/ j = i
  BY <1>3
<1>6. \A check : (\E j \in 1..new.next - 1 : S[j] = check) =>
           /\ check = "known" => old.floor # 3
           /\ check = "ended" => life[t] = "succeeded"
           /\ check = "kept" => old.floor # 2
  BY <1>2, <1>4, <1>5
<1> HIDE DEF S
<1> QED
  BY <1>1, <1>2, <1>3, <1>6 DEF ReadInv

(* A read whose next check fails: what it is answered with stands, and is  *)
(* no less than what was told before it began.                             *)
LEMMA RefusedRead ==
  ASSUME NEW call, Call(call), ReadInv(call), call.ask.op \in Reads, call.at = "checking",
         ~Passes(Todo(call)[call.next], call.ask, call.entry)
  PROVE  LET kind == KindOf(Todo(call)[call.next])
         IN  /\ kind # "invalid" => Stands(call.ask.ticket, Stage(kind))
             /\ call.ask.flaws = {} => Stage(kind) >= call.floor
<1> DEFINE S == Todo(call)
           t == call.ask.ticket
           i == call.next
<1>1. /\ i \in 1..Len(S) /\ Stands(t, call.floor) /\ call.floor \in 0..3
      /\ (\E j \in 1..i - 1 : S[j] = "known") => call.floor # 3
      /\ (\E j \in 1..i - 1 : S[j] = "ended") => life[t] = "succeeded"
  BY DEF ReadInv, Call
<1>2. ReadOrder(S)
  BY ReadsAreOrdered DEF Call, Todo
<1>3. CASE S[i] = "known"
  BY <1>1, <1>3, ReadChecks, Stages DEF Stands
<1>4. CASE S[i] = "ended"
  <2>1. call.floor # 3
    BY <1>1, <1>2, <1>4 DEF ReadOrder
  <2>2. life[t] # "succeeded"
    BY <1>4, ReadChecks
  <2>3. call.floor = 0
    BY <1>1, <2>1, <2>2 DEF Stands
  <2> QED
    BY <1>4, <2>3, ReadChecks, Stages DEF Stands
<1>5. CASE S[i] = "kept"
  <2>1. PICK j \in 1..i - 1 : S[j] = "ended"
    BY <1>1, <1>2, <1>5 DEF ReadOrder
  <2>2. i \in Nat /\ j \in 1..Len(S) /\ i - 1 \in Nat
    BY <1>1, <1>2 DEF ReadOrder
  <2>3. \E k \in 1..j - 1 : S[k] = "known"
    BY <1>2, <2>1, <2>2 DEF ReadOrder
  <2>4. \E k \in 1..i - 1 : S[k] = "known"
    BY <2>1, <2>2, <2>3
  <2>5. call.floor # 3 /\ life[t] = "succeeded"
    BY <1>1, <2>1, <2>4
  <2>6. t \notin kept
    BY <1>5, ReadChecks
  <2> QED
    BY <1>1, <1>5, <2>5, <2>6, ReadChecks, Stages DEF Stands
<1>6. CASE S[i] \in {"shape", "format", "query", "channel"}
  <2>1. S[i] \in call.ask.flaws
    BY <1>6, ReadChecks
  <2>2. KindOf(S[i]) = "invalid"
    BY <1>6, ReadChecks
  <2> QED
    BY <2>1, <2>2
<1>7. S[i] \in {"shape", "format", "query", "channel", "known", "ended", "kept"}
  BY <1>1, <1>2 DEF ReadOrder
<1> HIDE DEF S
<1> QED
  BY <1>3, <1>4, <1>5, <1>6, <1>7 DEF S

(* A read whose last check passes has seen the data there.                 *)
LEMMA AcceptedRead ==
  ASSUME NEW call, Call(call), ReadInv(call), call.ask.op \in Reads, call.at = "checking",
         call.next = Len(Todo(call)), Passes(Todo(call)[call.next], call.ask, call.entry)
  PROVE  /\ Stands(call.ask.ticket, 1) /\ 1 >= call.floor /\ call.kind = "ok"
<1> DEFINE S == Todo(call)
           t == call.ask.ticket
           i == call.next
<1>1. /\ i \in 1..Len(S) /\ Stands(t, call.floor) /\ call.floor \in 0..3 /\ call.kind = "ok"
      /\ (\E j \in 1..i - 1 : S[j] = "known") => call.floor # 3
      /\ (\E j \in 1..i - 1 : S[j] = "ended") => life[t] = "succeeded"
      /\ (\E j \in 1..i - 1 : S[j] = "kept") => call.floor # 2
  BY DEF ReadInv, Call
<1>2. ReadOrder(S)
  BY ReadsAreOrdered DEF Call, Todo
<1>3. PICK k \in 1..i : S[k] = "kept"
  BY <1>2 DEF ReadOrder
<1>4. i \in Nat /\ Len(S) = i /\ k \in 1..Len(S)
  BY <1>2 DEF ReadOrder
<1>5. PICK e \in 1..k - 1 : S[e] = "ended"
  BY <1>2, <1>3, <1>4 DEF ReadOrder
<1>6. PICK j \in 1..e - 1 : S[j] = "known"
  <2>1. e \in 1..Len(S)
    BY <1>4
  <2> QED
    BY <1>2, <1>5, <2>1 DEF ReadOrder
<1>7. e \in 1..i - 1 /\ j \in 1..i - 1
  BY <1>4
<1>8. call.floor # 3 /\ life[t] = "succeeded"
  BY <1>1, <1>5, <1>6, <1>7
<1>9. call.floor # 2
  <2>1. CASE k = i
    BY <1>1, <1>3, <2>1, ReadChecks DEF Stands
  <2>2. CASE k # i
    <3>1. k \in 1..i - 1
      BY <1>4, <2>2
    <3> QED
      BY <1>1, <1>3, <3>1
  <2> QED
    BY <2>1, <2>2
<1> QED
  BY <1>1, <1>8, <1>9 DEF Stands

(* A check that passes keeps what is known of the call.                    *)
LEMMA PassCall ==
  ASSUME AnswersInv, NEW c \in Caller, Pass(c)
  PROVE  CallInv(calls[c])' /\ \A d \in Caller \ {c} : calls'[d] = calls[d]
<1>1. PICK old : old = calls[c]
  OBVIOUS
<1>2. PICK new : new = calls'[c]
  OBVIOUS
<1> DEFINE check == Todo(old)[old.next]
<1>3. CallInv(old) /\ DOMAIN calls = Caller /\ old.at = "checking"
  BY <1>1 DEF AnswersInv, ServiceTyped, Pass, Idle
<1>4. /\ new = [old EXCEPT !.next = @ + 1, !.entry = Entry(old, check)]
      /\ \A d \in Caller \ {c} : calls'[d] = calls[d]
  BY <1>1, <1>2, <1>3 DEF Pass
<1>5. /\ new.at = "checking" /\ new.ask = old.ask /\ new.next = old.next + 1
      /\ new.kind = old.kind /\ new.floor = old.floor /\ Call(new)
  <2>1. Call(old)
    BY <1>3 DEF CallInv
  <2> DEFINE e == Entry(old, check)
  <2>2. old = [at |-> old.at, ask |-> old.ask, next |-> old.next, entry |-> old.entry,
               kind |-> old.kind, floor |-> old.floor]
    BY <2>1 DEF Call
  <2>3. new = [[old EXCEPT !.next = old.next + 1] EXCEPT !.entry = e]
    BY <1>4
  <2> HIDE DEF e
  <2>4. new = [at |-> old.at, ask |-> old.ask, next |-> old.next + 1, entry |-> e,
               kind |-> old.kind, floor |-> old.floor]
    BY <2>2, <2>3
  <2>5. /\ new.at = old.at /\ new.ask = old.ask /\ new.next = old.next + 1 /\ new.entry = e
        /\ new.kind = old.kind /\ new.floor = old.floor
    BY <2>4
  <2> QED
    BY <1>3, <2>1, <2>4, <2>5 DEF Call
<1>6. old.next < Len(Todo(old)) /\ Passes(check, old.ask, old.entry)
  BY <1>1 DEF Pass
<1>7. CallInv(new)
  BY <1>3, <1>5, <1>6, PassedRead DEF CallInv
<1>8. UNCHANGED <<table, sort, life, kept>>
  BY DEF Pass, taskVars
<1>9. CallInv(new)'
  BY <1>7, <1>8 DEF CallInv, ReadInv, Stands, Range
<1> QED
  BY <1>2, <1>4, <1>9 DEF CallInv, ReadInv, Stands, Todo

(* One that fails, and what the reader is then told stands.                *)
LEMMA RefuseCall ==
  ASSUME AnswersInv, NEW c \in Caller, Refuse(c)
  PROVE  /\ CallInv(calls[c])' /\ \A d \in Caller \ {c} : calls'[d] = calls[d]
         /\ \A t \in 1..Len(sort) : reached'[t] = reached[t] \/ Stands(t, reached'[t])
<1>1. PICK old : old = calls[c]
  OBVIOUS
<1>2. PICK new : new = calls'[c]
  OBVIOUS
<1> DEFINE check == Todo(old)[old.next]
<1>3. CallInv(old) /\ DOMAIN calls = Caller /\ old.at = "checking" /\ ServiceTyped
  BY <1>1 DEF AnswersInv, ServiceTyped, Refuse, Idle
<1>4. /\ new = [old EXCEPT !.at = "answered", !.kind = KindOf(check)]
      /\ \A d \in Caller \ {c} : calls'[d] = calls[d]
  BY <1>1, <1>2, <1>3 DEF Refuse
<1>5. /\ new.at = "answered" /\ new.ask = old.ask
      /\ new.kind = KindOf(check) /\ new.floor = old.floor /\ Call(new)
  BY <1>3, <1>4 DEF CallInv, Call
<1>6. ~Passes(check, old.ask, old.entry) /\ Tell(old.ask, KindOf(check))
  BY <1>1 DEF Refuse
<1>7. ASSUME old.ask.op \in Reads
      PROVE  /\ old.ask.ticket \in 1..Len(sort)
             /\ KindOf(check) # "invalid" => Stands(old.ask.ticket, Stage(KindOf(check)))
             /\ ReadInv(new)
  <2>1. ReadInv(old) /\ Call(old)
    BY <1>3, <1>7 DEF CallInv
  <2>2. /\ KindOf(check) # "invalid" => Stands(old.ask.ticket, Stage(KindOf(check)))
        /\ old.ask.flaws = {} => Stage(KindOf(check)) >= old.floor
    BY <1>3, <1>6, <1>7, <2>1, RefusedRead
  <2> HIDE DEF check
  <2> QED
    BY <1>5, <2>1, <2>2 DEF ReadInv
<1>8. \A t \in 1..Len(sort) : reached'[t] = reached[t] \/ Stands(t, reached'[t])
  <2> HIDE DEF check
  <2> QED
    BY <1>3, <1>6, <1>7, TellRaises
<1>9. CallInv(new)
  BY <1>5, <1>7 DEF CallInv
<1>10. UNCHANGED <<table, sort, life, kept>>
  BY DEF Refuse
<1>11. CallInv(new)'
  BY <1>9, <1>10 DEF CallInv, ReadInv, Stands, Range
<1> QED
  BY <1>2, <1>4, <1>8, <1>11 DEF CallInv, ReadInv, Stands, Todo

(* And the last one, with all of its effect.                               *)
LEMMA AcceptCall ==
  ASSUME AnswersInv, NEW c \in Caller, Accept(c), ServiceTyped', Onward
  PROVE  /\ CallInv(calls[c])' /\ \A d \in Caller \ {c} : calls'[d] = calls[d]
         /\ \A t \in 1..Len(sort) : reached'[t] = reached[t] \/ Stands(t, reached'[t])
<1>1. PICK old : old = calls[c]
  OBVIOUS
<1>2. PICK new : new = calls'[c]
  OBVIOUS
<1> DEFINE check == Todo(old)[old.next]
<1>3. CallInv(old) /\ DOMAIN calls = Caller /\ old.at = "checking" /\ ServiceTyped
  BY <1>1 DEF AnswersInv, ServiceTyped, Accept, Idle
<1>4. new = [old EXCEPT !.at = "answered"] /\ \A d \in Caller \ {c} : calls'[d] = calls[d]
  BY <1>1, <1>2, <1>3 DEF Accept
<1>5. /\ new.at = "answered" /\ new.ask = old.ask /\ new.kind = old.kind
      /\ new.floor = old.floor /\ Call(new)
  BY <1>3, <1>4 DEF CallInv, Call
<1>6. Passes(check, old.ask, old.entry) /\ old.next = Len(Todo(old))
  BY <1>1 DEF Accept
<1>7. ASSUME old.ask.op \in Reads
      PROVE  old.ask.ticket \in 1..Len(sort) /\ Stands(old.ask.ticket, 1) /\ ReadInv(new)
  <2>1. ReadInv(old) /\ Call(old)
    BY <1>3, <1>7 DEF CallInv
  <2>2. Stands(old.ask.ticket, 1) /\ 1 >= old.floor /\ old.kind = "ok"
    BY <1>3, <1>6, <1>7, <2>1, AcceptedRead
  <2> HIDE DEF check
  <2> QED
    BY <1>5, <2>1, <2>2, Stages DEF ReadInv
<1>8. \A t \in 1..Len(sort) : reached'[t] = reached[t] \/ Stands(t, reached'[t])
  <2>1. CASE old.ask.op \in Submits
    <3>1. \E kind \in {"run", "plan"} : Admit(kind)
      BY <1>1, <2>1 DEF Accept
    <3> QED
      BY <1>3, <3>1, AdmitOnward
  <2>2. CASE old.ask.op \notin Submits
    <3>1. Tell(old.ask, "ok")
      BY <1>1, <2>2 DEF Accept
    <3> QED
      BY <1>3, <1>7, <3>1, TellRaises, Stages
  <2> QED
    BY <2>1, <2>2
<1>9. CallInv(new)
  BY <1>5, <1>7 DEF CallInv
<1>10. CallInv(new)'
  BY <1>3, <1>9, PromisesLast
<1> QED
  BY <1>2, <1>4, <1>8, <1>10 DEF CallInv, ReadInv, Stands, Todo

(* Every step keeps the invariant.                                         *)
LEMMA NextAnswers ==
  ASSUME AnswersInv, AnswersNext
  PROVE  AnswersInv'
<1>1. ServiceTyped /\ ServiceTyped' /\ Onward
  BY StepOnward DEF AnswersInv
<1>2. \A t, stage : stage = 0 => Stands(t, stage)'
  BY DEF Stands
<1>3. ASSUME \A t \in 1..Len(sort) : reached'[t] = reached[t] \/ Stands(t, reached'[t]),
             \A t \in 1..Len(sort') : t \in 1..Len(sort) \/ reached'[t] = 0
      PROVE  (\A t \in 1..Len(sort) : Stands(t, reached[t]))'
  <2> SUFFICES ASSUME NEW t \in 1..Len(sort') PROVE Stands(t, reached[t])'
    OBVIOUS
  <2>1. PICK stage \in 0..3 : stage = reached'[t]
    BY <1>1 DEF ServiceTyped
  <2>2. t \in 1..Len(sort) => Stands(t, stage)
    BY <1>3, <2>1 DEF AnswersInv
  <2>3. Stands(t, stage)'
    BY <1>1, <1>2, <1>3, <2>1, <2>2, PromisesLast
  <2> QED
    BY <2>1, <2>3 DEF Stands
<1>4. ASSUME NEW c \in Caller, calls'[c] = calls[c] PROVE (calls[c] = Idle \/ CallInv(calls[c]))'
  <2>1. PICK same : same = calls[c]
    OBVIOUS
  <2>2. same = Idle \/ CallInv(same)'
    BY <1>1, <2>1, PromisesLast DEF AnswersInv
  <2> QED
    BY <1>4, <2>1, <2>2 DEF CallInv, ReadInv, Stands, Todo, Idle
<1>5. ASSUME NEW c \in Caller, CallInv(calls[c])', \A d \in Caller \ {c} : calls'[d] = calls[d]
      PROVE  (\A d \in Caller : calls[d] = Idle \/ CallInv(calls[d]))'
  BY <1>4, <1>5
<1>6. ASSUME Len(sort') = Len(sort), \A t \in 1..Len(sort) : reached'[t] = reached[t] \/ Stands(t, reached'[t])
      PROVE  (\A t \in 1..Len(sort) : Stands(t, reached[t]))'
  BY <1>3, <1>6
<1>7. ASSUME NEW c \in Caller, Pass(c) \/ Refuse(c) \/ Accept(c) \/ \E ask \in Asks : BeginCall(c, ask)
      PROVE  AnswersInv'
  <2>1. CallInv(calls[c])' /\ \A d \in Caller \ {c} : calls'[d] = calls[d]
    BY <1>1, <1>7, PassCall, RefuseCall, AcceptCall, BeginCallInv
  <2>2. (\A d \in Caller : calls[d] = Idle \/ CallInv(calls[d]))'
    BY <1>5, <2>1
  <2>3. \A t \in 1..Len(sort) : reached'[t] = reached[t] \/ Stands(t, reached'[t])
    BY <1>1, <1>7, RefuseCall, AcceptCall DEF Pass, BeginCall, taskVars
  <2>4. \A t \in 1..Len(sort') : t \in 1..Len(sort) \/ reached'[t] = 0
    <3>1. ASSUME UNCHANGED sort PROVE \A t \in 1..Len(sort') : t \in 1..Len(sort)
      BY <3>1
    <3>2. ASSUME NEW kind \in {"run", "plan"}, Admit(kind)
          PROVE  \A t \in 1..Len(sort') : t \in 1..Len(sort) \/ reached'[t] = 0
      BY <1>1, <3>2, AdmitOnward DEF ServiceTyped
    <3> QED
      BY <1>7, <3>1, <3>2 DEF Pass, Refuse, Accept, BeginCall, taskVars
  <2> QED
    BY <1>1, <1>3, <2>2, <2>3, <2>4 DEF AnswersInv
<1>8. ASSUME UNCHANGED calls, UNCHANGED <<sort, reached>> \/ \E kind \in {"run", "plan"} : Admit(kind)
      PROVE  AnswersInv'
  <2>1. (\A d \in Caller : calls[d] = Idle \/ CallInv(calls[d]))'
    BY <1>4, <1>8
  <2>2. \A t \in 1..Len(sort) : reached'[t] = reached[t]
    BY <1>1, <1>8, AdmitOnward
  <2>3. \A t \in 1..Len(sort') : t \in 1..Len(sort) \/ reached'[t] = 0
    BY <1>1, <1>8, AdmitOnward DEF ServiceTyped
  <2> QED
    BY <1>1, <1>3, <2>1, <2>2, <2>3 DEF AnswersInv
<1>9. ASSUME NEW kind \in {"run", "plan"}, Arrive(kind) PROVE AnswersInv'
  BY <1>8, <1>9 DEF Arrive
<1>10. ASSUME \/ \E t \in DOMAIN life : Work(t)
              \/ \E file \in {"sound", "torn"}, flaw \in {"sound", "section", "chunk"} :
                   WriteFile(file, flaw)
              \/ \E only \in {"all", "run"} : OpenSweep(only)
              \/ NextPage
       PROVE  AnswersInv'
  BY <1>8, <1>10 DEF Work, WriteFile, OpenSweep, NextPage, taskVars
<1> QED
  BY <1>7, <1>9, <1>10 DEF AnswersNext

(* What was told of a ticket's data still stands, in every state.          *)
THEOREM AnswersKeepTheirWord == AnswersSpec => []AnswersInv
<1>1. AnswersInit => AnswersInv
  <2> SUFFICES ASSUME AnswersInit PROVE AnswersInv
    OBVIOUS
  <2>1. Len(<<>>) = 0 /\ DOMAIN <<>> = {} /\ 1..0 = {}
    OBVIOUS
  <2>2. Range(<<>>) = {}
    BY <2>1 DEF Range
  <2>3. ServiceTyped
    BY <2>1, <2>2 DEF AnswersInit, ServiceTyped, Removed, Flawed
  <2> QED
    BY <2>1, <2>3 DEF AnswersInit, AnswersInv
<1>2. AnswersInv /\ [AnswersNext]_answerVars => AnswersInv'
  <2>1. ASSUME AnswersInv, UNCHANGED answerVars PROVE AnswersInv'
    <3>1. UNCHANGED <<table, sort, life, kept, library, calls, reached>>
      BY <2>1 DEF answerVars
    <3>2. ServiceTyped'
      BY <2>1, <3>1 DEF AnswersInv, ServiceTyped, Range
    <3>3. (\A t \in 1..Len(sort) : Stands(t, reached[t]))'
      BY <2>1, <3>1 DEF AnswersInv, Stands, Range
    <3>4. ASSUME NEW c \in Caller PROVE (calls[c] = Idle \/ CallInv(calls[c]))'
      <4>1. calls[c] = Idle \/ CallInv(calls[c])
        BY <2>1 DEF AnswersInv
      <4> QED
        BY <3>1, <4>1 DEF CallInv, ReadInv, Stands, Todo, Range
    <3> QED
      BY <3>2, <3>3, <3>4 DEF AnswersInv
  <2> QED
    BY <2>1, NextAnswers
<1> QED
  BY <1>1, <1>2, PTL DEF AnswersSpec

(* Of a run's data its readers are told one way: not yet, here it is,      *)
(* evicted, forgotten; whatever ends, is admitted, evicted or pushed out   *)
(* between the checks of their calls, at either door (finished, result_dto,*)
(* TaskRegistry::find).                                                    *)
THEOREM ReadersHearOneWay == AnswersSpec => []AnswersMoveForward
<1>1. AnswersInv => AnswersMoveForward
  <2> SUFFICES ASSUME AnswersInv, NEW c \in Caller, calls[c].at = "answered",
                      calls[c].ask.op \in Reads, calls[c].ask.flaws = {}
               PROVE  Stage(calls[c].kind) >= calls[c].floor
    BY DEF AnswersMoveForward
  <2>1. CallInv(calls[c])
    BY DEF AnswersInv, Idle
  <2> QED
    BY <2>1 DEF CallInv, ReadInv
<1> QED
  BY <1>1, AnswersKeepTheirWord, PTL

-----------------------------------------------------------------------------
(* The table of tasks, and a client that pages through it.                 *)

(* Tickets in the order of admission.                                      *)
Ascending(s) ==
  /\ s \in Seq(Nat)
  /\ \A i, j \in 1..Len(s) : i < j => s[i] < s[j]

(* How many entries there are, and how many after one of them.             *)
LEMMA AscendingCounts ==
  ASSUME NEW s, Ascending(s)
  PROVE  /\ IsFiniteSet(Range(s)) /\ Cardinality(Range(s)) = Len(s)
         /\ \A i \in 1..Len(s) : Cardinality({u \in Range(s) : u > s[i]}) = Len(s) - i
<1>1. /\ s \in Seq(Nat) /\ Len(s) \in Nat /\ DOMAIN s = 1..Len(s)
      /\ \A i \in 1..Len(s) : s[i] \in Nat
      /\ \A i, j \in 1..Len(s) : i < j => s[i] < s[j]
  BY DEF Ascending
<1>2. Range(s) = {s[i] : i \in 1..Len(s)}
  BY <1>1 DEF Range
<1>3. ExistsBijection(1..Len(s), Range(s))
  <2>1. s \in [1..Len(s) -> Range(s)]
    BY <1>1, <1>2
  <2>2. \A i, j \in 1..Len(s) : s[i] = s[j] => i = j
    <3>1. \A i, j \in 1..Len(s) : i < j \/ i = j \/ j < i
      BY <1>1
    <3> QED
      BY <1>1, <3>1
  <2>3. \A t \in Range(s) : \E i \in 1..Len(s) : s[i] = t
    BY <1>2
  <2> QED
    BY <2>1, <2>2, <2>3
       DEF ExistsBijection, Bijection, Injection, Surjection, IsInjective
<1>4. IsFiniteSet(Range(s)) /\ Cardinality(Range(s)) = Len(s)
  BY <1>1, <1>3, FS_CountingElements, FS_NatBijection
<1>5. ASSUME NEW i \in 1..Len(s)
      PROVE  Cardinality({u \in Range(s) : u > s[i]}) = Len(s) - i
  <2> DEFINE T == {u \in Range(s) : u > s[i]}
             n == Len(s) - i
             f == [k \in 1..n |-> s[i + k]]
  <2>1. n \in Nat /\ \A k \in 1..n : i + k \in 1..Len(s) /\ i < i + k
    BY <1>1
  <2>2. \A k \in 1..n : f[k] \in T
    BY <1>1, <1>2, <2>1
  <2>3. \A k, m \in 1..n : f[k] = f[m] => k = m
    <3>1. \A k, m \in 1..n : k < m => s[i + k] < s[i + m]
      BY <1>1, <2>1
    <3>2. \A k \in 1..n : s[i + k] \in Nat /\ f[k] = s[i + k]
      BY <1>1, <2>1
    <3> HIDE DEF f
    <3>3. \A k, m \in 1..n : k < m => f[k] \in Nat /\ f[m] \in Nat /\ f[k] < f[m]
      BY <3>1, <3>2
    <3>4. \A k, m \in 1..n : k < m \/ k = m \/ m < k
      BY <2>1
    <3>5. ASSUME NEW k \in 1..n, NEW m \in 1..n, f[k] = f[m] PROVE k = m
      <4>1. ~(k < m)
        BY <3>3, <3>5
      <4>2. ~(m < k)
        BY <3>3, <3>5
      <4> QED
        BY <3>4, <4>1, <4>2
    <3> QED
      BY <3>5
  <2>4. \A u \in T : \E k \in 1..n : f[k] = u
    <3>1. TAKE u \in T
    <3>2. PICK j \in 1..Len(s) : u = s[j]
      BY <1>2
    <3>3. i < j
      <4>1. j < i \/ i = j \/ i < j
        BY <1>1
      <4>2. s[j] > s[i] /\ s[j] \in Nat /\ s[i] \in Nat
        BY <1>1, <3>2
      <4> QED
        BY <1>1, <4>1, <4>2
    <3>4. j - i \in 1..n /\ i + (j - i) = j
      BY <1>1, <3>3
    <3>5. f[j - i] = s[j]
      BY <3>4
    <3> QED
      BY <3>2, <3>4, <3>5
  <2> HIDE DEF f, T, n
  <2>5. DOMAIN f = 1..n /\ f = [k \in 1..n |-> f[k]]
    BY DEF f
  <2>6. f \in [1..n -> T]
    BY <2>2, <2>5
  <2>7. ExistsBijection(1..n, T)
    BY <2>3, <2>4, <2>6 DEF ExistsBijection, Bijection, Injection, Surjection, IsInjective
  <2> QED
    BY <2>1, <2>7, FS_CountingElements DEF T, n
<1> QED
  BY <1>4, <1>5

(* r has of the first n entries of s those that are not gone, in order.    *)
RestOf(r, s, n, gone) ==
  /\ Ascending(r)
  /\ Range(r) = {s[j] : j \in 1..n} \ gone

(* What is left of an ascending sequence without some of its values.       *)
LEMMA WithoutIsRest ==
  ASSUME NEW s, Ascending(s), NEW gone
  PROVE  Ascending(Without(s, gone)) /\ Range(Without(s, gone)) = Range(s) \ gone
<1> DEFINE rest == Without(s, gone)
           f == CHOOSE g : LeavesOf(g, 1..Len(s), s, gone)
<1>1. /\ s \in Seq(Nat) /\ DOMAIN s = 1..Len(s) /\ Len(s) \in Nat
      /\ \A i \in 1..Len(s) : s[i] \in Nat
      /\ \A i, j \in 1..Len(s) : i < j => s[i] < s[j]
  BY DEF Ascending
<1>2. rest = f[1..Len(s)]
  BY <1>1 DEF Without, FoldLeft, MapThenFoldSet, LeavesOf, Spared
<1>3. LeavesOf(f, 1..Len(s), s, gone)
  BY <1>1, LeavingExists
<1> HIDE DEF f
<1> DEFINE Has == {n \in Nat : n <= Len(s) => RestOf(f[1..n], s, n, gone)}
<1>4. 0 \in Has
  <2>1. 1..0 = {} /\ f[{}] = <<>>
    BY <1>3 DEF LeavesOf
  <2>2. <<>> \in Seq(Nat) /\ Len(<<>>) = 0 /\ DOMAIN <<>> = {}
    OBVIOUS
  <2>3. RestOf(<<>>, s, 0, gone)
    BY <2>1, <2>2 DEF RestOf, Ascending, Range
  <2>4. f[1..0] = <<>>
    BY <2>1
  <2> QED
    BY <2>3, <2>4
<1>5. ASSUME NEW n \in Nat, n \in Has PROVE n + 1 \in Has
  <2> SUFFICES ASSUME n + 1 <= Len(s) PROVE RestOf(f[1..n + 1], s, n + 1, gone)
    OBVIOUS
  <2> DEFINE left == f[1..n]
             last == s[n + 1]
  <2>1. RestOf(left, s, n, gone)
    BY <1>1, <1>5
  <2>2. f[1..n + 1] = Spared(left, last, gone)
    <3>1. 1..n + 1 \in SUBSET (1..Len(s)) /\ n + 1 \in 1..n + 1 /\ 1..n + 1 # {}
      <4>1. \A i \in 1..n + 1 : i \in 1..Len(s)
        BY <1>1
      <4>2. n + 1 \in 1..n + 1
        OBVIOUS
      <4> QED
        BY <4>1, <4>2
    <3>2. Max(1..n + 1) = n + 1
      BY <3>1, MaxOfInterval
    <3>3. (1..n + 1) \ {n + 1} = 1..n
      OBVIOUS
    <3> QED
      BY <1>3, <3>1, <3>2, <3>3 DEF LeavesOf
  <2> DEFINE now == {s[j] : j \in 1..n + 1}
             before == {s[j] : j \in 1..n}
  <2>3. now = before \cup {last} /\ last \in Nat /\ \A t \in before : t \in Nat /\ t < last
    <3>1. \A j \in 1..n + 1 : j \in 1..n \/ j = n + 1
      OBVIOUS
    <3>2. \A j \in 1..n : j \in 1..n + 1 /\ j \in 1..Len(s) /\ j < n + 1
      BY <1>1
    <3>3. n + 1 \in 1..n + 1 /\ n + 1 \in 1..Len(s)
      BY <1>1
    <3>4. last \in Nat /\ \A t \in before : t \in Nat /\ t < last
      BY <1>1, <3>2, <3>3
    <3>5. now = before \cup {last}
      BY <3>1, <3>2, <3>3
    <3> QED
      BY <3>4, <3>5
  <2> HIDE DEF left, last, now, before
  <2>4. Ascending(left) /\ Range(left) = before \ gone
    BY <2>1 DEF RestOf, before
  <2>5. CASE last \in gone
    <3>1. f[1..n + 1] = left
      BY <2>2, <2>5 DEF Spared
    <3>2. now \ gone = before \ gone
      BY <2>3, <2>5
    <3> QED
      BY <2>4, <3>1, <3>2 DEF RestOf, now
  <2>6. CASE last \notin gone
    <3> DEFINE r == Append(left, last)
    <3>1. f[1..n + 1] = r
      BY <2>2, <2>6 DEF Spared
    <3>2. /\ left \in Seq(Nat) /\ Len(left) \in Nat /\ DOMAIN left = 1..Len(left)
          /\ \A i, j \in 1..Len(left) : i < j => left[i] < left[j]
      BY <2>4 DEF Ascending
    <3>3. /\ r \in Seq(Nat) /\ Len(r) = Len(left) + 1 /\ DOMAIN r = 1..Len(r)
          /\ \A i \in 1..Len(left) : r[i] = left[i]
          /\ r[Len(left) + 1] = last
      BY <2>3, <3>2, AppendProperties
    <3> HIDE DEF r
    <3>4. \A i \in 1..Len(r) : i \in 1..Len(left) \/ i = Len(left) + 1
      BY <3>2, <3>3
    <3>5. \A i \in 1..Len(left) : left[i] \in Range(left) /\ left[i] < last
      BY <2>3, <2>4, <3>2 DEF Range
    <3>6. Ascending(r)
      <4>1. ASSUME NEW i \in 1..Len(r), NEW j \in 1..Len(r), i < j PROVE r[i] < r[j]
        <5>1. CASE j = Len(left) + 1
          <6>1. i \in 1..Len(left)
            BY <3>2, <3>4, <4>1, <5>1
          <6> QED
            BY <3>3, <3>5, <5>1, <6>1
        <5>2. CASE j \in 1..Len(left)
          <6>1. i \in 1..Len(left)
            BY <3>2, <3>4, <4>1, <5>2
          <6> QED
            BY <3>2, <3>3, <4>1, <5>2, <6>1
        <5> QED
          BY <3>4, <5>1, <5>2
      <4> QED
        BY <3>3, <4>1 DEF Ascending
    <3>7. Range(r) = Range(left) \cup {last}
      <4>1. \A i \in 1..Len(r) : r[i] \in Range(left) \cup {last}
        BY <3>3, <3>4, <3>5
      <4>2. Len(left) + 1 \in 1..Len(r) /\ \A i \in 1..Len(left) : i \in 1..Len(r)
        BY <3>2, <3>3
      <4> QED
        BY <3>2, <3>3, <4>1, <4>2 DEF Range
    <3>8. Range(r) = now \ gone
      BY <2>3, <2>4, <2>6, <3>7
    <3> QED
      BY <3>1, <3>6, <3>8 DEF RestOf, now
  <2> QED
    BY <2>5, <2>6
<1> HIDE DEF Has
<1>6. Len(s) \in Has
  BY <1>1, <1>4, <1>5, InductionOnNat
<1>7. RestOf(f[1..Len(s)], s, Len(s), gone)
  BY <1>1, <1>6 DEF Has
<1>8. Range(s) = {s[j] : j \in 1..Len(s)}
  BY <1>1 DEF Range
<1> HIDE DEF rest
<1>9. RestOf(rest, s, Len(s), gone)
  BY <1>2, <1>7
<1> QED
  BY <1>8, <1>9 DEF RestOf, rest

(* The table is in the order of admission and within its bound; and of what *)
(* a client that pages through all of it has not seen, there is more in     *)
(* front than it was given.                                                *)
Newer(t) == {u \in Range(table) : u > t}

TableInv == Ascending(table) /\ Len(table) <= KeepTasks

ListingInv ==
  /\ sweep = [only |-> sweep.only, offset |-> sweep.offset, seen |-> sweep.seen,
              stayed |-> sweep.stayed, done |-> sweep.done]
  /\ sweep.only \in {"all", "run"} /\ sweep.offset \in Nat /\ sweep.done \in BOOLEAN
  /\ sweep.stayed \subseteq 1..Len(sort)
  /\ sweep.only = "all" /\ ~sweep.done =>
       \A t \in sweep.stayed \cap Range(table) :
         t \in sweep.seen \/ Cardinality(Newer(t)) >= sweep.offset
  /\ SweepMissesNothing

(* What pushes a task out of the table: there is one too many, and one of  *)
(* them has ended.                                                         *)
LEMMA DropsOne ==
  ASSUME ServiceTyped, TableInv, InFlight < Room,
         NEW tasks, tasks = Append(table, Len(sort) + 1)
  PROVE  /\ Ascending(tasks) /\ Range(tasks) = Range(table) \cup {Len(sort) + 1}
         /\ Len(tasks) = Len(table) + 1
         /\ IF Len(tasks) <= KeepTasks THEN Dropped(tasks) = {}
            ELSE \E t \in Range(tasks) : Dropped(tasks) = {t}
<1> DEFINE n == Len(sort)
<1>1. /\ n \in Nat /\ table \in Seq(Nat) /\ Range(table) \subseteq 1..n /\ Len(table) \in Nat
      /\ DOMAIN table = 1..Len(table) /\ Len(table) <= KeepTasks
      /\ \A i, j \in 1..Len(table) : i < j => table[i] < table[j]
      /\ DOMAIN life = 1..n /\ KeepTasks \in Nat /\ Room \in Nat /\ Room <= KeepTasks
  BY AnswersAssumption DEF ServiceTyped, TableInv, Ascending
<1> HIDE DEF n
<1>2. /\ tasks \in Seq(Nat) /\ Len(tasks) = Len(table) + 1 /\ DOMAIN tasks = 1..Len(tasks)
      /\ \A i \in 1..Len(table) : tasks[i] = table[i]
      /\ tasks[Len(table) + 1] = n + 1
  BY <1>1, AppendProperties DEF n
<1>3. \A i \in 1..Len(tasks) : i \in 1..Len(table) \/ i = Len(table) + 1
  BY <1>1, <1>2
<1>4. \A i \in 1..Len(table) : table[i] \in Range(table) /\ table[i] \in 1..n
  BY <1>1 DEF Range
<1>5. Ascending(tasks)
  <2>1. ASSUME NEW i \in 1..Len(tasks), NEW j \in 1..Len(tasks), i < j PROVE tasks[i] < tasks[j]
    <3>1. i \in 1..Len(table)
      BY <1>1, <1>3, <2>1
    <3>2. CASE j = Len(table) + 1
      BY <1>1, <1>2, <1>4, <3>1, <3>2
    <3>3. CASE j \in 1..Len(table)
      BY <1>1, <1>2, <2>1, <3>1, <3>3
    <3> QED
      BY <1>3, <3>2, <3>3
  <2> QED
    BY <1>2, <2>1 DEF Ascending
<1>6. Range(tasks) = Range(table) \cup {n + 1}
  <2>1. Len(table) + 1 \in 1..Len(tasks) /\ \A i \in 1..Len(table) : i \in 1..Len(tasks)
    BY <1>1, <1>2
  <2> QED
    BY <1>1, <1>2, <1>3, <1>4, <2>1 DEF Range
<1>7. CASE Len(tasks) <= KeepTasks
  <2>1. Len(tasks) - KeepTasks <= 0
    BY <1>1, <1>2, <1>7
  <2> DEFINE over == Over(tasks)
             rest == Without(tasks, {t \in Range(tasks) : t \notin DOMAIN life \/ life[t] \notin Ended})
  <2>2. Ascending(rest)
    BY <1>5, WithoutIsRest
  <2>3. over = rest
    BY DEF Over
  <2> HIDE DEF rest, over
  <2>4. DOMAIN over = 1..Len(over) /\ Len(over) \in Nat
    BY <2>2, <2>3 DEF Ascending
  <2>5. \A j \in DOMAIN over : ~(j <= Len(tasks) - KeepTasks)
    BY <2>1, <2>4, <1>1, <1>2
  <2>6. Dropped(tasks) = {}
    BY <2>5 DEF Dropped, Oldest, over
  <2> QED
    BY <1>2, <1>5, <1>6, <1>7, <2>6 DEF n
<1>8. CASE ~(Len(tasks) <= KeepTasks)
  <2>1. Len(tasks) - KeepTasks = 1
    BY <1>1, <1>2, <1>8
  <2> DEFINE live == {t \in Range(tasks) : t \notin DOMAIN life \/ life[t] \notin Ended}
             over == Over(tasks)
             flying == {t \in DOMAIN life : life[t] \notin Ended}
  <2>2. Ascending(over) /\ Range(over) = Range(tasks) \ live
    BY <1>5, WithoutIsRest DEF Over
  <2>3. IsFiniteSet(Range(tasks)) /\ Cardinality(Range(tasks)) = Len(tasks)
    BY <1>5, AscendingCounts
  <2>4. IsFiniteSet(flying) /\ Cardinality(flying) < Room /\ Cardinality(flying) \in Nat
    <3>1. IsFiniteSet(1..n)
      BY <1>1, FS_Interval
    <3>2. flying \in SUBSET (1..n)
      BY <1>1
    <3>3. Cardinality(flying) < Room
      BY DEF InFlight
    <3> HIDE DEF flying
    <3> QED
      BY <3>1, <3>2, <3>3, FS_Subset, FS_CardinalityType
  <2>5. live \subseteq flying \cup {n + 1}
    BY <1>1, <1>6
  <2> HIDE DEF live, flying, over
  <2>6. Cardinality(live) <= Cardinality(flying) + 1 /\ Cardinality(live) \in Nat
    <3> DEFINE more == flying \cup {n + 1}
    <3>1. IsFiniteSet(more) /\ Cardinality(more) <= Cardinality(flying) + 1
      <4>1. /\ IsFiniteSet(more)
            /\ Cardinality(more) = IF n + 1 \in flying THEN Cardinality(flying)
                                   ELSE Cardinality(flying) + 1
        BY <2>4, FS_AddElement
      <4> QED
        BY <2>4, <4>1
    <3>2. live \in SUBSET more
      BY <2>5
    <3> HIDE DEF more
    <3>3. IsFiniteSet(live) /\ Cardinality(live) <= Cardinality(more)
      BY <3>1, <3>2, FS_Subset
    <3>4. Cardinality(live) \in Nat /\ Cardinality(more) \in Nat
      BY <3>1, <3>3, FS_CardinalityType
    <3> QED
      BY <2>4, <3>1, <3>3, <3>4
  <2>7. live # Range(tasks)
    BY <1>1, <1>2, <1>8, <2>3, <2>4, <2>6
  <2>8. PICK t \in Range(over) : TRUE
    BY <2>2, <2>7 DEF live
  <2>9. over \in Seq(Nat) /\ Len(over) \in Nat /\ DOMAIN over = 1..Len(over)
    BY <2>2 DEF Ascending
  <2>10. 1 \in DOMAIN over /\ \A j \in DOMAIN over : j <= 1 <=> j = 1
    BY <2>8, <2>9 DEF Range
  <2>11. Dropped(tasks) = {over[1]}
    BY <2>1, <2>10 DEF Dropped, Oldest, over
  <2>12. over[1] \in Range(tasks)
    BY <2>2, <2>10 DEF Range
  <2> QED
    BY <1>2, <1>5, <1>6, <1>8, <2>11, <2>12 DEF n
<1> QED
  BY <1>7, <1>8

(* An admission leaves the table within its bound, and every other entry   *)
(* at least as far from the front as it was.                               *)
LEMMA AdmitMovesBack ==
  ASSUME ServiceTyped, TableInv, InFlight < Room, NEW kind, Admit(kind)
  PROVE  /\ TableInv'
         /\ \A t \in Range(table') : t \in 1..Len(sort) =>
              /\ t \in Range(table)
              /\ Cardinality(Newer(t)') >= Cardinality(Newer(t))
<1> DEFINE n == Len(sort)
           tasks == Append(table, n + 1)
<1>1. /\ n \in Nat /\ Range(table) \subseteq 1..n /\ Len(table) \in Nat
      /\ Len(table) <= KeepTasks /\ KeepTasks \in Nat
  BY AnswersAssumption DEF ServiceTyped, TableInv
<1>2. table' = Without(tasks, Dropped(tasks))
  BY DEF Admit
<1>3. /\ Ascending(tasks) /\ Range(tasks) = Range(table) \cup {n + 1}
      /\ Len(tasks) = Len(table) + 1
      /\ IF Len(tasks) <= KeepTasks THEN Dropped(tasks) = {}
         ELSE \E t \in Range(tasks) : Dropped(tasks) = {t}
  BY DropsOne
<1> HIDE DEF tasks
<1>4. Ascending(table') /\ Range(table') = Range(tasks) \ Dropped(tasks)
  BY <1>2, <1>3, WithoutIsRest
<1>5. /\ IsFiniteSet(Range(tasks)) /\ Cardinality(Range(tasks)) = Len(tasks)
      /\ Cardinality(Range(table')) = Len(table')
      /\ IsFiniteSet(Range(table))
  BY <1>3, <1>4, AscendingCounts DEF TableInv
<1>6. Len(table') <= KeepTasks
  <2>1. CASE Len(tasks) <= KeepTasks
    BY <1>3, <1>4, <1>5, <2>1
  <2>2. CASE ~(Len(tasks) <= KeepTasks)
    <3>1. PICK t \in Range(tasks) : Dropped(tasks) = {t}
      BY <1>3, <2>2
    <3>2. Cardinality(Range(tasks) \ {t}) = Cardinality(Range(tasks)) - 1
      BY <1>5, FS_RemoveElement
    <3> QED
      BY <1>1, <1>3, <1>4, <1>5, <3>1, <3>2
  <2> QED
    BY <2>1, <2>2
<1>7. ASSUME NEW t \in Range(table'), t \in 1..n
      PROVE  t \in Range(table) /\ Cardinality(Newer(t)') >= Cardinality(Newer(t))
  <2>1. t \in Range(table) /\ t # n + 1
    BY <1>1, <1>3, <1>4, <1>7
  <2> DEFINE more == Newer(t) \cup {n + 1}
  <2>2. IsFiniteSet(Newer(t)) /\ n + 1 \notin Newer(t) /\ Cardinality(Newer(t)) \in Nat
    <3>1. Newer(t) \in SUBSET Range(table)
      BY DEF Newer
    <3>2. IsFiniteSet(Newer(t))
      BY <1>5, <3>1, FS_Subset
    <3> QED
      BY <1>1, <3>1, <3>2, FS_CardinalityType
  <2>3. IsFiniteSet(more) /\ Cardinality(more) = Cardinality(Newer(t)) + 1
    BY <2>2, FS_AddElement
  <2>4. Newer(t)' = more \ Dropped(tasks)
    <3>1. Newer(t)' = {u \in Range(table') : u > t}
      BY DEF Newer
    <3>2. n + 1 > t
      BY <1>1, <1>7
    <3> QED
      BY <1>3, <1>4, <3>1, <3>2 DEF Newer
  <2> HIDE DEF more
  <2>5. CASE Dropped(tasks) = {}
    BY <2>1, <2>2, <2>3, <2>4, <2>5
  <2>6. CASE \E d \in Range(tasks) : Dropped(tasks) = {d}
    <3>1. PICK d : Dropped(tasks) = {d}
      BY <2>6
    <3>2. Cardinality(more \ {d}) = IF d \in more THEN Cardinality(more) - 1 ELSE Cardinality(more)
      BY <2>3, FS_RemoveElement
    <3>3. Cardinality(Newer(t)') = Cardinality(more \ {d})
      BY <2>4, <3>1
    <3> QED
      BY <2>1, <2>2, <2>3, <3>2, <3>3
  <2> QED
    BY <1>3, <2>5, <2>6
<1> QED
  BY <1>4, <1>6, <1>7 DEF TableInv

(* The last check of a submission is that there is room.                   *)
Asked == {"size", "shape", "values", "stored", "reads", "loads", "room"}

LEMMA EndsWithRoom ==
  ASSUME NEW s \in Seq(Asked)
  PROVE  LET whole == s \o (ValidateRequest \o Lookup \o <<"room">>)
             built == s \o (ValidateRequest \o <<"room">>)
         IN  whole[Len(whole)] = "room" /\ built[Len(built)] = "room"
<1> DEFINE whole == s \o (ValidateRequest \o Lookup \o <<"room">>)
           built == s \o (ValidateRequest \o <<"room">>)
<1>1. ValidateRequest \in Seq(Asked) /\ Lookup \in Seq(Asked) /\ <<"room">> \in Seq(Asked)
      /\ Len(<<"room">>) = 1 /\ <<"room">>[1] = "room"
  BY DEF ValidateRequest, Lookup, Asked
<1>2. ASSUME NEW a \in Seq(Asked), NEW b \in Seq(Asked), Len(b) > 0
      PROVE  /\ a \o b \in Seq(Asked) /\ Len(a \o b) > 0
             /\ (a \o b)[Len(a \o b)] = b[Len(b)]
  <2>1. Len(a) \in Nat /\ Len(b) \in Nat /\ Len(a) + Len(b) \in 1..Len(a) + Len(b)
    BY <1>2
  <2>2. /\ a \o b \in Seq(Asked) /\ Len(a \o b) = Len(a) + Len(b)
        /\ \A i \in 1..Len(a) + Len(b) : (a \o b)[i] = IF i <= Len(a) THEN a[i] ELSE b[i - Len(a)]
    BY ConcatProperties
  <2> QED
    BY <1>2, <2>1, <2>2
<1> DEFINE looked == ValidateRequest \o Lookup
           task == looked \o <<"room">>
           build == ValidateRequest \o <<"room">>
<1>3. looked \in Seq(Asked)
  BY <1>1, ConcatProperties
<1> HIDE DEF looked
<1>4. /\ task \in Seq(Asked) /\ Len(task) > 0 /\ task[Len(task)] = "room"
      /\ build \in Seq(Asked) /\ Len(build) > 0 /\ build[Len(build)] = "room"
  BY <1>1, <1>2, <1>3
<1> HIDE DEF task, build
<1>5. /\ (s \o task)[Len(s \o task)] = "room"
      /\ (s \o build)[Len(s \o build)] = "room"
  BY <1>2, <1>4
<1> QED
  BY <1>5 DEF task, build, looked

LEMMA SubmissionsAskForRoom ==
  ASSUME NEW ask \in Asks, ask.op \in Submits
  PROVE  LET whole == Checks(ask.door, ask.op) IN whole[Len(whole)] = "room"
<1>1. <<"size", "shape">> \in Seq(Asked) /\ <<"shape">> \in Seq(Asked)
  BY DEF Asked
<1>2. /\ HttpSubmit[Len(HttpSubmit)] = "room" /\ HttpBuild[Len(HttpBuild)] = "room"
      /\ RpcSubmit[Len(RpcSubmit)] = "room" /\ RpcBuild[Len(RpcBuild)] = "room"
  BY <1>1, EndsWithRoom DEF HttpSubmit, HttpBuild, RpcSubmit, RpcBuild, SubmitTask, SubmitBuild
<1>3. ask.op \in {"submit", "plan", "build"}
  BY DEF Submits
<1>4. /\ Http("submit") = HttpSubmit /\ Http("plan") = HttpSubmit /\ Http("build") = HttpBuild
      /\ Rpc("submit") = RpcSubmit /\ Rpc("plan") = RpcSubmit /\ Rpc("build") = RpcBuild
  BY DEF Http, Rpc
<1> QED
  BY <1>2, <1>3, <1>4 DEF Checks

(* What leaves the table as it is.                                         *)
LEMMA TableStays ==
  ASSUME TableInv, UNCHANGED table
  PROVE  TableInv' /\ \A t : Newer(t)' = Newer(t)
BY DEF TableInv, Ascending, Newer, Range

LEMMA ListingStays ==
  ASSUME ListingInv, UNCHANGED <<table, sort, sweep>>
  PROVE  ListingInv'
<1>1. (\A t : Newer(t)' = Newer(t)) /\ Range(table)' = Range(table)
  BY DEF Newer, Range
<1> QED
  BY <1>1 DEF ListingInv, SweepMissesNothing

LEMMA AdmitListing ==
  ASSUME ServiceTyped, TableInv, ListingInv, InFlight < Room, UNCHANGED sweep,
         NEW kind \in {"run", "plan"}, Admit(kind)
  PROVE  TableInv' /\ ListingInv'
<1>1. /\ TableInv'
      /\ \A t \in Range(table') : t \in 1..Len(sort) =>
           t \in Range(table) /\ Cardinality(Newer(t)') >= Cardinality(Newer(t))
  BY AdmitMovesBack
<1>2. Len(sort') = Len(sort) + 1 /\ Len(sort) \in Nat
  BY AdmitOnward DEF ServiceTyped
<1>3. ASSUME NEW t \in sweep.stayed \cap Range(table'), sweep.only = "all", ~sweep.done
      PROVE  t \in sweep.seen \/ Cardinality(Newer(t)') >= sweep.offset
  <2>1. t \in 1..Len(sort)
    BY DEF ListingInv
  <2>2. t \in Range(table) /\ Cardinality(Newer(t)') >= Cardinality(Newer(t))
    BY <1>1, <2>1
  <2>3. t \in sweep.seen \/ Cardinality(Newer(t)) >= sweep.offset
    BY <1>3, <2>2 DEF ListingInv
  <2>4. Cardinality(Newer(t)) \in Nat /\ Cardinality(Newer(t)') \in Nat
    <3>1. IsFiniteSet(Range(table)) /\ IsFiniteSet(Range(table'))
      BY <1>1, AscendingCounts DEF TableInv
    <3>2. Newer(t) \in SUBSET Range(table) /\ Newer(t)' \in SUBSET Range(table')
      BY DEF Newer
    <3>3. IsFiniteSet(Newer(t)) /\ IsFiniteSet(Newer(t)')
      BY <3>1, <3>2, FS_Subset
    <3> QED
      BY <3>3, FS_CardinalityType
  <2> QED
    BY <2>2, <2>3, <2>4 DEF ListingInv
<1>4. sweep'.stayed \subseteq 1..Len(sort')
  BY <1>2 DEF ListingInv
<1> QED
  BY <1>1, <1>3, <1>4 DEF ListingInv, SweepMissesNothing

(* The list a client pages through: the entries of the table that are of   *)
(* the kind it asks for, the newest first.                                 *)
LEMMA ListedBackwards ==
  ASSUME TableInv, NEW only
  PROVE  \E rest :
           /\ Ascending(rest)
           /\ Range(rest) = Range(table) \ {t \in Range(table) : only \notin {"all", sort[t]}}
           /\ Listed(only) \in Seq(Nat) /\ Len(Listed(only)) = Len(rest)
           /\ \A i \in 1..Len(rest) : Listed(only)[i] = rest[Len(rest) - i + 1]
           /\ Range(Listed(only)) = Range(rest)
<1> DEFINE gone == {t \in Range(table) : only \notin {"all", sort[t]}}
           rest == Without(table, gone)
           listed == Listed(only)
<1>1. Ascending(rest) /\ Range(rest) = Range(table) \ gone
  BY WithoutIsRest DEF TableInv
<1>2. listed = Reverse(rest)
  BY DEF Listed
<1> HIDE DEF rest, gone, listed
<1>3. /\ rest \in Seq(Nat) /\ Len(rest) \in Nat /\ DOMAIN rest = 1..Len(rest)
      /\ \A i \in 1..Len(rest) : rest[i] \in Nat
  BY <1>1 DEF Ascending
<1>4. listed = [i \in 1..Len(rest) |-> rest[Len(rest) - i + 1]]
  BY <1>2 DEF Reverse
<1>5. /\ listed \in Seq(Nat) /\ Len(listed) = Len(rest) /\ DOMAIN listed = 1..Len(rest)
      /\ \A i \in 1..Len(rest) : listed[i] = rest[Len(rest) - i + 1]
  <2>1. \A i \in 1..Len(rest) : rest[Len(rest) - i + 1] \in Nat
    BY <1>3
  <2>2. listed \in [1..Len(rest) -> Nat]
    BY <1>4, <2>1
  <2> QED
    BY <1>3, <1>4, <2>2
<1>6. Range(listed) = Range(rest)
  <2>1. \A i \in 1..Len(rest) : Len(rest) - i + 1 \in 1..Len(rest)
                                /\ Len(rest) - (Len(rest) - i + 1) + 1 = i
    BY <1>3
  <2>2. ASSUME NEW t \in Range(listed) PROVE t \in Range(rest)
    <3>1. PICK i \in 1..Len(rest) : t = listed[i]
      BY <1>5, <2>2 DEF Range
    <3>2. t = rest[Len(rest) - i + 1]
      BY <1>5, <3>1
    <3> QED
      BY <1>3, <2>1, <3>2 DEF Range
  <2>3. ASSUME NEW t \in Range(rest) PROVE t \in Range(listed)
    <3>1. PICK i \in 1..Len(rest) : t = rest[i]
      BY <1>3, <2>3 DEF Range
    <3>2. listed[Len(rest) - i + 1] = rest[i]
      BY <1>5, <2>1
    <3> QED
      BY <1>5, <2>1, <3>1, <3>2 DEF Range
  <2> QED
    BY <2>2, <2>3
<1> QED
  BY <1>1, <1>5, <1>6 DEF gone, listed

(* Of what is listed of the kind "all", nothing is left out.               *)
LEMMA ListedAll ==
  ASSUME TableInv
  PROVE  Range(Listed("all")) = Range(table)
<1> DEFINE gone == {t \in Range(table) : "all" \notin {"all", sort[t]}}
<1>1. gone = {}
  OBVIOUS
<1> HIDE DEF gone
<1>2. Range(Listed("all")) = Range(table) \ gone
  BY ListedBackwards DEF gone
<1> QED
  BY <1>1, <1>2

(* What is on a page of a list.                                            *)
LEMMA PageOf ==
  ASSUME NEW listed \in Seq(Nat), NEW offset \in Nat
  PROVE  LET last == Min({offset + PageSize, Len(listed)})
             page == SubSeq(listed, offset + 1, last)
         IN  /\ last \in Nat /\ (last = Len(listed) \/ last = offset + PageSize)
             /\ last <= Len(listed) /\ last <= offset + PageSize
             /\ DOMAIN page = 1..Len(page)
             /\ Len(page) = IF last >= offset + 1 THEN last - offset ELSE 0
             /\ \A i \in 1..Len(page) : page[i] = listed[offset + i]
<1> DEFINE a == offset + PageSize
           b == Len(listed)
           last == Min({a, b})
           page == SubSeq(listed, offset + 1, last)
           m == IF a <= b THEN a ELSE b
<1>1. a \in Nat /\ b \in Nat
  BY AnswersAssumption
<1> HIDE DEF a, b
<1>2. m \in {a, b} /\ \A y \in {a, b} : m <= y
  BY <1>1
<1>3. last \in {a, b} /\ \A y \in {a, b} : last <= y
  BY <1>2 DEF Min
<1>4. last \in Nat /\ last <= b /\ last <= a /\ (last = b \/ last = a)
  BY <1>1, <1>3
<1> HIDE DEF last
<1>5. \A i \in (offset + 1)..last : listed[i] \in Nat
  <2>1. \A i \in (offset + 1)..last : i \in 1..Len(listed)
    BY <1>1, <1>4 DEF b
  <2> QED
    BY <2>1
<1>6. /\ page \in Seq(Nat)
      /\ Len(page) = IF offset + 1 <= last THEN last - (offset + 1) + 1 ELSE 0
      /\ \A i \in 1..(last - (offset + 1) + 1) : page[i] = listed[offset + 1 + i - 1]
  <2>1. offset + 1 \in Int /\ last \in Int
    BY <1>4
  <2> HIDE DEF page
  <2> USE DEF page
  <2> QED
    BY <1>5, <2>1, SubSeqProperties
<1> HIDE DEF page
<1>7. DOMAIN page = 1..Len(page) /\ Len(page) \in Nat
  BY <1>6
<1>8. Len(page) = IF last >= offset + 1 THEN last - offset ELSE 0
  BY <1>4, <1>6
<1>9. \A i \in 1..Len(page) : page[i] = listed[offset + i]
  <2>1. ASSUME NEW i \in 1..Len(page) PROVE page[i] = listed[offset + i]
    <3>1. i \in 1..(last - (offset + 1) + 1) /\ offset + 1 + i - 1 = offset + i
      BY <1>4, <1>7, <1>8
    <3> QED
      BY <1>6, <3>1
  <2> QED
    BY <2>1
<1> QED
  BY <1>4, <1>7, <1>8, <1>9 DEF a, b, last, page

(* A page of all tasks: what was not before it is on it or after it, and   *)
(* if anything is after it, it is not empty.                               *)
LEMMA PageHolds ==
  ASSUME TableInv, NEW offset \in Nat
  PROVE  LET listed == Listed("all")
             page   == SubSeq(listed, offset + 1, Min({offset + PageSize, Len(listed)}))
         IN  \A t \in Range(table) : Cardinality(Newer(t)) >= offset =>
               \/ t \in Range(page)
               \/ page # <<>> /\ Cardinality(Newer(t)) >= offset + Len(page)
<1> DEFINE listed == Listed("all")
           last == Min({offset + PageSize, Len(listed)})
           page == SubSeq(listed, offset + 1, last)
<1>1. PageSize \in Nat \ {0}
  BY AnswersAssumption
<1>2. PICK rest :
           /\ Ascending(rest)
           /\ Len(listed) = Len(rest) /\ listed \in Seq(Nat)
           /\ \A i \in 1..Len(rest) : listed[i] = rest[Len(rest) - i + 1]
           /\ Range(listed) = Range(rest)
  BY ListedBackwards
<1>3. Range(rest) = Range(table)
  BY <1>2, ListedAll
<1> HIDE DEF listed
<1>4. /\ last \in Nat /\ (last = Len(listed) \/ last = offset + PageSize)
      /\ last <= Len(listed) /\ last <= offset + PageSize
      /\ DOMAIN page = 1..Len(page)
      /\ Len(page) = IF last >= offset + 1 THEN last - offset ELSE 0
      /\ \A i \in 1..Len(page) : page[i] = listed[offset + i]
  BY <1>2, PageOf
<1> HIDE DEF page, last
<1>5. Len(rest) \in Nat /\ DOMAIN rest = 1..Len(rest)
  BY <1>2 DEF Ascending
<1>6. ASSUME NEW t \in Range(table), Cardinality(Newer(t)) >= offset, t \notin Range(page)
      PROVE  page # <<>> /\ Cardinality(Newer(t)) >= offset + Len(page)
  <2>1. PICK i \in 1..Len(rest) : t = rest[i]
    BY <1>3, <1>5 DEF Range
  <2>2. Newer(t) = {u \in Range(rest) : u > rest[i]}
    BY <1>3, <2>1 DEF Newer
  <2>3. Cardinality(Newer(t)) = Len(rest) - i
    BY <1>2, <2>2, AscendingCounts
  <2> DEFINE p == Len(rest) - i + 1
  <2>4. p \in 1..Len(rest) /\ listed[p] = t /\ Cardinality(Newer(t)) = p - 1
    <3>1. p \in 1..Len(rest) /\ Len(rest) - p + 1 = i
      BY <1>5
    <3>2. listed[p] = rest[Len(rest) - p + 1]
      BY <1>2, <3>1
    <3> QED
      BY <1>5, <2>1, <2>3, <3>1, <3>2
  <2> HIDE DEF p
  <2>5. p >= offset + 1
    BY <1>6, <2>4
  <2>6. p > last
    <3>1. ASSUME p <= last PROVE FALSE
      <4>1. p - offset \in 1..Len(page) /\ offset + (p - offset) = p
        BY <1>4, <2>4, <2>5, <3>1
      <4>2. page[p - offset] = t
        BY <1>4, <2>4, <4>1
      <4> QED
        BY <1>4, <1>6, <4>1, <4>2 DEF Range
    <3> QED
      BY <1>4, <2>4, <3>1
  <2>7. last = offset + PageSize /\ Len(page) = PageSize
    BY SMTT(30), <1>1, <1>2, <1>4, <2>4, <2>6
  <2>8. page # <<>>
    BY <1>1, <2>7
  <2> QED
    BY <1>1, <2>4, <2>6, <2>7, <2>8
<1> QED
  BY <1>6 DEF page, last, listed

LEMMA NextListing ==
  ASSUME ServiceTyped, TableInv, ListingInv, NextPage
  PROVE  TableInv' /\ ListingInv'
<1> DEFINE listed == Listed(sweep.only)
           page == SubSeq(listed, sweep.offset + 1, Min({sweep.offset + PageSize, Len(listed)}))
<1>1. /\ ~sweep.done /\ UNCHANGED <<table, sort>>
      /\ sweep' = [sweep EXCEPT !.offset = @ + Len(page), !.seen = @ \cup Range(page),
                                !.stayed = @ \cap Range(listed), !.done = page = <<>>]
  BY DEF NextPage, taskVars
<1>2. TableInv' /\ (\A t : Newer(t)' = Newer(t)) /\ Range(table') = Range(table)
  BY <1>1, TableStays DEF Range
<1>3. sweep = [only |-> sweep.only, offset |-> sweep.offset, seen |-> sweep.seen,
               stayed |-> sweep.stayed, done |-> sweep.done]
  BY DEF ListingInv
<1>4. sweep.offset \in Nat
  BY DEF ListingInv
<1>5. Len(page) \in Nat
  <2>1. listed \in Seq(Nat)
    BY ListedBackwards
  <2> HIDE DEF listed
  <2> DEFINE last == Min({sweep.offset + PageSize, Len(listed)})
  <2>2. last \in Nat /\ Len(page) = IF last >= sweep.offset + 1 THEN last - sweep.offset ELSE 0
    BY <1>4, <2>1, PageOf
  <2> HIDE DEF last, page
  <2>3. CASE last >= sweep.offset + 1
    BY <1>4, <2>2, <2>3
  <2>4. CASE ~(last >= sweep.offset + 1)
    BY <2>2, <2>4
  <2> QED
    BY <2>3, <2>4
<1>6. ASSUME sweep.only = "all"
      PROVE  /\ Range(listed) = Range(table)
             /\ \A t \in Range(table) : Cardinality(Newer(t)) >= sweep.offset =>
                  \/ t \in Range(page)
                  \/ page # <<>> /\ Cardinality(Newer(t)) >= sweep.offset + Len(page)
  BY <1>4, <1>6, PageHolds, ListedAll
<1> HIDE DEF page, listed
<1>7. sweep' = [only |-> sweep.only, offset |-> sweep.offset + Len(page),
                seen |-> sweep.seen \cup Range(page), stayed |-> sweep.stayed \cap Range(listed),
                done |-> (page = <<>>)]
  BY <1>1, <1>3
<1>8. /\ sweep'.only = sweep.only /\ sweep'.offset = sweep.offset + Len(page)
      /\ sweep'.seen = sweep.seen \cup Range(page)
      /\ sweep'.stayed = sweep.stayed \cap Range(listed) /\ sweep'.done = (page = <<>>)
  BY <1>7
<1>9. ASSUME sweep'.only = "all", NEW t \in sweep'.stayed \cap Range(table')
      PROVE  \/ t \in sweep'.seen
             \/ page # <<>> /\ Cardinality(Newer(t)') >= sweep'.offset
  <2>1. sweep.only = "all" /\ t \in sweep.stayed \cap Range(table)
    BY <1>2, <1>8, <1>9
  <2>2. t \in sweep.seen \/ Cardinality(Newer(t)) >= sweep.offset
    BY <1>1, <2>1 DEF ListingInv
  <2> QED
    BY <1>2, <1>6, <1>8, <2>1, <2>2
<1>10. SweepMissesNothing'
  <2>1. ASSUME sweep'.done, sweep'.only = "all", NEW t \in sweep'.stayed PROVE t \in sweep'.seen
    <3>1. t \in Range(table') /\ page = <<>>
      BY <1>2, <1>6, <1>8, <2>1
    <3> QED
      BY <1>9, <2>1, <3>1
  <2> QED
    BY <2>1 DEF SweepMissesNothing
<1>11. sweep'.offset \in Nat /\ sweep'.only \in {"all", "run"} /\ sweep'.done \in BOOLEAN
       /\ sweep'.stayed \subseteq 1..Len(sort')
  BY <1>1, <1>5, <1>8 DEF ListingInv
<1>12. sweep' = [only |-> sweep'.only, offset |-> sweep'.offset, seen |-> sweep'.seen,
                 stayed |-> sweep'.stayed, done |-> sweep'.done]
  BY <1>7, <1>8
<1>13. sweep'.only = "all" /\ ~sweep'.done =>
         \A t \in sweep'.stayed \cap Range(table') :
           t \in sweep'.seen \/ Cardinality(Newer(t)') >= sweep'.offset
  BY <1>9
<1> QED
  BY <1>2, <1>10, <1>11, <1>12, <1>13 DEF ListingInv

(* A client that begins has everything before it.                          *)
LEMMA OpenListing ==
  ASSUME ServiceTyped, TableInv, ListingInv, NEW only \in {"all", "run"}, OpenSweep(only)
  PROVE  TableInv' /\ ListingInv'
<1>1. /\ UNCHANGED <<table, sort>>
      /\ sweep' = [only |-> only, offset |-> 0, seen |-> {}, stayed |-> Range(Listed(only)),
                   done |-> FALSE]
  BY DEF OpenSweep, taskVars
<1>2. TableInv' /\ (\A t : Newer(t)' = Newer(t))
  BY <1>1, TableStays
<1>3. Range(Listed(only)) \subseteq 1..Len(sort)
  <2>1. Range(Listed(only)) \subseteq Range(table)
    <3> DEFINE gone == {t \in Range(table) : only \notin {"all", sort[t]}}
    <3>1. Range(Listed(only)) = Range(table) \ gone
      BY ListedBackwards
    <3> HIDE DEF gone
    <3> QED
      BY <3>1
  <2> QED
    BY <2>1 DEF ServiceTyped
<1>4. \A t \in Range(table') : Cardinality(Newer(t)') \in Nat
  <2>1. IsFiniteSet(Range(table'))
    BY <1>2, AscendingCounts DEF TableInv
  <2>2. \A t : Newer(t)' \in SUBSET Range(table')
    BY DEF Newer
  <2> QED
    BY <2>1, <2>2, FS_Subset, FS_CardinalityType
<1>5. /\ sweep'.only = only /\ sweep'.offset = 0 /\ sweep'.seen = {} /\ sweep'.done = FALSE
      /\ sweep'.stayed = Range(Listed(only))
  BY <1>1
<1>6. sweep' = [only |-> sweep'.only, offset |-> sweep'.offset, seen |-> sweep'.seen,
                stayed |-> sweep'.stayed, done |-> sweep'.done]
  BY <1>1, <1>5
<1>7. SweepMissesNothing'
  BY <1>5 DEF SweepMissesNothing
<1>8. sweep'.stayed \subseteq 1..Len(sort')
  BY <1>1, <1>3, <1>5
<1>9. \A t \in sweep'.stayed \cap Range(table') : Cardinality(Newer(t)') >= sweep'.offset
  BY <1>4, <1>5
<1>10. sweep'.only \in {"all", "run"} /\ sweep'.offset \in Nat
  BY <1>5
<1>11. sweep'.done \in BOOLEAN
  BY <1>1
<1> QED
  BY <1>2, <1>6, <1>7, <1>8, <1>9, <1>10, <1>11 DEF ListingInv

(* Every step keeps the table in order and what is left of the list.       *)
LEMMA StepListing ==
  ASSUME AnswersInv, TableInv, ListingInv, [AnswersNext]_answerVars
  PROVE  TableInv' /\ ListingInv'
<1>1. ServiceTyped
  BY DEF AnswersInv
<1>2. ASSUME UNCHANGED <<table, sort, sweep>> PROVE TableInv' /\ ListingInv'
  BY <1>2, ListingStays, TableStays
<1>3. CASE UNCHANGED answerVars
  BY <1>2, <1>3 DEF answerVars
<1>4. ASSUME NEW c \in Caller, Pass(c) \/ Refuse(c) \/ \E ask \in Asks : BeginCall(c, ask)
      PROVE  TableInv' /\ ListingInv'
  BY <1>2, <1>4 DEF Pass, Refuse, BeginCall, taskVars
<1>5. ASSUME NEW c \in Caller, Accept(c)
      PROVE  TableInv' /\ ListingInv'
  <2>1. CASE calls[c].ask.op \notin Submits
    BY <1>2, <1>5, <2>1 DEF Accept
  <2>2. CASE calls[c].ask.op \in Submits
    <3>1. calls[c].ask \in Asks
      <4>1. calls[c].at = "checking"
        BY <1>5 DEF Accept
      <4>2. calls[c] # Idle
        BY <4>1 DEF Idle
      <4>3. Call(calls[c])
        BY <4>2 DEF AnswersInv, CallInv
      <4> QED
        BY <4>3 DEF Call
    <3>2. Todo(calls[c])[calls[c].next] = "room"
      BY <1>5, <2>2, <3>1, SubmissionsAskForRoom DEF Accept, Todo
    <3>3. Passes("room", calls[c].ask, calls[c].entry)
      BY <1>5, <3>2 DEF Accept
    <3>4. InFlight < Room
      BY <3>3 DEF Passes, Flaws
    <3>5. UNCHANGED sweep
      BY <1>5 DEF Accept
    <3>6. \E kind \in {"run", "plan"} : Admit(kind)
      BY <1>5, <2>2 DEF Accept
    <3> QED
      BY <1>1, <3>4, <3>5, <3>6, AdmitListing
  <2> QED
    BY <2>1, <2>2
<1>6. ASSUME NEW kind \in {"run", "plan"}, Arrive(kind)
      PROVE  TableInv' /\ ListingInv'
  BY <1>1, <1>6, AdmitListing DEF Arrive
<1>7. ASSUME NEW t \in DOMAIN life, Work(t)
      PROVE  TableInv' /\ ListingInv'
  BY <1>2, <1>7 DEF Work
<1>8. ASSUME NEW file, NEW flaw, WriteFile(file, flaw)
      PROVE  TableInv' /\ ListingInv'
  BY <1>2, <1>8 DEF WriteFile, taskVars
<1>9. ASSUME NEW only \in {"all", "run"}, OpenSweep(only)
      PROVE  TableInv' /\ ListingInv'
  BY <1>1, <1>9, OpenListing
<1>10. ASSUME NextPage PROVE TableInv' /\ ListingInv'
  BY <1>1, <1>10, NextListing
<1>11. CASE AnswersNext
  BY <1>4, <1>5, <1>6, <1>7, <1>8, <1>9, <1>10, <1>11 DEF AnswersNext
<1> QED
  BY <1>3, <1>11

(* The registry's table keeps to its bound and to the order of admission,  *)
(* whatever is admitted, ends and is read (tasks.rs, try_admit and prune): *)
(* as many tasks as there is room for never fill it, so among one too many *)
(* there is one that has ended.  And a client that pages has before it     *)
(* all that it was not given.                                              *)
THEOREM TableKeepsItsBound == AnswersSpec => [](TableInv /\ ListingInv)
<1>1. AnswersInit => TableInv /\ ListingInv
  <2>1. ASSUME AnswersInit PROVE TableInv
    <3>1. <<>> \in Seq(Nat) /\ Len(<<>>) = 0 /\ table = <<>>
      BY <2>1 DEF AnswersInit
    <3> QED
      BY <3>1, AnswersAssumption DEF TableInv, Ascending
  <2>2. ASSUME AnswersInit PROVE ListingInv
    <3>1. /\ sweep.only = "all" /\ sweep.offset = 0 /\ sweep.seen = {} /\ sweep.stayed = {}
          /\ sweep.done = TRUE
          /\ sweep = [only |-> "all", offset |-> 0, seen |-> {}, stayed |-> {}, done |-> TRUE]
      BY <2>2 DEF AnswersInit
    <3> QED
      BY <3>1 DEF ListingInv, SweepMissesNothing
  <2> QED
    BY <2>1, <2>2
<1>2. AnswersInv /\ TableInv /\ ListingInv /\ [AnswersNext]_answerVars => TableInv' /\ ListingInv'
  BY StepListing
<1> QED
  BY <1>1, <1>2, AnswersKeepTheirWord, PTL DEF AnswersSpec

(* A client that pages through all tasks by the offset of what it was      *)
(* given (tasks.rs, list) has seen, at the end, every task that was listed *)
(* from its first page to its last.                                        *)
THEOREM PagingMissesNothing == AnswersSpec => []SweepMissesNothing
<1>1. ListingInv => SweepMissesNothing
  BY DEF ListingInv
<1> QED
  BY <1>1, TableKeepsItsBound, PTL

-----------------------------------------------------------------------------
(* The two doors. *)

(* The checks there are, and the kinds they are answered with.             *)
Named ==
  {"shape", "values", "empty", "image", "query", "format", "channel", "points", "script", "cells",
   "loads", "readable", "size", "known", "stored", "listed", "layer", "chunk", "batch", "ended",
   "live", "held", "base", "kept", "paged", "fresh", "patchable", "room", "reads", "opens", "intact",
   "asked"}

Kinds == {"invalid", "too_large", "not_found", "conflict", "unsupported", "busy", "internal"}

(* Faults of the server.                                                   *)
Faults == {"busy", "internal"}

(* Which kinds are faults of the server, at either door (error.rs).        *)
LEMMA KindsAre ==
  /\ \A c \in Named : /\ KindOf(c) \in Kinds
                      /\ KindOf(c) \in Faults => c \in {"room", "reads", "opens", "intact"}
  /\ \A kind \in Kinds : /\ (HttpStatus(kind) >= 500) <=> kind \in Faults
                         /\ (GrpcCode(kind) \in {"Internal", "Unavailable"}) <=> kind \in Faults
  /\ "ok" \notin Kinds
<1>1. \A c \in Named : KindOf(c) \in Kinds
  BY DEF Named, Kinds, KindOf
<1>2. \A c \in Named : KindOf(c) \in Faults => c \in {"room", "reads", "opens", "intact"}
  BY DEF Named, Faults, KindOf
<1>3. \A kind \in Kinds : (HttpStatus(kind) >= 500) <=> kind \in Faults
  BY DEF Kinds, Faults, HttpStatus
<1>4. \A kind \in Kinds : (GrpcCode(kind) \in {"Internal", "Unavailable"}) <=> kind \in Faults
  BY DEF Kinds, Faults, GrpcCode
<1>5. "ok" \notin Kinds
  BY DEF Kinds
<1> QED
  BY <1>1, <1>2, <1>3, <1>4, <1>5

(* The first check that fails is the one that is heard of.                 *)
LEMMA SaysIs ==
  ASSUME NEW s \in Seq(Named), NEW F
  PROVE  /\ (\A i \in 1..Len(s) : s[i] \notin F) => Verdict(s, F) = "ok"
         /\ \A k \in 1..Len(s) : s[k] \in F /\ (\A j \in 1..k - 1 : s[j] \notin F) =>
              Verdict(s, F) = KindOf(s[k]) /\ Verdict(s, F) \in Kinds
         /\ \/ \A i \in 1..Len(s) : s[i] \notin F
            \/ \E k \in 1..Len(s) : s[k] \in F /\ (\A j \in 1..k - 1 : s[j] \notin F)
<1> DEFINE failing == {i \in DOMAIN s : s[i] \in F}
<1>1. Len(s) \in Nat /\ DOMAIN s = 1..Len(s) /\ \A i \in 1..Len(s) : s[i] \in Named
  OBVIOUS
<1>2. (\A i \in 1..Len(s) : s[i] \notin F) => failing = {}
  BY <1>1
<1>3. failing \in SUBSET Nat
  BY <1>1
<1>7. \A i : i \in failing <=> i \in 1..Len(s) /\ s[i] \in F
  BY <1>1
<1>6. Verdict(s, F) = IF failing = {} THEN "ok" ELSE KindOf(s[Min(failing)])
  BY DEF Verdict
<1> HIDE DEF failing
<1>4. ASSUME failing # {}
      PROVE  \E k \in failing : \A m \in failing : k <= m
  BY <1>3, <1>4, LeastNatural
<1>5. ASSUME NEW k \in failing, \A m \in failing : k <= m
      PROVE  Min(failing) = k
  <2>1. Min(failing) \in failing /\ \A m \in failing : Min(failing) <= m
    BY <1>5 DEF Min
  <2> DEFINE m == Min(failing)
  <2>2. m \in Nat /\ k \in Nat /\ k <= m /\ m <= k
    BY <1>3, <1>5, <2>1
  <2> HIDE DEF m
  <2>3. m = k
    BY <2>2
  <2> QED
    BY <2>3 DEF m
<1>8. ASSUME NEW k \in 1..Len(s), s[k] \in F, \A j \in 1..k - 1 : s[j] \notin F
      PROVE  Verdict(s, F) = KindOf(s[k]) /\ Verdict(s, F) \in Kinds
  <2>1. k \in failing /\ \A m \in failing : k <= m
    <3>1. ASSUME NEW m \in failing, ~(k <= m) PROVE FALSE
      <4>1. m \in 1..k - 1
        BY <1>1, <1>7, <3>1
      <4> QED
        BY <1>7, <1>8, <4>1
    <3> QED
      BY <1>7, <1>8, <3>1
  <2>2. Min(failing) = k
    BY <1>5, <2>1
  <2> QED
    BY <1>1, <1>6, <2>1, <2>2, KindsAre
<1>9. ASSUME ~ \A i \in 1..Len(s) : s[i] \notin F
      PROVE  \E k \in 1..Len(s) : s[k] \in F /\ (\A j \in 1..k - 1 : s[j] \notin F)
  <2>1. failing # {}
    BY <1>7, <1>9
  <2>2. PICK k \in failing : \A m \in failing : k <= m
    BY <1>4, <2>1
  <2>3. \A j \in 1..k - 1 : s[j] \notin F
    <3>1. ASSUME NEW j \in 1..k - 1, s[j] \in F PROVE FALSE
      <4>1. j \in failing /\ ~(k <= j)
        BY <1>1, <1>7, <2>2, <3>1
      <4> QED
        BY <2>2, <4>1
    <3> QED
      BY <3>1
  <2> QED
    BY <1>7, <2>2, <2>3
<1> QED
  BY <1>2, <1>6, <1>8, <1>9

(* A check that fails is heard of.                                         *)
LEMMA FailureIsHeard ==
  ASSUME NEW s \in Seq(Named), NEW F
  PROVE  /\ Verdict(s, F) \in Kinds \cup {"ok"}
         /\ Verdict(s, F) # "ok" <=> \E c \in Range(s) : c \in F
<1>1. Range(s) = {s[i] : i \in 1..Len(s)}
  BY DEF Range
<1> QED
  BY <1>1, SaysIs, KindsAre

(* One check after the other.                                              *)
LEMMA SaysThen ==
  ASSUME NEW s \in Seq(Named), NEW t \in Seq(Named), NEW F
  PROVE  /\ s \o t \in Seq(Named)
         /\ Verdict(s \o t, F) = IF Verdict(s, F) = "ok" THEN Verdict(t, F) ELSE Verdict(s, F)
         /\ Range(s \o t) = Range(s) \cup Range(t)
<1> DEFINE r == s \o t
           n == Len(s)
           m == Len(t)
<1>1. /\ r \in Seq(Named) /\ Len(r) = n + m /\ n \in Nat /\ m \in Nat
      /\ \A i \in 1..n + m : r[i] = IF i <= n THEN s[i] ELSE t[i - n]
  BY ConcatProperties
<1> HIDE DEF r
<1>2. \A i \in 1..n : i \in 1..n + m /\ r[i] = s[i]
  BY <1>1
<1>3. \A j \in 1..m : n + j \in 1..n + m /\ r[n + j] = t[j]
  BY <1>1
<1>4. ASSUME NEW k \in 1..n, s[k] \in F, \A j \in 1..k - 1 : s[j] \notin F
      PROVE  Verdict(r, F) = Verdict(s, F) /\ Verdict(s, F) \in Kinds
  <2>1. k \in 1..Len(r) /\ r[k] \in F /\ \A j \in 1..k - 1 : r[j] \notin F
    <3>1. k \in 1..Len(r) /\ r[k] = s[k]
      BY <1>1, <1>2
    <3>2. \A j \in 1..k - 1 : j \in 1..n
      BY <1>1
    <3> QED
      BY <1>2, <1>4, <3>1, <3>2
  <2>2. Verdict(r, F) = KindOf(r[k])
    BY <1>1, <2>1, SaysIs
  <2>3. Verdict(s, F) = KindOf(s[k]) /\ Verdict(s, F) \in Kinds
    BY <1>4, SaysIs
  <2> QED
    BY <1>2, <2>2, <2>3
<1>5. ASSUME \A i \in 1..n : s[i] \notin F
      PROVE  Verdict(s, F) = "ok" /\ Verdict(r, F) = Verdict(t, F)
  <2>1. Verdict(s, F) = "ok"
    BY <1>5, SaysIs
  <2>2. CASE \A j \in 1..m : t[j] \notin F
    <3>1. \A i \in 1..Len(r) : r[i] \notin F
      BY <1>1, <1>5, <2>2
    <3> QED
      BY <1>1, <2>1, <2>2, <3>1, SaysIs
  <2>3. ASSUME NEW k \in 1..m, t[k] \in F, \A j \in 1..k - 1 : t[j] \notin F
        PROVE  Verdict(r, F) = Verdict(t, F)
    <3>1. n + k \in 1..Len(r) /\ r[n + k] \in F
      BY <1>1, <1>3, <2>3
    <3>2. \A i \in 1..(n + k) - 1 : r[i] \notin F
      <4>1. ASSUME NEW i \in 1..(n + k) - 1 PROVE r[i] \notin F
        <5>1. CASE i <= n
          <6>1. i \in 1..n
            BY <1>1, <2>3, <5>1
          <6> QED
            BY <1>2, <1>5, <6>1
        <5>2. CASE i > n
          <6>1. i - n \in 1..k - 1 /\ r[i] = t[i - n]
            BY <1>1, <2>3, <5>2
          <6> QED
            BY <2>3, <6>1
        <5> QED
          BY <1>1, <5>1, <5>2
      <4> QED
        BY <4>1
    <3>3. Verdict(r, F) = KindOf(r[n + k])
      BY <1>1, <3>1, <3>2, SaysIs
    <3>4. Verdict(t, F) = KindOf(t[k])
      BY <2>3, SaysIs
    <3> QED
      BY <1>3, <3>3, <3>4
  <2> QED
    BY <2>1, <2>2, <2>3, SaysIs
<1>6. Verdict(r, F) = IF Verdict(s, F) = "ok" THEN Verdict(t, F) ELSE Verdict(s, F)
  BY <1>4, <1>5, SaysIs, KindsAre
<1>7. Range(r) = Range(s) \cup Range(t)
  <2>1. Range(r) = {r[i] : i \in 1..n + m} /\ Range(s) = {s[i] : i \in 1..n} /\ Range(t) = {t[i] : i \in 1..m}
    <3>1. DOMAIN r = 1..n + m /\ DOMAIN s = 1..n /\ DOMAIN t = 1..m
      BY <1>1
    <3> QED
      BY <3>1 DEF Range
  <2>2. \A i \in 1..n + m : r[i] \in Range(s) \cup Range(t)
    <3>1. ASSUME NEW i \in 1..n + m PROVE r[i] \in Range(s) \cup Range(t)
      <4>1. CASE i <= n
        BY <1>1, <2>1, <4>1
      <4>2. CASE i > n
        <5>1. i - n \in 1..m /\ r[i] = t[i - n]
          BY <1>1, <4>2
        <5> QED
          BY <2>1, <5>1
      <4> QED
        BY <1>1, <4>1, <4>2
    <3> QED
      BY <3>1
  <2> QED
    BY <1>2, <1>3, <2>1, <2>2
<1> QED
  BY <1>1, <1>6, <1>7 DEF r

(* A single check.                                                         *)
LEMMA SaysOne ==
  ASSUME NEW c \in Named, NEW F
  PROVE  /\ <<c>> \in Seq(Named) /\ Range(<<c>>) = {c}
         /\ Verdict(<<c>>, F) = IF c \in F THEN KindOf(c) ELSE "ok"
<1>1. <<c>> \in Seq(Named) /\ Len(<<c>>) = 1 /\ <<c>>[1] = c /\ 1..1 = {1} /\ DOMAIN <<c>> = {1}
  OBVIOUS
<1> DEFINE s == <<c>>
<1>2. s \in Seq(Named) /\ Len(s) = 1 /\ s[1] = c /\ DOMAIN s = {1}
  BY <1>1
<1> HIDE DEF s
<1>3. Range(s) = {c}
  BY <1>2 DEF Range
<1>4. c \notin F => Verdict(s, F) = "ok"
  BY <1>2, SaysIs
<1>5. c \in F => Verdict(s, F) = KindOf(c)
  <2>1. 1 \in 1..Len(s) /\ \A j \in 1..1 - 1 : s[j] \notin F
    BY <1>2
  <2> QED
    BY <1>2, <2>1, SaysIs
<1> QED
  BY <1>2, <1>3, <1>4, <1>5 DEF s

(* A sequence that is written out, taken apart.                            *)
LEMMA Literals ==
  /\ \A a, b \in Named : <<a, b>> = <<a>> \o <<b>>
  /\ \A a, b, c \in Named : <<a, b, c>> = <<a, b>> \o <<c>>
  /\ \A a, b, c, d \in Named : <<a, b, c, d>> = <<a, b, c>> \o <<d>>
  /\ \A a, b, c, d, e \in Named : <<a, b, c, d, e>> = <<a, b, c, d>> \o <<e>>
<1>1. ASSUME NEW a \in Named, NEW b \in Named PROVE <<a, b>> = <<a>> \o <<b>>
  <2> DEFINE s == <<a>>
             t == <<b>>
             r == <<a, b>>
  <2>1. /\ s \in Seq(Named) /\ t \in Seq(Named) /\ r \in Seq(Named) /\ Len(r) = Len(s) + Len(t)
        /\ \A i \in 1..Len(r) : r[i] = IF i <= Len(s) THEN s[i] ELSE t[i - Len(s)]
    OBVIOUS
  <2> HIDE DEF s, t, r
  <2>2. s \o t = r
    BY <2>1, Joined
  <2> QED
    BY <2>2 DEF s, t, r
<1>2. ASSUME NEW a \in Named, NEW b \in Named, NEW c \in Named PROVE <<a, b, c>> = <<a, b>> \o <<c>>
  <2> DEFINE s == <<a, b>>
             t == <<c>>
             r == <<a, b, c>>
  <2>1. /\ s \in Seq(Named) /\ t \in Seq(Named) /\ r \in Seq(Named) /\ Len(r) = Len(s) + Len(t)
        /\ \A i \in 1..Len(r) : r[i] = IF i <= Len(s) THEN s[i] ELSE t[i - Len(s)]
    OBVIOUS
  <2> HIDE DEF s, t, r
  <2>2. s \o t = r
    BY <2>1, Joined
  <2> QED
    BY <2>2 DEF s, t, r
<1>3. ASSUME NEW a \in Named, NEW b \in Named, NEW c \in Named, NEW d \in Named PROVE <<a, b, c, d>> = <<a, b, c>> \o <<d>>
  <2> DEFINE s == <<a, b, c>>
             t == <<d>>
             r == <<a, b, c, d>>
  <2>1. /\ s \in Seq(Named) /\ t \in Seq(Named) /\ r \in Seq(Named) /\ Len(r) = Len(s) + Len(t)
        /\ \A i \in 1..Len(r) : r[i] = IF i <= Len(s) THEN s[i] ELSE t[i - Len(s)]
    OBVIOUS
  <2> HIDE DEF s, t, r
  <2>2. s \o t = r
    BY <2>1, Joined
  <2> QED
    BY <2>2 DEF s, t, r
<1>4. ASSUME NEW a \in Named, NEW b \in Named, NEW c \in Named, NEW d \in Named, NEW e \in Named PROVE <<a, b, c, d, e>> = <<a, b, c, d>> \o <<e>>
  <2> DEFINE s == <<a, b, c, d>>
             t == <<e>>
             r == <<a, b, c, d, e>>
  <2>1. /\ s \in Seq(Named) /\ t \in Seq(Named) /\ r \in Seq(Named) /\ Len(r) = Len(s) + Len(t)
        /\ \A i \in 1..Len(r) : r[i] = IF i <= Len(s) THEN s[i] ELSE t[i - Len(s)]
    OBVIOUS
  <2> HIDE DEF s, t, r
  <2>2. s \o t = r
    BY <2>1, Joined
  <2> QED
    BY <2>2 DEF s, t, r
<1> QED
  BY <1>1, <1>2, <1>3, <1>4

(* A few checks, one after the other.                                      *)
LEMMA SaysTwo ==
  ASSUME NEW a \in Named, NEW b \in Named, NEW r, r = <<a, b>>, NEW F
  PROVE  /\ r \in Seq(Named) /\ Range(r) = {a, b}
         /\ Verdict(r, F) = IF a \in F THEN KindOf(a) ELSE IF b \in F THEN KindOf(b) ELSE "ok"
<1>0. \A x \in Named : KindOf(x) # "ok"
  BY KindsAre
<1> DEFINE s1 == <<a>>
<1>1. s1 \in Seq(Named) /\ Range(s1) = {a} /\ Verdict(s1, F) = IF a \in F THEN KindOf(a) ELSE "ok"
  BY SaysOne
<1> DEFINE s2 == <<a, b>>
<1>2. s2 = s1 \o <<b>>
  BY Literals
<1> HIDE DEF s1
<1>3. /\ s2 \in Seq(Named) /\ Range(s2) = {a, b}
      /\ Verdict(s2, F) = IF a \in F THEN KindOf(a) ELSE IF b \in F THEN KindOf(b) ELSE "ok"
  <2> DEFINE t == <<b>>
  <2>1. t \in Seq(Named) /\ Range(t) = {b} /\ Verdict(t, F) = IF b \in F THEN KindOf(b) ELSE "ok"
    BY SaysOne
  <2>2. s2 = s1 \o t
    BY <1>2
  <2> HIDE DEF t, s2
  <2>3. s2 \in Seq(Named) /\ Range(s2) = Range(s1) \cup {b}
    BY ZenonT(60), <1>1, <2>1, <2>2, SaysThen
  <2>4. Verdict(s2, F) = IF Verdict(s1, F) = "ok" THEN Verdict(t, F) ELSE Verdict(s1, F)
    BY <1>1, <2>1, <2>2, SaysThen
  <2> QED
    BY <1>0, <1>1, <2>1, <2>3, <2>4
<1> QED
  BY <1>3 DEF s2

(* Three checks.                                                           *)
LEMMA SaysThree ==
  ASSUME NEW a \in Named, NEW b \in Named, NEW c \in Named, NEW r, r = <<a, b, c>>, NEW F
  PROVE  /\ r \in Seq(Named) /\ Range(r) = {a, b, c}
         /\ Verdict(r, F) = IF a \in F THEN KindOf(a) ELSE IF b \in F THEN KindOf(b) ELSE IF c \in F THEN KindOf(c) ELSE "ok"
<1>0. \A x \in Named : KindOf(x) # "ok"
  BY KindsAre
<1> DEFINE s1 == <<a>>
<1>1. s1 \in Seq(Named) /\ Range(s1) = {a} /\ Verdict(s1, F) = IF a \in F THEN KindOf(a) ELSE "ok"
  BY SaysOne
<1> DEFINE s2 == <<a, b>>
<1>2. s2 = s1 \o <<b>>
  BY Literals
<1> HIDE DEF s1
<1>3. /\ s2 \in Seq(Named) /\ Range(s2) = {a, b}
      /\ Verdict(s2, F) = IF a \in F THEN KindOf(a) ELSE IF b \in F THEN KindOf(b) ELSE "ok"
  <2> DEFINE t == <<b>>
  <2>1. t \in Seq(Named) /\ Range(t) = {b} /\ Verdict(t, F) = IF b \in F THEN KindOf(b) ELSE "ok"
    BY SaysOne
  <2>2. s2 = s1 \o t
    BY <1>2
  <2> HIDE DEF t, s2
  <2>3. s2 \in Seq(Named) /\ Range(s2) = Range(s1) \cup {b}
    BY <1>1, <2>1, <2>2, SaysThen
  <2>4. Verdict(s2, F) = IF Verdict(s1, F) = "ok" THEN Verdict(t, F) ELSE Verdict(s1, F)
    BY <1>1, <2>1, <2>2, SaysThen
  <2> QED
    BY <1>0, <1>1, <2>1, <2>3, <2>4
<1> DEFINE s3 == <<a, b, c>>
<1>4. s3 = s2 \o <<c>>
  BY SMTT(30), Literals
<1> HIDE DEF s2
<1>5. /\ s3 \in Seq(Named) /\ Range(s3) = {a, b, c}
      /\ Verdict(s3, F) = IF a \in F THEN KindOf(a) ELSE IF b \in F THEN KindOf(b) ELSE IF c \in F THEN KindOf(c) ELSE "ok"
  <2> DEFINE t == <<c>>
  <2>1. t \in Seq(Named) /\ Range(t) = {c} /\ Verdict(t, F) = IF c \in F THEN KindOf(c) ELSE "ok"
    BY SaysOne
  <2>2. s3 = s2 \o t
    BY <1>4
  <2> HIDE DEF t, s3
  <2>3. s3 \in Seq(Named) /\ Range(s3) = Range(s2) \cup {c}
    BY <1>3, <2>1, <2>2, SaysThen
  <2>4. Verdict(s3, F) = IF Verdict(s2, F) = "ok" THEN Verdict(t, F) ELSE Verdict(s2, F)
    BY <1>3, <2>1, <2>2, SaysThen
  <2> QED
    BY <1>0, <1>3, <2>1, <2>3, <2>4
<1> QED
  BY <1>5 DEF s3

(* Five checks.                                                            *)
LEMMA SaysFive ==
  ASSUME NEW a \in Named, NEW b \in Named, NEW c \in Named, NEW d \in Named, NEW e \in Named, NEW r, r = <<a, b, c, d, e>>, NEW F
  PROVE  /\ r \in Seq(Named) /\ Range(r) = {a, b, c, d, e}
         /\ Verdict(r, F) = IF a \in F THEN KindOf(a) ELSE IF b \in F THEN KindOf(b) ELSE IF c \in F THEN KindOf(c) ELSE IF d \in F THEN KindOf(d) ELSE IF e \in F THEN KindOf(e) ELSE "ok"
<1>0. \A x \in Named : KindOf(x) # "ok"
  BY KindsAre
<1> DEFINE s1 == <<a>>
<1>1. s1 \in Seq(Named) /\ Range(s1) = {a} /\ Verdict(s1, F) = IF a \in F THEN KindOf(a) ELSE "ok"
  BY SaysOne
<1> DEFINE s2 == <<a, b>>
<1>2. s2 = s1 \o <<b>>
  BY Literals
<1> HIDE DEF s1
<1>3. /\ s2 \in Seq(Named) /\ Range(s2) = {a, b}
      /\ Verdict(s2, F) = IF a \in F THEN KindOf(a) ELSE IF b \in F THEN KindOf(b) ELSE "ok"
  <2> DEFINE t == <<b>>
  <2>1. t \in Seq(Named) /\ Range(t) = {b} /\ Verdict(t, F) = IF b \in F THEN KindOf(b) ELSE "ok"
    BY SaysOne
  <2>2. s2 = s1 \o t
    BY <1>2
  <2> HIDE DEF t, s2
  <2>3. s2 \in Seq(Named) /\ Range(s2) = Range(s1) \cup {b}
    BY ZenonT(60), <1>1, <2>1, <2>2, SaysThen
  <2>4. Verdict(s2, F) = IF Verdict(s1, F) = "ok" THEN Verdict(t, F) ELSE Verdict(s1, F)
    BY <1>1, <2>1, <2>2, SaysThen
  <2> QED
    BY <1>0, <1>1, <2>1, <2>3, <2>4
<1> DEFINE s3 == <<a, b, c>>
<1>4. s3 = s2 \o <<c>>
  BY Literals
<1> HIDE DEF s2
<1>5. /\ s3 \in Seq(Named) /\ Range(s3) = {a, b, c}
      /\ Verdict(s3, F) = IF a \in F THEN KindOf(a) ELSE IF b \in F THEN KindOf(b) ELSE IF c \in F THEN KindOf(c) ELSE "ok"
  <2> DEFINE t == <<c>>
  <2>1. t \in Seq(Named) /\ Range(t) = {c} /\ Verdict(t, F) = IF c \in F THEN KindOf(c) ELSE "ok"
    BY SaysOne
  <2>2. s3 = s2 \o t
    BY <1>4
  <2> HIDE DEF t, s3
  <2>3. s3 \in Seq(Named) /\ Range(s3) = Range(s2) \cup {c}
    BY ZenonT(60), <1>3, <2>1, <2>2, SaysThen
  <2>4. Verdict(s3, F) = IF Verdict(s2, F) = "ok" THEN Verdict(t, F) ELSE Verdict(s2, F)
    BY <1>3, <2>1, <2>2, SaysThen
  <2> QED
    BY <1>0, <1>3, <2>1, <2>3, <2>4
<1> DEFINE s4 == <<a, b, c, d>>
<1>6. s4 = s3 \o <<d>>
  BY Literals
<1> HIDE DEF s3
<1>7. /\ s4 \in Seq(Named) /\ Range(s4) = {a, b, c, d}
      /\ Verdict(s4, F) = IF a \in F THEN KindOf(a) ELSE IF b \in F THEN KindOf(b) ELSE IF c \in F THEN KindOf(c) ELSE IF d \in F THEN KindOf(d) ELSE "ok"
  <2> DEFINE t == <<d>>
  <2>1. t \in Seq(Named) /\ Range(t) = {d} /\ Verdict(t, F) = IF d \in F THEN KindOf(d) ELSE "ok"
    BY SaysOne
  <2>2. s4 = s3 \o t
    BY <1>6
  <2> HIDE DEF t, s4
  <2>3. s4 \in Seq(Named) /\ Range(s4) = Range(s3) \cup {d}
    BY ZenonT(60), <1>5, <2>1, <2>2, SaysThen
  <2>4. Verdict(s4, F) = IF Verdict(s3, F) = "ok" THEN Verdict(t, F) ELSE Verdict(s3, F)
    BY <1>5, <2>1, <2>2, SaysThen
  <2> QED
    BY <1>0, <1>5, <2>1, <2>3, <2>4
<1> DEFINE s5 == <<a, b, c, d, e>>
<1>8. s5 = s4 \o <<e>>
  BY Literals
<1> HIDE DEF s4
<1>9. /\ s5 \in Seq(Named) /\ Range(s5) = {a, b, c, d, e}
      /\ Verdict(s5, F) = IF a \in F THEN KindOf(a) ELSE IF b \in F THEN KindOf(b) ELSE IF c \in F THEN KindOf(c) ELSE IF d \in F THEN KindOf(d) ELSE IF e \in F THEN KindOf(e) ELSE "ok"
  <2> DEFINE t == <<e>>
  <2>1. t \in Seq(Named) /\ Range(t) = {e} /\ Verdict(t, F) = IF e \in F THEN KindOf(e) ELSE "ok"
    BY SaysOne
  <2>2. s5 = s4 \o t
    BY <1>8
  <2> HIDE DEF t, s5
  <2>3. s5 \in Seq(Named) /\ Range(s5) = Range(s4) \cup {e}
    BY ZenonT(60), <1>7, <2>1, <2>2, SaysThen
  <2>4. Verdict(s5, F) = IF Verdict(s4, F) = "ok" THEN Verdict(t, F) ELSE Verdict(s4, F)
    BY <1>7, <2>1, <2>2, SaysThen
  <2> QED
    BY <1>0, <1>7, <2>1, <2>3, <2>4
<1> QED
  BY <1>9 DEF s5

(* Checks that are no fault of the server.                                 *)
LEMMA QuietChecks ==
  ASSUME NEW s \in Seq(Named), NEW F, Range(s) \cap {"room", "reads", "opens", "intact"} = {}
  PROVE  Verdict(s, F) \notin Faults
<1>1. "ok" \notin Faults
  BY DEF Faults
<1>2. ASSUME NEW k \in 1..Len(s) PROVE KindOf(s[k]) \notin Faults
  <2>1. s[k] \in Named /\ s[k] \in Range(s)
    BY DEF Range
  <2>2. s[k] \notin {"room", "reads", "opens", "intact"}
    BY <2>1
  <2> QED
    BY <2>1, <2>2, KindsAre
<1> QED
  BY <1>1, <1>2, SaysIs

(* What of a map can fail: the file was not there before it could not be   *)
(* read, and what has been read opens.                                     *)
Opening(F) == ("reads" \in F => "stored" \in F) /\ {"opens", "asked"} \cap F = {}

(* What the builders both doors call can answer: only a damaged chunk is   *)
(* the server's fault.                                                     *)
LEMMA BuildersSay ==
  ASSUME NEW F, Opening(F)
  PROVE  /\ \A s \in {Lookup, OpenMap, MetadataDto, GridDto, Section, PrmSection, AddImage, ApplyEdit,
                      Finished, ResultOf} : s \in Seq(Named) /\ Verdict(s, F) \notin Faults
         /\ ChunkDto \in Seq(Named)
<1> DEFINE Loud == {"room", "reads", "opens", "intact"}
<1>1. Lookup \in Seq(Named) /\ Verdict(Lookup, F) \notin Faults
  <2>1. {"stored", "reads", "loads"} \in SUBSET Named
    BY DEF Named
  <2>2. Lookup \in Seq(Named)
    BY <2>1, SaysThree DEF Lookup
  <2>3. Verdict(Lookup, F) \in {"ok", KindOf("stored"), KindOf("loads")}
    <3>1. Verdict(Lookup, F) = IF "stored" \in F THEN KindOf("stored")
                            ELSE IF "reads" \in F THEN KindOf("reads")
                            ELSE IF "loads" \in F THEN KindOf("loads") ELSE "ok"
      BY <2>1, SaysThree DEF Lookup
    <3> QED
      BY <3>1 DEF Opening
  <2> QED
    BY <2>2, <2>3 DEF KindOf, Faults
<1>2. OpenMap \in Seq(Named) /\ Verdict(OpenMap, F) \notin Faults
  <2>1. "opens" \in Named
    BY DEF Named
  <2>2. <<"opens">> \in Seq(Named) /\ Verdict(<<"opens">>, F) = "ok"
    BY <2>1, SaysOne DEF Opening
  <2> DEFINE t == <<"opens">>
  <2>3. OpenMap = Lookup \o t
    BY DEF OpenMap
  <2>4. t \in Seq(Named) /\ Verdict(t, F) = "ok"
    BY <2>2
  <2> HIDE DEF t
  <2> QED
    BY <1>1, <2>3, <2>4, SaysThen
<1>3. MetadataDto \in Seq(Named) /\ Verdict(MetadataDto, F) \notin Faults
  <2>1. {"readable"} \in SUBSET Named
    BY DEF Named
  <2>2. MetadataDto \in Seq(Named) /\ Range(MetadataDto) = {"readable"}
    BY <2>1, SaysOne DEF MetadataDto
  <2> QED
    BY <2>2, QuietChecks
<1>4. GridDto \in Seq(Named) /\ Verdict(GridDto, F) \notin Faults
  <2>1. {"layer"} \in SUBSET Named
    BY DEF Named
  <2>2. GridDto \in Seq(Named) /\ Range(GridDto) = {"layer"}
    BY <2>1, SaysOne DEF GridDto
  <2> QED
    BY <2>2, QuietChecks
<1>5. Section \in Seq(Named) /\ Verdict(Section, F) \notin Faults
  BY <1>3 DEF Section, MetadataDto
<1>6. PrmSection \in Seq(Named) /\ Verdict(PrmSection, F) \notin Faults
  <2>1. {"fresh", "batch", "readable"} \in SUBSET Named
    BY DEF Named
  <2>2. PrmSection \in Seq(Named) /\ Range(PrmSection) = {"fresh", "batch", "readable"}
    BY <2>1, SaysThree DEF PrmSection
  <2> QED
    BY <2>2, QuietChecks
<1>7. AddImage \in Seq(Named) /\ Verdict(AddImage, F) \notin Faults
  <2>1. {"empty", "image"} \in SUBSET Named
    BY DEF Named
  <2>2. AddImage \in Seq(Named) /\ Range(AddImage) = {"empty", "image"}
    BY <2>1, SaysTwo DEF AddImage
  <2> QED
    BY <2>2, QuietChecks
<1>8. ApplyEdit \in Seq(Named) /\ Verdict(ApplyEdit, F) \notin Faults
  <2>1. {"image", "script", "patchable"} \in SUBSET Named
    BY DEF Named
  <2>2. ApplyEdit \in Seq(Named) /\ Range(ApplyEdit) = {"image", "script", "patchable"}
    BY <2>1, SaysThree DEF ApplyEdit
  <2> QED
    BY <2>2, QuietChecks
<1>9. Finished \in Seq(Named) /\ Verdict(Finished, F) \notin Faults
  <2>1. {"ended", "kept"} \in SUBSET Named
    BY DEF Named
  <2>2. Finished \in Seq(Named) /\ Range(Finished) = {"ended", "kept"}
    BY <2>1, SaysTwo DEF Finished
  <2> QED
    BY <2>2, QuietChecks
<1>10. ResultOf \in Seq(Named) /\ Verdict(ResultOf, F) \notin Faults
  <2>1. {"ended", "held", "paged"} \in SUBSET Named
    BY DEF Named
  <2>2. ResultOf \in Seq(Named) /\ Range(ResultOf) = {"ended", "held", "paged"}
    BY <2>1, SaysThree DEF ResultOf
  <2> QED
    BY <2>2, QuietChecks
<1>11. ChunkDto \in Seq(Named)
  <2>1. {"layer", "cells", "fresh", "intact", "chunk"} \in SUBSET Named
    BY DEF Named
  <2> QED
    BY <2>1, SaysFive DEF ChunkDto
<1> QED
  BY <1>1, <1>2, <1>3, <1>4, <1>5, <1>6, <1>7, <1>8, <1>9, <1>10, <1>11

(* The doors of a call are alike, for a set of failing checks: they say    *)
(* the same of a request that can be made at either, unless it is parsed   *)
(* late; and then too the one refuses it, and blames the server, when the  *)
(* other does.                                                             *)
Alike(op, F) ==
  /\ Http(op) \in Seq(Named) /\ Rpc(op) \in Seq(Named)
  /\ Comparable(op, F) =>
       /\ Verdict(Http(op), F) = Verdict(Rpc(op), F) \/ ParsedLate(op, F)
       /\ Verdict(Http(op), F) = "ok" <=> Verdict(Rpc(op), F) = "ok"
       /\ Verdict(Http(op), F) \in Faults <=> Verdict(Rpc(op), F) \in Faults

(* What cannot be wrong with a request that can be made at either door.    *)
LEMMA WhatIsCompared ==
  ASSUME NEW op, NEW F, Comparable(op, F)
  PROVE  /\ "query" \notin F /\ "format" \notin F /\ ("empty" \in F => "image" \in F)
         /\ op # "import" => "size" \notin F
         /\ op \notin {"grid", "chunk", "edit", "submit", "plan", "build"} => "shape" \notin F
<1>1. F \cap Peculiar(op) = {} /\ ("empty" \in F => "image" \in F)
  BY DEF Comparable
<1>2. "query" \in Peculiar(op) /\ "format" \in Peculiar(op)
  BY DEF Peculiar
<1>3. op # "import" => "size" \in Peculiar(op)
  BY DEF Peculiar
<1>4. op \notin {"grid", "chunk", "edit", "submit", "plan", "build"} => "shape" \in Peculiar(op)
  BY DEF Peculiar, Parsed
<1> QED
  BY <1>1, <1>2, <1>3, <1>4

(* Checks that are no fault of the server, alone and one after the other.  *)
Quiet == {"shape", "values", "empty", "image", "query", "format", "channel", "size", "known", "listed", "live"}
Then(s, t) == s \o t
One(a) == <<a>>
Two(a, b) == <<a, b>>
Three(a, b, c) == <<a, b, c>>

(* A check by itself.                                                      *)
LEMMA OneSays ==
  ASSUME NEW a \in Named, NEW F
  PROVE  /\ One(a) \in Seq(Named) /\ (a \in Quiet => Verdict(One(a), F) \notin Faults)
         /\ Verdict(One(a), F) = IF a \in F THEN KindOf(a) ELSE "ok"
<1>1. One(a) \in Seq(Named) /\ Range(One(a)) = {a}
  BY SaysOne DEF One
<1>2. a \in Quiet => Range(One(a)) \cap {"room", "reads", "opens", "intact"} = {}
  BY <1>1 DEF Quiet
<1>3. a \in Quiet => Verdict(One(a), F) \notin Faults
  BY <1>1, <1>2, QuietChecks
<1>4. Verdict(One(a), F) = IF a \in F THEN KindOf(a) ELSE "ok"
  BY SaysOne DEF One
<1> QED
  BY <1>1, <1>3, <1>4

(* Two in a row.                                                           *)
LEMMA TwoSay ==
  ASSUME NEW a \in Named, NEW b \in Named, NEW F
  PROVE  /\ Two(a, b) \in Seq(Named) /\ ({a, b} \in SUBSET Quiet => Verdict(Two(a, b), F) \notin Faults)
         /\ Verdict(Two(a, b), F) = IF a \in F THEN KindOf(a) ELSE IF b \in F THEN KindOf(b) ELSE "ok"
<1> DEFINE s == Two(a, b)
<1>1. s = <<a, b>>
  BY DEF Two
<1> HIDE DEF s
<1>2. s \in Seq(Named) /\ Range(s) = {a, b}
  BY <1>1, SaysTwo
<1>3. Verdict(s, F) = IF a \in F THEN KindOf(a) ELSE IF b \in F THEN KindOf(b) ELSE "ok"
  BY <1>1, SaysTwo
<1>4. {a, b} \in SUBSET Quiet => Range(s) \cap {"room", "reads", "opens", "intact"} = {}
  BY <1>2 DEF Quiet
<1>5. {a, b} \in SUBSET Quiet => Verdict(s, F) \notin Faults
  BY <1>2, <1>4, QuietChecks
<1> QED
  BY <1>2, <1>3, <1>5 DEF s

(* Three in a row.                                                         *)
LEMMA ThreeSay ==
  ASSUME NEW a \in Named, NEW b \in Named, NEW c \in Named, NEW F
  PROVE  /\ Three(a, b, c) \in Seq(Named)
         /\ {a, b, c} \in SUBSET Quiet => Verdict(Three(a, b, c), F) \notin Faults
         /\ Verdict(Three(a, b, c), F) = IF a \in F THEN KindOf(a) ELSE IF b \in F THEN KindOf(b)
                                      ELSE IF c \in F THEN KindOf(c) ELSE "ok"
<1> DEFINE s == Three(a, b, c)
<1>1. s = <<a, b, c>>
  BY DEF Three
<1> HIDE DEF s
<1>2. s \in Seq(Named) /\ Range(s) = {a, b, c}
  BY <1>1, SaysThree
<1>3. Verdict(s, F) = IF a \in F THEN KindOf(a) ELSE IF b \in F THEN KindOf(b)
                   ELSE IF c \in F THEN KindOf(c) ELSE "ok"
  BY <1>1, SaysThree
<1>4. {a, b, c} \in SUBSET Quiet => Range(s) \cap {"room", "reads", "opens", "intact"} = {}
  BY <1>2 DEF Quiet
<1>5. {a, b, c} \in SUBSET Quiet => Verdict(s, F) \notin Faults
  BY <1>2, <1>4, QuietChecks
<1> QED
  BY <1>2, <1>3, <1>5 DEF s

(* One sequence after another.                                             *)
LEMMA ThenSays ==
  ASSUME NEW s \in Seq(Named), NEW t \in Seq(Named), NEW F
  PROVE  /\ Then(s, t) \in Seq(Named)
         /\ Verdict(Then(s, t), F) = IF Verdict(s, F) = "ok" THEN Verdict(t, F) ELSE Verdict(s, F)
         /\ Range(Then(s, t)) = Range(s) \cup Range(t)
BY SaysThen DEF Then

(* What is answered by which check, as far as it is compared below.        *)
LEMMA Answers ==
  /\ {"shape", "values", "empty", "image", "query", "format", "channel", "size", "known", "listed", "live", "room",
      "opens", "ended", "kept", "stored", "reads", "loads"} \in SUBSET Named
  /\ {"shape", "values", "empty", "image", "query", "format", "channel", "size"} \in SUBSET Flaws
  /\ {"stored", "reads", "loads", "room"} \cap Flaws = {}
  /\ "ok" \notin Faults
<1>2. {"shape", "values", "empty", "image", "query", "format", "channel", "size", "known", "listed", "live", "room",
      "opens", "ended", "kept", "stored", "reads", "loads"} \in SUBSET Named
  BY DEF Named
<1> QED
  BY <1>2 DEF Flaws, Faults

(* The doors that ask for nothing of which the server can be to blame.     *)
LEMMA QuietDoors ==
  ASSUME NEW F, Opening(F), NEW op \in Shared \ {"chunk", "submit", "plan", "build"}
  PROVE  Alike(op, F)
<1>1. ASSUME NEW h \in Seq(Named), NEW r \in Seq(Named), Verdict(h, F) \notin Faults, Verdict(r, F) \notin Faults,
             Http(op) = h, Rpc(op) = r,
             Comparable(op, F) => (Verdict(h, F) = Verdict(r, F) \/ ParsedLate(op, F)),
             Comparable(op, F) => (Verdict(h, F) = "ok" <=> Verdict(r, F) = "ok")
      PROVE  Alike(op, F)
  BY <1>1 DEF Alike
<1>2. CASE op = "metadata"
  <2>1. Http(op) = Then(Then(One("shape"), OpenMap), MetadataDto)
    BY <1>2, Zenon DEF Http, HttpMetadata, RpcMetadata, One, Then
  <2>2. Rpc(op) = Then(OpenMap, MetadataDto)
    BY <1>2, Zenon DEF Rpc, HttpMetadata, RpcMetadata, One, Then
  <2>3. /\ One("shape") \in Seq(Named) /\ Verdict(One("shape"), F) \notin Faults
        /\ Verdict(One("shape"), F) = IF "shape" \in F THEN KindOf("shape") ELSE "ok"
    <3>1. "shape" \in Quiet /\ "shape" \in Named
      BY DEF Quiet, Named
    <3> QED
      BY <3>1, OneSays
  <2>4. OpenMap \in Seq(Named) /\ Verdict(OpenMap, F) \notin Faults
    BY BuildersSay
  <2>5. MetadataDto \in Seq(Named) /\ Verdict(MetadataDto, F) \notin Faults
    BY BuildersSay
  <2>6. /\ Then(One("shape"), OpenMap) \in Seq(Named) /\ Verdict(Then(One("shape"), OpenMap), F) \notin Faults
        /\ Verdict(Then(One("shape"), OpenMap), F) = IF Verdict(One("shape"), F) = "ok" THEN Verdict(OpenMap, F) ELSE Verdict(One("shape"), F)
    BY <2>3, <2>4, ThenSays
  <2>7. /\ Then(Then(One("shape"), OpenMap), MetadataDto) \in Seq(Named) /\ Verdict(Then(Then(One("shape"), OpenMap), MetadataDto), F) \notin Faults
        /\ Verdict(Then(Then(One("shape"), OpenMap), MetadataDto), F) = IF Verdict(Then(One("shape"), OpenMap), F) = "ok" THEN Verdict(MetadataDto, F) ELSE Verdict(Then(One("shape"), OpenMap), F)
    BY <2>6, <2>5, ThenSays
  <2>8. /\ Then(OpenMap, MetadataDto) \in Seq(Named) /\ Verdict(Then(OpenMap, MetadataDto), F) \notin Faults
        /\ Verdict(Then(OpenMap, MetadataDto), F) = IF Verdict(OpenMap, F) = "ok" THEN Verdict(MetadataDto, F) ELSE Verdict(OpenMap, F)
    BY <2>4, <2>5, ThenSays
  <2>9. Comparable(op, F) => Verdict(Http(op), F) = Verdict(Rpc(op), F)
    BY <2>1, <2>2, <2>3, <2>4, <2>5, <2>6, <2>7, <2>8, Answers, <1>2, WhatIsCompared
  <2> QED
    BY <1>1, <2>1, <2>2, <2>7, <2>8, <2>9
<1>3. CASE op = "remove"
  <2>1. Http(op) = Two("shape", "listed")
    BY <1>3, Zenon DEF Http, HttpRemove, RpcRemove, One, Two
  <2>2. Rpc(op) = One("listed")
    BY <1>3, Zenon DEF Rpc, HttpRemove, RpcRemove, One, Two
  <2>3. /\ Two("shape", "listed") \in Seq(Named) /\ Verdict(Two("shape", "listed"), F) \notin Faults
        /\ Verdict(Two("shape", "listed"), F) = IF "shape" \in F THEN KindOf("shape") ELSE IF "listed" \in F THEN KindOf("listed") ELSE "ok"
    <3>1. "shape" \in Quiet /\ "shape" \in Named /\ "listed" \in Quiet /\ "listed" \in Named
      BY DEF Quiet, Named
    <3> QED
      BY <3>1, TwoSay
  <2>4. /\ One("listed") \in Seq(Named) /\ Verdict(One("listed"), F) \notin Faults
        /\ Verdict(One("listed"), F) = IF "listed" \in F THEN KindOf("listed") ELSE "ok"
    <3>1. "listed" \in Quiet /\ "listed" \in Named
      BY DEF Quiet, Named
    <3> QED
      BY <3>1, OneSays
  <2>5. Comparable(op, F) => Verdict(Http(op), F) = Verdict(Rpc(op), F)
    BY <2>1, <2>2, <2>3, <2>4, Answers, <1>3, WhatIsCompared
  <2> QED
    BY <1>1, <2>1, <2>2, <2>3, <2>4, <2>5
<1>4. CASE op = "grid"
  <2>1. Http(op) = Then(Then(One("shape"), OpenMap), GridDto)
    BY <1>4, Zenon DEF Http, HttpGrid, RpcGrid, One, Then
  <2>2. Rpc(op) = Then(Then(OpenMap, One("shape")), GridDto)
    BY <1>4, Zenon DEF Rpc, HttpGrid, RpcGrid, One, Then
  <2>3. /\ One("shape") \in Seq(Named) /\ Verdict(One("shape"), F) \notin Faults
        /\ Verdict(One("shape"), F) = IF "shape" \in F THEN KindOf("shape") ELSE "ok"
    <3>1. "shape" \in Quiet /\ "shape" \in Named
      BY DEF Quiet, Named
    <3> QED
      BY <3>1, OneSays
  <2>4. OpenMap \in Seq(Named) /\ Verdict(OpenMap, F) \notin Faults
    BY BuildersSay
  <2>5. GridDto \in Seq(Named) /\ Verdict(GridDto, F) \notin Faults
    BY BuildersSay
  <2>6. /\ Then(One("shape"), OpenMap) \in Seq(Named) /\ Verdict(Then(One("shape"), OpenMap), F) \notin Faults
        /\ Verdict(Then(One("shape"), OpenMap), F) = IF Verdict(One("shape"), F) = "ok" THEN Verdict(OpenMap, F) ELSE Verdict(One("shape"), F)
    BY <2>3, <2>4, ThenSays
  <2>7. /\ Then(Then(One("shape"), OpenMap), GridDto) \in Seq(Named) /\ Verdict(Then(Then(One("shape"), OpenMap), GridDto), F) \notin Faults
        /\ Verdict(Then(Then(One("shape"), OpenMap), GridDto), F) = IF Verdict(Then(One("shape"), OpenMap), F) = "ok" THEN Verdict(GridDto, F) ELSE Verdict(Then(One("shape"), OpenMap), F)
    BY <2>6, <2>5, ThenSays
  <2>8. /\ Then(OpenMap, One("shape")) \in Seq(Named) /\ Verdict(Then(OpenMap, One("shape")), F) \notin Faults
        /\ Verdict(Then(OpenMap, One("shape")), F) = IF Verdict(OpenMap, F) = "ok" THEN Verdict(One("shape"), F) ELSE Verdict(OpenMap, F)
    BY <2>4, <2>3, ThenSays
  <2>9. /\ Then(Then(OpenMap, One("shape")), GridDto) \in Seq(Named) /\ Verdict(Then(Then(OpenMap, One("shape")), GridDto), F) \notin Faults
        /\ Verdict(Then(Then(OpenMap, One("shape")), GridDto), F) = IF Verdict(Then(OpenMap, One("shape")), F) = "ok" THEN Verdict(GridDto, F) ELSE Verdict(Then(OpenMap, One("shape")), F)
    BY <2>8, <2>5, ThenSays
  <2>10. Comparable(op, F) => (Verdict(Http(op), F) = Verdict(Rpc(op), F) \/ ParsedLate(op, F))
    <3>1. "shape" \in F => ParsedLate(op, F)
      BY <1>4 DEF ParsedLate
    <3>2. "shape" \notin F => Verdict(Http(op), F) = Verdict(Rpc(op), F)
      BY <2>1, <2>2, <2>3, <2>4, <2>5, <2>6, <2>7, <2>8, <2>9
    <3> QED
      BY <3>1, <3>2
  <2>11. Verdict(Http(op), F) = "ok" <=> Verdict(Rpc(op), F) = "ok"
    <3>1. KindOf("shape") # "ok"
      BY DEF KindOf
    <3> QED
      BY <2>1, <2>2, <2>3, <2>4, <2>5, <2>6, <2>7, <2>8, <2>9, <3>1
  <2> QED
    BY <1>1, <2>1, <2>2, <2>7, <2>9, <2>10, <2>11
<1>5. CASE op = "section"
  <2>1. Http(op) = Then(Then(One("shape"), OpenMap), Section)
    BY <1>5, Zenon DEF Http, HttpSection, RpcSection, One, Then
  <2>2. Rpc(op) = Then(OpenMap, Section)
    BY <1>5, Zenon DEF Rpc, HttpSection, RpcSection, One, Then
  <2>3. /\ One("shape") \in Seq(Named) /\ Verdict(One("shape"), F) \notin Faults
        /\ Verdict(One("shape"), F) = IF "shape" \in F THEN KindOf("shape") ELSE "ok"
    <3>1. "shape" \in Quiet /\ "shape" \in Named
      BY DEF Quiet, Named
    <3> QED
      BY <3>1, OneSays
  <2>4. OpenMap \in Seq(Named) /\ Verdict(OpenMap, F) \notin Faults
    BY BuildersSay
  <2>5. Section \in Seq(Named) /\ Verdict(Section, F) \notin Faults
    BY BuildersSay
  <2>6. /\ Then(One("shape"), OpenMap) \in Seq(Named) /\ Verdict(Then(One("shape"), OpenMap), F) \notin Faults
        /\ Verdict(Then(One("shape"), OpenMap), F) = IF Verdict(One("shape"), F) = "ok" THEN Verdict(OpenMap, F) ELSE Verdict(One("shape"), F)
    BY <2>3, <2>4, ThenSays
  <2>7. /\ Then(Then(One("shape"), OpenMap), Section) \in Seq(Named) /\ Verdict(Then(Then(One("shape"), OpenMap), Section), F) \notin Faults
        /\ Verdict(Then(Then(One("shape"), OpenMap), Section), F) = IF Verdict(Then(One("shape"), OpenMap), F) = "ok" THEN Verdict(Section, F) ELSE Verdict(Then(One("shape"), OpenMap), F)
    BY <2>6, <2>5, ThenSays
  <2>8. /\ Then(OpenMap, Section) \in Seq(Named) /\ Verdict(Then(OpenMap, Section), F) \notin Faults
        /\ Verdict(Then(OpenMap, Section), F) = IF Verdict(OpenMap, F) = "ok" THEN Verdict(Section, F) ELSE Verdict(OpenMap, F)
    BY <2>4, <2>5, ThenSays
  <2>9. Comparable(op, F) => Verdict(Http(op), F) = Verdict(Rpc(op), F)
    BY <2>1, <2>2, <2>3, <2>4, <2>5, <2>6, <2>7, <2>8, Answers, <1>5, WhatIsCompared
  <2> QED
    BY <1>1, <2>1, <2>2, <2>7, <2>8, <2>9
<1>6. CASE op = "roadmap"
  <2>1. Http(op) = Then(Then(One("shape"), OpenMap), PrmSection)
    BY <1>6, Zenon DEF Http, HttpRoadmap, RpcRoadmap, One, Then
  <2>2. Rpc(op) = Then(OpenMap, PrmSection)
    BY <1>6, Zenon DEF Rpc, HttpRoadmap, RpcRoadmap, One, Then
  <2>3. /\ One("shape") \in Seq(Named) /\ Verdict(One("shape"), F) \notin Faults
        /\ Verdict(One("shape"), F) = IF "shape" \in F THEN KindOf("shape") ELSE "ok"
    <3>1. "shape" \in Quiet /\ "shape" \in Named
      BY DEF Quiet, Named
    <3> QED
      BY <3>1, OneSays
  <2>4. OpenMap \in Seq(Named) /\ Verdict(OpenMap, F) \notin Faults
    BY BuildersSay
  <2>5. PrmSection \in Seq(Named) /\ Verdict(PrmSection, F) \notin Faults
    BY BuildersSay
  <2>6. /\ Then(One("shape"), OpenMap) \in Seq(Named) /\ Verdict(Then(One("shape"), OpenMap), F) \notin Faults
        /\ Verdict(Then(One("shape"), OpenMap), F) = IF Verdict(One("shape"), F) = "ok" THEN Verdict(OpenMap, F) ELSE Verdict(One("shape"), F)
    BY <2>3, <2>4, ThenSays
  <2>7. /\ Then(Then(One("shape"), OpenMap), PrmSection) \in Seq(Named) /\ Verdict(Then(Then(One("shape"), OpenMap), PrmSection), F) \notin Faults
        /\ Verdict(Then(Then(One("shape"), OpenMap), PrmSection), F) = IF Verdict(Then(One("shape"), OpenMap), F) = "ok" THEN Verdict(PrmSection, F) ELSE Verdict(Then(One("shape"), OpenMap), F)
    BY <2>6, <2>5, ThenSays
  <2>8. /\ Then(OpenMap, PrmSection) \in Seq(Named) /\ Verdict(Then(OpenMap, PrmSection), F) \notin Faults
        /\ Verdict(Then(OpenMap, PrmSection), F) = IF Verdict(OpenMap, F) = "ok" THEN Verdict(PrmSection, F) ELSE Verdict(OpenMap, F)
    BY <2>4, <2>5, ThenSays
  <2>9. Comparable(op, F) => Verdict(Http(op), F) = Verdict(Rpc(op), F)
    BY <2>1, <2>2, <2>3, <2>4, <2>5, <2>6, <2>7, <2>8, Answers, <1>6, WhatIsCompared
  <2> QED
    BY <1>1, <2>1, <2>2, <2>7, <2>8, <2>9
<1>7. CASE op = "skeleton"
  <2>1. Http(op) = Then(One("shape"), OpenMap)
    BY <1>7, Zenon DEF Http, HttpSkeleton, RpcSkeleton, One, Then
  <2>2. Rpc(op) = OpenMap
    BY <1>7, Zenon DEF Rpc, HttpSkeleton, RpcSkeleton, One, Then
  <2>3. /\ One("shape") \in Seq(Named) /\ Verdict(One("shape"), F) \notin Faults
        /\ Verdict(One("shape"), F) = IF "shape" \in F THEN KindOf("shape") ELSE "ok"
    <3>1. "shape" \in Quiet /\ "shape" \in Named
      BY DEF Quiet, Named
    <3> QED
      BY <3>1, OneSays
  <2>4. OpenMap \in Seq(Named) /\ Verdict(OpenMap, F) \notin Faults
    BY BuildersSay
  <2>5. /\ Then(One("shape"), OpenMap) \in Seq(Named) /\ Verdict(Then(One("shape"), OpenMap), F) \notin Faults
        /\ Verdict(Then(One("shape"), OpenMap), F) = IF Verdict(One("shape"), F) = "ok" THEN Verdict(OpenMap, F) ELSE Verdict(One("shape"), F)
    BY <2>3, <2>4, ThenSays
  <2>6. Comparable(op, F) => Verdict(Http(op), F) = Verdict(Rpc(op), F)
    BY <2>1, <2>2, <2>3, <2>4, <2>5, Answers, <1>7, WhatIsCompared
  <2> QED
    BY <1>1, <2>1, <2>2, <2>5, <2>4, <2>6
<1>8. CASE op = "import"
  <2>1. Http(op) = Then(Two("size", "shape"), AddImage)
    BY <1>8, Zenon DEF Http, HttpImport, RpcImport, One, Then, Two
  <2>2. Rpc(op) = Then(One("size"), AddImage)
    BY <1>8, Zenon DEF Rpc, HttpImport, RpcImport, One, Then, Two
  <2>3. /\ Two("size", "shape") \in Seq(Named) /\ Verdict(Two("size", "shape"), F) \notin Faults
        /\ Verdict(Two("size", "shape"), F) = IF "size" \in F THEN KindOf("size") ELSE IF "shape" \in F THEN KindOf("shape") ELSE "ok"
    <3>1. "size" \in Quiet /\ "size" \in Named /\ "shape" \in Quiet /\ "shape" \in Named
      BY DEF Quiet, Named
    <3> QED
      BY <3>1, TwoSay
  <2>4. AddImage \in Seq(Named) /\ Verdict(AddImage, F) \notin Faults
    BY BuildersSay
  <2>5. /\ One("size") \in Seq(Named) /\ Verdict(One("size"), F) \notin Faults
        /\ Verdict(One("size"), F) = IF "size" \in F THEN KindOf("size") ELSE "ok"
    <3>1. "size" \in Quiet /\ "size" \in Named
      BY DEF Quiet, Named
    <3> QED
      BY <3>1, OneSays
  <2>6. /\ Then(Two("size", "shape"), AddImage) \in Seq(Named) /\ Verdict(Then(Two("size", "shape"), AddImage), F) \notin Faults
        /\ Verdict(Then(Two("size", "shape"), AddImage), F) = IF Verdict(Two("size", "shape"), F) = "ok" THEN Verdict(AddImage, F) ELSE Verdict(Two("size", "shape"), F)
    BY <2>3, <2>4, ThenSays
  <2>7. /\ Then(One("size"), AddImage) \in Seq(Named) /\ Verdict(Then(One("size"), AddImage), F) \notin Faults
        /\ Verdict(Then(One("size"), AddImage), F) = IF Verdict(One("size"), F) = "ok" THEN Verdict(AddImage, F) ELSE Verdict(One("size"), F)
    BY <2>5, <2>4, ThenSays
  <2>8. Comparable(op, F) => Verdict(Http(op), F) = Verdict(Rpc(op), F)
    BY <2>1, <2>2, <2>3, <2>4, <2>5, <2>6, <2>7, Answers, <1>8, WhatIsCompared
  <2> QED
    BY <1>1, <2>1, <2>2, <2>6, <2>7, <2>8
<1>9. CASE op = "inspect"
  <2>1. Http(op) = Three("size", "empty", "image")
    BY <1>9, Zenon DEF Http, HttpInspect, RpcInspect, One, Three
  <2>2. Rpc(op) = One("image")
    BY <1>9, Zenon DEF Rpc, HttpInspect, RpcInspect, One, Three
  <2>3. /\ Three("size", "empty", "image") \in Seq(Named) /\ Verdict(Three("size", "empty", "image"), F) \notin Faults
        /\ Verdict(Three("size", "empty", "image"), F) = IF "size" \in F THEN KindOf("size") ELSE IF "empty" \in F THEN KindOf("empty") ELSE IF "image" \in F THEN KindOf("image") ELSE "ok"
    <3>1. "size" \in Named /\ "empty" \in Named /\ "image" \in Named /\ {"size", "empty", "image"} \in SUBSET Quiet
      BY DEF Quiet, Named
    <3>2. Three("size", "empty", "image") \in Seq(Named)
      BY <3>1, ThreeSay
    <3>3. Verdict(Three("size", "empty", "image"), F) \notin Faults
      BY <3>1, ThreeSay
    <3>4. Verdict(Three("size", "empty", "image"), F) = IF "size" \in F THEN KindOf("size") ELSE IF "empty" \in F THEN KindOf("empty") ELSE IF "image" \in F THEN KindOf("image") ELSE "ok"
      BY <3>1, ThreeSay
    <3> QED
      BY <3>2, <3>3, <3>4
  <2>4. /\ One("image") \in Seq(Named) /\ Verdict(One("image"), F) \notin Faults
        /\ Verdict(One("image"), F) = IF "image" \in F THEN KindOf("image") ELSE "ok"
    <3>1. "image" \in Quiet /\ "image" \in Named
      BY DEF Quiet, Named
    <3> QED
      BY <3>1, OneSays
  <2>5. Comparable(op, F) => Verdict(Http(op), F) = Verdict(Rpc(op), F)
    <3>1. KindOf("empty") = KindOf("image") /\ KindOf("empty") # "ok"
      BY DEF KindOf
    <3> QED
      BY <2>1, <2>2, <2>3, <2>4, <3>1, <1>9, WhatIsCompared
  <2> QED
    BY <1>1, <2>1, <2>2, <2>3, <2>4, <2>5
<1>10. CASE op = "edit"
  <2>1. Http(op) = Then(Three("size", "shape", "empty"), ApplyEdit)
    BY <1>10, Zenon DEF Http, HttpEdit, RpcEdit, One, Then, Three
  <2>2. Rpc(op) = Then(One("shape"), ApplyEdit)
    BY <1>10, Zenon DEF Rpc, HttpEdit, RpcEdit, One, Then, Three
  <2>3. /\ Three("size", "shape", "empty") \in Seq(Named) /\ Verdict(Three("size", "shape", "empty"), F) \notin Faults
        /\ Verdict(Three("size", "shape", "empty"), F) = IF "size" \in F THEN KindOf("size") ELSE IF "shape" \in F THEN KindOf("shape") ELSE IF "empty" \in F THEN KindOf("empty") ELSE "ok"
    <3>1. "size" \in Named /\ "shape" \in Named /\ "empty" \in Named /\ {"size", "shape", "empty"} \in SUBSET Quiet
      BY DEF Quiet, Named
    <3>2. Three("size", "shape", "empty") \in Seq(Named)
      BY <3>1, ThreeSay
    <3>3. Verdict(Three("size", "shape", "empty"), F) \notin Faults
      BY <3>1, ThreeSay
    <3>4. Verdict(Three("size", "shape", "empty"), F) = IF "size" \in F THEN KindOf("size") ELSE IF "shape" \in F THEN KindOf("shape") ELSE IF "empty" \in F THEN KindOf("empty") ELSE "ok"
      BY <3>1, ThreeSay
    <3> QED
      BY <3>2, <3>3, <3>4
  <2>4. ApplyEdit \in Seq(Named) /\ Verdict(ApplyEdit, F) \notin Faults
    BY BuildersSay
  <2>5. /\ One("shape") \in Seq(Named) /\ Verdict(One("shape"), F) \notin Faults
        /\ Verdict(One("shape"), F) = IF "shape" \in F THEN KindOf("shape") ELSE "ok"
    <3>1. "shape" \in Quiet /\ "shape" \in Named
      BY DEF Quiet, Named
    <3> QED
      BY <3>1, OneSays
  <2>6. /\ Then(Three("size", "shape", "empty"), ApplyEdit) \in Seq(Named) /\ Verdict(Then(Three("size", "shape", "empty"), ApplyEdit), F) \notin Faults
        /\ Verdict(Then(Three("size", "shape", "empty"), ApplyEdit), F) = IF Verdict(Three("size", "shape", "empty"), F) = "ok" THEN Verdict(ApplyEdit, F) ELSE Verdict(Three("size", "shape", "empty"), F)
    BY <2>3, <2>4, ThenSays
  <2>7. /\ Then(One("shape"), ApplyEdit) \in Seq(Named) /\ Verdict(Then(One("shape"), ApplyEdit), F) \notin Faults
        /\ Verdict(Then(One("shape"), ApplyEdit), F) = IF Verdict(One("shape"), F) = "ok" THEN Verdict(ApplyEdit, F) ELSE Verdict(One("shape"), F)
    BY <2>5, <2>4, ThenSays
  <2>8. Comparable(op, F) => Verdict(Http(op), F) = Verdict(Rpc(op), F)
    <3>1. KindOf("empty") = KindOf("image") /\ KindOf("empty") # "ok"
      BY DEF KindOf
    <3>2. "image" \in F => Verdict(ApplyEdit, F) = KindOf("image")
      <4>1. {"image", "script", "patchable"} \in SUBSET Named
        BY DEF Named
      <4> QED
        BY <4>1, SaysThree DEF ApplyEdit
    <3> QED
      BY <2>1, <2>2, <2>3, <2>5, <2>6, <2>7, <3>1, <3>2, <1>10, WhatIsCompared
  <2> QED
    BY <1>1, <2>1, <2>2, <2>6, <2>7, <2>8
<1>11. CASE op = "state" \/ op = "ref"
  <2>1. Http(op) = Two("shape", "known")
    BY <1>11, Zenon DEF Http, HttpState, RpcState, One, Two
  <2>2. Rpc(op) = One("known")
    BY <1>11, Zenon DEF Rpc, HttpState, RpcState, One, Two
  <2>3. /\ Two("shape", "known") \in Seq(Named) /\ Verdict(Two("shape", "known"), F) \notin Faults
        /\ Verdict(Two("shape", "known"), F) = IF "shape" \in F THEN KindOf("shape") ELSE IF "known" \in F THEN KindOf("known") ELSE "ok"
    <3>1. "shape" \in Quiet /\ "shape" \in Named /\ "known" \in Quiet /\ "known" \in Named
      BY DEF Quiet, Named
    <3> QED
      BY <3>1, TwoSay
  <2>4. /\ One("known") \in Seq(Named) /\ Verdict(One("known"), F) \notin Faults
        /\ Verdict(One("known"), F) = IF "known" \in F THEN KindOf("known") ELSE "ok"
    <3>1. "known" \in Quiet /\ "known" \in Named
      BY DEF Quiet, Named
    <3> QED
      BY <3>1, OneSays
  <2>5. Comparable(op, F) => Verdict(Http(op), F) = Verdict(Rpc(op), F)
    BY <2>1, <2>2, <2>3, <2>4, Answers, <1>11, WhatIsCompared
  <2> QED
    BY <1>1, <2>1, <2>2, <2>3, <2>4, <2>5
<1>12. CASE op = "cancel"
  <2>1. Http(op) = Then(Two("shape", "known"), CancelTask)
    BY <1>12, Zenon DEF Http, HttpCancel, Then, Two
  <2>2. Rpc(op) = Then(One("known"), CancelTask)
    BY <1>12, Zenon DEF Rpc, RpcCancel, One, Then
  <2>3. /\ Two("shape", "known") \in Seq(Named) /\ Verdict(Two("shape", "known"), F) \notin Faults
        /\ Verdict(Two("shape", "known"), F) = IF "shape" \in F THEN KindOf("shape") ELSE IF "known" \in F THEN KindOf("known") ELSE "ok"
    <3>1. "shape" \in Quiet /\ "shape" \in Named /\ "known" \in Quiet /\ "known" \in Named
      BY DEF Quiet, Named
    <3> QED
      BY <3>1, TwoSay
  <2>4. CancelTask \in Seq(Named) /\ Verdict(CancelTask, F) \notin Faults
    <3>1. {"live", "asked"} \in SUBSET Named
      BY DEF Named
    <3>2. CancelTask \in Seq(Named) /\ Range(CancelTask) = {"live", "asked"}
      BY <3>1, SaysTwo DEF CancelTask
    <3> QED
      BY <3>2, QuietChecks
  <2>5. /\ One("known") \in Seq(Named) /\ Verdict(One("known"), F) \notin Faults
        /\ Verdict(One("known"), F) = IF "known" \in F THEN KindOf("known") ELSE "ok"
    <3>1. "known" \in Quiet /\ "known" \in Named
      BY DEF Quiet, Named
    <3> QED
      BY <3>1, OneSays
  <2>6. /\ Then(Two("shape", "known"), CancelTask) \in Seq(Named)
        /\ Verdict(Then(Two("shape", "known"), CancelTask), F) =
             IF Verdict(Two("shape", "known"), F) = "ok" THEN Verdict(CancelTask, F) ELSE Verdict(Two("shape", "known"), F)
    BY <2>3, <2>4, ThenSays
  <2>7. /\ Then(One("known"), CancelTask) \in Seq(Named)
        /\ Verdict(Then(One("known"), CancelTask), F) =
             IF Verdict(One("known"), F) = "ok" THEN Verdict(CancelTask, F) ELSE Verdict(One("known"), F)
    BY <2>5, <2>4, ThenSays
  <2>8. Comparable(op, F) => Verdict(Http(op), F) = Verdict(Rpc(op), F)
    BY <2>1, <2>2, <2>3, <2>5, <2>6, <2>7, <1>12, WhatIsCompared
  <2> QED
    BY <1>1, <2>1, <2>2, <2>3, <2>4, <2>5, <2>6, <2>7, <2>8
<1>13. CASE op = "summary" \/ op = "truth"
  <2>1. Http(op) = Then(Two("shape", "known"), Finished)
    BY <1>13, Zenon DEF Http, HttpRead, RpcRead, One, Then, Two
  <2>2. Rpc(op) = Then(One("known"), Finished)
    BY <1>13, Zenon DEF Rpc, HttpRead, RpcRead, One, Then, Two
  <2>3. /\ Two("shape", "known") \in Seq(Named) /\ Verdict(Two("shape", "known"), F) \notin Faults
        /\ Verdict(Two("shape", "known"), F) = IF "shape" \in F THEN KindOf("shape") ELSE IF "known" \in F THEN KindOf("known") ELSE "ok"
    <3>1. "shape" \in Quiet /\ "shape" \in Named /\ "known" \in Quiet /\ "known" \in Named
      BY DEF Quiet, Named
    <3> QED
      BY <3>1, TwoSay
  <2>4. Finished \in Seq(Named) /\ Verdict(Finished, F) \notin Faults
    BY BuildersSay
  <2>5. /\ One("known") \in Seq(Named) /\ Verdict(One("known"), F) \notin Faults
        /\ Verdict(One("known"), F) = IF "known" \in F THEN KindOf("known") ELSE "ok"
    <3>1. "known" \in Quiet /\ "known" \in Named
      BY DEF Quiet, Named
    <3> QED
      BY <3>1, OneSays
  <2>6. /\ Then(Two("shape", "known"), Finished) \in Seq(Named) /\ Verdict(Then(Two("shape", "known"), Finished), F) \notin Faults
        /\ Verdict(Then(Two("shape", "known"), Finished), F) = IF Verdict(Two("shape", "known"), F) = "ok" THEN Verdict(Finished, F) ELSE Verdict(Two("shape", "known"), F)
    BY <2>3, <2>4, ThenSays
  <2>7. /\ Then(One("known"), Finished) \in Seq(Named) /\ Verdict(Then(One("known"), Finished), F) \notin Faults
        /\ Verdict(Then(One("known"), Finished), F) = IF Verdict(One("known"), F) = "ok" THEN Verdict(Finished, F) ELSE Verdict(One("known"), F)
    BY <2>5, <2>4, ThenSays
  <2>8. Comparable(op, F) => Verdict(Http(op), F) = Verdict(Rpc(op), F)
    BY <2>1, <2>2, <2>3, <2>4, <2>5, <2>6, <2>7, Answers, <1>13, WhatIsCompared
  <2> QED
    BY <1>1, <2>1, <2>2, <2>6, <2>7, <2>8
<1>14. CASE op = "sensors"
  <2>1. Http(op) = Then(Then(Two("shape", "known"), Finished), Two("query", "channel"))
    BY <1>14, Zenon DEF Http, HttpSensors, RpcSensors, HttpRead, RpcRead, One, Then, Two
  <2>2. Rpc(op) = Then(Then(One("known"), Finished), One("channel"))
    BY <1>14, Zenon DEF Rpc, HttpSensors, RpcSensors, HttpRead, RpcRead, One, Then, Two
  <2>3. /\ Two("shape", "known") \in Seq(Named) /\ Verdict(Two("shape", "known"), F) \notin Faults
        /\ Verdict(Two("shape", "known"), F) = IF "shape" \in F THEN KindOf("shape") ELSE IF "known" \in F THEN KindOf("known") ELSE "ok"
    <3>1. "shape" \in Quiet /\ "shape" \in Named /\ "known" \in Quiet /\ "known" \in Named
      BY DEF Quiet, Named
    <3> QED
      BY <3>1, TwoSay
  <2>4. Finished \in Seq(Named) /\ Verdict(Finished, F) \notin Faults
    BY BuildersSay
  <2>5. /\ Two("query", "channel") \in Seq(Named) /\ Verdict(Two("query", "channel"), F) \notin Faults
        /\ Verdict(Two("query", "channel"), F) = IF "query" \in F THEN KindOf("query") ELSE IF "channel" \in F THEN KindOf("channel") ELSE "ok"
    <3>1. "query" \in Quiet /\ "query" \in Named /\ "channel" \in Quiet /\ "channel" \in Named
      BY DEF Quiet, Named
    <3> QED
      BY <3>1, TwoSay
  <2>6. /\ One("known") \in Seq(Named) /\ Verdict(One("known"), F) \notin Faults
        /\ Verdict(One("known"), F) = IF "known" \in F THEN KindOf("known") ELSE "ok"
    <3>1. "known" \in Quiet /\ "known" \in Named
      BY DEF Quiet, Named
    <3> QED
      BY <3>1, OneSays
  <2>7. /\ One("channel") \in Seq(Named) /\ Verdict(One("channel"), F) \notin Faults
        /\ Verdict(One("channel"), F) = IF "channel" \in F THEN KindOf("channel") ELSE "ok"
    <3>1. "channel" \in Quiet /\ "channel" \in Named
      BY DEF Quiet, Named
    <3> QED
      BY <3>1, OneSays
  <2>8. /\ Then(Two("shape", "known"), Finished) \in Seq(Named) /\ Verdict(Then(Two("shape", "known"), Finished), F) \notin Faults
        /\ Verdict(Then(Two("shape", "known"), Finished), F) = IF Verdict(Two("shape", "known"), F) = "ok" THEN Verdict(Finished, F) ELSE Verdict(Two("shape", "known"), F)
    BY <2>3, <2>4, ThenSays
  <2>9. /\ Then(Then(Two("shape", "known"), Finished), Two("query", "channel")) \in Seq(Named) /\ Verdict(Then(Then(Two("shape", "known"), Finished), Two("query", "channel")), F) \notin Faults
        /\ Verdict(Then(Then(Two("shape", "known"), Finished), Two("query", "channel")), F) = IF Verdict(Then(Two("shape", "known"), Finished), F) = "ok" THEN Verdict(Two("query", "channel"), F) ELSE Verdict(Then(Two("shape", "known"), Finished), F)
    BY <2>8, <2>5, ThenSays
  <2>10. /\ Then(One("known"), Finished) \in Seq(Named) /\ Verdict(Then(One("known"), Finished), F) \notin Faults
        /\ Verdict(Then(One("known"), Finished), F) = IF Verdict(One("known"), F) = "ok" THEN Verdict(Finished, F) ELSE Verdict(One("known"), F)
    BY <2>6, <2>4, ThenSays
  <2>11. /\ Then(Then(One("known"), Finished), One("channel")) \in Seq(Named) /\ Verdict(Then(Then(One("known"), Finished), One("channel")), F) \notin Faults
        /\ Verdict(Then(Then(One("known"), Finished), One("channel")), F) = IF Verdict(Then(One("known"), Finished), F) = "ok" THEN Verdict(One("channel"), F) ELSE Verdict(Then(One("known"), Finished), F)
    BY <2>10, <2>7, ThenSays
  <2>12. Comparable(op, F) => Verdict(Http(op), F) = Verdict(Rpc(op), F)
    BY <2>1, <2>2, <2>3, <2>4, <2>5, <2>6, <2>7, <2>8, <2>9, <2>10, <2>11, Answers, <1>14, WhatIsCompared
  <2> QED
    BY <1>1, <2>1, <2>2, <2>9, <2>11, <2>12
<1>15. CASE op = "result"
  <2>1. Http(op) = Then(Two("shape", "known"), ResultOf)
    BY <1>15, Zenon DEF Http, HttpResult, RpcResult, One, Then, Two
  <2>2. Rpc(op) = Then(One("known"), ResultOf)
    BY <1>15, Zenon DEF Rpc, HttpResult, RpcResult, One, Then, Two
  <2>3. /\ Two("shape", "known") \in Seq(Named) /\ Verdict(Two("shape", "known"), F) \notin Faults
        /\ Verdict(Two("shape", "known"), F) = IF "shape" \in F THEN KindOf("shape") ELSE IF "known" \in F THEN KindOf("known") ELSE "ok"
    <3>1. "shape" \in Quiet /\ "shape" \in Named /\ "known" \in Quiet /\ "known" \in Named
      BY DEF Quiet, Named
    <3> QED
      BY <3>1, TwoSay
  <2>4. ResultOf \in Seq(Named) /\ Verdict(ResultOf, F) \notin Faults
    BY BuildersSay
  <2>5. /\ One("known") \in Seq(Named) /\ Verdict(One("known"), F) \notin Faults
        /\ Verdict(One("known"), F) = IF "known" \in F THEN KindOf("known") ELSE "ok"
    <3>1. "known" \in Quiet /\ "known" \in Named
      BY DEF Quiet, Named
    <3> QED
      BY <3>1, OneSays
  <2>6. /\ Then(Two("shape", "known"), ResultOf) \in Seq(Named) /\ Verdict(Then(Two("shape", "known"), ResultOf), F) \notin Faults
        /\ Verdict(Then(Two("shape", "known"), ResultOf), F) = IF Verdict(Two("shape", "known"), F) = "ok" THEN Verdict(ResultOf, F) ELSE Verdict(Two("shape", "known"), F)
    BY <2>3, <2>4, ThenSays
  <2>7. /\ Then(One("known"), ResultOf) \in Seq(Named) /\ Verdict(Then(One("known"), ResultOf), F) \notin Faults
        /\ Verdict(Then(One("known"), ResultOf), F) = IF Verdict(One("known"), F) = "ok" THEN Verdict(ResultOf, F) ELSE Verdict(One("known"), F)
    BY <2>5, <2>4, ThenSays
  <2>8. Comparable(op, F) => Verdict(Http(op), F) = Verdict(Rpc(op), F)
    BY <2>1, <2>2, <2>3, <2>4, <2>5, <2>6, <2>7, Answers, <1>15, WhatIsCompared
  <2> QED
    BY <1>1, <2>1, <2>2, <2>6, <2>7, <2>8
<1> QED
  BY <1>2, <1>3, <1>4, <1>5, <1>6, <1>7, <1>8, <1>9, <1>10, <1>11, <1>12, <1>13, <1>14, <1>15 DEF Shared

(* What is checked of a task that is submitted.                            *)
LEMMA SubmissionsSay ==
  ASSUME NEW F, NEW s \in {SubmitTask, SubmitBuild}
  PROVE  /\ s \in Seq(Named) /\ Range(s) \cap Flaws \in SUBSET {"values"}
         /\ "values" \in F => Verdict(s, F) = "invalid"
<1>1. "values" \in Named /\ "room" \in Named /\ {"stored", "reads", "loads"} \in SUBSET Named
  BY Answers
<1>2. /\ ValidateRequest \in Seq(Named) /\ Range(ValidateRequest) = {"values"}
      /\ Verdict(ValidateRequest, F) = IF "values" \in F THEN KindOf("values") ELSE "ok"
  BY <1>1, SaysOne DEF ValidateRequest
<1>3. Lookup \in Seq(Named) /\ Range(Lookup) = {"stored", "reads", "loads"}
  BY <1>1, SaysThree DEF Lookup
<1>4. One("room") \in Seq(Named) /\ Range(One("room")) = {"room"}
  BY <1>1, SaysOne DEF One
<1>5. KindOf("values") = "invalid"
  BY DEF KindOf
<1>6. {"values", "stored", "reads", "loads", "room"} \cap Flaws \in SUBSET {"values"}
  BY DEF Flaws
<1>7. /\ Then(ValidateRequest, Lookup) \in Seq(Named)
      /\ Verdict(Then(ValidateRequest, Lookup), F) =
           IF Verdict(ValidateRequest, F) = "ok" THEN Verdict(Lookup, F) ELSE Verdict(ValidateRequest, F)
  BY <1>2, <1>3, ThenSays
<1>8. Range(Then(ValidateRequest, Lookup)) = {"values", "stored", "reads", "loads"}
  BY <1>2, <1>3, ThenSays
<1>9. CASE s = SubmitTask
  <2>1. s = Then(Then(ValidateRequest, Lookup), One("room"))
    BY <1>9, Zenon DEF SubmitTask, Then, One
  <2>2. s \in Seq(Named) /\ Range(s) = {"values", "stored", "reads", "loads", "room"}
    BY <1>4, <1>7, <1>8, <2>1, ThenSays
  <2>3. Verdict(s, F) = IF Verdict(Then(ValidateRequest, Lookup), F) = "ok" THEN Verdict(One("room"), F)
                     ELSE Verdict(Then(ValidateRequest, Lookup), F)
    BY <1>4, <1>7, <2>1, ThenSays
  <2> QED
    BY <1>2, <1>5, <1>6, <1>7, <2>2, <2>3
<1>10. CASE s = SubmitBuild
  <2>1. s = Then(ValidateRequest, One("room"))
    BY <1>10, Zenon DEF SubmitBuild, Then, One
  <2>2. s \in Seq(Named) /\ Range(s) = {"values", "room"}
    BY <1>2, <1>4, <2>1, ThenSays
  <2>3. Verdict(s, F) = IF Verdict(ValidateRequest, F) = "ok" THEN Verdict(One("room"), F) ELSE Verdict(ValidateRequest, F)
    BY <1>2, <1>4, <2>1, ThenSays
  <2> QED
    BY <1>2, <1>5, <1>6, <2>2, <2>3
<1> QED
  BY <1>9, <1>10

(* A submission is refused for the fault both doors find before the server *)
(* can be to blame.                                                        *)
LEMMA SubmitDoors ==
  ASSUME NEW F, NEW op \in {"submit", "plan", "build"}
  PROVE  Alike(op, F)
<1>1. PICK s \in {SubmitTask, SubmitBuild} :
        Http(op) = Then(Two("size", "shape"), s) /\ Rpc(op) = Then(One("shape"), s)
  <2>1. CASE op = "build"
    <3>1. Http(op) = Then(Two("size", "shape"), SubmitBuild)
      BY <2>1, Zenon DEF Http, HttpBuild, Then, Two
    <3>2. Rpc(op) = Then(One("shape"), SubmitBuild)
      BY <2>1, Zenon DEF Rpc, RpcBuild, Then, One
    <3> QED
      BY <3>1, <3>2
  <2>2. CASE op \in {"submit", "plan"}
    <3>1. Http(op) = Then(Two("size", "shape"), SubmitTask)
      BY <2>2, Zenon DEF Http, HttpSubmit, Then, Two
    <3>2. Rpc(op) = Then(One("shape"), SubmitTask)
      BY <2>2, Zenon DEF Rpc, RpcSubmit, Then, One
    <3> QED
      BY <3>1, <3>2
  <2> QED
    BY <2>1, <2>2
<1>2. s \in Seq(Named) /\ Range(s) \cap Flaws \in SUBSET {"values"}
  BY SubmissionsSay
<1>3. "size" \in Named /\ "shape" \in Named /\ KindOf("size") = "too_large" /\ KindOf("shape") = "invalid"
  BY DEF Named, KindOf
<1>4. /\ Two("size", "shape") \in Seq(Named)
      /\ Verdict(Two("size", "shape"), F) =
           IF "size" \in F THEN KindOf("size") ELSE IF "shape" \in F THEN KindOf("shape") ELSE "ok"
  BY <1>3, TwoSay
<1>5. One("shape") \in Seq(Named) /\ Verdict(One("shape"), F) = IF "shape" \in F THEN KindOf("shape") ELSE "ok"
  BY <1>3, OneSays
<1>6. /\ Then(Two("size", "shape"), s) \in Seq(Named)
      /\ Verdict(Then(Two("size", "shape"), s), F) =
           IF Verdict(Two("size", "shape"), F) = "ok" THEN Verdict(s, F) ELSE Verdict(Two("size", "shape"), F)
  BY <1>2, <1>4, ThenSays
<1>7. /\ Then(One("shape"), s) \in Seq(Named)
      /\ Verdict(Then(One("shape"), s), F) = IF Verdict(One("shape"), F) = "ok" THEN Verdict(s, F) ELSE Verdict(One("shape"), F)
  BY <1>2, <1>5, ThenSays
<1>8. Comparable(op, F) => Verdict(Http(op), F) = Verdict(Rpc(op), F)
  BY <1>1, <1>4, <1>5, <1>6, <1>7, WhatIsCompared
<1> QED
  BY <1>1, <1>6, <1>7, <1>8 DEF Alike

(* A chunk that is damaged on the map is the server's fault at both doors. *)
LEMMA ChunkDoors ==
  ASSUME NEW F, Opening(F)
  PROVE  Alike("chunk", F)
<1>1. Http("chunk") = Then(Then(Then(One("shape"), OpenMap), ChunkDto), One("format"))
  BY Zenon DEF Http, HttpChunk, Then, One
<1>2. Rpc("chunk") = Then(Then(OpenMap, One("shape")), ChunkDto)
  BY Zenon DEF Rpc, RpcChunk, Then, One
<1>3. OpenMap \in Seq(Named) /\ Verdict(OpenMap, F) \notin Faults
  BY BuildersSay
<1>4. ChunkDto \in Seq(Named)
  BY BuildersSay
<1>5. "shape" \in Named /\ "format" \in Named /\ "shape" \in Quiet /\ "format" \in Quiet
  BY DEF Named, Quiet
<1>6. /\ One("shape") \in Seq(Named) /\ Verdict(One("shape"), F) \notin Faults
      /\ Verdict(One("shape"), F) = IF "shape" \in F THEN KindOf("shape") ELSE "ok"
  BY <1>5, OneSays
<1>7. /\ One("format") \in Seq(Named) /\ Verdict(One("format"), F) \notin Faults
      /\ Verdict(One("format"), F) = IF "format" \in F THEN KindOf("format") ELSE "ok"
  BY <1>5, OneSays
<1> DEFINE h1 == Then(One("shape"), OpenMap)
           h2 == Then(h1, ChunkDto)
           r1 == Then(OpenMap, One("shape"))
<1>8. /\ h1 \in Seq(Named)
      /\ Verdict(h1, F) = IF Verdict(One("shape"), F) = "ok" THEN Verdict(OpenMap, F) ELSE Verdict(One("shape"), F)
  BY <1>3, <1>6, ThenSays
<1>9. /\ r1 \in Seq(Named)
      /\ Verdict(r1, F) = IF Verdict(OpenMap, F) = "ok" THEN Verdict(One("shape"), F) ELSE Verdict(OpenMap, F)
  BY <1>3, <1>6, ThenSays
<1>10. Http("chunk") = Then(h2, One("format")) /\ Rpc("chunk") = Then(r1, ChunkDto)
  BY <1>1, <1>2
<1> HIDE DEF h1, r1
<1>11. h2 \in Seq(Named) /\ Verdict(h2, F) = IF Verdict(h1, F) = "ok" THEN Verdict(ChunkDto, F) ELSE Verdict(h1, F)
  BY <1>4, <1>8, ThenSays
<1> HIDE DEF h2
<1>12. /\ Http("chunk") \in Seq(Named)
       /\ Verdict(Http("chunk"), F) = IF Verdict(h2, F) = "ok" THEN Verdict(One("format"), F) ELSE Verdict(h2, F)
  BY <1>7, <1>10, <1>11, ThenSays
<1>13. /\ Rpc("chunk") \in Seq(Named)
       /\ Verdict(Rpc("chunk"), F) = IF Verdict(r1, F) = "ok" THEN Verdict(ChunkDto, F) ELSE Verdict(r1, F)
  BY <1>4, <1>9, <1>10, ThenSays
<1>14. KindOf("shape") # "ok" /\ "ok" \notin Faults
  BY DEF KindOf, Faults
<1>15. CASE "shape" \in F
  <2>1. ParsedLate("chunk", F)
    BY <1>15 DEF ParsedLate
  <2>2. /\ Verdict(Http("chunk"), F) \notin Faults /\ Verdict(Rpc("chunk"), F) \notin Faults
        /\ Verdict(Http("chunk"), F) # "ok" /\ Verdict(Rpc("chunk"), F) # "ok"
    BY <1>3, <1>6, <1>8, <1>9, <1>11, <1>12, <1>13, <1>14, <1>15
  <2> QED
    BY <1>12, <1>13, <2>1, <2>2 DEF Alike
<1>16. CASE "shape" \notin F
  <2>1. Comparable("chunk", F) => Verdict(Http("chunk"), F) = Verdict(Rpc("chunk"), F)
    BY <1>6, <1>7, <1>8, <1>9, <1>11, <1>12, <1>13, <1>16, WhatIsCompared
  <2> QED
    BY <1>12, <1>13, <2>1 DEF Alike
<1> QED
  BY <1>15, <1>16

(* At every call both doors know, for any set of failing checks.           *)
LEMMA DoorsAlike ==
  ASSUME NEW F, Opening(F), NEW op \in Shared
  PROVE  Alike(op, F)
BY QuietDoors, SubmitDoors, ChunkDoors

(* Whatever is asked for, a map that is stored can be read, what was read  *)
(* opens, and nothing of the service's own is a fault of the request.      *)
LEMMA MapsOpen ==
  ASSUME ServiceTyped, NEW t, NEW flaws \in SUBSET Flaws
  PROVE  /\ Opening(FailNow(t) \cup flaws)
         /\ (FailNow(t) \cup flaws) \cap Flaws = flaws
<1> DEFINE ask == [ticket |-> t, flaws |-> {}]
           entry == IF library.cached \/ library.file = "sound" THEN library.flaw ELSE "none"
<1>1. FailNow(t) = {check \in OfTheService \cup (IF t = 0 THEN {} ELSE OfATask) : ~Passes(check, ask, entry)}
  BY Zenon DEF FailNow
<1> HIDE DEF ask
<1>2. Passes("opens", ask, entry) /\ Passes("asked", ask, entry)
  BY DEF Passes, Flaws
<1>3. Passes("stored", ask, entry) <=> library.cached \/ library.file # "none"
  BY DEF Passes, Flaws
<1>4. Passes("reads", ask, entry) <=> entry # "none" \/ library.file # "none"
  BY DEF Passes, Flaws
<1>5. library.flaw # "none"
  BY LibraryTyped DEF Flawed
<1>6. ~Passes("reads", ask, entry) => ~Passes("stored", ask, entry)
  BY <1>3, <1>4, <1>5
<1> HIDE DEF entry
<1>7. "stored" \in OfTheService /\ {"stored", "reads", "opens", "asked"} \cap Flaws = {}
  BY DEF OfTheService, Flaws
<1>8. FailNow(t) \cap Flaws = {}
  <2>1. (OfTheService \cup OfATask) \cap Flaws = {}
    BY DEF OfTheService, OfATask, Flaws
  <2> QED
    BY <1>1, <2>1
<1> QED
  BY <1>1, <1>2, <1>6, <1>7, <1>8 DEF Opening

(* Of what is wrong with a request only its own flaws make it one that     *)
(* cannot be compared, or one that is parsed late.                         *)
LEMMA OwnFlaws ==
  ASSUME NEW op, NEW F, NEW flaws \in SUBSET Flaws, F \cap Flaws = flaws
  PROVE  /\ Comparable(op, flaws) <=> Comparable(op, F)
         /\ ParsedLate(op, flaws) <=> ParsedLate(op, F)
<1>1. Peculiar(op) \in SUBSET Flaws
  BY DEF Peculiar, Flaws
<1>2. "empty" \in Flaws /\ "image" \in Flaws /\ "shape" \in Flaws
  BY DEF Flaws
<1> QED
  BY <1>1, <1>2 DEF Comparable, ParsedLate

(* In any state whose library is what it should be.                        *)
LEMMA DoorsAgreeNow ==
  ASSUME ServiceTyped
  PROVE  DoorsAgree
<1> DEFINE F(t, flaws) == FailNow(t) \cup flaws
           Http1(op, t, flaws) == Verdict(Sequence["http"][op], F(t, flaws))
           Rpc1(op, t, flaws) == Verdict(Sequence["rpc"][op], F(t, flaws))
<1>1. ASSUME NEW op \in Shared, NEW t, NEW flaws \in Compared[op]
      PROVE  /\ (Http1(op, t, flaws) = "ok") = (Rpc1(op, t, flaws) = "ok")
             /\ Http1(op, t, flaws) = Rpc1(op, t, flaws) \/ ParsedLate(op, flaws)
             /\ (Http1(op, t, flaws) # "ok" /\ HttpStatus(Http1(op, t, flaws)) >= 500) =
                  (Rpc1(op, t, flaws) # "ok" /\ GrpcCode(Rpc1(op, t, flaws)) \in {"Internal", "Unavailable"})
  <2>1. flaws \in SUBSET Flaws /\ Comparable(op, flaws)
    BY Zenon DEF Compared
  <2>2. Opening(F(t, flaws)) /\ F(t, flaws) \cap Flaws = flaws
    BY <2>1, MapsOpen
  <2> DEFINE E == F(t, flaws)
             h == Verdict(Http(op), E)
             r == Verdict(Rpc(op), E)
  <2> HIDE DEF F
  <2>3. Alike(op, E)
    BY <2>2, DoorsAlike
  <2>4. Comparable(op, E) /\ (ParsedLate(op, flaws) <=> ParsedLate(op, E))
    BY <2>1, <2>2, OwnFlaws
  <2>5. Sequence["http"][op] = Http(op) /\ Sequence["rpc"][op] = Rpc(op)
    <3>1. "http" \in Doors /\ "rpc" \in Doors /\ "rpc" # "http"
      BY DEF Doors
    <3>2. Sequence["http"][op] = Checks("http", op) /\ Sequence["rpc"][op] = Checks("rpc", op)
      BY <3>1, Zenon DEF Sequence
    <3> QED
      BY <3>1, <3>2, Zenon DEF Checks
  <2>6. Http(op) \in Seq(Named) /\ Rpc(op) \in Seq(Named)
    BY <2>3 DEF Alike
  <2>7. Http1(op, t, flaws) = h /\ Rpc1(op, t, flaws) = r
    BY <2>5
  <2>8. /\ h = r \/ ParsedLate(op, flaws)
        /\ h = "ok" <=> r = "ok"
        /\ h \in Faults <=> r \in Faults
    BY <2>3, <2>4 DEF Alike
  <2>9. h \in Kinds \cup {"ok"} /\ r \in Kinds \cup {"ok"}
    BY <2>6, FailureIsHeard
  <2> HIDE DEF h, r, Http1, Rpc1
  <2>10. (h # "ok" /\ HttpStatus(h) >= 500) = (r # "ok" /\ GrpcCode(r) \in {"Internal", "Unavailable"})
    <3>1. h # "ok" => (HttpStatus(h) >= 500 <=> h \in Faults)
      BY <2>9, KindsAre
    <3>2. r # "ok" => (GrpcCode(r) \in {"Internal", "Unavailable"} <=> r \in Faults)
      BY <2>9, KindsAre
    <3> QED
      BY <2>8, <3>1, <3>2, Zenon
  <2>11. (h = "ok") = (r = "ok")
    BY <2>8, Zenon
  <2> QED
    BY <2>7, <2>8, <2>10, <2>11, Zenon
<1> QED
  BY <1>1, Zenon DEF DoorsAgree

(* A client of gRPC and one of HTTP are told the same of the same call, in *)
(* every state the service can be in and whatever is wrong with it, so     *)
(* that no check is made at one door alone but those a request of the      *)
(* other cannot fail (api/, facade/rpc.rs, error.rs); for any capacity and *)
(* any bounds on what is kept.                                             *)
THEOREM DoorsAnswerAlike == AnswersSpec => []DoorsAgree
<1>1. AnswersInv => DoorsAgree
  BY DoorsAgreeNow DEF AnswersInv
<1> QED
  BY <1>1, AnswersKeepTheirWord, PTL
=============================================================================
