------------------------ MODULE ParallelImagesProofs ------------------------
(***************************************************************************)
(* Proofs about the readback pool for any number of lanes and images.      *)
(***************************************************************************)
EXTENDS ParallelImages, TLAPS

\* Where the main thread is, and what the workers and flags are by then.
MainInv ==
  /\ main = "create" => ~released /\ ~failed
  /\ main = "join" => released
  /\ main # "returned" => Count # 0 /\ Lanes # 0
  /\ main = "join" /\ created # Wanted => failed
  /\ main = "returned" =>
       \/ (Count = 0 \/ Lanes = 0) /\ ~result
       \/ /\ Count # 0 /\ Lanes # 0
          /\ result = ~failed
          /\ created # Wanted => failed
          /\ \A w \in Workers : w <= created => pc[w] = "exited"

\* What the position in the queue says about workers and images.
QueueInv ==
  /\ ~released => next = 0
  /\ next # 0 => created = Wanted /\ main # "create"
  /\ \A i \in Images : image[i] = "untouched" <=> i >= next
  /\ \A i \in Images : image[i] = "bad" => failed
  /\ \A i \in Images : image[i] = "running" =>
       \E w \in Workers : pc[w] = "working" /\ index[w] = i
  /\ failed => next = 0 \/ \E i \in Images : image[i] = "bad"

WorkerInv ==
  /\ \A w \in Workers : pc[w] = "absent" <=> w > created
  /\ \A w \in Workers : pc[w] \in {"working", "exited"} => released
  /\ \A w \in Workers : pc[w] = "exited" => failed \/ next = Count
  /\ \A w \in Workers : pc[w] = "working" =>
       index[w] < next /\ index[w] \in Images /\ image[index[w]] = "running"

IInv == TypeOK /\ MainInv /\ QueueInv /\ WorkerInv /\ OneWorkerPerImage

\* The number of workers wanted is positive unless the call returns at once.
LEMMA WantedType ==
  /\ Wanted \in Nat
  /\ Wanted <= Count
  /\ Count # 0 /\ Lanes # 0 => Wanted # 0
BY LanesAssumption, CountAssumption DEF Wanted

\* The invariant holds when RunParallelImages is entered.
LEMMA InitIInv == Init => IInv
<1> SUFFICES ASSUME Init PROVE IInv
  OBVIOUS
<1> USE WantedType, LanesAssumption, CountAssumption DEF Init, Workers, Images
<1>1. TypeOK
  <2>1. main \in {"create", "join", "returned"}
    OBVIOUS
  <2>2. index \in [Workers -> 0..Count] /\ image \in [Images -> {"untouched", "running", "good", "bad"}]
    OBVIOUS
  <2>3. pc \in [Workers -> {"absent", "blocked", "working", "exited"}]
    OBVIOUS
  <2>4. released \in BOOLEAN /\ failed \in BOOLEAN /\ result \in BOOLEAN
    OBVIOUS
  <2>5. created \in 0..Wanted /\ next \in 0..Count
    OBVIOUS
  <2> QED
    BY <2>1, <2>2, <2>3, <2>4, <2>5, Zenon DEF TypeOK
<1>2. MainInv
  BY Zenon DEF MainInv
<1>3. QueueInv
  BY DEF QueueInv
<1>4. WorkerInv
  BY DEF WorkerInv
<1>5. OneWorkerPerImage
  BY Zenon DEF OneWorkerPerImage
<1> QED
  BY <1>1, <1>2, <1>3, <1>4, <1>5, Zenon DEF IInv

\* Every step of the main thread and of a worker preserves the invariant.
LEMMA NextIInv == IInv /\ [Next]_vars => IInv'
<1> SUFFICES ASSUME IInv, [Next]_vars PROVE IInv'
  OBVIOUS
<1> USE WantedType, LanesAssumption, CountAssumption
       DEF IInv, TypeOK, MainInv, QueueInv, WorkerInv, OneWorkerPerImage, Workers, Images
<1>1. CASE CreateThread
  BY <1>1 DEF CreateThread
<1>2. CASE CreateFails
  BY <1>2, Zenon DEF CreateFails
<1>3. CASE Release
  BY <1>3, Zenon DEF Release
<1>4. CASE JoinAll
  BY <1>4 DEF JoinAll
<1>5. ASSUME NEW w \in Workers, Dequeue(w) PROVE IInv'
  <2>1. next \in Images /\ image[next] = "untouched"
    BY <1>5 DEF Dequeue
  <2>2. main = "join" /\ created = Wanted
    <3>1. main # "create"
      BY <1>5, Zenon DEF Dequeue
    <3>2. w <= created
      BY <1>5 DEF Dequeue
    <3>3. Count # 0 /\ Lanes # 0
      BY <2>1, <1>5 DEF Wanted
    <3>4. main # "returned"
      BY <1>5, <3>2, <3>3, Zenon DEF Dequeue
    <3> QED
      BY <1>5, <3>1, <3>4, Zenon DEF Dequeue
  <2>3. TypeOK'
    BY <1>5, <2>1 DEF Dequeue
  <2>4. MainInv'
    BY <1>5, <2>2, Zenon DEF Dequeue
  <2>5. QueueInv'
    BY <1>5, <2>1, <2>2 DEF Dequeue
  <2>6. WorkerInv'
    BY <1>5, <2>1, <2>2 DEF Dequeue
  <2>7. OneWorkerPerImage'
    BY <1>5, <2>1 DEF Dequeue
  <2> QED
    BY <2>3, <2>4, <2>5, <2>6, <2>7, Zenon
<1>6. ASSUME NEW w \in Workers, Exit(w) PROVE IInv'
  BY <1>6 DEF Exit
<1>7. ASSUME NEW w \in Workers, WorkSucceeds(w) PROVE IInv'
  BY <1>7 DEF WorkSucceeds
<1>8. ASSUME NEW w \in Workers, WorkFails(w) PROVE IInv'
  BY <1>8 DEF WorkFails
<1>9. CASE UNCHANGED vars
  BY <1>9 DEF vars
<1> QED
  BY <1>1, <1>2, <1>3, <1>4, <1>5, <1>6, <1>7, <1>8, <1>9, Zenon DEF Next, Main, Worker, Returned

\* When the call has returned, nobody is working and the answer is right.
LEMMA IInvTruthful == IInv => TruthfulResult
<1> SUFFICES ASSUME IInv, main = "returned" PROVE TruthfulResult
  BY Zenon DEF TruthfulResult
<1> USE WantedType, LanesAssumption, CountAssumption
       DEF IInv, TypeOK, MainInv, QueueInv, WorkerInv, Workers, Images
<1>1. CASE Count = 0 \/ Lanes = 0
  BY <1>1 DEF TruthfulResult, Wanted
<1>2. CASE Count # 0 /\ Lanes # 0
  <2>1. \A w \in Workers : pc[w] \in {"absent", "exited"}
    BY <1>2
  <2>2. ASSUME ~failed PROVE \A i \in Images : image[i] = "good"
    <3>1. 1 \in Workers /\ pc[1] = "exited"
      BY <1>2, <2>2
    <3>2. next = Count
      BY <3>1, <2>2, Zenon
    <3> QED
      BY <2>1, <2>2, <3>2
  <2>3. ASSUME failed PROVE \E i \in Images : image[i] # "good"
    <3>1. CASE next = 0
      <4>1. 0 \in Images /\ image[0] = "untouched"
        BY <1>2, <3>1
      <4> QED
        BY <4>1, Zenon
    <3> QED
      BY <2>3, <3>1, Zenon
  <2> QED
    BY <1>2, <2>1, <2>2, <2>3, Zenon DEF TruthfulResult
<1> QED
  BY <1>1, <1>2, Zenon

\* An image that was touched was dequeued, so the pool is complete.
LEMMA IInvAllThreads == IInv => AllThreadsBeforeWork
BY CountAssumption, WantedType
   DEF IInv, TypeOK, QueueInv, AllThreadsBeforeWork, Images

\* The invariant holds throughout the call.
LEMMA SpecIInv == Spec => []IInv
BY InitIInv, NextIInv, PTL DEF Spec

\* Type correctness of the pool.
THEOREM TypeCorrect == Spec => []TypeOK
<1>1. IInv => TypeOK
  BY Zenon DEF IInv
<1> QED
  BY <1>1, SpecIInv, PTL

\* No image is written or verified before every worker thread exists, for
\* every lane budget and every number of images.
THEOREM ThreadsFirst == Spec => []AllThreadsBeforeWork
BY SpecIInv, IInvAllThreads, PTL

\* RunParallelImages returns true exactly when all images were processed and
\* good, and never returns while a worker still runs.
THEOREM ResultCorrect == Spec => []TruthfulResult
BY SpecIInv, IInvTruthful, PTL

\* No two workers ever hold the same image.
THEOREM ExclusiveImages == Spec => []OneWorkerPerImage
<1>1. IInv => OneWorkerPerImage
  BY Zenon DEF IInv
<1> QED
  BY <1>1, SpecIInv, PTL

\* Every step of a thread is a step of the abstract pool or invisible in it.
LEMMA StepPool == IInv /\ [Next]_vars => [Pool!Next]_(Pool!vars)
<1> SUFFICES ASSUME IInv, [Next]_vars PROVE [Pool!Next]_(Pool!vars)
  OBVIOUS
<1> DEFINE seen(img) == [i \in Images |-> IF img[i] = "running" THEN "untouched" ELSE img[i]]
           said(m, r) == IF m # "returned" THEN "pending" ELSE IF r THEN "true" ELSE "false"
<1>1. ASSUME seen(image') = seen(image), said(main', result') = said(main, result)
      PROVE [Pool!Next]_(Pool!vars)
  BY <1>1, Zenon DEF Pool!vars
<1>2. ASSUME UNCHANGED <<image, main, result>>
      PROVE [Pool!Next]_(Pool!vars)
  BY <1>1, <1>2, Zenon
<1>3. CASE CreateThread
  BY <1>2, <1>3, Zenon DEF CreateThread
<1>4. CASE CreateFails \/ Release
  BY <1>1, <1>4, Zenon DEF CreateFails, Release
<1>5. CASE JoinAll
  <2>1. main = "join" /\ main' = "returned" /\ result' = ~failed /\ image' = image
    BY <1>5, Zenon DEF JoinAll
  <2>2. IInv'
    BY NextIInv, Zenon
  <2>3. TruthfulResult'
    BY <2>2, IInvTruthful, PTL
  <2>4. Count # 0 /\ Lanes # 0
    BY <2>1, Zenon DEF IInv, MainInv
  <2>5. CASE result'
    <3>1. \A i \in Images : image[i] = "good"
      BY <2>1, <2>3, <2>5, Zenon DEF TruthfulResult
    <3>2. Pool!Return("true")
      BY <2>1, <2>5, <3>1, Zenon DEF Pool!Return, Pool!AllGood
    <3> QED
      BY <3>2, Zenon DEF Pool!Next
  <2>6. CASE ~result'
    <3>1. failed
      BY <2>1, <2>6, Zenon DEF IInv, TypeOK
    <3>2. (\E i \in Images : image[i] = "bad") \/ \A i \in Images : image[i] = "untouched"
      BY <3>1, CountAssumption DEF IInv, QueueInv, TypeOK, Images
    <3>3. Pool!Return("false")
      BY <2>1, <2>6, <3>2, Zenon DEF Pool!Return, Pool!SomeBad, Pool!Untouched
    <3> QED
      BY <3>3, Zenon DEF Pool!Next
  <2> QED
    BY <2>5, <2>6, Zenon
<1>6. ASSUME NEW w \in Workers, Dequeue(w) PROVE [Pool!Next]_(Pool!vars)
  <2>1. next \in Images /\ image[next] = "untouched"
    BY <1>6, CountAssumption DEF Dequeue, IInv, TypeOK, QueueInv, Images
  <2>2. seen(image') = seen(image)
    BY <1>6, <2>1, Zenon DEF Dequeue, IInv, TypeOK
  <2> QED
    BY <1>1, <1>6, <2>2, Zenon DEF Dequeue
<1>7. ASSUME NEW w \in Workers, Exit(w) PROVE [Pool!Next]_(Pool!vars)
  BY <1>2, <1>7, Zenon DEF Exit
<1>8. ASSUME NEW w \in Workers, WorkSucceeds(w) \/ WorkFails(w) PROVE [Pool!Next]_(Pool!vars)
  <2>1. index[w] \in Images /\ image[index[w]] = "running"
    BY <1>8, Zenon DEF WorkSucceeds, WorkFails, IInv, WorkerInv
  <2>2. main = "join"
    BY <1>8, WantedType, CountAssumption, LanesAssumption
       DEF WorkSucceeds, WorkFails, IInv, TypeOK, MainInv, WorkerInv, Workers, Wanted
  <2>3. PICK o \in {"good", "bad"} : image' = [image EXCEPT ![index[w]] = o]
    BY <1>8, Zenon DEF WorkSucceeds, WorkFails
  <2>4. UNCHANGED <<main, result>>
    BY <1>8, Zenon DEF WorkSucceeds, WorkFails
  <2>5. seen(image') = [seen(image) EXCEPT ![index[w]] = o]
    BY <2>1, <2>3, Zenon DEF IInv, TypeOK
  <2>6. Pool!Process(index[w], o)
    BY <2>1, <2>2, <2>4, <2>5, Zenon DEF Pool!Process
  <2> QED
    BY <2>1, <2>6, Zenon DEF Pool!Next
<1>9. CASE UNCHANGED vars
  BY <1>2, <1>9, Zenon DEF vars
<1> QED
  BY <1>3, <1>4, <1>5, <1>6, <1>7, <1>8, <1>9, Zenon DEF Next, Main, Worker, Returned

\* RunParallelImages, with its threads, locks and failures, implements the
\* abstract pool for every number of lanes and images.
THEOREM PoolRefined == Spec => ImplementsPool
<1>1. Init => Pool!Init
  BY CountAssumption, LanesAssumption, Zenon DEF Init, Pool!Init, Images
<1> QED
  BY <1>1, SpecIInv, StepPool, PTL DEF Spec, ImplementsPool, Pool!Spec
=============================================================================
