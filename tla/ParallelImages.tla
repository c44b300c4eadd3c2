--------------------------- MODULE ParallelImages ---------------------------
(***************************************************************************)
(* The readback pool of the payload flasher:                               *)
(* aeraui/features/update/payload_parallel.hpp, RunParallelImages.         *)
(*                                                                         *)
(* A main thread creates min(lanes, count) workers that block on `released`*)
(* until every one of them exists.  Workers then take image indices from   *)
(* `next` under the mutex and call work(index) outside it.  Any thread     *)
(* creation error, and any work item that returns false, sets `failed`,    *)
(* which stops further dequeuing.  The main thread joins every worker it   *)
(* created and returns ~failed.                                            *)
(***************************************************************************)
EXTENDS Naturals, FiniteSets

CONSTANTS Lanes,   \* the `lanes` argument: the worker budget
          Count    \* the `count` argument: the number of images

ASSUME LanesAssumption == Lanes \in Nat
ASSUME CountAssumption == Count \in Nat

VARIABLES main,      \* control point of the calling thread
          created,   \* number of threads that exist: threads.size()
          released,  \* State::released
          failed,    \* State::failed
          next,      \* State::next
          pc,        \* control point of each worker
          index,     \* the image a worker holds
          image,     \* what has happened to each image
          result     \* the value returned

vars == <<main, created, released, failed, next, pc, index, image, result>>

Images == 0..(Count - 1)
\* The loop bound std::min<size_t>(lanes, count).
Wanted == IF Lanes < Count THEN Lanes ELSE Count
Workers == 1..Wanted

TypeOK ==
  /\ main \in {"create", "join", "returned"}
  /\ created \in 0..Wanted
  /\ released \in BOOLEAN
  /\ failed \in BOOLEAN
  /\ next \in 0..Count
  /\ pc \in [Workers -> {"absent", "blocked", "working", "exited"}]
  /\ index \in [Workers -> 0..Count]
  /\ image \in [Images -> {"untouched", "running", "good", "bad"}]
  /\ result \in BOOLEAN

Init ==
  /\ main = IF Count = 0 \/ Lanes = 0 THEN "returned" ELSE "create"
  /\ created = 0
  /\ released = FALSE
  /\ failed = FALSE
  /\ next = 0
  /\ pc = [w \in Workers |-> "absent"]
  /\ index = [w \in Workers |-> Count]
  /\ image = [i \in Images |-> "untouched"]
  /\ result = FALSE
-----------------------------------------------------------------------------
(* The calling thread. *)

CreateThread ==
  /\ main = "create"
  /\ created < Wanted
  /\ created' = created + 1
  /\ pc' = [pc EXCEPT ![created + 1] = "blocked"]
  /\ UNCHANGED <<main, released, failed, next, index, image, result>>

\* Mutants: the failure is not recorded; the early workers are never released.
CreateFailsUnrecorded ==
  /\ main = "create"
  /\ created < Wanted
  /\ released' = TRUE
  /\ main' = "join"
  /\ UNCHANGED <<created, failed, next, pc, index, image, result>>
CreateFailsUnreleased ==
  /\ main = "create"
  /\ created < Wanted
  /\ failed' = TRUE
  /\ main' = "join"
  /\ UNCHANGED <<created, released, next, pc, index, image, result>>

\* pthread_create fails: record it, leave the loop and release the workers
\* that already exist.
CreateFails ==
  /\ main = "create"
  /\ created < Wanted
  /\ failed' = TRUE
  /\ released' = TRUE
  /\ main' = "join"
  /\ UNCHANGED <<created, next, pc, index, image, result>>

Release ==
  /\ main = "create"
  /\ created = Wanted
  /\ released' = TRUE
  /\ main' = "join"
  /\ UNCHANGED <<created, failed, next, pc, index, image, result>>

JoinAll ==
  /\ main = "join"
  /\ \A w \in 1..created : pc[w] = "exited"
  /\ main' = "returned"
  /\ result' = ~failed
  /\ UNCHANGED <<created, released, failed, next, pc, index, image>>
-----------------------------------------------------------------------------
(* The workers. *)

\* The critical section finds work: take the next index, then call work().
Dequeue(w) ==
  /\ pc[w] = "blocked"
  /\ released
  /\ ~failed
  /\ next # Count
  /\ index' = [index EXCEPT ![w] = next]
  /\ next' = next + 1
  /\ image' = [image EXCEPT ![next] = "running"]
  /\ pc' = [pc EXCEPT ![w] = "working"]
  /\ UNCHANGED <<main, created, released, failed, result>>

\* The critical section finds nothing to do, or a failure: leave.
Exit(w) ==
  /\ pc[w] = "blocked"
  /\ released
  /\ failed \/ next = Count
  /\ pc' = [pc EXCEPT ![w] = "exited"]
  /\ UNCHANGED <<main, created, released, failed, next, index, image, result>>

WorkSucceeds(w) ==
  /\ pc[w] = "working"
  /\ image' = [image EXCEPT ![index[w]] = "good"]
  /\ pc' = [pc EXCEPT ![w] = "blocked"]
  /\ UNCHANGED <<main, created, released, failed, next, index, result>>

\* Mutant: a failing image ends its worker without setting `failed`.
WorkFailsSilently(w) ==
  /\ pc[w] = "working"
  /\ image' = [image EXCEPT ![index[w]] = "bad"]
  /\ pc' = [pc EXCEPT ![w] = "exited"]
  /\ UNCHANGED <<main, created, released, failed, next, index, result>>

WorkFails(w) ==
  /\ pc[w] = "working"
  /\ image' = [image EXCEPT ![index[w]] = "bad"]
  /\ failed' = TRUE
  /\ pc' = [pc EXCEPT ![w] = "exited"]
  /\ UNCHANGED <<main, created, released, next, index, result>>
-----------------------------------------------------------------------------
Main == CreateThread \/ CreateFails \/ Release \/ JoinAll
Worker(w) == Dequeue(w) \/ Exit(w) \/ WorkSucceeds(w) \/ WorkFails(w)
Returned == main = "returned" /\ UNCHANGED vars

Next == Main \/ (\E w \in Workers : Worker(w)) \/ Returned

Spec == Init /\ [][Next]_vars
\* The main thread and every worker are scheduled; work() returns.
FairSpec == Spec /\ WF_vars(Main) /\ \A w \in Workers : WF_vars(Worker(w))
-----------------------------------------------------------------------------
\* "All threads must exist before any write starts": no image is touched
\* unless every wanted worker was created.
AllThreadsBeforeWork ==
  (\E i \in Images : image[i] # "untouched") => created = Wanted

\* The caller is told "true" exactly when every image was processed and was
\* good, and by then no worker is still running.
TruthfulResult ==
  main = "returned" =>
    /\ \A w \in Workers : pc[w] \in {"absent", "exited"}
    /\ result <=> (Count # 0 /\ Lanes # 0 /\ \A i \in Images : image[i] = "good")

\* Two workers never hold the same image: the index is taken under the mutex.
OneWorkerPerImage ==
  \A v, w \in Workers :
    pc[v] = "working" /\ pc[w] = "working" /\ index[v] = index[w] => v = w

\* The pool keeps the promise of module ImagePool: seen from outside an image is
\* processed once and atomically, nothing happens after the answer, and "false"
\* means a bad image or a pool that touched none.
Pool ==
  INSTANCE ImagePool WITH
    Accepted <- Count # 0 /\ Lanes # 0,
    outcome <- [i \in Images |-> IF image[i] = "running" THEN "untouched" ELSE image[i]],
    answer <- IF main # "returned" THEN "pending" ELSE IF result THEN "true" ELSE "false"
ImplementsPool == Pool!Spec

\* Always join before returning: the call ends, whatever fails.
EventuallyReturns == <>(main = "returned")
=============================================================================
