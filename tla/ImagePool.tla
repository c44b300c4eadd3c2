------------------------------ MODULE ImagePool ------------------------------
(***************************************************************************)
(* What RunParallelImages promises its caller, without threads: images are *)
(* processed once each, in any order, and the answer says how that ended.  *)
(* An answer of "false" means that an image was bad or that none was       *)
(* touched: the readback of module FlashBatch relies on that.              *)
(***************************************************************************)
CONSTANTS Images,     \* the indices 0..count-1
          Accepted    \* count and lanes are not zero

VARIABLES outcome,    \* what has happened to each image
          answer      \* "pending", or what the call returned

vars == <<outcome, answer>>

AllGood == \A i \in Images : outcome[i] = "good"
SomeBad == \E i \in Images : outcome[i] = "bad"
Untouched == \A i \in Images : outcome[i] = "untouched"

Init ==
  /\ outcome = [i \in Images |-> "untouched"]
  /\ answer = IF Accepted THEN "pending" ELSE "false"

Process(i, o) ==
  /\ answer = "pending"
  /\ outcome[i] = "untouched"
  /\ outcome' = [outcome EXCEPT ![i] = o]
  /\ UNCHANGED answer

Return(a) ==
  /\ answer = "pending"
  /\ IF a = "true" THEN AllGood ELSE SomeBad \/ Untouched
  /\ answer' = a
  /\ UNCHANGED outcome

Next ==
  \/ \E i \in Images, o \in {"good", "bad"} : Process(i, o)
  \/ \E a \in {"true", "false"} : Return(a)

Spec == Init /\ [][Next]_vars
=============================================================================
