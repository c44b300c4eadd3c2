--------------------------- MODULE PcBridgeProofs ---------------------------
(***************************************************************************)
(* Proofs about the storage bridge for any callers, browsers, timeouts and *)
(* bounds.                                                                 *)
(***************************************************************************)
EXTENDS PcBridge, TLAPS

\* A waiting caller's request is the one the fields describe, and it was
\* published in the session that still owns the bridge.
CallInv ==
  \A c \in Callers : pc[c] = "waiting" =>
    /\ waiting
    /\ issued[c].id = sequence /\ issued[c].session = session /\ issued[c].owner = owner
    /\ \A d \in Callers : pc[d] = "waiting" => c = d

\* A stored positive reply was earned by the owner, for the current request.
ReplyInv == waiting /\ answered /\ reply = "ok" => <<owner, sequence>> \in performed

\* Only past sessions, or the current one once it is inactive, are broken.
BrokenInv ==
  /\ \A s \in broken : s <= session
  /\ session \in broken => ~active

IInv == TypeOK /\ CallInv /\ ReplyInv /\ BrokenInv /\ AnswerAuthentic

\* The invariant holds for a new Bridge.
LEMMA InitIInv == Init => IInv
<1> SUFFICES ASSUME Init PROVE IInv
  OBVIOUS
<1>1. TypeOK
  <2>1. active \in BOOLEAN /\ writable \in BOOLEAN /\ waiting \in BOOLEAN /\ answered \in BOOLEAN
    BY Zenon DEF Init
  <2>2. issued \in [Callers -> [owner : Browsers \cup {Nobody}, session : Nat, id : Nat]]
    BY Zenon DEF Init
  <2>3. request \in Ops /\ reply \in Replies /\ op \in [Callers -> Ops]
    BY Zenon DEF Init, Ops, Replies
  <2>4. result \in [Callers -> Results]
    BY Zenon DEF Init, Results
  <2>5. /\ owner \in Browsers \cup {Nobody} /\ sequence \in Nat /\ age \in Nat /\ silent \in Nat /\ silent <= age
        /\ pc \in [Callers -> {"idle", "entering", "waiting"}]
        /\ held \in [Browsers -> SUBSET Nat]
        /\ session \in Nat /\ performed \subseteq Browsers \X Nat /\ broken \subseteq Nat
    BY DEF Init
  <2> QED
    BY <2>1, <2>2, <2>3, <2>4, <2>5, Zenon DEF TypeOK
<1>2. CallInv /\ ReplyInv /\ BrokenInv /\ AnswerAuthentic
  BY Zenon DEF Init, CallInv, ReplyInv, BrokenInv, AnswerAuthentic
<1> QED
  BY <1>1, <1>2, Zenon DEF IInv

\* Every method of the bridge, and time, preserves the invariant.
LEMMA NextIInv == IInv /\ [Next]_vars => IInv'
<1> SUFFICES ASSUME IInv, [Next]_vars PROVE IInv'
  OBVIOUS
<1> USE TimeoutAssumption, BoundAssumption, NobodyAssumption
       DEF IInv, TypeOK, CallInv, ReplyInv, BrokenInv, AnswerAuthentic,
           bridge, observers, Ops, Replies, Results
<1>1. ASSUME NEW b \in Browsers, NEW w \in BOOLEAN, Begin(b, w) PROVE IInv'
  <2>1. TypeOK'
    <3>1. active' \in BOOLEAN /\ writable' \in BOOLEAN /\ waiting' \in BOOLEAN /\ answered' \in BOOLEAN
      BY <1>1, Zenon DEF Begin
    <3>2. owner' \in Browsers \cup {Nobody} /\ session' \in Nat
      BY <1>1 DEF Begin
    <3> QED
      BY <1>1, <3>1, <3>2, Zenon DEF Begin
  <2>2. CallInv'
    BY <1>1, Zenon DEF Begin
  <2>3. ReplyInv'
    BY <1>1, Zenon DEF Begin
  <2>4. BrokenInv'
    BY <1>1 DEF Begin
  <2>5. AnswerAuthentic'
    BY <1>1, Zenon DEF Begin
  <2> QED
    BY <2>1, <2>2, <2>3, <2>4, <2>5, Zenon
<1>2. CASE Stop
  BY <1>2, Zenon DEF Stop
<1>3. ASSUME NEW b \in Browsers, Heartbeat(b) PROVE IInv'
  BY <1>3 DEF Heartbeat
<1>4. ASSUME NEW b \in Browsers, Poll(b) PROVE IInv'
  BY <1>4, Zenon DEF Poll
<1>5. ASSUME NEW b \in Browsers, NEW id \in held[b], NEW e \in Replies, Answer(b, id, e) PROVE IInv'
  <2>1. TypeOK'
    <3>1. reply' \in Replies /\ answered' \in BOOLEAN
      BY <1>5, Zenon DEF Answer
    <3>2. performed' \subseteq Browsers \X Nat
      BY <1>5 DEF Answer
    <3> QED
      BY <1>5, <3>1, <3>2, Zenon DEF Answer
  <2>2. CallInv'
    BY <1>5, Zenon DEF Answer, Accepts, Deliverable
  <2>3. ReplyInv'
    BY <1>5, Zenon DEF Answer, Accepts, Deliverable
  <2>4. BrokenInv'
    BY <1>5, Zenon DEF Answer, Accepts, Deliverable
  <2>5. AnswerAuthentic'
    BY <1>5, Zenon DEF Answer, Accepts, Deliverable
  <2> QED
    BY <2>1, <2>2, <2>3, <2>4, <2>5, Zenon
<1>6. ASSUME NEW c \in Callers, NEW o \in Ops, Enter(c, o) PROVE IInv'
  BY <1>6, Zenon DEF Enter
<1>7. ASSUME NEW c \in Callers, Refuse(c) PROVE IInv'
  <2>1. TypeOK'
    BY <1>7, Zenon DEF Refuse
  <2>2. CallInv'
    BY <1>7, Zenon DEF Refuse
  <2>3. ReplyInv'
    BY <1>7, Zenon DEF Refuse
  <2>4. BrokenInv'
    BY <1>7, Zenon DEF Refuse
  <2>5. AnswerAuthentic'
    BY <1>7, Zenon DEF Refuse
  <2> QED
    BY <2>1, <2>2, <2>3, <2>4, <2>5, Zenon
<1>8. ASSUME NEW c \in Callers, Issue(c) PROVE IInv'
  <2>1. TypeOK'
    <3>1. /\ waiting' \in BOOLEAN /\ answered' \in BOOLEAN
          /\ request' \in Ops /\ pc' \in [Callers -> {"idle", "entering", "waiting"}]
          /\ result' \in [Callers -> Results]
      BY <1>8, Zenon DEF Issue
    <3>2. sequence' \in Nat /\ age' \in Nat /\ silent' \in Nat /\ (silent <= age)'
      BY <1>8 DEF Issue
    <3>3. issued' \in [Callers -> [owner : Browsers \cup {Nobody}, session : Nat, id : Nat]]
      BY <1>8 DEF Issue
    <3> QED
      BY <1>8, <3>1, <3>2, <3>3, Zenon DEF Issue
  <2>2. CallInv'
    BY <1>8, Zenon DEF Issue
  <2>3. ReplyInv'
    BY <1>8, Zenon DEF Issue
  <2>4. BrokenInv'
    BY <1>8, Zenon DEF Issue
  <2>5. AnswerAuthentic'
    BY <1>8, Zenon DEF Issue
  <2> QED
    BY <2>1, <2>2, <2>3, <2>4, <2>5, Zenon
<1>9. ASSUME NEW c \in Callers, ReturnAnswer(c) PROVE IInv'
  <2>1. TypeOK'
    BY <1>9, Zenon DEF ReturnAnswer, Return
  <2>2. CallInv'
    BY <1>9, Zenon DEF ReturnAnswer, Return
  <2>3. ReplyInv'
    BY <1>9, Zenon DEF ReturnAnswer, Return
  <2>4. BrokenInv'
    BY <1>9, Zenon DEF ReturnAnswer, Return
  <2>5. AnswerAuthentic'
    BY <1>9, SMTT(30) DEF ReturnAnswer, Return
  <2> QED
    BY <2>1, <2>2, <2>3, <2>4, <2>5, Zenon
<1>10. ASSUME NEW c \in Callers, ReturnFailure(c) PROVE IInv'
  <2>1. TypeOK'
    BY <1>10, Zenon DEF ReturnFailure, Return
  <2>2. CallInv'
    BY <1>10, Zenon DEF ReturnFailure, Return
  <2>3. ReplyInv'
    BY <1>10, Zenon DEF ReturnFailure, Return
  <2>4. BrokenInv'
    BY <1>10 DEF ReturnFailure, Return
  <2>5. AnswerAuthentic'
    BY <1>10, Zenon DEF ReturnFailure, Return
  <2> QED
    BY <2>1, <2>2, <2>3, <2>4, <2>5, Zenon
<1>11. CASE Tick
  BY <1>11 DEF Tick
<1>12. CASE UNCHANGED vars
  <2>1. TypeOK'
    BY <1>12, Zenon DEF vars
  <2>2. CallInv'
    BY <1>12, Zenon DEF vars
  <2>3. ReplyInv'
    BY <1>12, Zenon DEF vars
  <2>4. BrokenInv'
    BY <1>12, Zenon DEF vars
  <2>5. AnswerAuthentic'
    BY <1>12, Zenon DEF vars
  <2> QED
    BY <2>1, <2>2, <2>3, <2>4, <2>5, Zenon
<1> HIDE DEF IInv, Ops, Replies
<1> QED
  BY <1>1, <1>2, <1>3, <1>4, <1>5, <1>6, <1>7, <1>8, <1>9, <1>10, <1>11, <1>12, Zenon DEF Next,
     Browser, CallStep

\* The invariant holds in every reachable state of the bridge.
LEMMA SpecIInv == Spec => []IInv
BY InitIInv, NextIInv, PTL DEF Spec

\* Type correctness of the bridge.
THEOREM TypeCorrect == Spec => []TypeOK
<1>1. IInv => TypeOK
  BY Zenon DEF IInv
<1> QED
  BY <1>1, SpecIInv, PTL

\* Call() returns 0 only for a request its session's owner performed, for any
\* number of callers and browsers, any timeouts and any delay of the replies.
THEOREM AnswersAreAuthentic == Spec => []AnswerAuthentic
<1>1. IInv => AnswerAuthentic
  BY Zenon DEF IInv
<1> QED
  BY <1>1, SpecIInv, PTL

\* At most one request is outstanding, and it is the one the fields describe.
THEOREM SingleRequest == Spec => []OneRequest
<1>1. IInv => OneRequest
  BY Zenon DEF IInv, CallInv, OneRequest
<1> QED
  BY <1>1, SpecIInv, PTL

\* After a failed wait nothing succeeds in that session: Call() clears active_
\* and only a later session can set it again.
THEOREM SessionsFailStop == Spec => FailStop
<1> DEFINE Step == \A c \in Callers :
      pc[c] = "waiting" /\ pc'[c] = "idle" /\ result'[c] # "eio" => issued[c].session \notin broken
<1>1. IInv /\ [Next]_vars => [Step]_vars
  <2> SUFFICES ASSUME IInv, Next, NEW c \in Callers, pc[c] = "waiting", pc'[c] = "idle",
                      result'[c] # "eio"
               PROVE issued[c].session \notin broken
    OBVIOUS
  <2>1. ReturnAnswer(c)
    <3> USE DEF IInv, TypeOK
    <3>1. pc' # pc
      OBVIOUS
    <3>2. ASSUME NEW d \in Callers, ReturnAnswer(d) PROVE d = c
      BY <3>2, Zenon DEF ReturnAnswer, Return
    <3>3. ASSUME NEW d \in Callers, ReturnFailure(d) PROVE FALSE
      BY <3>3, Zenon DEF ReturnFailure, Return
    <3>4. ASSUME NEW d \in Callers, Issue(d) \/ Refuse(d) \/ \E o \in Ops : Enter(d, o) PROVE FALSE
      BY <3>4, Zenon DEF Issue, Refuse, Enter
    <3> HIDE DEF IInv, TypeOK
    <3> QED
      BY <3>1, <3>2, <3>3, <3>4, Zenon DEF Next, Begin, Stop, Browser, Poll, Heartbeat, Answer,
         CallStep, Tick
  <2> QED
    BY <2>1, Zenon DEF IInv, CallInv, BrokenInv, ReturnAnswer
<1> QED
  BY <1>1, SpecIInv, PTL DEF Spec, FailStop
=============================================================================
