------------------------------ MODULE PcBridge ------------------------------
(***************************************************************************)
(* The request/reply channel between the recovery's /pc file system and    *)
(* the browser that owns a computer backup: class Bridge of                *)
(* aera_remote/pc_storage.cpp.                                             *)
(*                                                                         *)
(* A caller (the FUSE loop) publishes one request at a time and sleeps     *)
(* until the owning browser replies, the session is stopped or a deadline  *)
(* passes.  Browsers fetch requests, perform them on the user's folder and *)
(* post replies over HTTP, so a fetched request may be answered late, more *)
(* than once, or never.  Every method body runs under lock_, which makes   *)
(* each of them one step; Call() releases it in its two waits.             *)
(*                                                                         *)
(* steady_clock readings appear as ages: `age` is now - request_started_   *)
(* and `silent` is now - last_seen_, in units of one clock tick.  The       *)
(* byte counts and last_error_, which only feed the display, are left out. *)
(***************************************************************************)
EXTENDS Naturals, FiniteSets

CONSTANTS Callers, Browsers, Nobody,
          OperationTimeout, FinalizeTimeout, HeartbeatTimeout,
          MaxSequence,  \* bound on the number of calls made
          MaxSessions   \* bound on the number of sessions begun

ASSUME TimeoutAssumption ==
  /\ OperationTimeout \in Nat /\ FinalizeTimeout \in Nat /\ HeartbeatTimeout \in Nat
  /\ OperationTimeout <= FinalizeTimeout
ASSUME BoundAssumption == MaxSequence \in Nat /\ MaxSessions \in Nat
ASSUME NobodyAssumption == Nobody \notin Browsers

\* "commit" stands for the operations close and rename, "data" for the others.
Ops == {"data", "commit"}
\* What Call returns: 0, the browser's errno, or the -EIO of the bridge itself.
Replies == {"ok", "errno"}
Results == Replies \cup {"none", "eio"}

VARIABLES
  active, writable, owner, sequence, waiting, answered,  \* the Bridge's fields
  request,    \* request_["op"]
  reply,      \* reply_["errno"]
  age, silent,
  pc, op,     \* control point and argument of each caller of Call()
  held,       \* ids each browser has fetched and may still answer
  \* observers
  session,    \* number of successful Begin() calls
  performed,  \* <<browser, id>>: requests a browser carried out successfully
  issued,     \* owner, session and id of each caller's current or last request
  result,     \* what each caller's last Call() returned
  broken      \* sessions in which the bridge itself failed an issued call

bridge == <<active, writable, owner, sequence, waiting, answered, request, reply,
            age, silent>>
observers == <<session, performed, issued, result, broken>>
vars == <<bridge, pc, op, held, observers>>

TypeOK ==
  /\ active \in BOOLEAN /\ writable \in BOOLEAN
  /\ owner \in Browsers \cup {Nobody}
  /\ sequence \in Nat
  /\ waiting \in BOOLEAN /\ answered \in BOOLEAN
  /\ request \in Ops /\ reply \in Replies
  /\ age \in Nat /\ silent \in Nat /\ silent <= age
  /\ pc \in [Callers -> {"idle", "entering", "waiting"}]
  /\ op \in [Callers -> Ops]
  /\ held \in [Browsers -> SUBSET Nat]
  /\ session \in Nat
  /\ performed \subseteq Browsers \X Nat
  /\ issued \in [Callers -> [owner : Browsers \cup {Nobody}, session : Nat, id : Nat]]
  /\ result \in [Callers -> Results]
  /\ broken \subseteq Nat

Init ==
  /\ active = FALSE /\ writable = FALSE /\ owner = Nobody
  /\ sequence = 0 /\ waiting = FALSE /\ answered = FALSE
  /\ request = "data" /\ reply = "ok"
  /\ age = 0 /\ silent = 0
  /\ pc = [c \in Callers |-> "idle"]
  /\ op = [c \in Callers |-> "data"]
  /\ held = [b \in Browsers |-> {}]
  /\ session = 0 /\ performed = {} /\ broken = {}
  /\ issued = [c \in Callers |-> [owner |-> Nobody, session |-> 0, id |-> 0]]
  /\ result = [c \in Callers |-> "none"]
-----------------------------------------------------------------------------
(* Session control. *)

Begin(b, w) ==
  /\ ~active /\ ~waiting
  /\ session < MaxSessions
  /\ active' = TRUE /\ writable' = w /\ owner' = b
  /\ waiting' = FALSE /\ answered' = FALSE
  /\ session' = session + 1
  /\ UNCHANGED <<sequence, request, reply, age, silent, pc, op, held,
                 performed, issued, result, broken>>

Stop ==
  /\ active' = FALSE
  /\ UNCHANGED <<writable, owner, sequence, waiting, answered, request, reply,
                 age, silent, pc, op, held, observers>>

Heartbeat(b) ==
  /\ active /\ owner = b
  /\ silent' = 0
  /\ UNCHANGED <<active, writable, owner, sequence, waiting, answered, request, reply,
                 age, pc, op, held, observers>>
-----------------------------------------------------------------------------
(* The browser's side: Poll and AppendData deliver the current request; the *)
(* browser performs it and posts a reply, which Reply() accepts or refuses. *)

Deliverable(b) == active /\ owner = b /\ waiting /\ ~answered

Poll(b) ==
  /\ Deliverable(b)
  /\ held' = [held EXCEPT ![b] = @ \cup {sequence}]
  /\ UNCHANGED <<bridge, pc, op, observers>>

\* Mutant: the id of the reply is not checked.
AcceptsAnyId(b, id) == Deliverable(b)
Accepts(b, id) == Deliverable(b) /\ id = sequence

Answer(b, id, e) ==
  /\ id \in held[b]
  /\ performed' = IF e = "ok" THEN performed \cup {<<b, id>>} ELSE performed
  /\ IF Accepts(b, id)
     THEN /\ reply' = e
          /\ answered' = TRUE
     ELSE UNCHANGED <<reply, answered>>
  /\ UNCHANGED <<active, writable, owner, sequence, waiting, request, age, silent,
                 pc, op, held, session, issued, result, broken>>
-----------------------------------------------------------------------------
(* Call(): enter, wait for the previous request, publish, wait, return. *)

Enter(c, o) ==
  /\ pc[c] = "idle"
  /\ sequence + Cardinality({d \in Callers : pc[d] = "entering"}) < MaxSequence
  /\ pc' = [pc EXCEPT ![c] = "entering"]
  /\ op' = [op EXCEPT ![c] = o]
  /\ UNCHANGED <<bridge, held, observers>>

Refuse(c) ==
  /\ pc[c] = "entering"
  /\ ~active
  /\ pc' = [pc EXCEPT ![c] = "idle"]
  /\ result' = [result EXCEPT ![c] = "eio"]
  /\ UNCHANGED <<bridge, op, held, session, performed, issued, broken>>

\* Mutant: the wait for the previous request is missing.
IssueWithoutWaiting(c) ==
  /\ pc[c] = "entering"
  /\ active
  /\ sequence' = sequence + 1
  /\ request' = op[c]
  /\ waiting' = TRUE /\ answered' = FALSE
  /\ age' = 0 /\ silent' = 0
  /\ pc' = [pc EXCEPT ![c] = "waiting"]
  /\ issued' = [issued EXCEPT ![c] = [owner |-> owner, session |-> session, id |-> sequence + 1]]
  /\ result' = [result EXCEPT ![c] = "none"]
  /\ UNCHANGED <<active, writable, owner, reply, op, held, session, performed, broken>>

Issue(c) ==
  /\ pc[c] = "entering"
  /\ active /\ ~waiting
  /\ sequence' = sequence + 1
  /\ request' = op[c]
  /\ waiting' = TRUE /\ answered' = FALSE
  /\ age' = 0 /\ silent' = 0
  /\ pc' = [pc EXCEPT ![c] = "waiting"]
  /\ issued' = [issued EXCEPT ![c] = [owner |-> owner, session |-> session, id |-> sequence + 1]]
  /\ result' = [result EXCEPT ![c] = "none"]
  /\ UNCHANGED <<active, writable, owner, reply, op, held, session, performed, broken>>

\* Mutant: heartbeats extend the wait beyond finalize_timeout_.
ExpiredIgnoringDeadline ==
  IF writable /\ request = "commit"
  THEN silent >= HeartbeatTimeout
  ELSE age >= OperationTimeout
\* now >= until
Expired ==
  IF writable /\ request = "commit"
  THEN age >= FinalizeTimeout \/ silent >= HeartbeatTimeout
  ELSE age >= OperationTimeout

\* The tail of Call() with the value it returns; a failed wait ends the session.
Return(c, r) ==
  /\ pc' = [pc EXCEPT ![c] = "idle"]
  /\ result' = [result EXCEPT ![c] = r]
  /\ waiting' = FALSE
  /\ UNCHANGED <<writable, owner, sequence, answered, request, reply,
                 age, silent, op, held, session, performed, issued>>

ReturnAnswer(c) ==
  /\ pc[c] = "waiting"
  /\ active /\ answered
  /\ Return(c, reply)
  /\ UNCHANGED <<active, broken>>

\* Mutant: a timed-out call leaves the session active.
ReturnFailureKeepSession(c) ==
  /\ pc[c] = "waiting"
  /\ ~active \/ (~answered /\ Expired)
  /\ Return(c, "eio")
  /\ broken' = broken \cup {issued[c].session}
  /\ UNCHANGED active

ReturnFailure(c) ==
  /\ pc[c] = "waiting"
  /\ ~active \/ (~answered /\ Expired)
  /\ active' = FALSE
  /\ Return(c, "eio")
  /\ broken' = broken \cup {issued[c].session}

Tick ==
  /\ waiting
  /\ age < FinalizeTimeout
  /\ age' = age + 1 /\ silent' = silent + 1
  /\ UNCHANGED <<active, writable, owner, sequence, waiting, answered, request, reply,
                 pc, op, held, observers>>
-----------------------------------------------------------------------------
CallStep(c) == Issue(c) \/ Refuse(c) \/ ReturnAnswer(c) \/ ReturnFailure(c)
Browser(b) ==
  \/ Poll(b) \/ Heartbeat(b)
  \/ \E id \in held[b], e \in Replies : Answer(b, id, e)

Next ==
  \/ \E b \in Browsers, w \in BOOLEAN : Begin(b, w)
  \/ Stop
  \/ \E b \in Browsers : Browser(b)
  \/ \E c \in Callers : (\E o \in Ops : Enter(c, o)) \/ CallStep(c)
  \/ Tick

Spec == Init /\ [][Next]_vars
\* A caller inside Call() is scheduled, and time passes while it waits.  The
\* browser owes nothing: it may stay silent for ever.
FairSpec == Spec /\ WF_vars(Tick) /\ \A c \in Callers : WF_vars(CallStep(c))
-----------------------------------------------------------------------------
\* Call() returns 0 only if the browser that owned the session when the
\* request was published performed that very request: no stale, duplicated or
\* foreign reply is ever taken for it.
AnswerAuthentic ==
  \A c \in Callers :
    result[c] = "ok" => <<issued[c].owner, issued[c].id>> \in performed

\* "One bounded request at a time": at most one caller has a request out, and
\* the fields a browser sees are those of that caller.
OneRequest ==
  \A c, d \in Callers :
    pc[c] = "waiting" =>
      /\ waiting /\ issued[c].id = sequence
      /\ pc[d] = "waiting" => c = d

\* A session in which a wait failed is dead: no later Call() in it succeeds, so
\* an archive that missed a write cannot be completed by the writes after it.
FailStop ==
  [][\A c \in Callers :
       pc[c] = "waiting" /\ pc'[c] = "idle" /\ result'[c] # "eio"
         => issued[c].session \notin broken]_vars

\* A published request always ends, however the browser behaves: heartbeats
\* extend a commit only up to finalize_timeout_.
CallReturns == \A c \in Callers : pc[c] = "waiting" ~> pc[c] = "idle"
=============================================================================
