------------------------ MODULE WifiDispatcherProofs ------------------------
(***************************************************************************)
(* Proofs about WifiDispatcher for any networks and any number of calls of *)
(* RecoveryWifiInitialize.                                                 *)
(***************************************************************************)
EXTENDS WifiDispatcher, TLAPS

Holding == {"start", "set", "work", "off"}
Starting == {"enable", "scan", "connect"}      \* calls that may start the supplicant
Resting == {"loop", "poll", "sleep"}
Session == {"session", "enabled", "left", "scanned"}
Kinds == {"none", "enable", "scan", "connect", "disable", "disconnect", "info"}
Stages == {"none", "wait", "start", "set", "work", "off"}
Records == [name : Kinds, stage : Stages, network : Names, ok : BOOLEAN]

(* The types that the arguments below need. *)
TypeInv ==
  /\ pending \subseteq Requests /\ prefs \in Prefs
  /\ radio \in BOOLEAN /\ inits \in Nat
  /\ op \in Threads \cup {"free"} /\ goal \in Names
  /\ call \in [Threads -> Records]
  /\ at["dispatcher"] \in Resting \cup Session \cup {"restore", "early", "look"}
  /\ at["user"] \in {"idle", "enabled", "scanned", "tail", "submit"}
  /\ DOMAIN at = Threads /\ at = [t \in Threads |-> at[t]]

(* g_wlan_op_mutex: a call that is past its first step holds it; what has     *)
(* been switched off stays off until the call returns.                        *)
MutexInv ==
  \A t \in Threads :
    /\ call[t].stage \in Holding <=> op = t
    /\ call[t].name = "none" <=> call[t].stage = "none"
    /\ call[t].stage = "start" => call[t].name \in Starting
    /\ call[t].stage = "off" => ~radio /\ call[t].name = "disable"

(* Until RecoveryWifiInitialize is called only an early session is at work,   *)
(* and from the moment it takes the radio over the radio is on.               *)
UnlockInv ==
  /\ inits = 0 =>
       /\ pending \subseteq {"early"} /\ ~askedOff
       /\ at["user"] = "idle" /\ at["dispatcher"] # "restore"
       /\ call["dispatcher"].name # "disable"
       /\ at["dispatcher"] \in Session \/ ~Idle("dispatcher") => radio
  /\ at["user"] = "idle" => Idle("user")
  /\ call["user"].name = "disable" => at["user"] = "tail"

(* The order to switch the radio off is pending, being carried out, or done   *)
(* with nothing under way that would undo it.                                 *)
Harmless == "early" \notin pending /\ ("restore" \in pending => ~prefs.auto)
Ordered == "stop" \in pending
Stopping ==
  /\ call["dispatcher"].name = "disable" /\ call["dispatcher"].stage \in {"wait", "work"}
  /\ at["dispatcher"] = "loop"
Done ==
  /\ ~radio /\ call["dispatcher"].name \notin Starting
  /\ at["dispatcher"] \in Resting \cup {"restore", "session"}
  /\ at["dispatcher"] \in {"restore", "session"} => ~prefs.auto
OffInv ==
  askedOff =>
    /\ Harmless
    /\ call["user"].name \notin Starting /\ at["user"] \notin {"enabled", "scanned"}
    /\ Ordered \/ Stopping \/ Done

IInv == TypeInv /\ MutexInv /\ UnlockInv /\ OffInv
-----------------------------------------------------------------------------
(* What keeps TypeInv: a step of a call, and a step of the dispatcher. *)
LEMMA CallKeepsTypes ==
  ASSUME TypeInv, call' \in [Threads -> Records], radio' \in BOOLEAN,
         UNCHANGED <<pending, prefs, inits, op, goal, at>>
  PROVE  TypeInv'
BY Zenon DEF TypeInv

LEMMA MoveKeepsTypes ==
  ASSUME TypeInv, call' \in [Threads -> Records], pending' \subseteq pending,
         UNCHANGED <<prefs, radio, inits, op, goal>>,
         NEW p \in Resting \cup Session \cup {"restore", "early", "look"},
         at' = [at EXCEPT !["dispatcher"] = p]
  PROVE  TypeInv'
<1>1. /\ DOMAIN at' = Threads /\ at' = [t \in Threads |-> at'[t]]
      /\ at'["dispatcher"] = p /\ at'["user"] = at["user"]
  BY Zenon DEF TypeInv, Threads
<1> QED
  BY <1>1, Zenon DEF TypeInv

(* TakeNextRequest finds the first request of its order. *)
LEMMA FirstExists ==
  ASSUME pending \subseteq Requests, pending # {}
  PROVE  \E i \in 1..4 : Order[i] \in pending /\ \A j \in 1..(i-1) : Order[j] \notin pending
<1> DEFINE P(i) == Order[i] \in pending /\ \A j \in 1..(i-1) : Order[j] \notin pending
<1>0. Order[1] = "restore" /\ Order[2] = "stop" /\ Order[3] = "refresh" /\ Order[4] = "early"
  BY Zenon DEF Order
<1>1. CASE "restore" \in pending
  <2>1. P(1)
    BY <1>0, <1>1
  <2> QED BY <2>1
<1>2. CASE "restore" \notin pending /\ "stop" \in pending
  <2>1. \A j \in 1..(2-1) : j = 1
    OBVIOUS
  <2>2. P(2)
    BY <1>0, <1>2, <2>1, Zenon
  <2> QED BY <2>2
<1>3. CASE "restore" \notin pending /\ "stop" \notin pending /\ "refresh" \in pending
  <2>1. \A j \in 1..(3-1) : j = 1 \/ j = 2
    OBVIOUS
  <2>2. P(3)
    BY <1>0, <1>3, <2>1, Zenon
  <2> QED BY <2>2
<1>4. CASE "restore" \notin pending /\ "stop" \notin pending /\ "refresh" \notin pending
  <2>1. \A j \in 1..(4-1) : j = 1 \/ j = 2 \/ j = 3
    OBVIOUS
  <2>2. P(4)
    BY <1>0, <1>4, <2>1, Zenon DEF Requests
  <2> QED BY <2>2
<1> QED
  BY <1>1, <1>2, <1>3, <1>4, Zenon
(* TakeNextRequest takes "restore" before all others, and "stop" before "early". *)
LEMMA NextTaken ==
  ASSUME pending \subseteq Requests, pending # {}
  PROVE  /\ NextRequest \in pending
         /\ NextRequest # "restore" => "restore" \notin pending
         /\ NextRequest = "early" => "stop" \notin pending
<1>1. PICK i \in 1..4 : /\ Order[i] \in pending /\ \A j \in 1..(i-1) : Order[j] \notin pending
                        /\ NextRequest = Order[i]
  BY FirstExists, Zenon DEF NextRequest
<1>2. Order[1] = "restore" /\ Order[2] = "stop" /\ Order[3] = "refresh" /\ Order[4] = "early"
  BY Zenon DEF Order
<1>3. i # 1 => Order[1] \notin pending
  BY <1>1
<1>4. i = 4 => Order[2] \notin pending
  BY <1>1
<1>5. i = 1 \/ i = 2 \/ i = 3 \/ i = 4
  OBVIOUS
<1> QED
  BY <1>1, <1>2, <1>3, <1>4, <1>5, Zenon

(* A thread that begins a Wlan:: call keeps the calls well-typed. *)
LEMMA CallTyped ==
  ASSUME call \in [Threads -> Records], NEW t \in Threads, NEW name \in Kinds, NEW network \in Names,
         Call(t, name, network)
  PROVE  call' \in [Threads -> Records]
<1>1. [name |-> name, stage |-> "wait", network |-> network, ok |-> FALSE] \in Records
  BY Zenon DEF Records, Kinds, Stages
<1> QED
  BY <1>1, Zenon DEF Call

(* So does a call that goes on to its next stage. *)
LEMMA StageTyped ==
  ASSUME call \in [Threads -> Records], NEW t \in Threads, NEW s \in Stages, Stage(t, s)
  PROVE  call' \in [Threads -> Records]
<1>1. [call[t] EXCEPT !.stage = s] \in Records
  BY Zenon DEF Records, Kinds, Stages
<1> QED
  BY <1>1, Zenon DEF Stage

(* So does a call that returns. *)
LEMMA ReturnTyped ==
  ASSUME call \in [Threads -> Records], NEW t \in Threads, NEW ok, Returns(t, ok)
  PROVE  call' \in [Threads -> Records]
<1>1. (ok /\ t = "user" /\ call[t].name = "enable") \in BOOLEAN
  OBVIOUS
<1>2. \A b \in BOOLEAN : [NoCall EXCEPT !.ok = b] \in Records
  BY Zenon DEF Records, Kinds, Stages, NoCall, Names
<1>3. [NoCall EXCEPT !.ok = ok /\ t = "user" /\ call[t].name = "enable"] \in Records
  BY <1>1, <1>2, Zenon
<1> QED
  BY <1>3, Zenon DEF Returns

(* Nothing is asked for at the start. *)
LEMMA InitIInv == Init => IInv
<1> SUFFICES ASSUME Init PROVE IInv
  OBVIOUS
<1>1. NoCall \in Records
  BY Zenon DEF Records, Kinds, Stages, NoCall, Names
<1>2. TypeInv
  BY <1>1, Zenon DEF Init, TypeInv, Requests, Prefs, Names, Threads, Resting, Session
<1> QED
  BY <1>2, Zenon DEF Init, IInv, MutexInv, UnlockInv, OffInv, NoCall, Idle, Holding, Session,
     Threads

(* Start-up and the network keep IInv. *)
LEMMA StartKeeps ==
  ASSUME IInv,
         \/ \E p \in Prefs : InitializeEarly(p) \/ \E differs \in BOOLEAN : Initialize(p, differs)
         \/ DeviceStartsRadio \/ LinkLost \/ LinkReturns
  PROVE  IInv'
<1> USE WifiAssumption DEF IInv, TypeInv, MutexInv, UnlockInv, OffInv, Harmless, Ordered, Stopping, Done,
            Holding, Starting, Resting, Session, Kinds, Stages, Records, Requests, Threads, Names, Prefs,
            NoCall, Idle, flags, air, start
<1>1. ASSUME NEW p \in Prefs, InitializeEarly(p) PROVE IInv'
  BY <1>1 DEF InitializeEarly, Submitted
<1>2. ASSUME NEW p \in Prefs, NEW differs \in BOOLEAN, Initialize(p, differs) PROVE IInv'
  <2>1. TypeInv' /\ MutexInv'
    BY <1>2 DEF Initialize, Submitted, WantedOf
  <2>2. UnlockInv'
    BY <1>2 DEF Initialize
  <2>3. OffInv'
    BY <1>2, Zenon DEF Initialize, Submitted, WantedOf
  <2> QED
    BY <2>1, <2>2, <2>3, Zenon
<1>3. CASE DeviceStartsRadio
  BY <1>3, Zenon DEF DeviceStartsRadio
<1>4. CASE LinkLost
  BY <1>4 DEF LinkLost
<1>5. CASE LinkReturns
  BY <1>5 DEF LinkReturns
<1> HIDE DEF IInv
<1> QED
  BY <1>1, <1>2, <1>3, <1>4, <1>5, Zenon

(* A step of a Wlan:: call keeps IInv. *)
LEMMA CallKeeps ==
  ASSUME IInv, NEW t \in Threads, CallStep(t)
  PROVE  IInv'
<1> USE WifiAssumption DEF IInv, TypeInv, MutexInv, UnlockInv, OffInv, Harmless, Ordered, Stopping, Done,
            Holding, Starting, Resting, Session, Kinds, Stages, Records, Requests, Threads, Names, Prefs,
            NoCall, Idle, flags, air, start
<1>1. CASE CallEnter(t)
  <2>1. call' \in [Threads -> Records]
    BY <1>1 DEF CallEnter
  <2>2. TypeInv'
    BY <1>1, <2>1 DEF CallEnter
  <2>3. MutexInv' /\ UnlockInv' /\ OffInv'
    BY <1>1 DEF CallEnter
  <2> QED
    BY <2>2, <2>3, Zenon
<1>2. CASE CallStart(t)
  <2> DEFINE Taken == radio' = TRUE /\ Stage(t, "set")
             GivenUp == radio' \in {radio, TRUE} /\ Returns(t, FALSE)
  <2>1. /\ call[t].stage = "start" /\ (Taken \/ GivenUp)
        /\ UNCHANGED <<pending, prefs, inits, at, goal, askedOff>>
    BY <1>2, Zenon DEF CallStart
  <2>2. CASE Taken
    <3>1. call' \in [Threads -> Records]
      BY <2>2, StageTyped, Zenon
    <3>2. TypeInv'
      BY <2>1, <2>2, <3>1 DEF Stage
    <3>3. MutexInv'
      BY <2>1, <2>2 DEF Stage
    <3>4. UnlockInv' /\ OffInv'
      BY <2>1, <2>2 DEF Stage
    <3> QED
      BY <3>2, <3>3, <3>4, Zenon
  <2>3. CASE GivenUp
    <3>1. call' \in [Threads -> Records]
      BY <2>3, ReturnTyped, Zenon
    <3>2. TypeInv'
      <4>1. radio' \in BOOLEAN /\ op' = "free"
        BY <2>3, Zenon DEF Returns
      <4> QED
        BY <2>1, <3>1, <4>1, Zenon
    <3>3. MutexInv'
      BY <2>1, <2>3, Zenon DEF Returns
    <3>4. UnlockInv' /\ OffInv'
      BY <2>1, <2>3, Zenon DEF Returns
    <3> QED
      BY <3>2, <3>3, <3>4, Zenon
  <2> QED
    BY <2>1, <2>2, <2>3, Zenon
<1>3. CASE CallSet(t)
  <2>1. call' \in [Threads -> Records]
    BY <1>3, StageTyped, ReturnTyped, Zenon DEF CallSet
  <2>2. TypeInv'
    BY <1>3, <2>1 DEF CallSet, Returns, Stage
  <2>3. MutexInv' /\ UnlockInv' /\ OffInv'
    BY <1>3 DEF CallSet, Returns, Stage
  <2> QED
    BY <2>2, <2>3, Zenon
<1>4. CASE Scan(t)
  <2>1. call' \in [Threads -> Records]
    BY <1>4, StageTyped, ReturnTyped, Zenon DEF Scan
  <2>2. TypeInv'
    BY <1>4, <2>1 DEF Scan, Returns, Stage
  <2>3. MutexInv' /\ UnlockInv' /\ OffInv'
    BY <1>4 DEF Scan, Returns, Stage
  <2> QED
    BY <2>2, <2>3, Zenon
<1>5. CASE Connect(t)
  <2>1. call' \in [Threads -> Records]
    BY <1>5, StageTyped, ReturnTyped, Zenon DEF Connect
  <2>2. TypeInv'
    BY <1>5, <2>1 DEF Connect, Returns, Stage
  <2>3. MutexInv' /\ UnlockInv' /\ OffInv'
    BY <1>5 DEF Connect, Returns, Stage
  <2> QED
    BY <2>2, <2>3, Zenon
<1>6. CASE StopSupplicant(t)
  <2>1. call' \in [Threads -> Records]
    BY <1>6, StageTyped, ReturnTyped, Zenon DEF StopSupplicant
  <2>2. TypeInv'
    <3>1. TypeInv /\ radio' = FALSE /\ UNCHANGED <<pending, prefs, inits, op, goal, at>>
      BY <1>6, Zenon DEF StopSupplicant, Stage
    <3> HIDE DEF IInv, TypeInv
    <3> QED
      BY <2>1, <3>1, CallKeepsTypes, Zenon
  <2>3. MutexInv' /\ UnlockInv' /\ OffInv'
    BY <1>6 DEF StopSupplicant, Returns, Stage
  <2> QED
    BY <2>2, <2>3, Zenon
<1>7. CASE Disabled(t)
  <2>1. call' \in [Threads -> Records]
    BY <1>7, StageTyped, ReturnTyped, Zenon DEF Disabled, Alone
  <2>2. TypeInv'
    BY <1>7, <2>1 DEF Disabled, Alone, Returns, Stage
  <2>3. MutexInv'
    BY <1>7, Zenon DEF Disabled, Alone, Returns, Stage
  <2>4. UnlockInv'
    BY <1>7, Zenon DEF Disabled, Alone, Returns, Stage
  <2>5. OffInv'
    <3>1. CASE t = "dispatcher"
      BY <1>7, <3>1, Zenon DEF Disabled, Returns
    <3>2. CASE t = "user"
      BY <1>7, <3>2, Zenon DEF Disabled, Alone, Returns
    <3> QED
      BY <3>1, <3>2, Zenon
  <2> QED
    BY <2>2, <2>3, <2>4, <2>5, Zenon
<1>8. CASE Disconnect(t)
  <2>1. call' \in [Threads -> Records]
    BY <1>8, StageTyped, ReturnTyped, Zenon DEF Disconnect
  <2>2. TypeInv'
    BY <1>8, <2>1 DEF Disconnect, Returns, Stage
  <2>3. MutexInv' /\ UnlockInv' /\ OffInv'
    BY <1>8 DEF Disconnect, Returns, Stage
  <2> QED
    BY <2>2, <2>3, Zenon
<1>9. ASSUME NEW ok \in BOOLEAN, Info(t, ok) PROVE IInv'
  <2>1. call' \in [Threads -> Records]
    BY <1>9, StageTyped, ReturnTyped, Zenon DEF Info
  <2>2. TypeInv'
    BY <1>9, <2>1 DEF Info, Returns, Stage
  <2>3. MutexInv' /\ UnlockInv' /\ OffInv'
    BY <1>9 DEF Info, Returns, Stage
  <2> QED
    BY <2>2, <2>3, Zenon
<1> HIDE DEF IInv
<1> QED
  BY <1>1, <1>2, <1>3, <1>4, <1>5, <1>6, <1>7, <1>8, <1>9, Zenon DEF CallStep

(* The dispatcher between its calls keeps IInv. *)
LEMMA DispatcherKeeps ==
  ASSUME IInv,
         \/ Wait \/ Take \/ (\E ok \in BOOLEAN : Poll(ok)) \/ Restore
         \/ EarlyLooks \/ Adopt \/ EarlyEnds
         \/ SessionBegins \/ SessionLeaves \/ SessionScans \/ SessionConnects
  PROVE  IInv'
<1> USE WifiAssumption DEF IInv, TypeInv, MutexInv, UnlockInv, OffInv, Harmless, Ordered, Stopping, Done,
            Holding, Starting, Resting, Session, Kinds, Stages, Records, Requests, Threads, Names, Prefs,
            NoCall, Idle, flags, air, start
<1>1. CASE Wait
  <2>1. TypeInv'
    BY <1>1, Zenon DEF Wait, Go
  <2>2. MutexInv'
    BY <1>1, Zenon DEF Wait, Go
  <2>3. UnlockInv'
    BY <1>1, Zenon DEF Wait, Go
  <2>4. OffInv'
    BY <1>1, Zenon DEF Wait, Go
  <2> QED
    BY <2>1, <2>2, <2>3, <2>4, Zenon
<1>2. CASE Take
  <2>1. call' \in [Threads -> Records]
    BY <1>2, NextTaken, CallTyped, Zenon DEF Take, Go
  <2>2. TypeInv'
    <3>1. /\ TypeInv /\ pending' \subseteq pending /\ UNCHANGED <<prefs, radio, inits, op, goal>>
          /\ \E p \in {"restore", "early", "loop"} : at' = [at EXCEPT !["dispatcher"] = p]
      BY <1>2, Zenon DEF Take, Go
    <3> HIDE DEF IInv, TypeInv
    <3> QED
      BY <2>1, <3>1, MoveKeepsTypes, Zenon DEF Resting
  <2>3. MutexInv' /\ UnlockInv' /\ OffInv'
    BY <1>2, NextTaken DEF Take, Go, Call
  <2> QED
    BY <2>2, <2>3, Zenon
<1>3. ASSUME NEW ok \in BOOLEAN, Poll(ok) PROVE IInv'
  <2>1. TypeInv'
    BY <1>3, Zenon DEF Poll, At
  <2>2. MutexInv'
    BY <1>3, Zenon DEF Poll, At
  <2>3. UnlockInv'
    BY <1>3, Zenon DEF Poll, At
  <2>4. OffInv'
    BY <1>3, Zenon DEF Poll, At
  <2> QED
    BY <2>1, <2>2, <2>3, <2>4, Zenon
<1>4. CASE Restore
  <2>1. TypeInv'
    BY <1>4, Zenon DEF Restore, At
  <2>2. MutexInv'
    BY <1>4, Zenon DEF Restore, At
  <2>3. UnlockInv'
    BY <1>4, Zenon DEF Restore, At
  <2>4. OffInv'
    BY <1>4, Zenon DEF Restore, At
  <2> QED
    BY <2>1, <2>2, <2>3, <2>4, Zenon
<1>5. CASE EarlyLooks
  <2>1. TypeInv'
    BY <1>5, Zenon DEF EarlyLooks, At
  <2>2. MutexInv'
    BY <1>5, Zenon DEF EarlyLooks, At
  <2>3. UnlockInv'
    BY <1>5, Zenon DEF EarlyLooks, At
  <2>4. OffInv'
    BY <1>5, Zenon DEF EarlyLooks, At
  <2> QED
    BY <2>1, <2>2, <2>3, <2>4, Zenon
<1>6. CASE Adopt
  BY <1>6 DEF Adopt, Present, Go
<1>7. CASE EarlyEnds
  <2>1. TypeInv'
    BY <1>7, Zenon DEF EarlyEnds, At
  <2>2. MutexInv'
    BY <1>7, Zenon DEF EarlyEnds, At
  <2>3. UnlockInv'
    BY <1>7, Zenon DEF EarlyEnds, At
  <2>4. OffInv'
    BY <1>7, Zenon DEF EarlyEnds, At
  <2> QED
    BY <2>1, <2>2, <2>3, <2>4, Zenon
<1>8. CASE SessionBegins
  <2>1. call' \in [Threads -> Records]
    BY <1>8, CallTyped, Zenon DEF SessionBegins, Go
  <2>2. TypeInv'
    BY <1>8, <2>1 DEF SessionBegins, Go, Call
  <2>3. MutexInv' /\ UnlockInv' /\ OffInv'
    BY <1>8 DEF SessionBegins, Go, Call
  <2> QED
    BY <2>2, <2>3, Zenon
<1>9. CASE SessionLeaves
  <2>1. call' \in [Threads -> Records]
    BY <1>9, CallTyped, Zenon DEF SessionLeaves, Go
  <2>2. TypeInv'
    BY <1>9, <2>1, Zenon DEF SessionLeaves, Go, Call
  <2>3. MutexInv' /\ UnlockInv' /\ OffInv'
    BY <1>9 DEF SessionLeaves, Go, Call
  <2> QED
    BY <2>2, <2>3, Zenon
<1>10. CASE SessionScans
  <2>1. call' \in [Threads -> Records]
    BY <1>10, CallTyped, Zenon DEF SessionScans, Go
  <2>2. TypeInv'
    BY <1>10, <2>1, Zenon DEF SessionScans, Go, Call
  <2>3. MutexInv' /\ UnlockInv' /\ OffInv'
    BY <1>10 DEF SessionScans, Go, Call
  <2> QED
    BY <2>2, <2>3, Zenon
<1>11. CASE SessionConnects
  <2>1. call' \in [Threads -> Records]
    BY <1>11, CallTyped, Zenon DEF SessionConnects, At
  <2>2. TypeInv'
    BY <1>11, <2>1, Zenon DEF SessionConnects, At, Call
  <2>3. MutexInv' /\ UnlockInv' /\ OffInv'
    BY <1>11 DEF SessionConnects, At, Call
  <2> QED
    BY <2>2, <2>3, Zenon
<1> HIDE DEF IInv
<1> QED
  BY <1>1, <1>2, <1>3, <1>4, <1>5, <1>6, <1>7, <1>8, <1>9, <1>10, <1>11, Zenon

(* The UI's Wi-Fi worker between its calls keeps IInv. *)
LEMMA UserKeeps ==
  ASSUME IInv,
         \/ \E name \in {"enable", "disable", "disconnect", "scan", "connect"}, network \in Names :
              UserBegins(name, network)
         \/ UserScans \/ UserConnects \/ UserAsks \/ UserSubmits
  PROVE  IInv'
<1> USE WifiAssumption DEF IInv, TypeInv, MutexInv, UnlockInv, OffInv, Harmless, Ordered, Stopping, Done,
            Holding, Starting, Resting, Session, Kinds, Stages, Records, Requests, Threads, Names, Prefs,
            NoCall, Idle, flags, air, start
<1>1. ASSUME NEW name \in {"enable", "disable", "disconnect", "scan", "connect"}, NEW network \in Names,
             UserBegins(name, network)
      PROVE  IInv'
  <2>1. call' \in [Threads -> Records]
    <3>1. Call("user", name, network)
      BY <1>1, Zenon DEF UserBegins
    <3> QED
      BY <3>1, CallTyped
  <2>2. TypeInv'
    BY <1>1, <2>1, Zenon DEF UserBegins, Go, Call
  <2>3. MutexInv' /\ UnlockInv'
    BY <1>1 DEF UserBegins, Go, Call
  <2>4. OffInv'
    BY <1>1, Zenon DEF UserBegins, Go, Call
  <2> QED
    BY <2>2, <2>3, <2>4, Zenon
<1>2. CASE UserScans
  <2>1. call' \in [Threads -> Records]
    BY <1>2, CallTyped, Zenon DEF UserScans, Go
  <2>2. TypeInv'
    BY <1>2, <2>1 DEF UserScans, Go, Call
  <2>3. MutexInv' /\ UnlockInv' /\ OffInv'
    BY <1>2 DEF UserScans, Go, Call
  <2> QED
    BY <2>2, <2>3, Zenon
<1>3. CASE UserConnects
  <2>1. call' \in [Threads -> Records]
    BY <1>3, CallTyped, Zenon DEF UserConnects, At
  <2>2. TypeInv'
    BY <1>3, <2>1, Zenon DEF UserConnects, At, Call
  <2>3. MutexInv' /\ UnlockInv' /\ OffInv'
    BY <1>3 DEF UserConnects, At, Call
  <2> QED
    BY <2>2, <2>3, Zenon
<1>4. CASE UserAsks
  <2>1. call' \in [Threads -> Records]
    BY <1>4, CallTyped, Zenon DEF UserAsks, Go
  <2>2. TypeInv'
    BY <1>4, <2>1 DEF UserAsks, Go, Call
  <2>3. MutexInv' /\ UnlockInv' /\ OffInv'
    BY <1>4 DEF UserAsks, Go, Call
  <2> QED
    BY <2>2, <2>3, Zenon
<1>5. CASE UserSubmits
  <2>1. TypeInv'
    BY <1>5, Zenon DEF UserSubmits, At, Told, Submitted
  <2>2. MutexInv'
    BY <1>5, Zenon DEF UserSubmits, At, Told, Submitted
  <2>3. UnlockInv'
    BY <1>5, Zenon DEF UserSubmits, At, Told, Submitted
  <2>4. OffInv'
    BY <1>5, Zenon DEF UserSubmits, At, Told, Submitted
  <2> QED
    BY <2>1, <2>2, <2>3, <2>4, Zenon
<1> HIDE DEF IInv
<1> QED
  BY <1>1, <1>2, <1>3, <1>4, <1>5, Zenon

(* IInv is an invariant. *)
LEMMA Invariance == Spec => []IInv
<1>1. IInv /\ [Next]_vars => IInv'
  <2> SUFFICES ASSUME IInv, [Next]_vars PROVE IInv'
    OBVIOUS
  <2>1. CASE UNCHANGED vars
    BY <2>1 DEF vars, IInv, TypeInv, MutexInv, UnlockInv, OffInv, Harmless, Ordered, Stopping, Done, Idle
  <2>2. CASE Dispatcher
    BY <2>2, DispatcherKeeps, CallKeeps, Zenon DEF Dispatcher, Threads
  <2>3. CASE User
    BY <2>3, UserKeeps, CallKeeps, Zenon DEF User, Threads
  <2>4. ASSUME NEW name \in {"enable", "disable", "disconnect", "scan"}, UserBegins(name, None) PROVE IInv'
    BY <2>4, UserKeeps, Zenon DEF Names
  <2>5. ASSUME NEW network \in Networks, UserBegins("connect", network) PROVE IInv'
    BY <2>5, UserKeeps, Zenon DEF Names
  <2> QED
    BY <2>1, <2>2, <2>3, <2>4, <2>5, StartKeeps, Zenon DEF Next
<1> QED
  BY <1>1, InitIInv, PTL DEF Spec
-----------------------------------------------------------------------------
(* The radio is off when everything is at rest, if that was the last order.  *)
THEOREM RadioObeys == Spec => []RadioAsAsked
<1>1. IInv => RadioAsAsked
  BY Zenon DEF IInv, OffInv, Ordered, Stopping, Done, RadioAsAsked, AtRest, Idle
<1> QED
  BY <1>1, Invariance, PTL

(* The dispatcher starts no supplicant before RecoveryWifiInitialize, that is *)
(* before decryption is over or was skipped: an early session only takes     *)
(* over one that runs.                                                       *)
THEOREM NoBringUpBeforeUnlock == Spec => BringUpAfterUnlock
<1> DEFINE Step == CallStart("dispatcher") /\ ~radio /\ radio' => inits > 0
<1>1. IInv => Step
  BY DEF IInv, TypeInv, MutexInv, UnlockInv, CallStart, Idle, Threads
<1> QED
  BY <1>1, Invariance, PTL DEF Spec, BringUpAfterUnlock
-----------------------------------------------------------------------------
(* What the arguments above do not need of the types, and that only a        *)
(* running supplicant is connected.                                          *)
RestOK ==
  /\ adopted \in BOOLEAN /\ changed \in BOOLEAN /\ enabled \in BOOLEAN /\ early \in BOOLEAN
  /\ askedOff \in BOOLEAN /\ inits <= MaxInits
  /\ shown \in Names /\ link \in Names /\ (link # None => radio)

(* The steps of a Wlan:: call keep it. *)
LEMMA CallRest ==
  ASSUME TypeInv, RestOK, NEW t \in Threads, CallStep(t)
  PROVE  RestOK'
<1> USE DEF RestOK, flags, air, start
<1>1. CASE CallEnter(t)
  BY <1>1, Zenon DEF CallEnter
<1>2. CASE CallStart(t)
  BY <1>2, Zenon DEF CallStart, TypeInv, Names
<1>3. CASE CallSet(t)
  BY <1>3, Zenon DEF CallSet, Named, Names
<1>4. CASE Scan(t)
  BY <1>4, Zenon DEF Scan, Named, Names
<1>5. CASE Connect(t)
  <2>1. call[t].network \in Names
    BY Zenon DEF TypeInv, Records
  <2> QED
    BY <1>5, <2>1, Zenon DEF Connect, Names
<1>6. CASE StopSupplicant(t)
  BY <1>6, Zenon DEF StopSupplicant, Names
<1>7. CASE Disabled(t)
  BY <1>7, Zenon DEF Disabled, Alone, Names
<1>8. CASE Disconnect(t)
  BY <1>8, Zenon DEF Disconnect, Names
<1>9. ASSUME NEW answered \in BOOLEAN, Info(t, answered) PROVE RestOK'
  BY <1>9, Zenon DEF Info, Informed
<1> QED
  BY <1>1, <1>2, <1>3, <1>4, <1>5, <1>6, <1>7, <1>8, <1>9, Zenon DEF CallStep

(* So does every step. *)
LEMMA NextRest ==
  ASSUME TypeInv, RestOK, Next
  PROVE  RestOK'
<1> USE DEF RestOK, flags, air, start
<1>1. ASSUME NEW p \in Prefs, InitializeEarly(p) PROVE RestOK'
  BY <1>1, Zenon DEF InitializeEarly
<1>2. ASSUME NEW p \in Prefs, NEW differs \in BOOLEAN, Initialize(p, differs) PROVE RestOK'
  <2>1. inits' <= MaxInits /\ UNCHANGED <<adopted, enabled, shown, radio, link>> /\ early' = FALSE
    BY <1>2, WifiAssumption DEF Initialize, TypeInv
  <2>2. askedOff' \in BOOLEAN /\ changed' \in BOOLEAN
    BY <1>2, Zenon DEF Initialize
  <2> QED
    BY <2>1, <2>2, Zenon
<1>3. CASE DeviceStartsRadio
  BY <1>3, Zenon DEF DeviceStartsRadio
<1>4. CASE Wait \/ Take \/ EarlyLooks \/ EarlyEnds
  BY <1>4, Zenon DEF Wait, Take, EarlyLooks, EarlyEnds
<1>5. ASSUME NEW answered \in BOOLEAN, Poll(answered) PROVE RestOK'
  BY <1>5, Zenon DEF Poll, Informed
<1>6. CASE Restore \/ Adopt
  BY <1>6, Zenon DEF Restore, Adopt, Names
<1>7. CASE SessionBegins \/ SessionLeaves \/ SessionScans \/ SessionConnects
  BY <1>7, Zenon DEF SessionBegins, SessionLeaves, SessionScans, SessionConnects
<1>8. CASE UserScans \/ UserConnects \/ UserAsks \/ UserSubmits
  BY <1>8, Zenon DEF UserScans, UserConnects, UserAsks, UserSubmits
<1>9. ASSUME NEW name, NEW network, UserBegins(name, network) PROVE RestOK'
  BY <1>9, Zenon DEF UserBegins
<1>10. CASE LinkLost
  BY <1>10, Zenon DEF LinkLost, Names
<1>11. CASE LinkReturns
  BY <1>11, Zenon DEF LinkReturns, TypeInv, Prefs
<1>12. ASSUME NEW t \in Threads, CallStep(t) PROVE RestOK'
  BY <1>12, CallRest, Zenon
<1> HIDE DEF RestOK
<1>13. CASE Dispatcher
  BY <1>4, <1>5, <1>6, <1>7, <1>12, <1>13, Zenon DEF Dispatcher, Threads
<1>14. CASE User
  BY <1>8, <1>12, <1>14, Zenon DEF User, Threads
<1> QED
  BY <1>1, <1>2, <1>3, <1>9, <1>10, <1>11, <1>13, <1>14, Zenon DEF Next

(* Requests, preferences, flags, radio and calls stay well-typed, and only a *)
(* running supplicant is connected to a network.                             *)
THEOREM TypeCorrect == Spec => []TypeOK
<1>1. Init => RestOK
  <2> SUFFICES ASSUME Init PROVE RestOK
    OBVIOUS
  <2>1. inits <= MaxInits
    BY WifiAssumption DEF Init
  <2>2. /\ adopted = FALSE /\ changed = FALSE /\ enabled = FALSE /\ early = FALSE
        /\ askedOff = FALSE /\ shown = None /\ link = None
    BY Zenon DEF Init
  <2> QED
    BY <2>1, <2>2, Zenon DEF RestOK, Names
<1>2. IInv /\ RestOK /\ [Next]_vars => RestOK'
  <2>1. IInv /\ RestOK /\ UNCHANGED vars => RestOK'
    BY DEF vars, RestOK
  <2> QED
    BY <2>1, NextRest, Zenon DEF IInv
<1>3. IInv /\ RestOK => TypeOK
  <2> SUFFICES ASSUME IInv, RestOK PROVE TypeOK
    OBVIOUS
  <2>1. inits \in 0..MaxInits
    BY WifiAssumption DEF IInv, TypeInv, RestOK
  <2> QED
    BY <2>1, Zenon DEF IInv, TypeInv, RestOK, TypeOK, Records, Kinds, Stages
<1> QED
  BY <1>1, <1>2, <1>3, Invariance, PTL DEF Spec
=============================================================================
