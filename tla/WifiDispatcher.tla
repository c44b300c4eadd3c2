--------------------------- MODULE WifiDispatcher ---------------------------
(***************************************************************************)
(* The Wi-Fi life cycle: the dispatcher thread of aera_wifi_dispatcher.cpp *)
(* with its folded requests, the calls of wlan.cpp it shares with the UI's *)
(* Wi-Fi worker (RecoveryRunWifi), and the start-up that submits an early  *)
(* session before the data is decrypted and the user's own after it        *)
(* (RecoveryWifiInitializeEarly, RecoveryWifiInitialize).                  *)
(*                                                                         *)
(* A Wlan:: call holds g_wlan_op_mutex and is two or three steps; what     *)
(* runs without that mutex (Wlan::Init, the tests of RestoreSession, the   *)
(* choice between the two waits) falls between them.  The request          *)
(* StartRadio, which nothing submits, and wlan_state, which is only shown, *)
(* are left out.                                                           *)
(***************************************************************************)
EXTENDS Naturals

CONSTANTS Networks, None,
          MaxInits      \* bound on the calls of RecoveryWifiInitialize

ASSUME WifiAssumption == None \notin Networks /\ MaxInits \in Nat

Names == Networks \cup {None}
Threads == {"dispatcher", "user"}
Requests == {"restore", "stop", "refresh", "early"}
Prefs == [auto : BOOLEAN, connect : BOOLEAN, last : Names]
   \* of_wlan_auto_enable, of_wlan_auto_connect, of_wlan_last_ssid

VARIABLES
  pending,      \* g_pending
  adopted,      \* g_early_radio_initialized
  prefs, changed,         \* the preferences, aera_wlan_reconnect
  enabled, shown,         \* tw_wlan_enabled; wlan_connected_name, or None if tw_wlan_connected is 0
  radio, link,            \* init.svc.wpa_supplicant is running; network it is associated with
  op,                     \* holder of g_wlan_op_mutex, or "free"
  call,                   \* per thread: the Wlan:: call, its stage, its network, its result
  at,                     \* per thread: control point outside Wlan:: calls
  goal,                   \* RestoreSession's network, read early in the session
  early, inits,           \* gEarlyWifiInitialized, calls of RecoveryWifiInitialize so far
  \* observers
  askedOff      \* the last who spoke wanted the radio off, and nobody else was at work

vars == <<pending, adopted, prefs, changed, enabled, shown, radio, link, op, call, at, goal, early, inits, askedOff>>
flags == <<enabled, shown>>
air == <<radio, link>>
start == <<prefs, changed, early, inits>>

NoCall == [name |-> "none", stage |-> "none", network |-> None, ok |-> FALSE]
TypeOK ==
  /\ pending \subseteq Requests /\ adopted \in BOOLEAN
  /\ prefs \in Prefs /\ changed \in BOOLEAN
  /\ enabled \in BOOLEAN /\ shown \in Names
  /\ radio \in BOOLEAN /\ link \in Names /\ (link # None => radio)
  /\ op \in Threads \cup {"free"} /\ goal \in Names
  /\ call \in [Threads -> [name : {"none", "enable", "scan", "connect", "disable", "disconnect", "info"},
                           stage : {"none", "wait", "start", "set", "work", "off"},
                           network : Names, ok : BOOLEAN]]
  /\ early \in BOOLEAN /\ inits \in 0..MaxInits /\ askedOff \in BOOLEAN

Init ==
  /\ pending = {} /\ adopted = FALSE
  /\ prefs = [auto |-> FALSE, connect |-> FALSE, last |-> None] /\ changed = FALSE
  /\ enabled = FALSE /\ shown = None
  /\ radio = FALSE /\ link = None
  /\ op = "free" /\ call = [t \in Threads |-> NoCall]
  /\ at = [t \in Threads |-> IF t = "user" THEN "idle" ELSE "loop"]
  /\ goal = None /\ early = FALSE /\ inits = 0 /\ askedOff = FALSE
-----------------------------------------------------------------------------
(* AeraWifiDispatcher::Submit. *)

Submitted(r) ==
  (pending \ (IF r = "stop" THEN {"restore", "early"} ELSE IF r = "restore" THEN {"early"} ELSE {})) \cup {r}
-----------------------------------------------------------------------------
(* Start-up. *)

\* RecoveryWifiInitializeEarly, before the data is decrypted.
InitializeEarly(p) ==
  /\ ~early /\ inits = 0
  /\ prefs' = p /\ early' = TRUE
  /\ pending' = IF p.auto THEN Submitted("early") ELSE pending
  /\ UNCHANGED <<adopted, changed, flags, air, op, call, at, inits, goal, askedOff>>

\* Mutant: the early session's radio is forgotten.
RestoreAnyway(p) == "restore"
WantedOf(p) == IF early /\ ~p.auto THEN "stop" ELSE "restore"
\* RecoveryWifiInitialize, once decryption succeeded or was skipped.  The first call
\* has loaded the preferences that can be read then, and
\* compared the saved network with the one an early session is connected to.
Initialize(p, differs) ==
  /\ inits < MaxInits /\ inits' = inits + 1
  /\ inits > 0 => p = prefs /\ ~differs
  /\ prefs' = p /\ changed' = (changed \/ differs) /\ early' = FALSE
  /\ pending' = Submitted(WantedOf(p))
  /\ askedOff' = IF early /\ ~p.auto THEN at["user"] = "idle" ELSE askedOff /\ ~p.auto
  /\ UNCHANGED <<adopted, flags, air, op, call, at, goal>>

\* The device's own start sequence starts the supplicant before decryption.
DeviceStartsRadio ==
  /\ inits = 0 /\ ~radio /\ radio' = TRUE
  /\ UNCHANGED <<pending, adopted, start, flags, link, op, call, at, goal, askedOff>>
-----------------------------------------------------------------------------
(* Wlan:: calls on thread t. *)

Call(t, name, network) ==
  call' = [call EXCEPT ![t] = [name |-> name, stage |-> "wait", network |-> network, ok |-> FALSE]]
Idle(t) == call[t].name = "none"
\* Only the user's enable is asked for its result.
Returns(t, ok) ==
  /\ op' = "free"
  /\ call' = [call EXCEPT ![t] = [NoCall EXCEPT !.ok = ok /\ t = "user" /\ call[t].name = "enable"]]
Stage(t, s) == call' = [call EXCEPT ![t].stage = s] /\ UNCHANGED op

\* Scan, Connect and ConnectSaved enable the radio when it is not.
CallEnter(t) ==
  /\ call[t].stage = "wait" /\ op = "free"
  /\ op' = t
  /\ call' = [call EXCEPT ![t].stage =
       IF call[t].name = "enable" \/ (call[t].name \in {"scan", "connect"} /\ ~enabled) THEN "start" ELSE "work"]
  /\ UNCHANGED <<pending, adopted, start, flags, air, at, goal, askedOff>>

\* StartSupplicant: what already runs is taken over.  A start that is given up may
\* leave a supplicant behind that does not answer yet.
CallStart(t) ==
  /\ call[t].stage = "start"
  /\ \/ radio' = TRUE /\ Stage(t, "set") /\ UNCHANGED flags
     \/ radio' \in {radio, TRUE} /\ enabled' = FALSE /\ shown' = None /\ Returns(t, FALSE)
  /\ UNCHANGED <<pending, adopted, start, link, at, goal, askedOff>>
\* UpdateConnectedName: nothing if the supplicant does not answer.
Named == {link, None}
CallSet(t) ==
  /\ call[t].stage = "set"
  /\ enabled' = TRUE /\ shown' \in Named
  /\ IF call[t].name = "enable" THEN Returns(t, TRUE) ELSE Stage(t, "work")
  /\ UNCHANGED <<pending, adopted, start, air, at, goal, askedOff>>

\* Scan: UpdateConnectedName unless no results came.
Scan(t) ==
  /\ call[t].name = "scan" /\ call[t].stage = "work"
  /\ \E ok \in BOOLEAN : shown' \in (IF ok THEN Named ELSE {shown}) /\ Returns(t, ok)
  /\ UNCHANGED <<pending, adopted, start, enabled, air, at, goal, askedOff>>
\* Connect and ConnectSaved: connected; failed after DISCONNECT; no credentials.
Connect(t) ==
  /\ call[t].name = "connect" /\ call[t].stage = "work"
  /\ \/ /\ radio /\ link' = call[t].network /\ shown' = call[t].network
        /\ prefs' = [prefs EXCEPT !.last = call[t].network] /\ Returns(t, TRUE)
     \/ link' \in {None, link} /\ shown' = None /\ Returns(t, FALSE) /\ UNCHANGED prefs
  /\ UNCHANGED <<pending, adopted, changed, early, inits, enabled, radio, at, goal, askedOff>>
\* Disable: the supplicant stops (init is taken to obey within the five seconds of the
\* wait), then the flags go.
StopSupplicant(t) ==
  /\ call[t].name = "disable" /\ call[t].stage = "work"
  /\ radio' = FALSE /\ link' = None /\ Stage(t, "off")
  /\ UNCHANGED <<pending, adopted, start, flags, at, goal, askedOff>>
Alone == at["dispatcher"] \in {"loop", "poll", "sleep"} /\ Idle("dispatcher") /\ pending \cap {"restore", "early"} = {}
Disabled(t) ==
  /\ call[t].stage = "off"
  /\ enabled' = FALSE /\ shown' = None /\ Returns(t, TRUE)
  /\ askedOff' = (IF t = "user" THEN Alone ELSE askedOff)
  /\ UNCHANGED <<pending, adopted, start, air, at, goal>>
Disconnect(t) ==
  /\ call[t].name = "disconnect" /\ call[t].stage = "work"
  /\ \/ enabled /\ link' \in {None, link} /\ shown' = None
     \/ ~enabled /\ UNCHANGED <<link, shown>>
  /\ Returns(t, TRUE)
  /\ UNCHANGED <<pending, adopted, start, enabled, radio, at, goal, askedOff>>
\* InfoLocked: the status of the supplicant, or what was shown if it does not answer.
Informed(ok) == shown' = IF radio /\ ok THEN link ELSE shown
Info(t, ok) ==
  /\ call[t].name = "info" /\ call[t].stage = "work"
  /\ Informed(ok) /\ Returns(t, TRUE)
  /\ UNCHANGED <<pending, adopted, start, enabled, air, at, goal, askedOff>>
CallStep(t) ==
  \/ CallEnter(t) \/ CallStart(t) \/ CallSet(t) \/ Scan(t) \/ Connect(t)
  \/ StopSupplicant(t) \/ Disabled(t) \/ Disconnect(t) \/ \E ok \in BOOLEAN : Info(t, ok)
-----------------------------------------------------------------------------
(* DispatchLoop: TakeNextRequest, RunRequest. *)

At(t, from, to) == at[t] = from /\ Idle(t) /\ at' = [at EXCEPT ![t] = to]
Go(t, to) == at' = [at EXCEPT ![t] = to]

Order == <<"restore", "stop", "refresh", "early">>
NextRequest == Order[CHOOSE i \in 1..4 : Order[i] \in pending /\ \A j \in 1..(i-1) : Order[j] \notin pending]

\* With nothing to do it waits two seconds if the radio is on, else for a request.
Wait ==
  /\ at["dispatcher"] = "loop" /\ Idle("dispatcher") /\ pending = {}
  /\ Go("dispatcher", IF enabled THEN "poll" ELSE "sleep")
  /\ UNCHANGED <<pending, adopted, start, flags, air, op, call, goal, askedOff>>

Take ==
  /\ Idle("dispatcher") /\ at["dispatcher"] \in {"loop", "poll", "sleep"} /\ pending # {}
  /\ LET r == NextRequest IN
       /\ pending' = pending \ {r}
       /\ Go("dispatcher", CASE r = "restore" -> "restore" [] r = "early" -> "early" [] OTHER -> "loop")
       /\ CASE r = "stop" -> Call("dispatcher", "disable", None)
            [] r = "refresh" -> Call("dispatcher", "info", None)
            [] OTHER -> UNCHANGED call
  /\ UNCHANGED <<adopted, start, flags, air, op, goal, askedOff>>

\* The wait ran out: RefreshInfoIfIdle, skipped while somebody holds the mutex.
Poll(ok) ==
  /\ At("dispatcher", "poll", "loop") /\ pending = {}
  /\ IF enabled /\ op = "free" THEN Informed(ok) ELSE UNCHANGED shown
  /\ UNCHANGED <<pending, adopted, start, enabled, air, op, call, goal, askedOff>>

\* Wlan::Init clears the flags, without the mutex.
Restore ==
  /\ At("dispatcher", "restore", "session")
  /\ IF adopted THEN UNCHANGED flags ELSE enabled' = FALSE /\ shown' = None
  /\ adopted' = FALSE
  /\ UNCHANGED <<pending, start, air, op, call, goal, askedOff>>

\* Mutant: the early session does not ask whether the radio is there.
PresentAnyway == TRUE
Present == radio
\* RestoreEarlySession: every 250 ms, for a minute or until a newer order is pending,
\* look whether the device's own start has brought the radio up, and take it over.
EarlyLooks ==
  /\ At("dispatcher", "early", "look")
  /\ pending \cap {"restore", "stop"} = {}
  /\ UNCHANGED <<pending, adopted, start, flags, air, op, call, goal, askedOff>>
Adopt ==
  /\ at["dispatcher"] = "look"
  /\ IF Present
       THEN Go("dispatcher", "session") /\ enabled' = FALSE /\ shown' = None /\ adopted' = TRUE
       ELSE Go("dispatcher", "early") /\ UNCHANGED <<flags, adopted>>
  /\ UNCHANGED <<pending, start, air, op, call, goal, askedOff>>
EarlyEnds ==
  /\ At("dispatcher", "early", "loop")
  /\ UNCHANGED <<pending, adopted, start, flags, air, op, call, goal, askedOff>>
-----------------------------------------------------------------------------
(* RestoreSession: enable, leave a network that is not the user's, scan, connect. *)

SessionBegins ==
  /\ at["dispatcher"] = "session" /\ Idle("dispatcher")
  /\ IF ~prefs.auto THEN Go("dispatcher", "loop") /\ UNCHANGED call
     ELSE /\ Go("dispatcher", "enabled")
          /\ IF enabled THEN UNCHANGED call ELSE Call("dispatcher", "enable", None)
  /\ UNCHANGED <<pending, adopted, start, flags, air, op, goal, askedOff>>

\* The name of the network is read here and used at the end of the session.
SessionLeaves ==
  /\ at["dispatcher"] = "enabled" /\ Idle("dispatcher")
  /\ IF ~enabled THEN Go("dispatcher", "loop") /\ UNCHANGED <<call, changed, goal>>
     ELSE /\ Go("dispatcher", "left") /\ changed' = FALSE
          /\ goal' = IF prefs.connect THEN prefs.last ELSE None
          /\ IF shown # None /\ prefs.connect /\ (changed \/ prefs.last \notin {None, shown})
               THEN Call("dispatcher", "disconnect", None) ELSE UNCHANGED call
  /\ UNCHANGED <<pending, adopted, prefs, early, inits, flags, air, op, askedOff>>
SessionScans ==
  /\ at["dispatcher"] = "left" /\ Idle("dispatcher")
  /\ IF shown # None THEN Go("dispatcher", "loop") /\ goal' = None /\ UNCHANGED call
     ELSE Go("dispatcher", "scanned") /\ UNCHANGED goal /\ Call("dispatcher", "scan", None)
  /\ UNCHANGED <<pending, adopted, start, flags, air, op, askedOff>>
SessionConnects ==
  /\ At("dispatcher", "scanned", "loop")
  /\ IF goal # None /\ shown = None THEN Call("dispatcher", "connect", goal) ELSE UNCHANGED call
  /\ goal' = None
  /\ UNCHANGED <<pending, adopted, start, flags, air, op, askedOff>>
-----------------------------------------------------------------------------
(* RecoveryRunWifi, on the UI's Wi-Fi worker. *)

UserBegins(name, network) ==
  /\ inits > 0 /\ at["user"] = "idle"
  /\ Go("user", IF name = "enable" THEN "enabled" ELSE "tail")
  /\ Call("user", name, network)
  /\ askedOff' = (askedOff /\ name = "disable")
  /\ UNCHANGED <<pending, adopted, start, flags, air, op, goal>>
UserScans ==
  /\ at["user"] = "enabled" /\ Idle("user")
  /\ IF call["user"].ok THEN Go("user", "scanned") /\ Call("user", "scan", None)
     ELSE Go("user", "tail") /\ UNCHANGED call
  /\ UNCHANGED <<pending, adopted, start, flags, air, op, goal, askedOff>>
UserConnects ==
  /\ At("user", "scanned", "tail")
  /\ IF prefs.connect /\ prefs.last # None /\ shown = None
       THEN Call("user", "connect", prefs.last) ELSE UNCHANGED call
  /\ UNCHANGED <<pending, adopted, start, flags, air, op, goal, askedOff>>
UserAsks ==
  /\ at["user"] = "tail" /\ Idle("user")
  /\ IF enabled THEN Go("user", "submit") /\ Call("user", "info", None)
     ELSE Go("user", "idle") /\ UNCHANGED call
  /\ UNCHANGED <<pending, adopted, start, flags, air, op, goal, askedOff>>
\* Mutant: the dispatcher is not told.
Untold == pending
Told == Submitted("refresh")
UserSubmits ==
  /\ At("user", "submit", "idle")
  /\ pending' = Told
  /\ UNCHANGED <<adopted, start, flags, air, op, call, goal, askedOff>>
-----------------------------------------------------------------------------
(* The network comes and goes; the supplicant looks for the saved one. *)
LinkLost ==
  /\ link # None /\ link' = None
  /\ UNCHANGED <<pending, adopted, start, flags, radio, op, call, at, goal, askedOff>>
LinkReturns ==
  /\ radio /\ link = None /\ prefs.last # None /\ link' = prefs.last
  /\ UNCHANGED <<pending, adopted, start, flags, radio, op, call, at, goal, askedOff>>

Dispatcher ==
  \/ Wait \/ Take \/ (\E ok \in BOOLEAN : Poll(ok)) \/ Restore
  \/ EarlyLooks \/ Adopt \/ EarlyEnds
  \/ SessionBegins \/ SessionLeaves \/ SessionScans \/ SessionConnects \/ CallStep("dispatcher")
User == UserScans \/ UserConnects \/ UserAsks \/ UserSubmits \/ CallStep("user")
Next ==
  \/ \E p \in Prefs : InitializeEarly(p) \/ \E differs \in BOOLEAN : Initialize(p, differs)
  \/ DeviceStartsRadio
  \/ Dispatcher \/ User
  \/ \E name \in {"enable", "disable", "disconnect", "scan"} : UserBegins(name, None)
  \/ \E network \in Networks : UserBegins("connect", network)
  \/ LinkLost \/ LinkReturns
Spec == Init /\ [][Next]_vars

\* Both threads run on and the dispatcher is not passed over for ever at the mutex;
\* the early session ends after a minute at the latest; the supplicant answers a
\* query now and then.  Nothing is assumed of the network, nor that the user does anything.
FairSpec ==
  /\ Spec
  /\ WF_vars(Dispatcher) /\ WF_vars(User) /\ SF_vars(CallEnter("dispatcher"))
  /\ SF_vars(EarlyEnds) /\ SF_vars(Poll(TRUE)) /\ SF_vars(Info("dispatcher", TRUE))
-----------------------------------------------------------------------------
AtRest ==
  /\ at["dispatcher"] \in {"loop", "poll", "sleep"} /\ Idle("dispatcher") /\ pending = {}
  /\ at["user"] = "idle"

\* The radio is off once everything is done if that was the last thing asked for: by
\* the user's preferences, loaded while an early session waits, runs or is over, or
\* by the user while no session was being restored.
RadioAsAsked == askedOff /\ AtRest => ~radio

\* "Never trigger device bring-up before decryption": until RecoveryWifiInitialize,
\* which is called when decryption is over or was skipped, the dispatcher takes over
\* a running supplicant and starts none.
BringUpAfterUnlock ==
  [][CallStart("dispatcher") /\ ~radio /\ radio' => inits > 0]_vars

\* All requests are taken or replaced by newer ones, and a connection that is gone is
\* not shown for good, whoever switched the radio on: the dispatcher does not sleep
\* through either.
DispatcherAnswers ==
  /\ pending # {} ~> pending = {}
  /\ enabled /\ shown # None /\ link = None ~> ~enabled \/ shown = None \/ link # None
=============================================================================
