------------------------------- MODULE VpnState -------------------------------
(***************************************************************************)
(* The run state of the Android client (kotlin GlobalState, VpnPlugin,     *)
(* ServicePlugin, MainActivity), the two Flutter engines it talks to, the  *)
(* binding of the VPN service, and the goroutines of startTUN and stopTun. *)
(*                                                                         *)
(* All Kotlin code here runs on the main thread, one event at a time; so   *)
(* runLock, reentrant, excludes nothing and is left out, although          *)
(* handleStart and handleStop never give it back.  What interleaves is     *)
(* asynchronous: requests through Dart, the binding, the permission        *)
(* dialog, the question for the status, and the goroutines of the core,    *)
(* which behave as TunSwitch says; TunHandler describes what they do.      *)
(***************************************************************************)
EXTENDS Sequences, Naturals

VARIABLES
  runState,    \* GlobalState.runState
  ui,          \* MainActivity: none; opening, then waiting for its service
               \* engine; up
  engine,      \* serviceEngine is not null
  mode,        \* options.enable of VpnPlugin, as the kind of service it asks for
  service,     \* kind of flClashService, "none" for null
  isBind,
  connecting,  \* kinds of service whose onServiceConnected is to come, in the
               \* order they were bound: all run on this main thread
  asking,      \* the dialog for the VPN permission is open
  requests,    \* calls of VpnPlugin on their way through Dart
  status,      \* syncStatus: idle, asked, or the answer on its way to runState
  goOps,       \* kinds of goroutines under way, any number of each: startTUN for a
               \* kind of service, stopTun
  tun,         \* kind of service the core was started for, "none" if it is off
  last,        \* history: the last call VpnPlugin handled
  switched,    \* history: the mode was changed while a start was under way or done
  calmSync,    \* history: nothing has changed since the status was asked for
  odd          \* history: what has gone wrong and is not yet repaired

vars == <<runState, ui, engine, mode, service, isBind, connecting, asking,
          requests, status, goOps, tun, last, switched, calmSync, odd>>

bindVars == <<mode, service, isBind, connecting, switched>>
engineVars == <<ui, engine>>

Services == {"vpn", "plain"}
RunStates == {"STOP", "PENDING", "START"}
Calls == Services \cup {"stop", "quick", "quit"}

\* drift: runState was set from an old status, or by the end of the activity;
\* raced: a start and a stop of the core were both under way; rejected: the
\* system refused the device; lost: a stop came while a start was waiting for
\* binding or permission; ignored: a request reached nobody.
Oddities == {"drift", "raced", "rejected", "lost", "ignored"}

\* The goroutines of the core and the run time they leave.
Switch == INSTANCE TunSwitch

-----------------------------------------------------------------------------
Init ==
  /\ runState = "STOP"
  /\ ui = "none"
  /\ engine = FALSE
  /\ mode = "none"
  /\ service = "none"
  /\ isBind = FALSE
  /\ connecting = <<>>
  /\ asking = FALSE
  /\ requests = {}
  /\ status = "idle"
  /\ goOps = {}
  /\ tun = "none"
  /\ last = "none"
  /\ switched = FALSE
  /\ calmSync = FALSE
  /\ odd = {}

\* exit(0), or an exception nobody catches: the process ends, and Android closes
\* its device.
ProcessEnds ==
  /\ runState' = "STOP" /\ ui' = "none" /\ engine' = FALSE
  /\ mode' = "none" /\ service' = "none" /\ isBind' = FALSE /\ connecting' = <<>>
  /\ asking' = FALSE /\ requests' = {} /\ status' = "idle"
  /\ goOps' = {} /\ tun' = "none"
  /\ last' = "none" /\ switched' = FALSE /\ calmSync' = FALSE /\ odd' = {}

\* A start on its way to the core, or about to be once bound or permitted.
StartUnderWay == connecting # <<>> \/ asking

\* The oddities after a goroutine has been started for op, and the run state set to
\* it: when it is the only one it decides the state of the device.
OddAfter(op) ==
  IF goOps = {} THEN odd \ {"raced", "rejected", "ignored"}
  ELSE IF goOps = {op} THEN odd \ {"ignored"}
  ELSE (odd \ {"ignored"}) \cup {"raced"}

-----------------------------------------------------------------------------
\* GlobalState.handleStart, from the tile, a shortcut or the toggle.  With the
\* interface up Dart answers by startVpn; an interface not yet up, or a service
\* engine alone, does not listen for it; with no engine at all the core is started
\* by _service with the flag "quick".
TileStart ==
  /\ runState = "STOP"
  /\ runState' = "PENDING"
  /\ engine' = (engine \/ ui = "none")
  /\ \/ /\ ui = "up"
        /\ \E k \in Services : requests' = requests \cup {k}
        /\ UNCHANGED odd
     \/ /\ ui = "none" /\ ~engine
        /\ requests' = {"quick"}
        /\ UNCHANGED odd
     \/ /\ ui \in {"opening", "waiting"} \/ (ui = "none" /\ engine)
        /\ odd' = odd \cup {"ignored"}
        /\ UNCHANGED requests
  /\ calmSync' = FALSE
  /\ UNCHANGED <<ui, bindVars, asking, status, goOps, tun, last>>

\* GlobalState.handleStop; without an interface the service isolate stops the
\* core and exits.
TileStop ==
  /\ runState = "START"
  /\ runState' = "PENDING"
  /\ \/ /\ ui = "up"
        /\ requests' = requests \cup {"stop"}
        /\ UNCHANGED odd
     \/ /\ ui = "none" /\ engine
        /\ requests' = requests \cup {"quit"}
        /\ UNCHANGED odd
     \/ /\ ui \in {"opening", "waiting"} \/ (ui = "none" /\ ~engine)
        /\ odd' = odd \cup {"ignored"}
        /\ UNCHANGED requests
  /\ calmSync' = FALSE
  /\ UNCHANGED <<engineVars, bindVars, asking, status, goOps, tun, last>>

\* Android revokes the VPN, as for another one: onTransact tells the tile plugin to
\* stop.  With the interface up that is a request like the user's.
Revoked ==
  /\ service = "vpn"
  /\ ui = "none" /\ engine
  /\ requests' = requests \cup {"quit"}
  /\ UNCHANGED <<runState, engineVars, bindVars, asking, status, goOps, tun, last,
                 calmSync, odd>>

\* The user, or the start of the interface, calls updateStatus: handleStart and
\* handleStop of state.dart await the core, so calls may overtake one another.
UiRequest ==
  /\ ui = "up"
  /\ \E c \in Services \cup {"stop"} : requests' = requests \cup {c}
  /\ UNCHANGED <<runState, engineVars, bindVars, asking, status, goOps, tun, last,
                 calmSync, odd>>

-----------------------------------------------------------------------------
\* if (isBind) unbindService(connection): what was bound before goes.
BoundBefore == IF isBind THEN <<>> ELSE connecting

\* bindService with the service of the mode; one that is connecting already does so
\* once.  Android may refuse (bindService returns false, which nobody looks at): then
\* nothing will connect.
BindService(m) ==
  /\ \/ /\ connecting' = IF \E i \in DOMAIN BoundBefore : BoundBefore[i] = m
                          THEN BoundBefore ELSE Append(BoundBefore, m)
        /\ UNCHANGED odd
     \/ /\ connecting' = BoundBefore
        /\ odd' = odd \cup {"ignored"}
  /\ UNCHANGED <<runState, goOps>>

\* if (GlobalState.runState.value == RunState.START) return
AlreadyStarted ==
  /\ runState = "START"
  /\ UNCHANGED <<runState, goOps, odd, connecting>>

\* Core.startTun with the descriptor of the service, 0 for the plain one.
StartTun(s) ==
  /\ runState # "START"
  /\ runState' = "START"
  /\ goOps' = goOps \cup {s}
  /\ odd' = OddAfter(s)
  /\ UNCHANGED connecting

\* Android refuses the device: the exception leaves the run state as set.  Flutter
\* reports it to Dart when the call came through its channel.
Rejected(s) ==
  /\ runState # "START" /\ s = "vpn"
  /\ runState' = "START"
  /\ odd' = odd \cup {"rejected"}
  /\ UNCHANGED <<goOps, connecting>>

StartService(s, m) ==
  \/ /\ s = "none"
     /\ BindService(m)
  \/ /\ s # "none"
     /\ AlreadyStarted \/ StartTun(s)

\* Faulty variant: the service of the other mode is kept.
ServiceKept(m) == service

\* if (options.enable != this.options?.enable) this.flClashService = null
ServiceFor(m) == IF m = mode THEN service ELSE "none"

\* VpnPlugin.handleStart; requestVpnPermission calls back at once when the
\* permission is there, asks for it in the activity, or, without one, does nothing.
PluginStart(m) ==
  /\ mode' = m
  /\ service' = ServiceFor(m)
  /\ switched' = IF StartUnderWay \/ goOps # {} \/ tun # "none"
                 THEN switched \/ m # mode ELSE switched /\ m = mode
  /\ \/ StartService(ServiceFor(m), m) /\ UNCHANGED asking
     \/ ServiceFor(m) # "none" /\ Rejected(m) /\ UNCHANGED asking
     \/ /\ m = "vpn" /\ ui # "none"
        /\ asking' = TRUE
        /\ UNCHANGED <<runState, goOps, odd, connecting>>
     \/ /\ m = "vpn" /\ ui = "none"
        /\ odd' = odd \cup {"ignored"}
        /\ UNCHANGED <<runState, goOps, connecting, asking>>
  /\ last' = "start"
  /\ UNCHANGED isBind

\* Faulty variant: a stop is taken for one only in the state START.
StartedOnly == runState = "START"

\* if (GlobalState.runState.value == RunState.STOP) return
MayStop == runState # "STOP"

\* Faulty variant: the core is not told.
NoCoreStop == {}

\* Core.stopTun()
CoreStop == {"stop"}

\* VpnPlugin.handleStop; called with an interface, it leaves the engine alone.
PluginStop ==
  /\ \/ /\ MayStop
        /\ runState' = "STOP"
        /\ goOps' = goOps \cup CoreStop
        /\ odd' = IF StartUnderWay THEN OddAfter("stop") \cup {"lost"}
                  ELSE OddAfter("stop") \ {"lost"}
     \/ /\ ~MayStop
        /\ odd' = IF StartUnderWay \/ goOps # {} \/ tun # "none"
                  THEN odd \cup {"lost"} ELSE odd \ {"lost"}
        /\ UNCHANGED <<runState, goOps>>
  /\ last' = "stop"
  /\ UNCHANGED <<asking, bindVars>>

\* A call of the interface arrives; the service engine is there as long as it is.
Deliver(c) ==
  /\ c \in requests
  /\ requests' = requests \ {c}
  /\ \/ c \in Services /\ PluginStart(c)
     \/ c = "stop" /\ PluginStop
  /\ calmSync' = FALSE
  /\ UNCHANGED <<engineVars, status, tun>>

\* _service, started with "quick", has set up the core and starts the VPN; without
\* a profile it returns.
QuickStart(m) ==
  /\ "quick" \in requests
  /\ requests' = requests \ {"quick"}
  /\ PluginStart(m)
  /\ calmSync' = FALSE
  /\ UNCHANGED <<engineVars, status, tun>>

NoProfile ==
  /\ "quick" \in requests
  /\ requests' = requests \ {"quick"}
  /\ odd' = odd \cup {"ignored"}
  /\ UNCHANGED <<runState, engineVars, bindVars, asking, status, goOps, tun, last,
                 calmSync>>

\* A question the engine has not answered goes with it.
Unanswered == IF status = "asked" THEN "idle" ELSE status

\* _service stops the VPN, because the setup has failed or the user asks for it.
\* handleTryDestroy destroys the engine under the caller, whose exit(0) never runs;
\* with nothing to stop, or an interface that is opening, it does.
ServiceStops ==
  /\ requests \cap {"quick", "quit"} # {}
  /\ \/ /\ MayStop /\ ui = "none"
        /\ PluginStop
        /\ engine' = FALSE
        /\ requests' = {}
        /\ status' = Unanswered
        /\ calmSync' = FALSE
        /\ UNCHANGED <<ui, tun>>
     \/ /\ ~MayStop \/ ui # "none"
        /\ ProcessEnds

-----------------------------------------------------------------------------
\* FlClashVpnService.onCreate, before it connects: initServiceEngine.  Where a stop
\* or an interface that opened has destroyed the engine, there is another, and with
\* no interface it starts the VPN by itself.
ServiceCreated ==
  /\ \E i \in DOMAIN connecting : connecting[i] = "vpn"
  /\ ~engine
  /\ engine' = TRUE
  /\ requests' = IF ui = "none" THEN requests \cup {"quick"} ELSE requests
  /\ UNCHANGED <<runState, ui, bindVars, asking, status, goOps, tun, last, calmSync, odd>>

\* onServiceConnected; an exception there ends the process.
Connected(k) ==
  /\ connecting # <<>> /\ Head(connecting) = k
  /\ isBind' = TRUE
  /\ service' = k
  /\ connecting' = Tail(connecting)
  /\ \/ /\ runState # "START"
        /\ runState' = "START"
        /\ goOps' = goOps \cup {k}
        /\ odd' = OddAfter(k)
     \/ /\ runState = "START"
        /\ UNCHANGED <<runState, goOps, odd>>
  /\ calmSync' = FALSE
  /\ UNCHANGED <<engineVars, mode, switched, asking, requests, status, tun, last>>

ConnectedRejected ==
  connecting # <<>> /\ Head(connecting) = "vpn" /\ runState # "START" /\ ProcessEnds

\* onActivityResult: the callback runs when the user agrees.
Permitted ==
  /\ asking
  /\ asking' = FALSE
  /\ engine' = TRUE
  /\ StartService(service, mode)
  /\ calmSync' = FALSE
  /\ UNCHANGED <<ui, mode, switched, service, isBind, requests, status, tun, last>>

PermittedRejected == asking /\ service = "vpn" /\ runState # "START" /\ ProcessEnds

Refused ==
  /\ asking
  /\ asking' = FALSE
  /\ odd' = odd \cup {"ignored"}
  /\ UNCHANGED <<runState, engineVars, bindVars, requests, status, goOps, tun, last,
                 calmSync>>

-----------------------------------------------------------------------------
\* The goroutines of the core: between the two halves of a start, and at the end.
StartStops(s) ==
  /\ Switch!StartStops(s)
  /\ calmSync' = FALSE
  /\ UNCHANGED <<runState, engineVars, bindVars, asking, requests, status, last, odd>>

RunGo(op) ==
  /\ Switch!Run(op)
  /\ calmSync' = FALSE
  /\ UNCHANGED <<runState, engineVars, bindVars, asking, requests, status, last, odd>>

\* onStartListening of the tile: syncStatus; no engine, no status.
AskStatus ==
  /\ status = "idle"
  /\ status' = IF engine THEN "asked" ELSE "STOP"
  /\ calmSync' = (goOps = {} /\ (engine \/ tun = "none"))
  /\ UNCHANGED <<runState, engineVars, bindVars, asking, requests, goOps, tun, last,
                 odd>>

\* The service isolate asks the core whether there is a run time.
ReadStatus ==
  /\ status = "asked"
  /\ status' = IF tun # "none" THEN "START" ELSE "STOP"
  /\ UNCHANGED <<runState, engineVars, bindVars, asking, requests, goOps, tun, last,
                 calmSync, odd>>

\* Back on the main thread: runState.value = ...
SetStatus ==
  /\ status \in {"START", "STOP"}
  /\ runState' = status
  /\ status' = "idle"
  /\ odd' = IF calmSync THEN odd \ {"drift", "rejected", "ignored"}
            ELSE odd \cup {"drift"}
  /\ UNCHANGED <<engineVars, bindVars, asking, requests, goOps, tun, last, calmSync>>

\* MainActivity begins: configureFlutterEngine ...
UiOpens ==
  /\ ui = "none"
  /\ ui' = "opening"
  /\ UNCHANGED <<runState, engine, bindVars, asking, requests, status, goOps, tun,
                 last, calmSync, odd>>

\* ... "destroy": the service engine of before goes, with what it was doing ...
UiDestroys ==
  /\ ui = "opening"
  /\ ui' = "waiting"
  /\ engine' = FALSE
  /\ odd' = IF requests = {} THEN odd ELSE odd \cup {"ignored"}
  /\ requests' = {}
  /\ status' = Unanswered
  /\ calmSync' = FALSE
  /\ UNCHANGED <<runState, bindVars, asking, goOps, tun, last>>

\* ... "init": another one is made.
UiInit ==
  /\ ui = "waiting"
  /\ ui' = "up"
  /\ engine' = TRUE
  /\ UNCHANGED <<runState, bindVars, asking, requests, status, goOps, tun, last,
                 calmSync, odd>>

\* Faulty variant: the calls of the interface outlive it.
AllRequests == requests

\* What the service isolate has been asked for; the calls of the interface go.
ServiceRequests == requests \cap {"quick", "quit"}

\* MainActivity.onDestroy: its isolate and its dialog go, and the run state says
\* STOP whatever the core does.
UiEnds ==
  /\ ui # "none"
  /\ ui' = "none"
  /\ runState' = "STOP"
  /\ asking' = FALSE
  /\ requests' = ServiceRequests
  /\ odd' = odd \cup {"drift"}
  /\ calmSync' = FALSE
  /\ UNCHANGED <<engine, bindVars, status, goOps, tun, last>>

-----------------------------------------------------------------------------
User == TileStart \/ TileStop \/ UiRequest \/ AskStatus \/ UiOpens \/ UiEnds

System ==
  \/ \E c \in Services \cup {"stop"} : Deliver(c)
  \/ \E m \in Services : QuickStart(m) \/ Connected(m)
  \/ NoProfile \/ ServiceStops \/ ServiceCreated \/ ConnectedRejected \/ PermittedRejected
  \/ Permitted \/ Refused \/ Revoked \/ ReadStatus \/ SetStatus \/ UiDestroys \/ UiInit
  \/ \E s \in Services : StartStops(s)
  \/ \E op \in Services \cup {"stop"} : RunGo(op)

Next == User \/ System

Spec == Init /\ [][Next]_vars

-----------------------------------------------------------------------------
\* The types of the variables; bindings under way are of different kinds; a call of
\* the interface or a dialog has an interface behind it, and an interface that is up
\* has a service engine.
TypeOK ==
  /\ runState \in RunStates
  /\ ui \in {"none", "opening", "waiting", "up"}
  /\ {engine, isBind, asking, switched, calmSync} \subseteq BOOLEAN
  /\ {mode, service, tun} \subseteq Services \cup {"none"}
  /\ connecting \in {<<>>, <<"vpn">>, <<"plain">>, <<"vpn", "plain">>, <<"plain", "vpn">>}
  /\ requests \subseteq Calls
  /\ status \in {"idle", "asked", "START", "STOP"}
  /\ goOps \subseteq Services \cup {"stop"}
  /\ last \in {"none", "start", "stop"}
  /\ odd \subseteq Oddities
  /\ requests \subseteq {"quick", "quit"} \/ ui = "up"
  /\ asking => ui # "none"
  /\ ui = "up" \/ "quick" \in requests => engine

Clear(S) == odd \cap S = {}

\* When no goroutine is under way a core said to run runs, and one said to be off is
\* off, unless it was set from an old status or by the end of the activity, the two
\* goroutines of a stop and a start have met, or the device was refused.
RunStateAgrees ==
  goOps = {} /\ Clear({"drift", "raced", "rejected"}) =>
    /\ runState = "START" => tun # "none"
    /\ runState = "STOP" => tun = "none"

\* After a stop the core stays off: no binding and no permission that comes late
\* starts it again, unless it was under way when the stop came, or the goroutines of
\* the stop and a start have met.
StopSticks ==
  goOps = {} /\ last = "stop" /\ Clear({"raced", "lost"}) => tun = "none"

\* The tile is not left unavailable: something on its way will tell it the state,
\* unless the request behind it reached nobody.
NoLimbo ==
  runState = "PENDING" /\ "ignored" \notin odd => requests # {} \/ StartUnderWay

\* The service that protects the sockets of the core is the one it was started for,
\* unless the mode was changed meanwhile.
ServiceFits == tun # "none" /\ ~switched => service = tun /\ mode = tun
=============================================================================
