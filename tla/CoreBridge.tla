------------------------------ MODULE CoreBridge ------------------------------
(***************************************************************************)
(* The Go core's request handlers (core/hub.go, common.go, action.go).     *)
(*                                                                         *)
(* server.go and lib.go run every request of the Dart client in a          *)
(* goroutine of its own, so requests are ordered by runLock alone, and     *)
(* some handlers do not take it: handleShutdown stops the listeners        *)
(* without it, and the TUN bridge reads currentConfig under another lock.  *)
(*                                                                         *)
(* A configuration is represented by the address it gives the inbound port *)
(* that stands for all of them, the mixed port: a TCP listener and an UDP  *)
(* one.  Each is a global pointer of listener.go (known) beside the        *)
(* sockets that are open (bound).  ReCreateMixed holds mixedMux while it   *)
(* changes them, StopListener no lock at all.                              *)
(*                                                                         *)
(* LogSubscriber has the two requests about the log.  Handlers that log    *)
(* wait until the line is taken, some of them with runLock held.           *)
(***************************************************************************)
EXTENDS LogSubscriber

CONSTANTS
  Addrs,     \* addresses a profile or a patch may set
  Default    \* the address of config.DefaultRawConfig, whose port is zero

ASSUME CoreAssumption == None \notin Requests \cup Addrs \cup {Default}

VARIABLES
  pc,             \* where each request is
  method,         \* which handler it runs
  partial,        \* the requests whose parameters leave a field out
  at,             \* the listener StopListener is at
  runLock,        \* the holder of runLock
  isInit,
  isRunning,
  currentConfig,  \* address of the current configuration, None for nil
  applied,        \* address of the configuration hub.ApplyConfig installed last
  known,          \* known[n]: address of the listener the global points to
  bound,          \* bound[n]: addresses with an open socket
  setupDone,      \* history: a setupConfig has finished
  parseFailed,    \* history: a profile failed to parse
  raced,          \* history: handleShutdown ran beside another listener loop
  lapsed          \* history: the last loop but for a stop's was a shutdown's or failed

bridgeVars == <<pc, method, partial, at, runLock, isInit, isRunning, currentConfig,
                applied, known, bound, setupDone, parseFailed, raced, lapsed>>

vars == <<bridgeVars, logVars>>

requestVars == <<method, partial>>
portVars == <<known, bound>>
pastVars == <<raced, lapsed>>
configVars == <<currentConfig, applied, setupDone, parseFailed>>

Methods == {"init", "startListener", "stopListener", "setupConfig",
            "updateConfig", "changeProxy", "shutdown", "startTun", "startLog",
            "stopLog"}

\* Handlers that hold runLock for their whole length.
Locked == {"startListener", "stopListener", "setupConfig", "updateConfig",
           "changeProxy"}

\* Handlers with a listener loop.
Recreates == {"startListener", "setupConfig", "updateConfig"}
Stops == {"stopListener", "shutdown"}

\* mixedListener and mixedUDPLister.
Nets == {"tcp", "udp"}

Recreating == {"listen", "bindTCP", "bindUDP", "log"}
Stopping == {"close", "closing", "forget"}

PCs == Recreating \cup Stopping \cup
  {"idle", "called", "locked", "reparse", "apply", "group", "select", "unlock", "done",
   "panicked"}

\* Places that only a handler inside its critical section reaches.
Critical == Recreating \cup {"locked", "reparse", "apply", "group", "select"}

Configs == Addrs \cup {Default}

InLoop(r) == pc[r] \in Recreating \cup Stopping

-----------------------------------------------------------------------------
Init ==
  /\ pc = [r \in Requests |-> "idle"]
  /\ method = [r \in Requests |-> "init"]
  /\ partial = {}
  /\ at = [r \in Requests |-> "tcp"]
  /\ runLock = None
  /\ isInit = FALSE
  /\ isRunning = FALSE
  /\ currentConfig = None
  /\ applied = None
  /\ known = [n \in Nets |-> None]
  /\ bound = [n \in Nets |-> {}]
  /\ setupDone = FALSE
  /\ parseFailed = FALSE
  /\ raced = FALSE
  /\ lapsed = FALSE
  /\ LogInit

Goto(r, place) == pc' = [pc EXCEPT ![r] = place]

\* A request arrives: go handleAction(action, result).  The parameters of an
\* update or of a choice of proxy are a struct of pointers, nil where a field is
\* left out.
Receive(r) ==
  /\ pc[r] = "idle"
  /\ \E m \in Methods : method' = [method EXCEPT ![r] = m]
  /\ \/ UNCHANGED partial
     \/ method'[r] \in {"updateConfig", "changeProxy"} /\ partial' = partial \cup {r}
  /\ Goto(r, "called")
  /\ UNCHANGED <<at, runLock, isInit, isRunning, configVars, portVars, pastVars, logVars>>

InitClash(r) ==
  /\ pc[r] = "called" /\ method[r] = "init"
  /\ isInit' = TRUE
  /\ Goto(r, "done")
  /\ UNCHANGED <<requestVars, at, runLock, isRunning, configVars, portVars,
                 pastVars>>

\* Faulty variant: the handler does not wait for runLock.
LockUnheld(r) ==
  /\ pc[r] = "called" /\ method[r] \in Locked
  /\ runLock' = r
  /\ Goto(r, "locked")
  /\ UNCHANGED <<requestVars, at, isInit, isRunning, configVars, portVars,
                 pastVars>>

\* runLock.Lock()
Lock(r) ==
  /\ pc[r] = "called" /\ method[r] \in Locked
  /\ runLock = None
  /\ runLock' = r
  /\ Goto(r, "locked")
  /\ UNCHANGED <<requestVars, at, isInit, isRunning, configVars, portVars,
                 pastVars>>

\* Faulty variants: a test of updateListeners is missing.
ListenStopped(running, config) == config # None
ListenUnconfigured(running, config) == running

\* if !isRunning { return }; if currentConfig == nil { return }
ShouldListen(running, config) == running /\ config # None

\* The handler begins updateListeners ("listen") or StopListener ("close").
Enter(r, loop) ==
  /\ Goto(r, loop)
  /\ lapsed' = (loop = "close" /\ (lapsed \/ method[r] = "shutdown"))
  /\ raced' = (raced \/ \E q \in Requests : InLoop(q))

\* updateListeners, up to ReCreateMixed; a nil configuration would be dereferenced.
UpdateListeners(r, running, config) ==
  \/ /\ ShouldListen(running, config) /\ config # None
     /\ Enter(r, "listen")
  \/ /\ ShouldListen(running, config) /\ config = None
     /\ Goto(r, "panicked")
     /\ UNCHANGED pastVars
  \/ /\ ~ShouldListen(running, config)
     /\ Goto(r, "unlock")
     /\ UNCHANGED pastVars

StartListener(r) ==
  /\ pc[r] = "locked" /\ method[r] = "startListener"
  /\ isRunning' = TRUE
  /\ UpdateListeners(r, TRUE, currentConfig)
  /\ UNCHANGED <<requestVars, at, runLock, isInit, configVars, portVars>>

StopListener(r) ==
  /\ pc[r] = "locked" /\ method[r] = "stopListener"
  /\ isRunning' = FALSE
  /\ Enter(r, "close")
  /\ UNCHANGED <<requestVars, at, runLock, isInit, configVars, portVars>>

\* handleShutdown calls stopListeners at once, without runLock.
Shutdown(r) ==
  /\ pc[r] = "called" /\ method[r] = "shutdown"
  /\ Enter(r, "close")
  /\ UNCHANGED <<requestVars, at, runLock, isInit, isRunning, configVars, portVars>>

\* setupConfig: currentConfig, err = config.ParseRawConfig(params.Config); the
\* default comes in params when the request itself cannot be decoded.
SetupParse(r) ==
  /\ pc[r] = "locked" /\ method[r] = "setupConfig"
  /\ \/ /\ currentConfig' \in Configs
        /\ Goto(r, "apply")
        /\ UNCHANGED parseFailed
     \/ /\ currentConfig' = None
        /\ parseFailed' = TRUE
        /\ Goto(r, "reparse")
  /\ UNCHANGED <<requestVars, at, runLock, isInit, isRunning, applied, setupDone,
                 portVars, pastVars>>

\* Faulty variant: the error is returned before a default is installed.
FallbackNil == None

\* The configuration that stands in for one that does not parse.
Fallback == Default

SetupDefault(r) ==
  /\ pc[r] = "reparse"
  /\ currentConfig' = Fallback
  /\ Goto(r, "apply")
  /\ UNCHANGED <<requestVars, at, runLock, isInit, isRunning, applied, setupDone,
                 parseFailed, portVars, pastVars>>

\* Faulty variant: a core that is not running applies nothing.
ToApplyRunning == IF isRunning THEN currentConfig ELSE applied

\* hub.ApplyConfig(currentConfig)
ToApply == currentConfig

\* hub.ApplyConfig, which logs, patchSelectGroup, updateListeners
SetupApply(r) ==
  /\ pc[r] = "apply"
  /\ LogTakes
  /\ applied' = ToApply
  /\ setupDone' = TRUE
  /\ UpdateListeners(r, isRunning, currentConfig)
  /\ UNCHANGED <<requestVars, at, runLock, isInit, isRunning, currentConfig, parseFailed,
                 portVars>>

\* handleUpdateConfig answers parameters that it cannot decode before any lock.
RejectUpdate(r) ==
  /\ pc[r] = "called" /\ method[r] = "updateConfig"
  /\ Goto(r, "done")
  /\ UNCHANGED <<requestVars, at, runLock, isInit, isRunning, configVars, portVars,
                 pastVars>>

\* updateConfig dereferences currentConfig, then every field of the TUN options,
\* and patches the configuration in place.
UpdateConfig(r) ==
  /\ pc[r] = "locked" /\ method[r] = "updateConfig"
  /\ IF currentConfig = None \/ r \in partial
     THEN /\ Goto(r, "panicked")
          /\ UNCHANGED <<currentConfig, applied, pastVars>>
     ELSE /\ currentConfig' \in Configs
          /\ applied' = currentConfig'
          /\ UpdateListeners(r, isRunning, currentConfig)
  /\ UNCHANGED <<requestVars, at, runLock, isInit, isRunning, setupDone, parseFailed,
                 portVars>>

\* Faulty variants: a way out of changeProxy's goroutine without the unlock.
DecodeLeaks(r) ==
  /\ pc[r] = "locked" /\ method[r] = "changeProxy"
  /\ \/ Goto(r, "done")
     \/ Goto(r, IF r \in partial THEN "panicked" ELSE "group")
  /\ UNCHANGED <<requestVars, at, runLock, isInit, isRunning, configVars, portVars,
                 pastVars>>

GroupLeaks(r) ==
  /\ pc[r] = "group"
  /\ \/ Goto(r, "done")
     \/ Goto(r, "select")
  /\ UNCHANGED <<requestVars, at, runLock, isInit, isRunning, configVars, portVars,
                 pastVars>>

SelectLeaks(r) ==
  /\ pc[r] = "select"
  /\ \/ Goto(r, "done")
     \/ Goto(r, "unlock")
  /\ UNCHANGED <<requestVars, at, runLock, isInit, isRunning, configVars, portVars,
                 pastVars>>

\* handleChangeProxy hands the locked runLock to a goroutine, which answers what
\* it cannot decode and dereferences the names of the group and of the proxy.
DecodeProxy(r) ==
  /\ pc[r] = "locked" /\ method[r] = "changeProxy"
  /\ \/ Goto(r, "unlock")
     \/ Goto(r, IF r \in partial THEN "panicked" ELSE "group")
  /\ UNCHANGED <<requestVars, at, runLock, isInit, isRunning, configVars, portVars,
                 pastVars>>

\* proxies[groupName]: "Not found group", or the group.
FindGroup(r) ==
  /\ pc[r] = "group"
  /\ \/ Goto(r, "unlock")
     \/ Goto(r, "select")
  /\ UNCHANGED <<requestVars, at, runLock, isInit, isRunning, configVars, portVars,
                 pastVars>>

\* "Group is not selectable", an error of selector.Set, or the choice made, which
\* is the group's own state.
SelectProxy(r) ==
  /\ pc[r] = "select"
  /\ Goto(r, "unlock")
  /\ UNCHANGED <<requestVars, at, runLock, isInit, isRunning, configVars, portVars,
                 pastVars>>

\* Start of a TUN device, or its options: currentConfig.General without runLock.
StartTun(r) ==
  /\ pc[r] = "called" /\ method[r] = "startTun"
  /\ Goto(r, IF currentConfig = None THEN "panicked" ELSE "done")
  /\ UNCHANGED <<requestVars, at, runLock, isInit, isRunning, configVars, portVars,
                 pastVars>>

-----------------------------------------------------------------------------
Closed(n) == bound[n] \ {known[n]}

Stale(n) == known[n] \notin {None, currentConfig}

\* Faulty variant: a listener with another address is forgotten, not closed.
StillOpenLeaky(n) == bound[n]

StillOpen(n) == IF Stale(n) THEN Closed(n) ELSE bound[n]

\* Faulty variant: the UDP listener is not compared.
RightTCP == known["tcp"] = currentConfig

\* Both listeners have the right address.
Right == \A n \in Nets : known[n] = currentConfig

\* ReCreateMixed closes what listens elsewhere and returns if that is all: both
\* listeners are right, or the port is zero.  One step: a race with a shutdown,
\* which could set a pointer to nil in between, is recorded in raced.
Compare(r) ==
  /\ pc[r] = "listen"
  /\ known' = [n \in Nets |-> IF Stale(n) THEN None ELSE known[n]]
  /\ bound' = [n \in Nets |-> StillOpen(n)]
  /\ Goto(r, IF currentConfig = Default \/ Right THEN "unlock" ELSE "bindTCP")
  /\ UNCHANGED <<requestVars, at, runLock, isInit, isRunning, configVars, pastVars>>

Bind(n) ==
  /\ currentConfig \notin bound[n]
  /\ known' = [known EXCEPT ![n] = currentConfig]
  /\ bound' = [bound EXCEPT ![n] = @ \cup {currentConfig}]

\* mixedListener, err = mixed.New(addr, tunnel).  Binding may fail because the
\* address is in use, by a socket of this process or of another.
BindTCP(r) ==
  /\ pc[r] = "bindTCP"
  /\ \/ Bind("tcp") /\ Goto(r, "bindUDP") /\ UNCHANGED lapsed
     \/ /\ LogTakes
        /\ lapsed' = TRUE
        /\ known' = [known EXCEPT !["tcp"] = None]
        /\ Goto(r, "unlock")
        /\ UNCHANGED bound
  /\ UNCHANGED <<requestVars, at, runLock, isInit, isRunning, configVars, raced>>

\* mixedListener.Close(): the TCP listener does not serve alone.
Alone == Closed("tcp")

\* mixedUDPLister, err = socks.NewUDP(addr, tunnel).  After a failure the global
\* mixedListener still points to the listener that has just been closed.
BindUDP(r) ==
  /\ pc[r] = "bindUDP"
  /\ \/ Bind("udp") /\ Goto(r, "log") /\ UNCHANGED lapsed
     \/ /\ LogTakes
        /\ lapsed' = TRUE
        /\ known' = [known EXCEPT !["udp"] = None]
        /\ bound' = [bound EXCEPT !["tcp"] = Alone]
        /\ Goto(r, IF known["tcp"] = None THEN "panicked" ELSE "unlock")
  /\ UNCHANGED <<requestVars, at, runLock, isInit, isRunning, configVars, raced>>

\* The log line dereferences mixedListener.
LogMixed(r) ==
  /\ pc[r] = "log"
  /\ LogTakes
  /\ Goto(r, IF known["tcp"] = None THEN "panicked" ELSE "unlock")
  /\ UNCHANGED <<requestVars, at, runLock, isInit, isRunning, configVars, portVars,
                 pastVars>>

\* StopListener goes on with the next listener, or returns.
NextListener(r) ==
  \/ at[r] = "tcp" /\ at' = [at EXCEPT ![r] = "udp"] /\ Goto(r, "close")
  \/ at[r] = "udp" /\ at' = [at EXCEPT ![r] = "tcp"] /\ Goto(r, "unlock")

\* if mixedListener != nil
TestListener(r) ==
  /\ pc[r] = "close"
  /\ \/ known[at[r]] = None /\ NextListener(r)
     \/ known[at[r]] # None /\ Goto(r, "closing") /\ UNCHANGED at
  /\ UNCHANGED <<requestVars, runLock, isInit, isRunning, configVars, portVars,
                 pastVars>>

\* _ = mixedListener.Close(), by now perhaps nil
CloseListener(r) ==
  /\ pc[r] = "closing"
  /\ bound' = [bound EXCEPT ![at[r]] = Closed(at[r])]
  /\ Goto(r, IF known[at[r]] = None THEN "panicked" ELSE "forget")
  /\ UNCHANGED <<requestVars, at, runLock, isInit, isRunning, configVars, known,
                 pastVars>>

\* mixedListener = nil, whatever it points to by now
ForgetListener(r) ==
  /\ pc[r] = "forget"
  /\ known' = [known EXCEPT ![at[r]] = None]
  /\ NextListener(r)
  /\ UNCHANGED <<requestVars, runLock, isInit, isRunning, configVars, bound, pastVars>>

\* The handler returns: its deferred Unlock runs and the answer is sent.
\* handleShutdown has no lock to give back and resets isInit, not isRunning.
Return(r) ==
  /\ pc[r] = "unlock"
  /\ runLock' = IF method[r] = "shutdown" THEN runLock ELSE None
  /\ isInit' = IF method[r] = "shutdown" THEN FALSE ELSE isInit
  /\ Goto(r, "done")
  /\ UNCHANGED <<requestVars, at, isRunning, configVars, portVars,
                 pastVars>>

-----------------------------------------------------------------------------
\* handleStartLog, handleStopLog
HandleLog(r) ==
  /\ pc[r] = "called" /\ method[r] \in {"startLog", "stopLog"}
  /\ LogStep(r, method[r] = "startLog")
  /\ IF step'[r] = "done" THEN Goto(r, "done") ELSE UNCHANGED pc
  /\ UNCHANGED <<requestVars, at, runLock, isInit, isRunning, configVars, portVars,
                 pastVars>>

HandleCore(r) ==
  \/ InitClash(r) \/ Lock(r) \/ StartListener(r) \/ StopListener(r)
  \/ Shutdown(r) \/ SetupParse(r) \/ SetupDefault(r) \/ SetupApply(r)
  \/ RejectUpdate(r) \/ UpdateConfig(r) \/ DecodeProxy(r) \/ FindGroup(r)
  \/ SelectProxy(r) \/ StartTun(r) \/ Compare(r) \/ BindTCP(r) \/ BindUDP(r)
  \/ LogMixed(r) \/ TestListener(r) \/ CloseListener(r) \/ ForgetListener(r)
  \/ Return(r)

Handle(r) == (HandleCore(r) /\ UNCHANGED logVars) \/ HandleLog(r)

\* A nil dereference kills the process: the handlers do not recover from it.
Panicked == \E r \in Requests : pc[r] = "panicked"

LogRuns == LogGoroutines /\ UNCHANGED bridgeVars

Next == ~Panicked /\ ((\E r \in Requests : Receive(r) \/ Handle(r)) \/ LogRuns)

Spec == Init /\ [][Next]_vars

(***************************************************************************)
(* Goroutines run, and the Go mutex hands over to a waiter that starves:   *)
(* every handler that has begun is weakly fair, and so are the goroutines  *)
(* of the log.  The client is not.                                         *)
(***************************************************************************)
FairSpec ==
  /\ Spec
  /\ \A r \in Requests : WF_vars(~Panicked /\ Handle(r))
  /\ WF_vars(~Panicked /\ LogRuns)

-----------------------------------------------------------------------------
\* Besides the types: who is inside a critical section holds runLock.
TypeOK ==
  /\ pc \in [Requests -> PCs]
  /\ method \in [Requests -> Methods]
  /\ at \in [Requests -> Nets]
  /\ runLock \in Requests \cup {None}
  /\ partial \subseteq Requests
  /\ {isInit, isRunning, setupDone, parseFailed, raced, lapsed} \subseteq BOOLEAN
  /\ {currentConfig, applied} \subseteq Configs \cup {None}
  /\ known \in [Nets -> Configs \cup {None}]
  /\ bound \in [Nets -> SUBSET Configs]
  /\ \A r \in Requests : pc[r] \in Critical => runLock = r
  /\ LogTypeOK

\* Between requests the inbound port is open only while the core runs, and with
\* the address of the current configuration, whatever mix of start, stop, setup
\* and update came before; and while it runs with a port to open, the port is
\* open, unless it could not be bound or a shutdown has closed it since.  A
\* shutdown that races a listener loop is excepted.
PortsFollowConfig ==
  runLock = None /\ ~raced =>
    \A n \in Nets :
      /\ bound[n] # {} => isRunning /\ bound[n] = {currentConfig}
      /\ isRunning /\ currentConfig \notin {None, Default} /\ ~lapsed =>
           bound[n] = {currentConfig}

\* With no listener loop at work, no open socket has lost its global, so that a
\* stop finds them all, and TCP and UDP are served together or not at all.
NoSocketLeaks ==
  ~raced /\ (\A r \in Requests : ~InLoop(r)) =>
    /\ \A n \in Nets : bound[n] \subseteq {known[n]}
    /\ bound["tcp"] = bound["udp"]

\* The port that GetPorts reads off mixedListener is the port of a proxy server.
\* Not so after UDP could not be bound: the global points to a closed listener.
ReportedPortIsOpen ==
  ~raced /\ (\A r \in Requests : ~InLoop(r)) /\ known["tcp"] # None =>
    bound["tcp"] = {known["tcp"]}

\* Between requests the kernel runs the configuration the bridge reports.
ConfigApplied == runLock = None => applied = currentConfig

\* Of the requests modelled here, a nil configuration is dereferenced by
\* updateConfig before the first setup, by the TUN bridge, which reads without
\* runLock, before it or while a profile that failed to parse is being replaced;
\* a nil field by updateConfig and changeProxy, of parameters that leave it out;
\* a nil listener only when a shutdown ran beside another listener loop.
PanicsOnlyThen == \A r \in Requests : pc[r] = "panicked" =>
  \/ method[r] \in {"updateConfig", "startTun"} /\ ~setupDone
  \/ method[r] = "startTun" /\ \E q \in Requests : pc[q] = "reparse"
  \/ method[r] \in {"updateConfig", "changeProxy"} /\ r \in partial
  \/ method[r] \in Recreates \cup Stops /\ raced

\* Every request is answered: runLock, handed to a goroutine by changeProxy, is
\* given back on every path, and no line of the log waits for ever; unless the
\* process dies or two log requests were at work at once.
RequestsAnswered ==
  \A r \in Requests : pc[r] = "called" ~> pc[r] = "done" \/ Panicked \/ logRaced
=============================================================================
