--------------------------- MODULE CoreBridgeProofs ---------------------------
(***************************************************************************)
(* For every number of requests and every set of addresses, handlers that  *)
(* interleave with a shutdown, which takes no lock, and with the log       *)
(* included: the core runs the configuration it reports, its open ports    *)
(* follow it, no socket is lost, no modelled request panics but for the    *)
(* causes named, and somebody reads the log.                               *)
(***************************************************************************)
EXTENDS CoreBridge, TLAPS

\* TypeOK without the mutual exclusion, which Mutex states of more places.
Types ==
  /\ pc \in [Requests -> PCs]
  /\ method \in [Requests -> Methods] /\ partial \subseteq Requests
  /\ at \in [Requests -> Nets]
  /\ runLock \in Requests \cup {None}
  /\ isInit \in BOOLEAN /\ isRunning \in BOOLEAN /\ setupDone \in BOOLEAN
  /\ parseFailed \in BOOLEAN /\ raced \in BOOLEAN /\ lapsed \in BOOLEAN
  /\ currentConfig \in Configs \cup {None} /\ applied \in Configs \cup {None}
  /\ known \in [Nets -> Configs \cup {None}]
  /\ bound \in [Nets -> SUBSET Configs]

\* Which handlers reach which places.
Shape(r) ==
  /\ pc[r] \in Recreating => method[r] \in Recreates
  /\ pc[r] \in Stopping => method[r] \in Stops
  /\ pc[r] \in {"reparse", "apply"} => method[r] = "setupConfig"
  /\ pc[r] = "locked" => method[r] \in Locked
  /\ pc[r] \in {"group", "select"} => method[r] = "changeProxy"
  /\ pc[r] = "unlock" => method[r] \in Locked \cup {"shutdown"}
  /\ pc[r] \notin Stopping \cup {"panicked"} => at[r] = "tcp"

Shapes == \A r \in Requests : Shape(r)

Holds(r) ==
  \/ pc[r] \in Critical
  \/ pc[r] \in Stopping \cup {"unlock"} /\ method[r] # "shutdown"

Mutex == \A r \in Requests : Holds(r) => runLock = r

\* A configuration is missing only before the first setup or while a profile that
\* did not parse is being replaced, and is applied before the lock is given back.
ConfigInv ==
  /\ currentConfig = None => ~setupDone \/ \E q \in Requests : pc[q] = "reparse"
  /\ \A r \in Requests : pc[r] \in Recreating \cup {"apply"} => currentConfig # None
  /\ (\A r \in Requests : pc[r] \notin {"reparse", "apply"}) => applied = currentConfig

\* Both sockets or none, each with its global; the UDP listener the global points to
\* is open.
Paired ==
  /\ bound["tcp"] = bound["udp"]
  /\ \A n \in Nets : bound[n] \subseteq {known[n]}
  /\ known["udp"] # None => bound["udp"] = {known["udp"]}

Match == \A n \in Nets :
  /\ bound[n] # {} => isRunning /\ bound[n] = {currentConfig}
  /\ isRunning /\ currentConfig \notin {None, Default} /\ ~lapsed =>
       bound[n] = {currentConfig}

Empty(n) == bound[n] = {}

\* The places where the ports may differ from the configuration for a while.
Unsettled(r) ==
  \/ pc[r] \in Critical \ {"locked", "group", "select"}
  \/ pc[r] \in Stopping /\ method[r] = "stopListener"

\* What a listener loop relies on, place by place.
InRecreate(r) ==
  /\ pc[r] \in Recreating => isRunning
  /\ pc[r] = "listen" => Paired
  /\ pc[r] = "bindTCP" => Empty("tcp") /\ Empty("udp")
  /\ pc[r] \in {"bindTCP", "bindUDP"} => known["udp"] = None
  /\ pc[r] = "bindUDP" => /\ known["tcp"] = currentConfig /\ bound["tcp"] = {currentConfig}
                          /\ Empty("udp")
  /\ pc[r] = "log" => \A n \in Nets : known[n] = currentConfig /\ bound[n] = {currentConfig}

InStop(r) ==
  /\ pc[r] \in Stopping => IF method[r] = "stopListener" THEN ~isRunning ELSE lapsed
  /\ pc[r] \in {"close", "closing"} /\ at[r] = "tcp" => Paired
  /\ pc[r] \in Stopping /\ at[r] = "udp" => Empty("tcp")
  /\ pc[r] \in Stopping => bound["udp"] \subseteq {known["udp"]}
  /\ pc[r] = "closing" => known[at[r]] # None
  /\ pc[r] = "forget" => Empty(at[r])

\* The ports, as long as no shutdown has met another listener loop.
OneLoop == \A r, q \in Requests : InLoop(r) /\ InLoop(q) => r = q
PairedInv == (\A r \in Requests : ~InLoop(r)) => Paired
MatchInv == (\A r \in Requests : ~Unsettled(r)) => Match
RunningInv == \A r \in Requests : pc[r] \in {"reparse", "apply"} =>
                \A n \in Nets : bound[n] # {} => isRunning
Loops == \A r \in Requests : InRecreate(r) /\ InStop(r)

PortInv == OneLoop /\ PairedInv /\ MatchInv /\ RunningInv /\ Loops

\* The subscriptions, place by place, as long as no two log requests have met.
LogPlaces ==
  /\ \A r, q \in Requests : LogAtWork(r) /\ LogAtWork(q) => r = q
  /\ (\A r \in Requests : ~LogAtWork(r)) =>
       /\ listener = {logSubscriber} \ {None}
       /\ listener # {} => \E r \in Requests : reading[r] \in {"born", logSubscriber}
  /\ \A r \in Requests :
       /\ step[r] = "unsubscribe" => listener = {logSubscriber} \ {None}
       /\ step[r] = "clear" => listener = {}
       /\ step[r] = "subscribe" => listener = {} /\ logSubscriber = None
       /\ step[r] = "store" => listener = {r} /\ logSubscriber = None

LogInv == LogTypeOK /\ (~logRaced => LogPlaces)

IInv ==
  /\ Types
  /\ Shapes
  /\ Mutex
  /\ ConfigInv
  /\ ~raced => PortInv
  /\ PanicsOnlyThen
  /\ LogInv

-----------------------------------------------------------------------------
LEMMA Apart == None \notin Requests /\ None \notin Configs /\ Default \in Configs
  BY CoreAssumption DEF Configs

LEMMA InitIInv == Init => IInv
  <1> SUFFICES ASSUME Init PROVE IInv
    OBVIOUS
  <1> USE Apart DEF Init, LogInit
  <1>1. Types
    BY DEF Types, PCs, Methods, Nets, Configs
  <1>2. Shapes /\ Mutex
    BY DEF Shapes, Shape, Mutex, Holds, Recreating, Stopping, Critical
  <1>3. ConfigInv /\ PanicsOnlyThen
    BY DEF ConfigInv, PanicsOnlyThen, Recreating
  <1>4. PortInv
    BY DEF PortInv, OneLoop, PairedInv, MatchInv, RunningInv, Loops, Paired, Match,
       Unsettled, Critical, Stopping, Recreating, InLoop, InRecreate, InStop, Nets
  <1>5. LogInv
    BY DEF LogInv, LogTypeOK, LogPlaces, LogAtWork, Steps, Readers
  <1> QED
    BY <1>1, <1>2, <1>3, <1>4, <1>5 DEF IInv

\* A step of a handler keeps the types.
LEMMA TypesKeep ==
  ASSUME IInv, NEW r \in Requests, Receive(r) \/ HandleCore(r)
  PROVE Types'
  <1> USE Apart DEF IInv, Types, Goto, configVars, portVars, requestVars, pastVars, PCs,
        Recreating, Stopping
  <1>1. CASE Receive(r)
    BY <1>1 DEF Receive
  <1>2. CASE InitClash(r)
    BY <1>2 DEF InitClash
  <1>3. CASE Lock(r)
    BY <1>3 DEF Lock
  <1>4. CASE StartListener(r)
    BY <1>4 DEF StartListener, UpdateListeners, ShouldListen, Enter
  <1>5. CASE StopListener(r)
    BY <1>5 DEF StopListener, Enter
  <1>6. CASE Shutdown(r)
    BY <1>6 DEF Shutdown, Enter
  <1>7. CASE SetupParse(r)
    BY <1>7 DEF SetupParse
  <1>8. CASE SetupDefault(r)
    BY <1>8 DEF SetupDefault, Fallback
  <1>9. CASE SetupApply(r)
    BY <1>9 DEF SetupApply, ToApply, UpdateListeners, ShouldListen, Enter
  <1>10. CASE RejectUpdate(r)
    BY <1>10 DEF RejectUpdate
  <1>11. CASE UpdateConfig(r)
    BY <1>11 DEF UpdateConfig, UpdateListeners, ShouldListen, Enter
  <1>12. CASE DecodeProxy(r)
    BY <1>12 DEF DecodeProxy
  <1>13. CASE FindGroup(r)
    BY <1>13 DEF FindGroup
  <1>14. CASE SelectProxy(r)
    BY <1>14 DEF SelectProxy
  <1>15. CASE StartTun(r)
    BY <1>15 DEF StartTun
  <1>16. CASE Compare(r)
    BY <1>16 DEF Compare, StillOpen, Stale, Closed
  <1>17. CASE BindTCP(r)
    <2>1. currentConfig \in Configs
      BY <1>17 DEF BindTCP, ConfigInv
    <2>2. known' \in [Nets -> Configs \cup {None}] /\ bound' \in [Nets -> SUBSET Configs]
      BY <1>17, <2>1 DEF BindTCP, Bind, Nets
    <2> QED
      BY <1>17, <2>2 DEF BindTCP
  <1>18. CASE BindUDP(r)
    <2>1. currentConfig \in Configs
      BY <1>18 DEF BindUDP, ConfigInv
    <2>2. known' \in [Nets -> Configs \cup {None}] /\ bound' \in [Nets -> SUBSET Configs]
      BY <1>18, <2>1 DEF BindUDP, Bind, Alone, Closed, Nets
    <2> QED
      BY <1>18, <2>2 DEF BindUDP
  <1>19. CASE LogMixed(r)
    BY <1>19 DEF LogMixed
  <1>20. CASE TestListener(r)
    BY <1>20 DEF TestListener, NextListener, Nets
  <1>21. CASE CloseListener(r)
    BY <1>21 DEF CloseListener, Closed
  <1>22. CASE ForgetListener(r)
    BY <1>22 DEF ForgetListener, NextListener, Nets
  <1>23. CASE Return(r)
    BY <1>23 DEF Return
  <1> QED
    BY <1>1, <1>2, <1>3, <1>4, <1>5, <1>6, <1>7, <1>8, <1>9, <1>10, <1>11, <1>12, <1>13,
       <1>14, <1>15, <1>16, <1>17, <1>18, <1>19, <1>20, <1>21, <1>22, <1>23 DEF HandleCore

\* A step of a handler leads where it belongs.
LEMMA ShapesKeep ==
  ASSUME IInv, NEW r \in Requests, Receive(r) \/ HandleCore(r)
  PROVE Shapes'
  <1> USE DEF IInv, Types, Shapes, Shape, Goto, PCs, Recreating, Stopping, Locked, Nets,
        Recreates, Stops, requestVars, pastVars
  <1>1. CASE Receive(r)
    BY <1>1 DEF Receive
  <1>2. CASE InitClash(r)
    BY <1>2 DEF InitClash
  <1>3. CASE Lock(r)
    BY <1>3 DEF Lock
  <1>4. CASE StartListener(r)
    BY <1>4 DEF StartListener, UpdateListeners, ShouldListen, Enter
  <1>5. CASE StopListener(r)
    BY <1>5 DEF StopListener, Enter
  <1>6. CASE Shutdown(r)
    BY <1>6 DEF Shutdown, Enter
  <1>7. CASE SetupParse(r)
    BY <1>7 DEF SetupParse
  <1>8. CASE SetupDefault(r)
    BY <1>8 DEF SetupDefault, Fallback
  <1>9. CASE SetupApply(r)
    BY <1>9 DEF SetupApply, ToApply, UpdateListeners, ShouldListen, Enter
  <1>10. CASE RejectUpdate(r)
    BY <1>10 DEF RejectUpdate
  <1>11. CASE UpdateConfig(r)
    BY <1>11 DEF UpdateConfig, UpdateListeners, ShouldListen, Enter
  <1>12. CASE DecodeProxy(r)
    BY <1>12 DEF DecodeProxy
  <1>13. CASE FindGroup(r)
    BY <1>13 DEF FindGroup
  <1>14. CASE SelectProxy(r)
    BY <1>14 DEF SelectProxy
  <1>15. CASE StartTun(r)
    BY <1>15 DEF StartTun
  <1>16. CASE Compare(r)
    BY <1>16 DEF Compare, StillOpen, Stale, Closed
  <1>17. CASE BindTCP(r)
    BY <1>17 DEF BindTCP, Bind
  <1>18. CASE BindUDP(r)
    BY <1>18 DEF BindUDP, Bind, Alone, Closed
  <1>19. CASE LogMixed(r)
    BY <1>19 DEF LogMixed
  <1>20. CASE TestListener(r)
    BY <1>20 DEF TestListener, NextListener
  <1>21. CASE CloseListener(r)
    BY <1>21 DEF CloseListener, Closed
  <1>22. CASE ForgetListener(r)
    BY <1>22 DEF ForgetListener, NextListener
  <1>23. CASE Return(r)
    BY <1>23 DEF Return
  <1> QED
    BY <1>1, <1>2, <1>3, <1>4, <1>5, <1>6, <1>7, <1>8, <1>9, <1>10, <1>11, <1>12, <1>13,
       <1>14, <1>15, <1>16, <1>17, <1>18, <1>19, <1>20, <1>21, <1>22, <1>23 DEF HandleCore

\* runLock has one holder: whoever takes it has found it free, and only its holder
\* gives it back.
LEMMA MutexKeeps ==
  ASSUME IInv, NEW r \in Requests, Receive(r) \/ HandleCore(r)
  PROVE Mutex'
  <1> USE Apart DEF IInv, Types, Shapes, Shape, Mutex, Holds, Goto, Recreating,
        Stopping, Critical, Locked, Recreates, Stops, requestVars, pastVars
  <1>1. CASE Receive(r)
    BY <1>1 DEF Receive
  <1>2. CASE InitClash(r)
    BY <1>2 DEF InitClash
  <1>3. CASE Lock(r)
    BY <1>3 DEF Lock
  <1>4. CASE StartListener(r)
    BY <1>4 DEF StartListener, UpdateListeners, ShouldListen, Enter
  <1>5. CASE StopListener(r)
    BY <1>5 DEF StopListener, Enter
  <1>6. CASE Shutdown(r)
    BY <1>6 DEF Shutdown, Enter
  <1>7. CASE SetupParse(r)
    BY <1>7 DEF SetupParse
  <1>8. CASE SetupDefault(r)
    BY <1>8 DEF SetupDefault, Fallback
  <1>9. CASE SetupApply(r)
    BY <1>9 DEF SetupApply, ToApply, UpdateListeners, ShouldListen, Enter
  <1>10. CASE RejectUpdate(r)
    BY <1>10 DEF RejectUpdate
  <1>11. CASE UpdateConfig(r)
    BY <1>11 DEF UpdateConfig, UpdateListeners, ShouldListen, Enter
  <1>12. CASE DecodeProxy(r)
    BY <1>12 DEF DecodeProxy
  <1>13. CASE FindGroup(r)
    BY <1>13 DEF FindGroup
  <1>14. CASE SelectProxy(r)
    BY <1>14 DEF SelectProxy
  <1>15. CASE StartTun(r)
    BY <1>15 DEF StartTun
  <1>16. CASE Compare(r)
    BY <1>16 DEF Compare, StillOpen, Stale, Closed
  <1>17. CASE BindTCP(r)
    BY <1>17 DEF BindTCP, Bind
  <1>18. CASE BindUDP(r)
    BY <1>18 DEF BindUDP, Bind, Alone, Closed
  <1>19. CASE LogMixed(r)
    BY <1>19 DEF LogMixed
  <1>20. CASE TestListener(r)
    BY <1>20 DEF TestListener, NextListener
  <1>21. CASE CloseListener(r)
    BY <1>21 DEF CloseListener, Closed
  <1>22. CASE ForgetListener(r)
    BY <1>22 DEF ForgetListener, NextListener
  <1>23. CASE Return(r)
    BY <1>23 DEF Return
  <1> QED
    BY <1>1, <1>2, <1>3, <1>4, <1>5, <1>6, <1>7, <1>8, <1>9, <1>10, <1>11, <1>12, <1>13,
       <1>14, <1>15, <1>16, <1>17, <1>18, <1>19, <1>20, <1>21, <1>22, <1>23 DEF HandleCore

\* A step of a handler keeps the configuration in step with what is applied.
LEMMA ConfigKeeps ==
  ASSUME IInv, NEW r \in Requests, Receive(r) \/ HandleCore(r)
  PROVE ConfigInv'
  <1> USE Apart DEF IInv, Types, Shapes, Shape, Mutex, Holds, ConfigInv, Goto,
        configVars, Critical, Recreating, Stopping, Locked, Recreates, Stops,
        requestVars, pastVars
  <1>1. CASE Receive(r)
    BY <1>1 DEF Receive
  <1>2. CASE InitClash(r)
    BY <1>2 DEF InitClash
  <1>3. CASE Lock(r)
    BY <1>3 DEF Lock
  <1>4. CASE StartListener(r)
    BY <1>4 DEF StartListener, UpdateListeners, ShouldListen, Enter
  <1>5. CASE StopListener(r)
    BY <1>5 DEF StopListener, Enter
  <1>6. CASE Shutdown(r)
    BY <1>6 DEF Shutdown, Enter
  <1>7. CASE SetupParse(r)
    BY <1>7 DEF SetupParse
  <1>8. CASE SetupDefault(r)
    BY <1>8 DEF SetupDefault, Fallback
  <1>9. CASE SetupApply(r)
    BY <1>9 DEF SetupApply, ToApply, UpdateListeners, ShouldListen, Enter
  <1>10. CASE RejectUpdate(r)
    BY <1>10 DEF RejectUpdate
  <1>11. CASE UpdateConfig(r)
    BY <1>11 DEF UpdateConfig, UpdateListeners, ShouldListen, Enter
  <1>12. CASE DecodeProxy(r)
    BY <1>12 DEF DecodeProxy
  <1>13. CASE FindGroup(r)
    BY <1>13 DEF FindGroup
  <1>14. CASE SelectProxy(r)
    BY <1>14 DEF SelectProxy
  <1>15. CASE StartTun(r)
    BY <1>15 DEF StartTun
  <1>16. CASE Compare(r)
    BY <1>16 DEF Compare, StillOpen, Stale, Closed
  <1>17. CASE BindTCP(r)
    BY <1>17 DEF BindTCP, Bind
  <1>18. CASE BindUDP(r)
    BY <1>18 DEF BindUDP, Bind, Alone, Closed
  <1>19. CASE LogMixed(r)
    BY <1>19 DEF LogMixed
  <1>20. CASE TestListener(r)
    BY <1>20 DEF TestListener, NextListener
  <1>21. CASE CloseListener(r)
    BY <1>21 DEF CloseListener, Closed
  <1>22. CASE ForgetListener(r)
    BY <1>22 DEF ForgetListener, NextListener
  <1>23. CASE Return(r)
    BY <1>23 DEF Return
  <1> QED
    BY <1>1, <1>2, <1>3, <1>4, <1>5, <1>6, <1>7, <1>8, <1>9, <1>10, <1>11, <1>12, <1>13,
       <1>14, <1>15, <1>16, <1>17, <1>18, <1>19, <1>20, <1>21, <1>22, <1>23 DEF HandleCore

\* Where the ports are still accounted for, they were before.
LEMMA StillUnraced ==
  ASSUME IInv, NEW r \in Requests, Receive(r) \/ HandleCore(r), ~raced'
  PROVE ~raced /\ PortInv
  BY DEF IInv, Receive, HandleCore, InitClash, Lock, StartListener, StopListener,
     Shutdown, SetupParse, SetupDefault, SetupApply, UpdateConfig, UpdateListeners,
     Enter, RejectUpdate, DecodeProxy, FindGroup, SelectProxy,
     StartTun, Compare, BindTCP, BindUDP, LogMixed, TestListener, CloseListener, ForgetListener, Return, Types, requestVars, pastVars

\* A listener loop begins only where there is none, or a race is recorded.
LEMMA OneLoopKeeps ==
  ASSUME IInv, NEW r \in Requests, Receive(r) \/ HandleCore(r), ~raced'
  PROVE OneLoop'
  <1>0. ~raced /\ PortInv
    BY StillUnraced
  <1> USE <1>0 DEF IInv, Types, PortInv, OneLoop, InLoop, Goto, Recreating, Stopping,
        requestVars, pastVars
  <1>1. CASE Receive(r)
    BY <1>1 DEF Receive
  <1>2. CASE InitClash(r)
    BY <1>2 DEF InitClash
  <1>3. CASE Lock(r)
    BY <1>3 DEF Lock
  <1>4. CASE StartListener(r)
    BY <1>4 DEF StartListener, UpdateListeners, ShouldListen, Enter
  <1>5. CASE StopListener(r)
    BY <1>5 DEF StopListener, Enter
  <1>6. CASE Shutdown(r)
    BY <1>6 DEF Shutdown, Enter
  <1>7. CASE SetupParse(r)
    BY <1>7 DEF SetupParse
  <1>8. CASE SetupDefault(r)
    BY <1>8 DEF SetupDefault, Fallback
  <1>9. CASE SetupApply(r)
    BY <1>9 DEF SetupApply, ToApply, UpdateListeners, ShouldListen, Enter
  <1>10. CASE RejectUpdate(r)
    BY <1>10 DEF RejectUpdate
  <1>11. CASE UpdateConfig(r)
    BY <1>11 DEF UpdateConfig, UpdateListeners, ShouldListen, Enter
  <1>12. CASE DecodeProxy(r)
    BY <1>12 DEF DecodeProxy
  <1>13. CASE FindGroup(r)
    BY <1>13 DEF FindGroup
  <1>14. CASE SelectProxy(r)
    BY <1>14 DEF SelectProxy
  <1>15. CASE StartTun(r)
    BY <1>15 DEF StartTun
  <1>16. CASE Compare(r)
    BY <1>16 DEF Compare, StillOpen, Stale, Closed
  <1>17. CASE BindTCP(r)
    BY <1>17 DEF BindTCP, Bind
  <1>18. CASE BindUDP(r)
    BY <1>18 DEF BindUDP, Bind, Alone, Closed
  <1>19. CASE LogMixed(r)
    BY <1>19 DEF LogMixed
  <1>20. CASE TestListener(r)
    BY <1>20 DEF TestListener, NextListener
  <1>21. CASE CloseListener(r)
    BY <1>21 DEF CloseListener, Closed
  <1>22. CASE ForgetListener(r)
    BY <1>22 DEF ForgetListener, NextListener
  <1>23. CASE Return(r)
    BY <1>23 DEF Return
  <1> QED
    BY <1>1, <1>2, <1>3, <1>4, <1>5, <1>6, <1>7, <1>8, <1>9, <1>10, <1>11, <1>12, <1>13,
       <1>14, <1>15, <1>16, <1>17, <1>18, <1>19, <1>20, <1>21, <1>22, <1>23 DEF HandleCore

\* Comparing leaves both listeners where they are right, or neither.
LEMMA CompareLeaves ==
  ASSUME Types, Paired, currentConfig # None, NEW r \in Requests, Compare(r)
  PROVE /\ Paired'
        /\ Right => \A n \in Nets : bound'[n] = {currentConfig}
        /\ ~Right => known'["udp"] = None /\ \A n \in Nets : bound'[n] = {}
  <1> USE Apart DEF Types, Paired, Nets, Right
  <1>1. \A n \in Nets :
          /\ known'[n] = (IF known[n] \notin {None, currentConfig} THEN None ELSE known[n])
          /\ bound'[n] = (IF known[n] \notin {None, currentConfig}
                          THEN bound[n] \ {known[n]} ELSE bound[n])
    BY DEF Compare, StillOpen, Stale, Closed
  <1>2. CASE Right
    BY <1>1, <1>2
  <1>3. CASE ~Right /\ known["udp"] = None
    <2>1. bound["udp"] = {} /\ bound["tcp"] = {}
      BY <1>3
    <2> QED
      BY <1>1, <1>3, <2>1
  <1>4. CASE ~Right /\ known["udp"] # None
    <2>1. /\ bound["udp"] = {known["udp"]} /\ bound["tcp"] = {known["udp"]}
          /\ known["tcp"] = known["udp"]
      BY <1>4
    <2>2. known["udp"] # currentConfig
      BY <1>4, <2>1
    <2> QED
      BY <1>1, <1>4, <2>1, <2>2
  <1> QED
    BY <1>2, <1>3, <1>4

\* A loop that ends leaves both sockets or none.
LEMMA PairedKeeps ==
  ASSUME IInv, NEW r \in Requests, Receive(r) \/ HandleCore(r), ~raced'
  PROVE PairedInv'
  <1>0. ~raced /\ PortInv
    BY StillUnraced
  <1> USE <1>0, Apart DEF IInv, Types, Shapes, Shape, Mutex, Holds, PortInv, OneLoop,
        InLoop, Goto, configVars, portVars, requestVars, pastVars, Recreates, Stops,
        Recreating, Stopping, Critical, Locked,
        Nets, PairedInv, Paired, Loops, InRecreate, InStop, Empty
  <1>1. CASE Receive(r)
    BY <1>1 DEF Receive
  <1>2. CASE InitClash(r)
    BY <1>2 DEF InitClash
  <1>3. CASE Lock(r)
    BY <1>3 DEF Lock
  <1>4. CASE StartListener(r)
    BY <1>4 DEF StartListener, UpdateListeners, ShouldListen, Enter
  <1>5. CASE StopListener(r)
    BY <1>5 DEF StopListener, Enter
  <1>6. CASE Shutdown(r)
    BY <1>6 DEF Shutdown, Enter
  <1>7. CASE SetupParse(r)
    BY <1>7 DEF SetupParse
  <1>8. CASE SetupDefault(r)
    BY <1>8 DEF SetupDefault, Fallback
  <1>9. CASE SetupApply(r)
    BY <1>9 DEF SetupApply, ToApply, UpdateListeners, ShouldListen, Enter
  <1>10. CASE RejectUpdate(r)
    BY <1>10 DEF RejectUpdate
  <1>11. CASE UpdateConfig(r)
    BY <1>11 DEF UpdateConfig, UpdateListeners, ShouldListen, Enter
  <1>12. CASE DecodeProxy(r)
    BY <1>12 DEF DecodeProxy
  <1>13. CASE FindGroup(r)
    BY <1>13 DEF FindGroup
  <1>14. CASE SelectProxy(r)
    BY <1>14 DEF SelectProxy
  <1>15. CASE StartTun(r)
    BY <1>15 DEF StartTun
  <1>16. CASE Compare(r)
    <2>1. Paired'
      BY <1>16, CompareLeaves DEF Compare, ConfigInv
    <2> QED
      BY <2>1
  <1>17. CASE BindTCP(r)
    BY <1>17 DEF BindTCP, Bind
  <1>18. CASE BindUDP(r)
    <2>1. \A q \in Requests : q # r => ~InLoop(q)
      BY <1>18 DEF BindUDP
    <2>2. bound["tcp"] = {known["tcp"]} /\ bound["udp"] = {}
      BY <1>18 DEF BindUDP
    <2>3. CASE pc'[r] = "log"
      BY <1>18, <2>3
    <2>4. CASE pc'[r] # "log"
      <3>1. bound'["tcp"] = {} /\ bound'["udp"] = {}
        BY <1>18, <2>2, <2>4 DEF BindUDP, Alone, Closed
      <3>2. known'["udp"] = None
        BY <1>18, <2>4 DEF BindUDP
      <3> QED
        BY <3>1, <3>2
    <2> QED
      BY <2>3, <2>4
  <1>19. CASE LogMixed(r)
    BY <1>19 DEF LogMixed
  <1>20. CASE TestListener(r)
    <2>1. CASE InLoop(r)'
      BY <1>20, <2>1
    <2>2. CASE ~InLoop(r)'
      <3>1. at[r] = "udp" /\ known["udp"] = None /\ UNCHANGED portVars
        BY <1>20, <2>2 DEF TestListener, NextListener
      <3>2. bound["tcp"] = {} /\ bound["udp"] = {}
        BY <1>20, <3>1 DEF TestListener
      <3> QED
        BY <3>1, <3>2
    <2> QED
      BY <2>1, <2>2
  <1>21. CASE CloseListener(r)
    BY <1>21 DEF CloseListener, Closed
  <1>22. CASE ForgetListener(r)
    BY <1>22 DEF ForgetListener, NextListener
  <1>23. CASE Return(r)
    BY <1>23 DEF Return
  <1> QED
    BY <1>1, <1>2, <1>3, <1>4, <1>5, <1>6, <1>7, <1>8, <1>9, <1>10, <1>11, <1>12, <1>13,
       <1>14, <1>15, <1>16, <1>17, <1>18, <1>19, <1>20, <1>21, <1>22, <1>23 DEF HandleCore

\* A handler that ends leaves the ports as the configuration says.
LEMMA MatchKeeps ==
  ASSUME IInv, NEW r \in Requests, Receive(r) \/ HandleCore(r), ~raced'
  PROVE MatchInv'
  <1>0. ~raced /\ PortInv
    BY StillUnraced
  <1> USE <1>0, Apart DEF IInv, Types, Shapes, Shape, Mutex, Holds, PortInv, OneLoop,
        InLoop, Goto, configVars, portVars, requestVars, pastVars, Recreates, Stops,
        Recreating, Stopping, Critical, Locked,
        Nets, MatchInv, Match, Unsettled, PairedInv, Paired, RunningInv, Loops,
        InRecreate, InStop, Empty
  <1>1. CASE Receive(r)
    BY <1>1 DEF Receive
  <1>2. CASE InitClash(r)
    BY <1>2 DEF InitClash
  <1>3. CASE Lock(r)
    BY <1>3 DEF Lock
  <1>4. CASE StartListener(r)
    BY <1>4 DEF StartListener, UpdateListeners, ShouldListen, Enter
  <1>5. CASE StopListener(r)
    BY <1>5 DEF StopListener, Enter
  <1>6. CASE Shutdown(r)
    BY <1>6 DEF Shutdown, Enter
  <1>7. CASE SetupParse(r)
    BY <1>7 DEF SetupParse
  <1>8. CASE SetupDefault(r)
    BY <1>8 DEF SetupDefault, Fallback
  <1>9. CASE SetupApply(r)
    <2>1. currentConfig # None
      BY <1>9 DEF SetupApply, ConfigInv
    <2> QED
      BY <1>9, <2>1 DEF SetupApply, UpdateListeners, ShouldListen, Enter
  <1>10. CASE RejectUpdate(r)
    BY <1>10 DEF RejectUpdate
  <1>11. CASE UpdateConfig(r)
    BY <1>11 DEF UpdateConfig, UpdateListeners, ShouldListen, Enter
  <1>12. CASE DecodeProxy(r)
    BY <1>12 DEF DecodeProxy
  <1>13. CASE FindGroup(r)
    BY <1>13 DEF FindGroup
  <1>14. CASE SelectProxy(r)
    BY <1>14 DEF SelectProxy
  <1>15. CASE StartTun(r)
    BY <1>15 DEF StartTun
  <1>16. CASE Compare(r)
    <2>1. isRunning /\ Paired /\ currentConfig # None
      BY <1>16 DEF Compare, ConfigInv
    <2>2. CASE Right
      <3>1. \A n \in Nets : bound'[n] = {currentConfig}
        BY <1>16, <2>1, <2>2, CompareLeaves
      <3> QED
        BY <1>16, <2>1, <3>1 DEF Compare
    <2>3. CASE ~Right
      <3>1. \A n \in Nets : bound'[n] = {}
        BY <1>16, <2>1, <2>3, CompareLeaves
      <3>2. ASSUME \A q \in Requests : ~Unsettled(q)' PROVE currentConfig = Default
        BY <1>16, <2>3, <3>2 DEF Compare
      <3> QED
        BY <1>16, <3>1, <3>2 DEF Compare
    <2> QED
      BY <2>2, <2>3
  <1>17. CASE BindTCP(r)
    BY <1>17 DEF BindTCP, Bind
  <1>18. CASE BindUDP(r)
    BY <1>18 DEF BindUDP, Bind, Alone, Closed
  <1>19. CASE LogMixed(r)
    BY <1>19 DEF LogMixed
  <1>20. CASE TestListener(r)
    BY <1>20 DEF TestListener, NextListener
  <1>21. CASE CloseListener(r)
    BY <1>21 DEF CloseListener, Closed
  <1>22. CASE ForgetListener(r)
    BY <1>22 DEF ForgetListener, NextListener
  <1>23. CASE Return(r)
    BY <1>23 DEF Return
  <1> QED
    BY <1>1, <1>2, <1>3, <1>4, <1>5, <1>6, <1>7, <1>8, <1>9, <1>10, <1>11, <1>12, <1>13,
       <1>14, <1>15, <1>16, <1>17, <1>18, <1>19, <1>20, <1>21, <1>22, <1>23 DEF HandleCore

\* While a configuration is replaced, only a running core has ports open.
LEMMA RunningKeeps ==
  ASSUME IInv, NEW r \in Requests, Receive(r) \/ HandleCore(r), ~raced'
  PROVE RunningInv'
  <1>0. ~raced /\ PortInv
    BY StillUnraced
  <1> USE <1>0, Apart DEF IInv, Types, Shapes, Shape, Mutex, Holds, PortInv, OneLoop,
        InLoop, Goto, configVars, portVars, requestVars, pastVars, Recreates, Stops,
        Recreating, Stopping, Critical, Locked,
        Nets, MatchInv, Match, Unsettled, RunningInv
  <1>1. CASE Receive(r)
    BY <1>1 DEF Receive
  <1>2. CASE InitClash(r)
    BY <1>2 DEF InitClash
  <1>3. CASE Lock(r)
    BY <1>3 DEF Lock
  <1>4. CASE StartListener(r)
    BY <1>4 DEF StartListener, UpdateListeners, ShouldListen, Enter
  <1>5. CASE StopListener(r)
    BY <1>5 DEF StopListener, Enter
  <1>6. CASE Shutdown(r)
    BY <1>6 DEF Shutdown, Enter
  <1>7. CASE SetupParse(r)
    BY <1>7 DEF SetupParse
  <1>8. CASE SetupDefault(r)
    BY <1>8 DEF SetupDefault, Fallback
  <1>9. CASE SetupApply(r)
    BY <1>9 DEF SetupApply, ToApply, UpdateListeners, ShouldListen, Enter
  <1>10. CASE RejectUpdate(r)
    BY <1>10 DEF RejectUpdate
  <1>11. CASE UpdateConfig(r)
    BY <1>11 DEF UpdateConfig, UpdateListeners, ShouldListen, Enter
  <1>12. CASE DecodeProxy(r)
    BY <1>12 DEF DecodeProxy
  <1>13. CASE FindGroup(r)
    BY <1>13 DEF FindGroup
  <1>14. CASE SelectProxy(r)
    BY <1>14 DEF SelectProxy
  <1>15. CASE StartTun(r)
    BY <1>15 DEF StartTun
  <1>16. CASE Compare(r)
    BY <1>16 DEF Compare, StillOpen, Stale, Closed
  <1>17. CASE BindTCP(r)
    BY <1>17 DEF BindTCP, Bind
  <1>18. CASE BindUDP(r)
    BY <1>18 DEF BindUDP, Bind, Alone, Closed
  <1>19. CASE LogMixed(r)
    BY <1>19 DEF LogMixed
  <1>20. CASE TestListener(r)
    BY <1>20 DEF TestListener, NextListener
  <1>21. CASE CloseListener(r)
    BY <1>21 DEF CloseListener, Closed
  <1>22. CASE ForgetListener(r)
    BY <1>22 DEF ForgetListener, NextListener
  <1>23. CASE Return(r)
    BY <1>23 DEF Return
  <1> QED
    BY <1>1, <1>2, <1>3, <1>4, <1>5, <1>6, <1>7, <1>8, <1>9, <1>10, <1>11, <1>12, <1>13,
       <1>14, <1>15, <1>16, <1>17, <1>18, <1>19, <1>20, <1>21, <1>22, <1>23 DEF HandleCore

\* A loop finds, place by place, what it has left.
LEMMA LoopsKeep ==
  ASSUME IInv, NEW r \in Requests, Receive(r) \/ HandleCore(r), ~raced'
  PROVE Loops'
  <1>0. ~raced /\ PortInv
    BY StillUnraced
  <1> USE <1>0, Apart DEF IInv, Types, Shapes, Shape, Mutex, Holds, PortInv, OneLoop,
        InLoop, Goto, configVars, portVars, requestVars, pastVars, Recreates, Stops,
        Recreating, Stopping, Critical, Locked,
        Nets, PairedInv, Paired, Loops, InRecreate, InStop, Empty, ConfigInv
  <1>1. CASE Receive(r)
    BY <1>1 DEF Receive
  <1>2. CASE InitClash(r)
    BY <1>2 DEF InitClash
  <1>3. CASE Lock(r)
    BY <1>3 DEF Lock
  <1>4. CASE StartListener(r)
    <2>1. \A q \in Requests : q # r /\ InLoop(q) =>
            method[q] = "shutdown" /\ pc[q] \in Stopping
      BY <1>4 DEF StartListener
    <2>2. CASE currentConfig = None
      BY <1>4, <2>1, <2>2 DEF StartListener, UpdateListeners, ShouldListen
    <2>3. CASE currentConfig # None
      <3>1. Paired /\ \A q \in Requests : ~InLoop(q)
        BY <1>4, <2>3 DEF StartListener, UpdateListeners, ShouldListen, Enter
      <3> QED
        BY <1>4, <2>3, <3>1 DEF StartListener, UpdateListeners, ShouldListen, Enter
    <2> QED
      BY <2>2, <2>3
  <1>5. CASE StopListener(r)
    BY <1>5 DEF StopListener, Enter
  <1>6. CASE Shutdown(r)
    <2>1. Paired /\ \A q \in Requests : ~InLoop(q)
      BY <1>6 DEF Shutdown, Enter
    <2>2. lapsed' /\ pc'[r] = "close" /\ at[r] = "tcp" /\ UNCHANGED <<requestVars, at, portVars>>
      BY <1>6 DEF Shutdown, Enter
    <2> QED
      BY <1>6, <2>1, <2>2 DEF Shutdown, Enter
  <1>7. CASE SetupParse(r)
    BY <1>7 DEF SetupParse
  <1>8. CASE SetupDefault(r)
    BY <1>8 DEF SetupDefault, Fallback
  <1>9. CASE SetupApply(r)
    BY <1>9 DEF SetupApply, ToApply, UpdateListeners, ShouldListen, Enter
  <1>10. CASE RejectUpdate(r)
    BY <1>10 DEF RejectUpdate
  <1>11. CASE UpdateConfig(r)
    BY <1>11 DEF UpdateConfig, UpdateListeners, ShouldListen, Enter
  <1>12. CASE DecodeProxy(r)
    BY <1>12 DEF DecodeProxy
  <1>13. CASE FindGroup(r)
    BY <1>13 DEF FindGroup
  <1>14. CASE SelectProxy(r)
    BY <1>14 DEF SelectProxy
  <1>15. CASE StartTun(r)
    BY <1>15 DEF StartTun
  <1>16. CASE Compare(r)
    <2>1. isRunning /\ Paired /\ currentConfig # None
      BY <1>16 DEF Compare
    <2>2. \A q \in Requests : q # r => ~InLoop(q)
      BY <1>16 DEF Compare
    <2>3. pc'[r] = "bindTCP" => /\ known'["udp"] = None
                                /\ \A n \in Nets : bound'[n] = {}
      BY <1>16, <2>1, CompareLeaves DEF Compare
    <2> QED
      BY <1>16, <2>1, <2>2, <2>3 DEF Compare
  <1>17. CASE BindTCP(r)
    BY <1>17 DEF BindTCP, Bind
  <1>18. CASE BindUDP(r)
    BY <1>18 DEF BindUDP, Bind, Alone, Closed
  <1>19. CASE LogMixed(r)
    BY <1>19 DEF LogMixed
  <1>20. CASE TestListener(r)
    BY <1>20 DEF TestListener, NextListener
  <1>21. CASE CloseListener(r)
    BY <1>21 DEF CloseListener, Closed
  <1>22. CASE ForgetListener(r)
    BY <1>22 DEF ForgetListener, NextListener
  <1>23. CASE Return(r)
    BY <1>23 DEF Return
  <1> QED
    BY <1>1, <1>2, <1>3, <1>4, <1>5, <1>6, <1>7, <1>8, <1>9, <1>10, <1>11, <1>12, <1>13,
       <1>14, <1>15, <1>16, <1>17, <1>18, <1>19, <1>20, <1>21, <1>22, <1>23 DEF HandleCore

\* Nothing panics that PanicsOnlyThen does not name.
LEMMA PanicsKeep ==
  ASSUME IInv, NEW r \in Requests, Receive(r) \/ HandleCore(r), ~Panicked
  PROVE PanicsOnlyThen'
  <1> USE Apart DEF IInv, Types, Shapes, Shape, Mutex, Holds, PanicsOnlyThen, Panicked,
        Goto, Recreating, Stopping, Critical, Locked, configVars, requestVars, pastVars,
        Recreates, Stops
  <1>1. CASE Receive(r)
    BY <1>1 DEF Receive
  <1>2. CASE InitClash(r)
    BY <1>2 DEF InitClash
  <1>3. CASE Lock(r)
    BY <1>3 DEF Lock
  <1>4. CASE StartListener(r)
    BY <1>4 DEF StartListener, UpdateListeners, ShouldListen, Enter
  <1>5. CASE StopListener(r)
    BY <1>5 DEF StopListener, Enter
  <1>6. CASE Shutdown(r)
    BY <1>6 DEF Shutdown, Enter
  <1>7. CASE SetupParse(r)
    BY <1>7 DEF SetupParse
  <1>8. CASE SetupDefault(r)
    BY <1>8 DEF SetupDefault, Fallback
  <1>9. CASE SetupApply(r)
    BY <1>9 DEF SetupApply, ToApply, UpdateListeners, ShouldListen, Enter
  <1>10. CASE RejectUpdate(r)
    BY <1>10 DEF RejectUpdate
  <1>11. CASE UpdateConfig(r)
    BY <1>11 DEF UpdateConfig, UpdateListeners, ShouldListen, Enter, PortInv, Loops,
       InRecreate, InStop, ConfigInv
  <1>12. CASE DecodeProxy(r)
    BY <1>12 DEF DecodeProxy
  <1>13. CASE FindGroup(r)
    BY <1>13 DEF FindGroup
  <1>14. CASE SelectProxy(r)
    BY <1>14 DEF SelectProxy
  <1>15. CASE StartTun(r)
    BY <1>15 DEF StartTun, PortInv, Loops, InRecreate, InStop, ConfigInv
  <1>16. CASE Compare(r)
    BY <1>16 DEF Compare, StillOpen, Stale, Closed
  <1>17. CASE BindTCP(r)
    BY <1>17 DEF BindTCP, Bind
  <1>18. CASE BindUDP(r)
    BY <1>18 DEF BindUDP, Bind, Alone, Closed, PortInv, Loops, InRecreate, InStop,
       ConfigInv
  <1>19. CASE LogMixed(r)
    BY <1>19 DEF LogMixed, PortInv, Loops, InRecreate, InStop, ConfigInv
  <1>20. CASE TestListener(r)
    BY <1>20 DEF TestListener, NextListener
  <1>21. CASE CloseListener(r)
    BY <1>21 DEF CloseListener, Closed, PortInv, Loops, InRecreate, InStop, ConfigInv
  <1>22. CASE ForgetListener(r)
    BY <1>22 DEF ForgetListener, NextListener
  <1>23. CASE Return(r)
    BY <1>23 DEF Return
  <1> QED
    BY <1>1, <1>2, <1>3, <1>4, <1>5, <1>6, <1>7, <1>8, <1>9, <1>10, <1>11, <1>12, <1>13,
       <1>14, <1>15, <1>16, <1>17, <1>18, <1>19, <1>20, <1>21, <1>22, <1>23 DEF HandleCore

-----------------------------------------------------------------------------
\* A step of a log request keeps the subscriptions: with one at work at a time
\* the old one is removed before the new one is made and stored.
LEMMA LogStepKeeps ==
  ASSUME LogInv, NEW r \in Requests, NEW starts \in BOOLEAN, LogStep(r, starts)
  PROVE LogInv'
  <1> USE Apart DEF LogInv, LogTypeOK, LogPlaces, LogAtWork, StepTo, Steps, Readers,
        Cleared
  <1>1. CASE LogTest(r, starts)
    <2>1. LogTypeOK'
      BY <1>1 DEF LogTest
    <2>2. ASSUME ~logRaced' PROVE LogPlaces'
      <3>1. ~logRaced /\ \A q \in Requests : ~LogAtWork(q)
        BY <1>1, <2>2 DEF LogTest
      <3> QED
        BY <1>1, <3>1 DEF LogTest
    <2> QED
      BY <2>1, <2>2
  <1>2. CASE Unsubscribe(r)
    BY <1>2 DEF Unsubscribe, Removed
  <1>3. CASE Clear(r, starts)
    BY <1>3 DEF Clear
  <1>4. CASE Subscribe(r)
    BY <1>4 DEF Subscribe
  <1>5. CASE Store(r)
    BY <1>5 DEF Store
  <1> QED
    BY <1>1, <1>2, <1>3, <1>4, <1>5 DEF LogStep

\* So do the goroutines that read a subscription, and process().
LEMMA LogGoroutinesKeep == ASSUME LogInv, LogGoroutines PROVE LogInv'
  <1> USE Apart DEF LogInv, LogTypeOK, LogPlaces, LogAtWork, Steps, Readers
  <1>1. ASSUME NEW r \in Requests, Range(r) PROVE LogInv'
    BY <1>1 DEF Range
  <1>2. CASE LineBlocks
    BY <1>2 DEF LineBlocks
  <1>3. CASE LineEmitted
    BY <1>3 DEF LineEmitted
  <1> QED
    BY <1>1, <1>2, <1>3 DEF LogGoroutines

LEMMA LogUnchanged == ASSUME LogInv, UNCHANGED logVars PROVE LogInv'
  BY DEF logVars, LogInv, LogTypeOK, LogPlaces, LogAtWork

\* What a log request does to the rest of the bridge: it ends.
LEMMA LogRequestKeeps ==
  ASSUME IInv, NEW r \in Requests, HandleLog(r), ~Panicked
  PROVE /\ Types' /\ Shapes' /\ Mutex' /\ ConfigInv' /\ PanicsOnlyThen'
        /\ ~raced' => PortInv'
  <1>1. /\ pc[r] = "called" /\ pc' \in {pc, [pc EXCEPT ![r] = "done"]}
        /\ UNCHANGED <<requestVars, at, runLock, isInit, isRunning, configVars, portVars,
                     pastVars>>
    BY DEF HandleLog, Goto
  <1> USE <1>1 DEF IInv, configVars, portVars, requestVars, pastVars, Types
  <1>2. Types'
    BY DEF PCs
  <1>3. \A q \in Requests : pc'[q] = pc[q] \/ (q = r /\ pc'[q] = "done")
    BY <1>1
  <1>4. Shapes' /\ Mutex' /\ ConfigInv' /\ PanicsOnlyThen'
    BY <1>3 DEF Shapes, Shape, Mutex, Holds, ConfigInv, PanicsOnlyThen, Panicked,
       Recreating, Stopping, Critical
  <1>5. ASSUME ~raced' PROVE PortInv'
    <2>1. \A q \in Requests : /\ InLoop(q)' <=> InLoop(q)
                              /\ Unsettled(q)' <=> Unsettled(q)
      BY <1>3 DEF InLoop, Unsettled, Recreating, Stopping, Critical
    <2>2. Paired' = Paired /\ Match' = Match
      BY DEF Paired, Match
    <2>3. OneLoop' /\ PairedInv' /\ MatchInv'
      BY <1>5, <2>1, <2>2 DEF PortInv, OneLoop, PairedInv, MatchInv
    <2>4. RunningInv'
      BY <1>3, <1>5 DEF PortInv, RunningInv
    <2>5. Loops'
      BY <1>3, <1>5, <2>2 DEF PortInv, Loops, InRecreate, InStop, Empty, Recreating,
         Stopping
    <2> QED
      BY <2>3, <2>4, <2>5 DEF PortInv
  <1> QED
    BY <1>2, <1>4, <1>5

LEMMA BridgeUnchanged ==
  ASSUME IInv, UNCHANGED bridgeVars
  PROVE /\ Types' /\ Shapes' /\ Mutex' /\ ConfigInv' /\ PanicsOnlyThen'
        /\ ~raced' => PortInv'
  BY DEF bridgeVars, IInv, Types, Shapes, Shape, Mutex, Holds, ConfigInv,
     PanicsOnlyThen, PortInv, OneLoop, PairedInv, MatchInv, RunningInv, Loops, InLoop,
     Paired, Match, Unsettled, InRecreate, InStop, Empty

LEMMA StepKeeps == ASSUME IInv, [Next]_vars PROVE IInv'
  <1>1. ASSUME NEW r \in Requests, Receive(r) \/ HandleCore(r), UNCHANGED logVars, ~Panicked
        PROVE IInv'
    <2>1. Types' /\ Shapes' /\ Mutex' /\ ConfigInv' /\ PanicsOnlyThen'
      BY <1>1, TypesKeep, ShapesKeep, MutexKeeps, ConfigKeeps, PanicsKeep
    <2>2. ~raced' => PortInv'
      BY <1>1, OneLoopKeeps, PairedKeeps, MatchKeeps, RunningKeeps,
         LoopsKeep DEF PortInv
    <2>3. LogInv'
      BY <1>1, LogUnchanged DEF IInv
    <2> QED
      BY <2>1, <2>2, <2>3 DEF IInv
  <1>2. ASSUME NEW r \in Requests, HandleLog(r), ~Panicked PROVE IInv'
    <2>1. LogInv'
      BY <1>2, LogStepKeeps DEF HandleLog, IInv
    <2> QED
      BY <1>2, <2>1, LogRequestKeeps DEF IInv
  <1>3. CASE LogRuns
    BY <1>3, LogGoroutinesKeep, BridgeUnchanged DEF LogRuns, IInv
  <1>4. CASE UNCHANGED vars
    BY <1>4, LogUnchanged, BridgeUnchanged DEF vars, IInv
  <1>5. ASSUME NEW r \in Requests, Receive(r) PROVE UNCHANGED logVars
    BY <1>5 DEF Receive
  <1> QED
    BY <1>1, <1>2, <1>3, <1>4, <1>5 DEF Next, Handle

LEMMA Inductive == Spec => []IInv
  BY InitIInv, StepKeeps, PTL DEF Spec

-----------------------------------------------------------------------------
\* The variables keep their types, and whoever is inside a critical section holds
\* runLock.
THEOREM Typed == Spec => []TypeOK
  <1>1. IInv => TypeOK
    BY DEF IInv, Types, Mutex, Holds, LogInv, TypeOK
  <1> QED
    BY Inductive, <1>1, PTL

\* Between requests the kernel runs the configuration the bridge reports.
THEOREM Applied == Spec => []ConfigApplied
  <1>1. IInv => ConfigApplied
    BY Apart DEF IInv, ConfigInv, Mutex, Holds, Critical, ConfigApplied
  <1> QED
    BY Inductive, <1>1, PTL

\* Between requests the port is open only in a running core and at the configured
\* address, and open there in every running core with a port to open, unless it
\* could not be bound or was closed by a shutdown; all of this unless a shutdown has
\* met another listener loop.
THEOREM PortsFollow == Spec => []PortsFollowConfig
  <1>1. IInv => PortsFollowConfig
    BY Apart DEF IInv, PortInv, MatchInv, Match, Unsettled, Mutex, Holds,
       PortsFollowConfig
  <1> QED
    BY Inductive, <1>1, PTL

\* Between listener loops no socket is open that a stop would not find.
THEOREM NoLeaks == Spec => []NoSocketLeaks
  <1>1. IInv => NoSocketLeaks
    BY DEF IInv, PortInv, PairedInv, Paired, NoSocketLeaks
  <1> QED
    BY Inductive, <1>1, PTL

\* A modelled request dereferences a nil pointer in the named cases only.
THEOREM Panics == Spec => []PanicsOnlyThen
  <1>1. IInv => PanicsOnlyThen
    BY DEF IInv
  <1> QED
    BY Inductive, <1>1, PTL

\* Somebody reads the subscription of the log, unless two log requests have met.
THEOREM LogIsRead == Spec => []SubscriptionsAreRead
  <1>1. IInv => SubscriptionsAreRead
    BY DEF IInv, LogInv, LogPlaces, SubscriptionsAreRead
  <1> QED
    BY Inductive, <1>1, PTL
=============================================================================
