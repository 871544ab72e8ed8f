---------------------------- MODULE VpnStateProofs ----------------------------
(***************************************************************************)
(* However the requests, bindings, dialogs, status answers and goroutines  *)
(* of the Android side meet: what the run state, the stop, the tile and    *)
(* the service say about the core is true, except after the oddities that  *)
(* the properties name.  The module has no bound: the state space of the   *)
(* model is finite, the proof says why the properties hold.                *)
(***************************************************************************)
EXTENDS VpnState, SequenceTheorems, TLAPS

\* Goroutines of a start and of a stop that are under way together have raced.
RacedInv == \A a, b \in goOps : a # b => "raced" \in odd

\* An answer to a question since which nothing has changed is still right.
CalmInv ==
  calmSync /\ status # "idle" =>
    /\ goOps = {}
    /\ status = "START" => tun # "none"
    /\ status = "STOP" => tun = "none"

\* What the run state says is what the goroutine under way will bring about.
AgreeInv ==
  Clear({"drift", "raced", "rejected"}) =>
    /\ RunStateAgrees
    /\ \A op \in goOps :
         (runState = "START" => op # "stop") /\ (runState = "STOP" => op = "stop")

\* After a stop nothing is under way that could start the core.
StopInv ==
  last = "stop" /\ "lost" \notin odd =>
    /\ ~StartUnderWay
    /\ "raced" \notin odd => goOps \subseteq {"stop"} /\ StopSticks

\* The kinds of service in a queue of bindings.
Kinds(c) == {c[i] : i \in DOMAIN c}

\* As long as the mode is that of the start, so is all that the start has led to.
FitInv ==
  ~switched =>
    /\ service \in {"none", mode}
    /\ Kinds(connecting) \subseteq {mode}
    /\ goOps \subseteq {"stop", mode} /\ tun \in {"none", mode}
    /\ mode \in goOps \/ tun # "none" => service = mode

\* Who is asked for a permission has asked for a service.
AskInv == asking => mode # "none"

\* The inductive invariant.
IInv ==
  /\ TypeOK /\ AskInv /\ RacedInv /\ CalmInv
  /\ AgreeInv /\ StopInv /\ NoLimbo /\ FitInv

-----------------------------------------------------------------------------
\* The queues that can occur, by their kinds.
LEMMA KindsAre ==
  /\ Kinds(<<>>) = {} /\ Kinds(<<"vpn">>) = {"vpn"} /\ Kinds(<<"plain">>) = {"plain"}
  /\ Kinds(<<"vpn", "plain">>) = Services /\ Kinds(<<"plain", "vpn">>) = Services
  BY DEF Kinds, Services

\* Append on a queue of one, which the SMT translation does not compute.
LEMMA Appends == ASSUME NEW a, NEW b PROVE Append(<<a>>, b) = <<a, b>>
  <1>1. <<a>> \in Seq({a, b}) /\ <<a, b>> \in Seq({a, b}) /\ Len(<<a>>) = 1
    OBVIOUS
  <1>2. PICK c : c = Append(<<a>>, b)
    OBVIOUS
  <1>3. c \in Seq({a, b}) /\ Len(c) = 2 /\ c[1] = a /\ c[2] = b
    BY <1>1, <1>2
  <1>4. \A i \in 1 .. Len(c) : i = 1 \/ i = 2
    BY <1>3
  <1>5. c = <<a, b>>
    BY <1>1, <1>3, <1>4, SeqEqual
  <1> QED
    BY <1>2, <1>5

\* The end of the process leaves nothing under way.
LEMMA Ended == ASSUME ProcessEnds PROVE IInv'
  <1>1. TypeOK' /\ AskInv'
    BY DEF ProcessEnds, AskInv, TypeOK, RunStates, Services, Calls, Oddities
  <1>2. RacedInv' /\ CalmInv' /\ AgreeInv' /\ StopInv' /\ NoLimbo' /\ FitInv'
    BY KindsAre DEF ProcessEnds, RacedInv, CalmInv, AgreeInv, RunStateAgrees,
           StopInv, StopSticks, StartUnderWay, NoLimbo, FitInv, Clear
  <1> QED
    BY <1>1, <1>2 DEF IInv

LEMMA InitIInv == Init => IInv
  <1> SUFFICES ASSUME Init PROVE IInv
    OBVIOUS
  <1>1. TypeOK /\ AskInv
    BY DEF Init, AskInv, TypeOK, RunStates, Services, Calls, Oddities
  <1>2. RacedInv /\ CalmInv /\ AgreeInv /\ StopInv /\ NoLimbo /\ FitInv
    BY KindsAre DEF Init, RacedInv, CalmInv, AgreeInv, RunStateAgrees,
           StopInv, StopSticks, StartUnderWay, NoLimbo, FitInv, Clear
  <1> QED
    BY <1>1, <1>2 DEF IInv

-----------------------------------------------------------------------------
\* The queues of bindings: at most one of each kind.
Bindings == {<<>>, <<"vpn">>, <<"plain">>, <<"vpn", "plain">>, <<"plain", "vpn">>}

\* A start that finds no service: a binding of the kind m is under way, or nothing
\* will come of it.
Binds(m) ==
  /\ connecting' \in Bindings
  /\ Kinds(connecting') \subseteq Kinds(connecting) \cup {m}
  /\ \/ odd' = odd /\ connecting' # <<>>
     \/ odd' = odd \cup {"ignored"}
  /\ UNCHANGED <<runState, goOps>>

\* A binding is added to the queue unless one of its kind is there.
LEMMA Bound ==
  ASSUME connecting \in Bindings, NEW m \in Services, BindService(m)
  PROVE  Binds(m)
  <1>1. PICK c \in {<<>>, connecting} : c = BoundBefore
    BY DEF BoundBefore
  <1>2. c \in Bindings /\ Kinds(c) \subseteq Kinds(connecting)
    BY <1>1, KindsAre DEF Bindings
  <1>3. UNCHANGED <<runState, goOps>>
    BY DEF BindService
  <1>4. CASE connecting' = c /\ odd' = odd \cup {"ignored"}
    BY <1>2, <1>3, <1>4 DEF Binds
  <1>5. CASE odd' = odd /\ m \in Kinds(c) /\ connecting' = c
    BY <1>2, <1>3, <1>5, KindsAre DEF Binds
  <1>6. CASE odd' = odd /\ m \notin Kinds(c) /\ connecting' = Append(c, m)
    <2>1. SUFFICES /\ connecting' \in Bindings \ {<<>>}
                   /\ Kinds(connecting') \subseteq Kinds(c) \cup {m}
      BY <1>2, <1>3, <1>6 DEF Binds
    <2>2. \/ c = <<>>
          \/ c = <<"vpn">> /\ m = "plain"
          \/ c = <<"plain">> /\ m = "vpn"
      BY <1>2, <1>6, KindsAre DEF Bindings, Services
    <2>3. CASE c = <<>>
      <3>1. connecting' = <<m>>
        BY <1>6, <2>3
      <3> QED
        BY <3>1, KindsAre DEF Bindings, Services
    <2>4. CASE c = <<"vpn">> /\ m = "plain"
      <3>1. connecting' = <<"vpn", "plain">>
        BY <1>6, <2>4, Appends
      <3> QED
        BY <2>4, <3>1, KindsAre DEF Bindings, Services
    <2>5. CASE c = <<"plain">> /\ m = "vpn"
      <3>1. connecting' = <<"plain", "vpn">>
        BY <1>6, <2>5, Appends
      <3> QED
        BY <2>5, <3>1, KindsAre DEF Bindings, Services
    <2> QED
      BY <2>2, <2>3, <2>4, <2>5
  <1>7. \/ connecting' = c /\ odd' = odd \cup {"ignored"}
        \/ odd' = odd /\ m \in Kinds(c) /\ connecting' = c
        \/ odd' = odd /\ m \notin Kinds(c) /\ connecting' = Append(c, m)
    BY <1>1 DEF BindService, Kinds
  <1> QED
    BY <1>4, <1>5, <1>6, <1>7

\* The first binding leaves the queue.
LEMMA Unqueued ==
  ASSUME connecting \in Bindings, connecting # <<>>
  PROVE  /\ Head(connecting) \in Services /\ Head(connecting) \in Kinds(connecting)
         /\ Tail(connecting) \in Bindings
         /\ Kinds(Tail(connecting)) \subseteq Kinds(connecting)
  <1>1. ASSUME NEW k \in Services, connecting = <<k>>
        PROVE  /\ Head(connecting) = k /\ Kinds(connecting) = {k}
               /\ Tail(connecting) \in Bindings /\ Kinds(Tail(connecting)) = {}
    <2>1. Tail(connecting) = <<>> /\ Head(connecting) = k
      BY <1>1
    <2> QED
      BY <1>1, <2>1, KindsAre DEF Bindings, Services
  <1>2. CASE connecting = <<"vpn", "plain">>
    <2>1. Tail(connecting) = <<"plain">> /\ Head(connecting) = "vpn"
      BY <1>2
    <2> QED
      BY <1>2, <2>1, KindsAre DEF Bindings, Services
  <1>3. CASE connecting = <<"plain", "vpn">>
    <2>1. Tail(connecting) = <<"vpn">> /\ Head(connecting) = "plain"
      BY <1>3
    <2> QED
      BY <1>3, <2>1, KindsAre DEF Bindings, Services
  <1> QED
    BY <1>1, <1>2, <1>3 DEF Bindings, Services

\* A goroutine is started for op and the run state set to it.
Launches(op) ==
  /\ goOps' = goOps \cup {op} /\ odd' = OddAfter(op) /\ connecting' = connecting
  /\ runState' = IF op = "stop" THEN "STOP" ELSE "START"

\* What a start comes to: a binding or none, nothing, or a goroutine.
Comes(s, m) ==
  \/ s = "none" /\ Binds(m)
  \/ /\ s # "none" /\ runState = "START"
     /\ UNCHANGED <<runState, goOps, odd, connecting>>
  \/ s # "none" /\ Launches(s)

\* StartService comes to one of these.
LEMMA Starts ==
  ASSUME connecting \in Bindings, NEW m \in Services, NEW s \in Services \cup {"none"},
         StartService(s, m)
  PROVE  Comes(s, m)
  <1>1. CASE s = "none"
    BY <1>1, Bound DEF StartService, Comes
  <1>2. CASE s # "none" /\ AlreadyStarted
    BY <1>2 DEF AlreadyStarted, Comes
  <1>3. CASE s # "none" /\ StartTun(s)
    BY <1>3 DEF StartTun, Comes, Binds, Launches, Services
  <1> QED
    BY <1>1, <1>2, <1>3 DEF StartService

\* What VpnPlugin.handleStart comes to.
PluginComes(m) ==
  \/ Comes(ServiceFor(m), m) /\ UNCHANGED asking
  \/ /\ runState' = "START" /\ odd' = odd \cup {"rejected"} /\ ServiceFor(m) # "none"
     /\ UNCHANGED <<goOps, connecting, asking>>
  \/ ui # "none" /\ asking' = TRUE /\ UNCHANGED <<runState, goOps, odd, connecting>>
  \/ odd' = odd \cup {"ignored"} /\ UNCHANGED <<runState, goOps, connecting, asking>>

\* So does PluginStart, which may also be refused, ask, or reach nobody.
LEMMA PluginStarts ==
  ASSUME TypeOK, NEW m \in Services, PluginStart(m)
  PROVE  PluginComes(m)
  <1>1. ServiceFor(m) \in Services \cup {"none"} /\ connecting \in Bindings
    BY DEF ServiceFor, TypeOK, Bindings
  <1>2. CASE StartService(ServiceFor(m), m) /\ UNCHANGED asking
    BY <1>1, <1>2, Starts DEF PluginComes
  <1>3. CASE ServiceFor(m) # "none" /\ Rejected(m) /\ UNCHANGED asking
    BY <1>3 DEF PluginComes, Rejected
  <1> QED
    BY <1>2, <1>3 DEF PluginStart, PluginComes

\* The history after a goroutine has been started.
LEMMA Launching ==
  ASSUME TypeOK, NEW op \in Services \cup {"stop"}
  PROVE  /\ OddAfter(op) \subseteq Oddities
         /\ goOps \cup {op} \subseteq Services \cup {"stop"}
         /\ \A o \in Oddities : odd \cup {o} \subseteq Oddities
         /\ OddAfter(op) \cup {"lost"} \subseteq Oddities
         /\ odd \cup {"lost"} \subseteq Oddities
  BY DEF TypeOK, OddAfter, Oddities

\* The permission resumes the start that the dialog was for.
LEMMA Permits ==
  ASSUME TypeOK, AskInv, Permitted
  PROVE  Comes(service, mode) /\ mode \in Services
  <1>1. mode \in Services /\ service \in Services \cup {"none"} /\ connecting \in Bindings
    BY DEF TypeOK, AskInv, Permitted, Bindings
  <1> QED
    BY <1>1, Starts DEF Permitted

\* The call of handleStart that a request ends in.
StartLeaves(m) ==
  /\ PluginComes(m)
  /\ mode' = m /\ service' = ServiceFor(m) /\ last' = "start" /\ calmSync' = FALSE
  /\ switched' = IF StartUnderWay \/ goOps # {} \/ tun # "none"
                 THEN switched \/ m # mode ELSE switched /\ m = mode
  /\ requests' \subseteq requests
  /\ UNCHANGED <<isBind, ui, engine, status, tun>>

\* The call of handleStop, with the engine or without.
StopLeaves ==
  /\ PluginStop
  /\ calmSync' = FALSE /\ UNCHANGED <<ui, tun>>
  /\ requests' \subseteq requests
  /\ \/ UNCHANGED <<engine, status>>
     \/ ui = "none" /\ MayStop /\ engine' = FALSE /\ requests' = {} /\ status' = Unanswered

\* The alternatives of Next, with the calls of the plugin and the end of the process
\* taken out of them.
Splits ==
  \/ TileStart \/ TileStop \/ UiRequest \/ AskStatus \/ UiOpens \/ UiEnds \/ NoProfile
  \/ Refused \/ Revoked \/ ReadStatus \/ SetStatus \/ UiDestroys \/ UiInit \/ ServiceCreated
  \/ Permitted
  \/ \E m \in Services : StartLeaves(m) \/ Connected(m)
  \/ StopLeaves
  \/ \E s \in Services : StartStops(s)
  \/ \E op \in Services \cup {"stop"} : RunGo(op)
  \/ ProcessEnds

\* Every step is one of them.
LEMMA NextSplits == ASSUME TypeOK, Next PROVE Splits
  <1>1. ASSUME NEW m \in Services, Deliver(m) \/ QuickStart(m) PROVE StartLeaves(m)
    <2>1. PluginStart(m) /\ requests' \subseteq requests
      BY <1>1 DEF Deliver, QuickStart, Services
    <2>2. PluginComes(m)
      BY <2>1, PluginStarts
    <2> QED
      BY <1>1, <2>1, <2>2 DEF StartLeaves, PluginStart, Deliver, QuickStart, engineVars
  <1>2. Deliver("stop") => StopLeaves
    BY DEF Deliver, Services, StopLeaves, engineVars
  <1>3. ServiceStops => StopLeaves \/ ProcessEnds
    BY DEF ServiceStops, StopLeaves
  <1>4. ConnectedRejected \/ PermittedRejected => ProcessEnds
    BY DEF ConnectedRejected, PermittedRejected
  <1> QED
    BY <1>1, <1>2, <1>3, <1>4 DEF Next, User, System, Splits

-----------------------------------------------------------------------------
\* Every step keeps the types, the queue of bindings and what a call needs.
LEMMA TypeKeeps == ASSUME IInv, Next PROVE TypeOK'
  <1>0. TypeOK /\ AskInv
    BY DEF IInv
  <1> USE <1>0 DEF TypeOK, RunStates, Services, Calls, Oddities, Bindings
  <1>1. CASE TileStart
    BY <1>1 DEF TileStart, bindVars, engineVars
  <1>2. CASE TileStop
    BY <1>2 DEF TileStop, bindVars, engineVars
  <1>3. CASE UiRequest
    BY <1>3 DEF UiRequest, bindVars, engineVars
  <1>4. CASE AskStatus
    BY <1>4 DEF AskStatus, bindVars, engineVars
  <1>5. CASE UiOpens
    BY <1>5 DEF UiOpens, bindVars, engineVars
  <1>6. CASE UiEnds
    BY <1>6 DEF UiEnds, ServiceRequests, bindVars, engineVars
  <1>7. CASE NoProfile
    BY <1>7 DEF NoProfile, bindVars, engineVars
  <1>8. CASE Refused
    BY <1>8 DEF Refused, bindVars, engineVars
  <1>9. CASE Revoked
    BY <1>9 DEF Revoked, bindVars, engineVars
  <1>10. CASE ReadStatus
    BY <1>10 DEF ReadStatus, bindVars, engineVars
  <1>11. CASE SetStatus
    BY <1>11 DEF SetStatus, bindVars, engineVars
  <1>12. CASE UiDestroys
    BY <1>12 DEF UiDestroys, Unanswered, bindVars, engineVars
  <1>13. CASE UiInit
    BY <1>13 DEF UiInit, bindVars, engineVars
  <1>14. ASSUME NEW m \in Services, StartLeaves(m) PROVE TypeOK'
    <2>1. odd' \subseteq Oddities /\ goOps' \subseteq Services \cup {"stop"}
      BY <1>14, Launching DEF StartLeaves, PluginComes, Comes, Binds, Launches, ServiceFor
    <2>2. mode' \in Services /\ service' \in Services \cup {"none"}
      BY <1>14 DEF StartLeaves, ServiceFor
    <2>3. /\ connecting' \in Bindings /\ runState' \in RunStates
          /\ (asking' => asking \/ ui # "none")
      BY <1>14 DEF StartLeaves, PluginComes, Comes, Binds, Launches
    <2>4. switched' \in BOOLEAN
      BY <1>14 DEF StartLeaves
    <2>5. {mode', service', tun'} \subseteq Services \cup {"none"}
      BY <1>14, <2>2 DEF StartLeaves
    <2>6. {engine', isBind', asking', switched', calmSync'} \subseteq BOOLEAN
      BY <1>14, <2>4 DEF StartLeaves, PluginComes
    <2>7. /\ requests' \subseteq requests /\ last' = "start"
          /\ UNCHANGED <<ui, engine, status>>
      BY <1>14 DEF StartLeaves
    <2> QED
      BY <2>1, <2>3, <2>5, <2>6, <2>7
  <1>15. CASE StopLeaves
    <2>1. odd' \subseteq Oddities /\ goOps' \subseteq Services \cup {"stop"}
      BY <1>15, Launching DEF StopLeaves, PluginStop, CoreStop
    <2>2. runState' \in RunStates /\ last' = "stop" /\ UNCHANGED <<asking, bindVars>>
      BY <1>15 DEF StopLeaves, PluginStop
    <2>3. {mode', service', tun'} \subseteq Services \cup {"none"}
      BY <1>15, <2>2 DEF StopLeaves, bindVars
    <2>4. {engine', isBind', asking', switched', calmSync'} \subseteq BOOLEAN
      BY <1>15, <2>2 DEF StopLeaves, bindVars
    <2>5. /\ requests' \subseteq requests
          /\ \/ UNCHANGED <<engine, status>>
             \/ requests' = {} /\ ui = "none" /\ status' = Unanswered
      BY <1>15 DEF StopLeaves
    <2>6. ui' = ui /\ connecting' = connecting /\ asking' = asking
      BY <1>15, <2>2 DEF StopLeaves, bindVars
    <2> QED
      BY <2>1, <2>2, <2>3, <2>4, <2>5, <2>6 DEF Unanswered
  <1>16. ASSUME NEW k \in Services, Connected(k) PROVE TypeOK'
    BY <1>16, Unqueued DEF Connected, OddAfter, engineVars
  <1>17. CASE Permitted
    BY <1>17, Permits DEF Permitted, Comes, Binds, Launches, OddAfter
  <1>18. ASSUME NEW op \in Services \cup {"stop"}, RunGo(op) PROVE TypeOK'
    <2>1. tun' \in Services \cup {"none"} /\ goOps' \subseteq goOps
      BY <1>18 DEF RunGo, Switch!Run
    <2>2. {mode', service', tun'} \subseteq Services \cup {"none"}
      BY <1>18, <2>1 DEF RunGo, Switch!Run, bindVars
    <2>3. {engine', isBind', asking', switched', calmSync'} \subseteq BOOLEAN
      BY <1>18 DEF RunGo, Switch!Run, bindVars, engineVars
    <2>4. /\ goOps' \subseteq Services \cup {"stop"} /\ requests' \subseteq Calls
          /\ odd' \subseteq Oddities
      BY <1>18, <2>1 DEF RunGo, Switch!Run
    <2>5. AskInv /\ UNCHANGED <<runState, ui, connecting, status, last, requests, asking,
                                engine>>
      BY <1>18 DEF RunGo, Switch!Run, bindVars, engineVars
    <2> QED
      BY <2>2, <2>3, <2>4, <2>5
  <1>19. ASSUME NEW s \in Services, StartStops(s) PROVE TypeOK'
    BY <1>19 DEF StartStops, Switch!StartStops, bindVars, engineVars
  <1>20. CASE ProcessEnds
    BY <1>20, Ended DEF IInv
  <1>21. CASE ServiceCreated
    BY <1>21 DEF ServiceCreated, bindVars
  <1> QED
    BY <1>1, <1>2, <1>3, <1>4, <1>5, <1>6, <1>7, <1>8, <1>9, <1>10, <1>11, <1>12,
       <1>13, <1>14, <1>15, <1>16, <1>17, <1>18, <1>19, <1>20, <1>21, NextSplits DEF Splits

\* Only a start asks, and it sets the mode first; nothing clears the mode.
LEMMA AskKeeps == ASSUME IInv, Next PROVE AskInv'
  <1>0. TypeOK /\ AskInv
    BY DEF IInv
  <1> USE <1>0 DEF AskInv, Services
  <1>1. CASE TileStart
    BY <1>1 DEF TileStart, bindVars, engineVars
  <1>2. CASE TileStop
    BY <1>2 DEF TileStop, bindVars, engineVars
  <1>3. CASE UiRequest
    BY <1>3 DEF UiRequest, bindVars, engineVars
  <1>4. CASE AskStatus
    BY <1>4 DEF AskStatus, bindVars, engineVars
  <1>5. CASE UiOpens
    BY <1>5 DEF UiOpens, bindVars, engineVars
  <1>6. CASE UiEnds
    BY <1>6 DEF UiEnds, ServiceRequests, bindVars, engineVars
  <1>7. CASE NoProfile
    BY <1>7 DEF NoProfile, bindVars, engineVars
  <1>8. CASE Refused
    BY <1>8 DEF Refused, bindVars, engineVars
  <1>9. CASE Revoked
    BY <1>9 DEF Revoked, bindVars, engineVars
  <1>10. CASE ReadStatus
    BY <1>10 DEF ReadStatus, bindVars, engineVars
  <1>11. CASE SetStatus
    BY <1>11 DEF SetStatus, bindVars, engineVars
  <1>12. CASE UiDestroys
    BY <1>12 DEF UiDestroys, Unanswered, bindVars, engineVars
  <1>13. CASE UiInit
    BY <1>13 DEF UiInit, bindVars, engineVars
  <1>14. ASSUME NEW m \in Services, StartLeaves(m) PROVE AskInv'
    BY <1>14 DEF StartLeaves, PluginComes, Comes, Binds, Launches, OddAfter, ServiceFor
  <1>15. CASE StopLeaves
    BY <1>15 DEF StopLeaves, PluginStop, CoreStop, MayStop, OddAfter, Unanswered, bindVars
  <1>16. ASSUME NEW k \in Services, Connected(k) PROVE AskInv'
    BY <1>16, Unqueued DEF Connected, OddAfter, engineVars
  <1>17. CASE Permitted
    BY <1>17, Permits DEF Permitted, Comes, Binds, Launches, OddAfter
  <1>18. ASSUME NEW op \in Services \cup {"stop"}, RunGo(op) PROVE AskInv'
    BY <1>18 DEF RunGo, Switch!Run, bindVars, engineVars
  <1>19. ASSUME NEW s \in Services, StartStops(s) PROVE AskInv'
    BY <1>19 DEF StartStops, Switch!StartStops, bindVars, engineVars
  <1>20. CASE ProcessEnds
    BY <1>20, Ended DEF IInv
  <1>21. CASE ServiceCreated
    BY <1>21 DEF ServiceCreated, bindVars
  <1> QED
    BY <1>1, <1>2, <1>3, <1>4, <1>5, <1>6, <1>7, <1>8, <1>9, <1>10, <1>11, <1>12,
       <1>13, <1>14, <1>15, <1>16, <1>17, <1>18, <1>19, <1>20, <1>21, NextSplits DEF Splits

\* A goroutine that finds another one under way is noted.
LEMMA RacedKeeps == ASSUME IInv, Next PROVE RacedInv'
  <1>0. TypeOK /\ AskInv /\ RacedInv
    BY DEF IInv
  <1> USE <1>0 DEF RacedInv
  <1>1. CASE TileStart
    BY <1>1 DEF TileStart, bindVars, engineVars
  <1>2. CASE TileStop
    BY <1>2 DEF TileStop, bindVars, engineVars
  <1>3. CASE UiRequest
    BY <1>3 DEF UiRequest, bindVars, engineVars
  <1>4. CASE AskStatus
    BY <1>4 DEF AskStatus, bindVars, engineVars
  <1>5. CASE UiOpens
    BY <1>5 DEF UiOpens, bindVars, engineVars
  <1>6. CASE UiEnds
    BY <1>6 DEF UiEnds, ServiceRequests, bindVars, engineVars
  <1>7. CASE NoProfile
    BY <1>7 DEF NoProfile, bindVars, engineVars
  <1>8. CASE Refused
    BY <1>8 DEF Refused, bindVars, engineVars
  <1>9. CASE Revoked
    BY <1>9 DEF Revoked, bindVars, engineVars
  <1>10. CASE ReadStatus
    BY <1>10 DEF ReadStatus, bindVars, engineVars
  <1>11. CASE SetStatus
    BY <1>11 DEF SetStatus, bindVars, engineVars
  <1>12. CASE UiDestroys
    BY <1>12 DEF UiDestroys, Unanswered, bindVars, engineVars
  <1>13. CASE UiInit
    BY <1>13 DEF UiInit, bindVars, engineVars
  <1>14. ASSUME NEW m \in Services, StartLeaves(m) PROVE RacedInv'
    BY <1>14 DEF StartLeaves, PluginComes, Comes, Binds, Launches, OddAfter, ServiceFor
  <1>15. CASE StopLeaves
    BY <1>15 DEF StopLeaves, PluginStop, CoreStop, MayStop, OddAfter, Unanswered, bindVars
  <1>16. ASSUME NEW k \in Services, Connected(k) PROVE RacedInv'
    BY <1>16, Unqueued DEF Connected, OddAfter, engineVars
  <1>17. CASE Permitted
    BY <1>17, Permits DEF Permitted, Comes, Binds, Launches, OddAfter
  <1>18. ASSUME NEW op \in Services \cup {"stop"}, RunGo(op) PROVE RacedInv'
    BY <1>18 DEF RunGo, Switch!Run, bindVars, engineVars
  <1>19. ASSUME NEW s \in Services, StartStops(s) PROVE RacedInv'
    BY <1>19 DEF StartStops, Switch!StartStops, bindVars, engineVars
  <1>20. CASE ProcessEnds
    BY <1>20, Ended DEF IInv
  <1>21. CASE ServiceCreated
    BY <1>21 DEF ServiceCreated, bindVars
  <1> QED
    BY <1>1, <1>2, <1>3, <1>4, <1>5, <1>6, <1>7, <1>8, <1>9, <1>10, <1>11, <1>12,
       <1>13, <1>14, <1>15, <1>16, <1>17, <1>18, <1>19, <1>20, <1>21, NextSplits DEF Splits

\* What starts or ends a goroutine, or asks again, unsettles the answer under way.
LEMMA CalmKeeps == ASSUME IInv, Next PROVE CalmInv'
  <1>0. TypeOK /\ AskInv /\ CalmInv
    BY DEF IInv
  <1> USE <1>0 DEF CalmInv
  <1>1. CASE TileStart
    BY <1>1 DEF TileStart, bindVars, engineVars
  <1>2. CASE TileStop
    BY <1>2 DEF TileStop, bindVars, engineVars
  <1>3. CASE UiRequest
    BY <1>3 DEF UiRequest, bindVars, engineVars
  <1>4. CASE AskStatus
    BY <1>4 DEF AskStatus, bindVars, engineVars
  <1>5. CASE UiOpens
    BY <1>5 DEF UiOpens, bindVars, engineVars
  <1>6. CASE UiEnds
    BY <1>6 DEF UiEnds, ServiceRequests, bindVars, engineVars
  <1>7. CASE NoProfile
    BY <1>7 DEF NoProfile, bindVars, engineVars
  <1>8. CASE Refused
    BY <1>8 DEF Refused, bindVars, engineVars
  <1>9. CASE Revoked
    BY <1>9 DEF Revoked, bindVars, engineVars
  <1>10. CASE ReadStatus
    BY <1>10 DEF ReadStatus, bindVars, engineVars
  <1>11. CASE SetStatus
    BY <1>11 DEF SetStatus, bindVars, engineVars
  <1>12. CASE UiDestroys
    BY <1>12 DEF UiDestroys, Unanswered, bindVars, engineVars
  <1>13. CASE UiInit
    BY <1>13 DEF UiInit, bindVars, engineVars
  <1>14. ASSUME NEW m \in Services, StartLeaves(m) PROVE CalmInv'
    BY <1>14 DEF StartLeaves, PluginComes, Comes, Binds, Launches, OddAfter, ServiceFor
  <1>15. CASE StopLeaves
    BY <1>15 DEF StopLeaves, PluginStop, CoreStop, MayStop, OddAfter, Unanswered, bindVars
  <1>16. ASSUME NEW k \in Services, Connected(k) PROVE CalmInv'
    BY <1>16, Unqueued DEF Connected, OddAfter, engineVars
  <1>17. CASE Permitted
    BY <1>17, Permits DEF Permitted, Comes, Binds, Launches, OddAfter
  <1>18. ASSUME NEW op \in Services \cup {"stop"}, RunGo(op) PROVE CalmInv'
    BY <1>18 DEF RunGo, Switch!Run, bindVars, engineVars
  <1>19. ASSUME NEW s \in Services, StartStops(s) PROVE CalmInv'
    BY <1>19 DEF StartStops, Switch!StartStops, bindVars, engineVars
  <1>20. CASE ProcessEnds
    BY <1>20, Ended DEF IInv
  <1>21. CASE ServiceCreated
    BY <1>21 DEF ServiceCreated, bindVars
  <1> QED
    BY <1>1, <1>2, <1>3, <1>4, <1>5, <1>6, <1>7, <1>8, <1>9, <1>10, <1>11, <1>12,
       <1>13, <1>14, <1>15, <1>16, <1>17, <1>18, <1>19, <1>20, <1>21, NextSplits DEF Splits

\* A goroutine starts together with the run state that it will make true.
LEMMA AgreeKeeps == ASSUME IInv, Next PROVE AgreeInv'
  <1>0. TypeOK /\ AskInv /\ RacedInv /\ CalmInv /\ AgreeInv
    BY DEF IInv
  <1> USE <1>0 DEF AgreeInv, RacedInv, CalmInv, Clear, RunStateAgrees, Services
  <1>1. CASE TileStart
    BY <1>1 DEF TileStart, bindVars, engineVars
  <1>2. CASE TileStop
    BY <1>2 DEF TileStop, bindVars, engineVars
  <1>3. CASE UiRequest
    BY <1>3 DEF UiRequest, bindVars, engineVars
  <1>4. CASE AskStatus
    BY <1>4 DEF AskStatus, bindVars, engineVars
  <1>5. CASE UiOpens
    BY <1>5 DEF UiOpens, bindVars, engineVars
  <1>6. CASE UiEnds
    BY <1>6 DEF UiEnds, ServiceRequests, bindVars, engineVars
  <1>7. CASE NoProfile
    BY <1>7 DEF NoProfile, bindVars, engineVars
  <1>8. CASE Refused
    BY <1>8 DEF Refused, bindVars, engineVars
  <1>9. CASE Revoked
    BY <1>9 DEF Revoked, bindVars, engineVars
  <1>10. CASE ReadStatus
    BY <1>10 DEF ReadStatus, bindVars, engineVars
  <1>11. CASE SetStatus
    BY <1>11 DEF SetStatus, bindVars, engineVars
  <1>12. CASE UiDestroys
    BY <1>12 DEF UiDestroys, Unanswered, bindVars, engineVars
  <1>13. CASE UiInit
    BY <1>13 DEF UiInit, bindVars, engineVars
  <1>14. ASSUME NEW m \in Services, StartLeaves(m) PROVE AgreeInv'
    BY <1>14 DEF StartLeaves, PluginComes, Comes, Binds, Launches, OddAfter, ServiceFor
  <1>15. CASE StopLeaves
    BY <1>15 DEF StopLeaves, PluginStop, CoreStop, MayStop, OddAfter, Unanswered, bindVars
  <1>16. ASSUME NEW k \in Services, Connected(k) PROVE AgreeInv'
    BY <1>16, Unqueued DEF Connected, OddAfter, engineVars
  <1>17. CASE Permitted
    BY <1>17, Permits DEF Permitted, Comes, Binds, Launches, OddAfter
  <1>18. ASSUME NEW op \in Services \cup {"stop"}, RunGo(op) PROVE AgreeInv'
    BY <1>18 DEF RunGo, Switch!Run, bindVars, engineVars
  <1>19. ASSUME NEW s \in Services, StartStops(s) PROVE AgreeInv'
    BY <1>19 DEF StartStops, Switch!StartStops, bindVars, engineVars
  <1>20. CASE ProcessEnds
    BY <1>20, Ended DEF IInv
  <1>21. CASE ServiceCreated
    BY <1>21 DEF ServiceCreated, bindVars
  <1> QED
    BY <1>1, <1>2, <1>3, <1>4, <1>5, <1>6, <1>7, <1>8, <1>9, <1>10, <1>11, <1>12,
       <1>13, <1>14, <1>15, <1>16, <1>17, <1>18, <1>19, <1>20, <1>21, NextSplits DEF Splits

\* The stop takes the binding, the permission and the start with it.
LEMMA StopKeeps == ASSUME IInv, Next PROVE StopInv'
  <1>0. TypeOK /\ AskInv /\ RacedInv /\ StopInv
    BY DEF IInv
  <1> USE <1>0 DEF StopInv, RacedInv, StopSticks, Clear, StartUnderWay
  <1>1. CASE TileStart
    BY <1>1 DEF TileStart, bindVars, engineVars
  <1>2. CASE TileStop
    BY <1>2 DEF TileStop, bindVars, engineVars
  <1>3. CASE UiRequest
    BY <1>3 DEF UiRequest, bindVars, engineVars
  <1>4. CASE AskStatus
    BY <1>4 DEF AskStatus, bindVars, engineVars
  <1>5. CASE UiOpens
    BY <1>5 DEF UiOpens, bindVars, engineVars
  <1>6. CASE UiEnds
    BY <1>6 DEF UiEnds, ServiceRequests, bindVars, engineVars
  <1>7. CASE NoProfile
    BY <1>7 DEF NoProfile, bindVars, engineVars
  <1>8. CASE Refused
    BY <1>8 DEF Refused, bindVars, engineVars
  <1>9. CASE Revoked
    BY <1>9 DEF Revoked, bindVars, engineVars
  <1>10. CASE ReadStatus
    BY <1>10 DEF ReadStatus, bindVars, engineVars
  <1>11. CASE SetStatus
    BY <1>11 DEF SetStatus, bindVars, engineVars
  <1>12. CASE UiDestroys
    BY <1>12 DEF UiDestroys, Unanswered, bindVars, engineVars
  <1>13. CASE UiInit
    BY <1>13 DEF UiInit, bindVars, engineVars
  <1>14. ASSUME NEW m \in Services, StartLeaves(m) PROVE StopInv'
    BY <1>14 DEF StartLeaves, PluginComes, Comes, Binds, Launches, OddAfter, ServiceFor
  <1>15. CASE StopLeaves
    BY <1>15 DEF StopLeaves, PluginStop, CoreStop, MayStop, OddAfter, Unanswered, bindVars
  <1>16. ASSUME NEW k \in Services, Connected(k) PROVE StopInv'
    BY <1>16, Unqueued DEF Connected, OddAfter, engineVars
  <1>17. CASE Permitted
    BY <1>17, Permits DEF Permitted, Comes, Binds, Launches, OddAfter
  <1>18. ASSUME NEW op \in Services \cup {"stop"}, RunGo(op) PROVE StopInv'
    BY <1>18 DEF RunGo, Switch!Run, bindVars, engineVars
  <1>19. ASSUME NEW s \in Services, StartStops(s) PROVE StopInv'
    BY <1>19 DEF StartStops, Switch!StartStops, bindVars, engineVars
  <1>20. CASE ProcessEnds
    BY <1>20, Ended DEF IInv
  <1>21. CASE ServiceCreated
    BY <1>21 DEF ServiceCreated, bindVars
  <1> QED
    BY <1>1, <1>2, <1>3, <1>4, <1>5, <1>6, <1>7, <1>8, <1>9, <1>10, <1>11, <1>12,
       <1>13, <1>14, <1>15, <1>16, <1>17, <1>18, <1>19, <1>20, <1>21, NextSplits DEF Splits

\* A tile that was set to wait waits for its request, or for the start behind it.
LEMMA LimboKeeps == ASSUME IInv, Next PROVE NoLimbo'
  <1>0. TypeOK /\ AskInv /\ NoLimbo
    BY DEF IInv
  <1> USE <1>0 DEF NoLimbo, StartUnderWay
  <1>1. CASE TileStart
    BY <1>1 DEF TileStart, bindVars, engineVars
  <1>2. CASE TileStop
    BY <1>2 DEF TileStop, bindVars, engineVars
  <1>3. CASE UiRequest
    BY <1>3 DEF UiRequest, bindVars, engineVars
  <1>4. CASE AskStatus
    BY <1>4 DEF AskStatus, bindVars, engineVars
  <1>5. CASE UiOpens
    BY <1>5 DEF UiOpens, bindVars, engineVars
  <1>6. CASE UiEnds
    BY <1>6 DEF UiEnds, ServiceRequests, bindVars, engineVars
  <1>7. CASE NoProfile
    BY <1>7 DEF NoProfile, bindVars, engineVars
  <1>8. CASE Refused
    BY <1>8 DEF Refused, bindVars, engineVars
  <1>9. CASE Revoked
    BY <1>9 DEF Revoked, bindVars, engineVars
  <1>10. CASE ReadStatus
    BY <1>10 DEF ReadStatus, bindVars, engineVars
  <1>11. CASE SetStatus
    BY <1>11 DEF SetStatus, bindVars, engineVars
  <1>12. CASE UiDestroys
    BY <1>12 DEF UiDestroys, Unanswered, bindVars, engineVars
  <1>13. CASE UiInit
    BY <1>13 DEF UiInit, bindVars, engineVars
  <1>14. ASSUME NEW m \in Services, StartLeaves(m) PROVE NoLimbo'
    BY <1>14 DEF StartLeaves, PluginComes, Comes, Binds, Launches, OddAfter, ServiceFor
  <1>15. CASE StopLeaves
    BY <1>15 DEF StopLeaves, PluginStop, CoreStop, MayStop, OddAfter, Unanswered, bindVars
  <1>16. ASSUME NEW k \in Services, Connected(k) PROVE NoLimbo'
    BY <1>16, Unqueued DEF Connected, OddAfter, engineVars
  <1>17. CASE Permitted
    BY <1>17, Permits DEF Permitted, Comes, Binds, Launches, OddAfter
  <1>18. ASSUME NEW op \in Services \cup {"stop"}, RunGo(op) PROVE NoLimbo'
    BY <1>18 DEF RunGo, Switch!Run, bindVars, engineVars
  <1>19. ASSUME NEW s \in Services, StartStops(s) PROVE NoLimbo'
    BY <1>19 DEF StartStops, Switch!StartStops, bindVars, engineVars
  <1>20. CASE ProcessEnds
    BY <1>20, Ended DEF IInv
  <1>21. CASE ServiceCreated
    BY <1>21 DEF ServiceCreated, bindVars
  <1> QED
    BY <1>1, <1>2, <1>3, <1>4, <1>5, <1>6, <1>7, <1>8, <1>9, <1>10, <1>11, <1>12,
       <1>13, <1>14, <1>15, <1>16, <1>17, <1>18, <1>19, <1>20, <1>21, NextSplits DEF Splits

\* A start in the mode at hand adds only that mode; any other start sets switched,
\* unless nothing of the last one is left.
LEMMA FitKeeps == ASSUME IInv, Next PROVE FitInv'
  <1>0. TypeOK /\ AskInv /\ FitInv /\ {mode, service, tun} \subseteq Services \cup {"none"}
        /\ connecting \in Bindings
    BY DEF IInv, TypeOK, Bindings
  <1> USE <1>0 DEF FitInv, StartUnderWay, Services
  <1>1. CASE TileStart
    BY <1>1 DEF TileStart, bindVars, engineVars
  <1>2. CASE TileStop
    BY <1>2 DEF TileStop, bindVars, engineVars
  <1>3. CASE UiRequest
    BY <1>3 DEF UiRequest, bindVars, engineVars
  <1>4. CASE AskStatus
    BY <1>4 DEF AskStatus, bindVars, engineVars
  <1>5. CASE UiOpens
    BY <1>5 DEF UiOpens, bindVars, engineVars
  <1>6. CASE UiEnds
    BY <1>6 DEF UiEnds, ServiceRequests, bindVars, engineVars
  <1>7. CASE NoProfile
    BY <1>7 DEF NoProfile, bindVars, engineVars
  <1>8. CASE Refused
    BY <1>8 DEF Refused, bindVars, engineVars
  <1>9. CASE Revoked
    BY <1>9 DEF Revoked, bindVars, engineVars
  <1>10. CASE ReadStatus
    BY <1>10 DEF ReadStatus, bindVars, engineVars
  <1>11. CASE SetStatus
    BY <1>11 DEF SetStatus, bindVars, engineVars
  <1>12. CASE UiDestroys
    BY <1>12 DEF UiDestroys, Unanswered, bindVars, engineVars
  <1>13. CASE UiInit
    BY <1>13 DEF UiInit, bindVars, engineVars
  <1>14. ASSUME NEW m \in Services, StartLeaves(m) PROVE FitInv'
    <2> SUFFICES ASSUME ~switched'
                 PROVE  /\ service' \in {"none", m} /\ Kinds(connecting') \subseteq {m}
                        /\ goOps' \subseteq {"stop", m} /\ tun' \in {"none", m}
                        /\ m \in goOps' \/ tun' # "none" => service' = m
      BY <1>14 DEF StartLeaves
    <2>1. /\ service' = ServiceFor(m) /\ ServiceFor(m) \in {"none", m}
          /\ Kinds(connecting) \subseteq {m}
          /\ goOps \subseteq {"stop", m} /\ tun \in {"none", m}
          /\ m \in goOps \/ tun # "none" => ServiceFor(m) = m
      <3>1. CASE m = mode /\ ~switched
        BY <1>14, <3>1 DEF StartLeaves, ServiceFor
      <3>2. CASE ~StartUnderWay /\ goOps = {} /\ tun = "none" /\ (m = mode => ~switched)
        BY <1>14, <3>2, KindsAre DEF StartLeaves, ServiceFor
      <3> QED
        BY <1>14, <3>1, <3>2 DEF StartLeaves
    <2>2. PluginComes(m) /\ tun' = tun
      BY <1>14 DEF StartLeaves
    <2> QED
      BY <2>1, <2>2 DEF PluginComes, Comes, Binds, Launches
  <1>15. CASE StopLeaves
    BY <1>15 DEF StopLeaves, PluginStop, CoreStop, MayStop, OddAfter, Unanswered, bindVars
  <1>16. ASSUME NEW k \in Services, Connected(k) PROVE FitInv'
    BY <1>16, Unqueued DEF Connected, OddAfter, engineVars
  <1>17. CASE Permitted
    BY <1>17, Permits DEF Permitted, Comes, Binds, Launches, OddAfter
  <1>18. ASSUME NEW op \in Services \cup {"stop"}, RunGo(op) PROVE FitInv'
    BY <1>18 DEF RunGo, Switch!Run, bindVars, engineVars
  <1>19. ASSUME NEW s \in Services, StartStops(s) PROVE FitInv'
    BY <1>19 DEF StartStops, Switch!StartStops, bindVars, engineVars
  <1>20. CASE ProcessEnds
    BY <1>20, Ended DEF IInv
  <1>21. CASE ServiceCreated
    BY <1>21 DEF ServiceCreated, bindVars
  <1> QED
    BY <1>1, <1>2, <1>3, <1>4, <1>5, <1>6, <1>7, <1>8, <1>9, <1>10, <1>11, <1>12,
       <1>13, <1>14, <1>15, <1>16, <1>17, <1>18, <1>19, <1>20, <1>21, NextSplits DEF Splits

-----------------------------------------------------------------------------
\* Every step keeps all of it, and so does a stutter.
LEMMA Inductive == ASSUME IInv, [Next]_vars PROVE IInv'
  <1>1. CASE Next
    BY <1>1, TypeKeeps, AskKeeps, RacedKeeps, CalmKeeps, AgreeKeeps, StopKeeps, LimboKeeps,
       FitKeeps DEF IInv
  <1>2. CASE UNCHANGED vars
    BY <1>2 DEF vars, IInv, TypeOK, AskInv, RacedInv, CalmInv, AgreeInv,
                RunStateAgrees, StopInv, StopSticks, NoLimbo, FitInv, Clear, StartUnderWay
  <1> QED
    BY <1>1, <1>2

\* The inductive invariant holds in every reachable state.
THEOREM Invariance == Spec => []IInv
  BY InitIInv, Inductive, PTL DEF Spec

\* The variables keep their types; a call of the interface or a dialog has an
\* interface behind it, and an interface that is up has a service engine.
THEOREM Typed == Spec => []TypeOK
  <1>1. IInv => TypeOK
    BY DEF IInv
  <1> QED
    BY <1>1, Invariance, PTL

\* With no goroutine under way the run state tells whether the core runs, until an
\* old answer or the end of the activity set it, a stop and a start have met in the
\* core, or the device was refused (GlobalState, VpnPlugin).
THEOREM Agrees == Spec => []RunStateAgrees
  <1>1. IInv => RunStateAgrees
    BY DEF IInv, AgreeInv, RunStateAgrees, Clear
  <1> QED
    BY <1>1, Invariance, PTL

\* No binding and no permission that comes after VpnPlugin.handleStop turns the core
\* on again, unless the start was under way, or met the stop in the core.
THEOREM StopStays == Spec => []StopSticks
  <1>1. IInv => StopSticks
    BY DEF IInv, StopInv, StopSticks, Clear
  <1> QED
    BY <1>1, Invariance, PTL

\* A tile that waits has something to wait for, unless its request reached nobody.
THEOREM NotInLimbo == Spec => []NoLimbo
  <1>1. IInv => NoLimbo
    BY DEF IInv
  <1> QED
    BY <1>1, Invariance, PTL

\* The core runs for the service that VpnPlugin holds and for the mode it was asked
\* for, unless the mode was changed while a start was under way or done.
THEOREM Fits == Spec => []ServiceFits
  <1>1. IInv => ServiceFits
    <2> SUFFICES ASSUME IInv, tun # "none", ~switched PROVE service = tun /\ mode = tun
      BY DEF ServiceFits
    <2> QED
      BY DEF IInv, FitInv
  <1> QED
    BY <1>1, Invariance, PTL
-----------------------------------------------------------------------------
\* What the core sees of the client: as long as the process lives, a goroutine for
\* each call that comes through, and what the goroutines themselves do.
UsesSwitch == Switch!Init /\ [][Switch!Next \/ ProcessEnds]_<<goOps, tun>>

\* The end of a dialog, a request, a binding, a status: none moves the run time but
\* through a goroutine.
LEMMA SwitchSteps ==
  ASSUME IInv, [Next]_vars
  PROVE  [Switch!Next \/ ProcessEnds]_<<goOps, tun>>
  <1>0. TypeOK /\ AskInv
    BY DEF IInv
  <1>1. ASSUME NEW op \in Services \cup {"stop"}, goOps' = goOps \cup {op},
               UNCHANGED tun
        PROVE  Switch!Next
    BY <1>1 DEF Switch!Next, Switch!Go
  <1>2. CASE UNCHANGED vars
    BY <1>2 DEF vars
  <1>3. CASE \/ TileStart \/ TileStop \/ UiRequest \/ AskStatus \/ UiOpens \/ UiEnds
             \/ NoProfile \/ Refused \/ Revoked \/ ReadStatus \/ SetStatus
             \/ UiDestroys \/ UiInit \/ ServiceCreated
    <2>1. UNCHANGED <<goOps, tun>>
      BY <1>3 DEF TileStart, TileStop, UiRequest, AskStatus, UiOpens, UiEnds, NoProfile,
                  Refused, Revoked, ReadStatus, SetStatus, UiDestroys, UiInit,
                  ServiceCreated
    <2> QED
      BY <2>1
  <1>4. ASSUME NEW m \in Services, NEW s \in Services \cup {"none"}, Comes(s, m),
               UNCHANGED tun
        PROVE  [Switch!Next]_<<goOps, tun>>
    BY <1>1, <1>4 DEF Comes, Binds, Launches
  <1>5. CASE Permitted
    <2>1. Comes(service, mode) /\ mode \in Services /\ service \in Services \cup {"none"}
      BY <1>0, <1>5, Permits DEF TypeOK
    <2> QED
      BY <1>4, <1>5, <2>1 DEF Permitted
  <1>6. ASSUME NEW m \in Services, StartLeaves(m) PROVE [Switch!Next]_<<goOps, tun>>
    <2>1. ServiceFor(m) \in Services \cup {"none"}
      BY <1>0 DEF ServiceFor, TypeOK
    <2> QED
      BY <1>4, <1>6, <2>1 DEF StartLeaves, PluginComes
  <1>7. ASSUME NEW m \in Services, Connected(m) PROVE [Switch!Next]_<<goOps, tun>>
    BY <1>1, <1>7 DEF Connected
  <1>8. CASE StopLeaves
    BY <1>1, <1>8 DEF StopLeaves, PluginStop, CoreStop
  <1>9. ASSUME NEW s \in Services, StartStops(s) PROVE Switch!Next
    BY <1>9 DEF StartStops, Switch!Next
  <1>10. ASSUME NEW op \in Services \cup {"stop"}, RunGo(op) PROVE Switch!Next
    BY <1>10 DEF RunGo, Switch!Next
  <1>11. CASE Splits
    BY <1>3, <1>5, <1>6, <1>7, <1>8, <1>9, <1>10, <1>11 DEF Splits
  <1> QED
    BY <1>0, <1>2, <1>11, NextSplits

\* The run state machine is built on the promise that TunHandler is proved to keep:
\* but for the end of the process, every step of it is one of TunSwitch or none.
THEOREM BuiltOnSwitch == Spec => UsesSwitch
  <1>1. Init => Switch!Init
    BY DEF Init, Switch!Init
  <1> QED
    BY <1>1, Invariance, SwitchSteps, PTL DEF Spec, UsesSwitch
==============================================================================
