------------------------ MODULE SupportWebSocketProofs ------------------------
(***************************************************************************)
(* For every number of calls of connect: the service in use is never left  *)
(* with nothing that will connect it, and without errors there is one      *)
(* channel at a time.                                                      *)
(***************************************************************************)
EXTENDS SupportWebSocket, TLAPS

\* Before the first login nothing is at work, and only a disposed service is
\* without a user once there has been one.
Unused ==
  /\ authenticated => started
  /\ disposed => started
  /\ started /\ ~disposed => authenticated
  /\ ~started => /\ ~isConnected /\ ~timer /\ ~heartbeat
                 /\ channel = None /\ closing = {}
                 /\ \A c \in Connects : pc[c] = "idle" /\ state[c] = "none"

Awaiting(c) == pc[c] = "token"

\* Nothing but what the connection waits for is at work: no channel, no close.
Quiet == Open = {} /\ closing = {} /\ channel = None /\ ~heartbeat /\ ~isConnected

\* Without errors the connection is in one hand at a time: the reconnect timer,
\* one call of connect, the open channel, or one _disconnect after its end.
OneHand ==
  /\ \A c \in Connects : pc[c] # "closing" /\ state[c] # "closed"
  /\ \A k \in closing : k[2] = "done"
  /\ timer => Quiet /\ \A c \in Connects : ~Awaiting(c)
  /\ \A c \in Connects : Awaiting(c) => Quiet
  /\ \A c, d \in Connects : Awaiting(c) /\ Awaiting(d) => c = d
  /\ closing # {} => Open = {} /\ ~heartbeat
  /\ \A k, l \in closing : k = l
  /\ Open \subseteq {channel}
  /\ closing = {} => (heartbeat <=> channel # None)

IInv ==
  /\ TypeOK
  /\ Unused
  /\ NeverStranded
  /\ failed = {} => OneHand

-----------------------------------------------------------------------------
LEMMA InitIInv == Init => IInv
  BY NoneAssumption DEF Init, IInv, TypeOK, Unused, NeverStranded, OneHand, Quiet, Awaiting,
     Open, Busy, InFlight

LEMMA Booleans == ASSUME TypeOK
  PROVE /\ authenticated \in BOOLEAN /\ disposed \in BOOLEAN
        /\ isConnected \in BOOLEAN /\ heartbeat \in BOOLEAN
        /\ timer \in BOOLEAN /\ started \in BOOLEAN
  BY DEF TypeOK

\* One step keeps the types.
LEMMA TypeKeeps == ASSUME TypeOK, [Next]_vars PROVE TypeOK'
  <1> USE Booleans DEF TypeOK, Goto, user
  <1>1. CASE Logout
    BY <1>1 DEF Logout
  <1>2. ASSUME NEW c \in Connects, Login(c) PROVE TypeOK'
    BY <1>2 DEF Login
  <1>3. ASSUME NEW c \in Connects, TimerFires(c) PROVE TypeOK'
    <2>1. <<c, "force">> \in Disconnects
      BY DEF Disconnects
    <2> QED
      BY <1>3, <2>1 DEF TimerFires, BeginDisconnect
  <1>4. ASSUME NEW c \in Connects, TokenMissing(c) PROVE TypeOK'
    BY <1>4 DEF TokenMissing, Reconnect
  <1>5. ASSUME NEW c \in Connects, OpenChannel(c) PROVE TypeOK'
    BY <1>5 DEF OpenChannel, StartHeartbeat
  <1>6. ASSUME NEW c \in Connects, Established(c) PROVE TypeOK'
    BY <1>6 DEF Established
  <1>7. ASSUME NEW c \in Connects, Fails(c) PROVE TypeOK'
    <2>1. <<c, "error">> \in Disconnects
      BY DEF Disconnects
    <2> QED
      BY <1>7, <2>1 DEF Fails, BeginDisconnect
  <1>8. ASSUME NEW c \in Connects, Ends(c) PROVE TypeOK'
    <2>1. <<c, "done">> \in Disconnects
      BY DEF Disconnects
    <2> QED
      BY <1>8, <2>1 DEF Ends
  <1>9. ASSUME NEW k \in Disconnects, EndDisconnect(k) PROVE TypeOK'
    <2>1. k[1] \in Connects
      BY DEF Disconnects
    <2> QED
      BY <1>9, <2>1 DEF EndDisconnect, Reconnect, Disconnected
  <1>10. CASE UNCHANGED vars
    BY <1>10 DEF vars
  <1> QED
    BY <1>1, <1>2, <1>3, <1>4, <1>5, <1>6, <1>7, <1>8, <1>9, <1>10 DEF Next

\* One step keeps what is known of a service before its first login.
LEMMA UnusedKeeps == ASSUME IInv, [Next]_vars PROVE Unused'
  <1> USE Booleans DEF IInv, Unused, Goto, user
  <1>1. CASE Logout
    BY <1>1 DEF Logout
  <1>2. ASSUME NEW c \in Connects, Login(c) PROVE Unused'
    BY <1>2 DEF Login
  <1>3. ASSUME NEW c \in Connects, TimerFires(c) PROVE Unused'
    BY <1>3 DEF TimerFires
  <1>4. ASSUME NEW c \in Connects, TokenMissing(c) PROVE Unused'
    BY <1>4 DEF TokenMissing
  <1>5. ASSUME NEW c \in Connects, OpenChannel(c) PROVE Unused'
    BY <1>5 DEF OpenChannel
  <1>6. ASSUME NEW c \in Connects, Established(c) PROVE Unused'
    BY <1>6 DEF Established
  <1>7. ASSUME NEW c \in Connects, Fails(c) PROVE Unused'
    BY <1>7 DEF Fails
  <1>8. ASSUME NEW c \in Connects, Ends(c) PROVE Unused'
    BY <1>8 DEF Ends
  <1>9. ASSUME NEW k \in Disconnects, EndDisconnect(k) PROVE Unused'
    BY <1>9 DEF EndDisconnect
  <1>10. CASE UNCHANGED vars
    BY <1>10 DEF vars
  <1> QED
    BY <1>1, <1>2, <1>3, <1>4, <1>5, <1>6, <1>7, <1>8, <1>9, <1>10 DEF Next

\* One step leaves a service in use something that will connect it: what begins
\* keeps it busy, and what ends leaves the timer or the open channel.
LEMMA StrandedKeeps == ASSUME IInv, [Next]_vars PROVE NeverStranded'
  <1> USE Booleans DEF IInv, NeverStranded, Busy, InFlight, Open, Goto, user
  <1>1. CASE Logout
    BY <1>1 DEF Logout
  <1>2. ASSUME NEW c \in Connects, Login(c) PROVE NeverStranded'
    BY <1>2 DEF Login, Unused, TypeOK
  <1>3. ASSUME NEW c \in Connects, TimerFires(c) PROVE NeverStranded'
    BY <1>3 DEF TimerFires, TypeOK
  <1>4. ASSUME NEW c \in Connects, TokenMissing(c) PROVE NeverStranded'
    BY <1>4 DEF TokenMissing, Reconnect
  <1>5. ASSUME NEW c \in Connects, OpenChannel(c) PROVE NeverStranded'
    BY <1>5 DEF OpenChannel, TypeOK
  <1>6. ASSUME NEW c \in Connects, Established(c) PROVE NeverStranded'
    BY <1>6 DEF Established
  <1>7. ASSUME NEW c \in Connects, Fails(c) PROVE NeverStranded'
    BY <1>7 DEF Fails, BeginDisconnect
  <1>8. ASSUME NEW c \in Connects, Ends(c) PROVE NeverStranded'
    BY <1>8 DEF Ends
  <1>9. ASSUME NEW k \in Disconnects, EndDisconnect(k) PROVE NeverStranded'
    BY <1>9 DEF EndDisconnect, Reconnect
  <1>10. CASE UNCHANGED vars
    BY <1>10 DEF vars
  <1> QED
    BY <1>1, <1>2, <1>3, <1>4, <1>5, <1>6, <1>7, <1>8, <1>9, <1>10 DEF Next

\* One step without an error passes the connection from one hand to the next.
LEMMA OneHandKeeps == ASSUME IInv, [Next]_vars, failed' = {} PROVE OneHand'
  <1> USE Booleans, NoneAssumption DEF IInv, OneHand, Quiet, Awaiting, Open, Goto, user
  <1>0. failed = {}
    BY DEF Next, vars, Logout, Login, TimerFires, TokenMissing, OpenChannel, Established,
       Fails, Ends, EndDisconnect
  <1>1. CASE Logout
    BY <1>0, <1>1 DEF Logout
  <1>2. ASSUME NEW c \in Connects, Login(c) PROVE OneHand'
    <2>1. CASE disposed \/ isConnected
      BY <1>0, <1>2, <2>1 DEF Login, TypeOK
    <2>2. CASE ~disposed /\ ~isConnected
      BY <1>0, <1>2, <2>2 DEF Login, TypeOK, Unused
    <2> QED
      BY <2>1, <2>2
  <1>3. ASSUME NEW c \in Connects, TimerFires(c) PROVE OneHand'
    BY <1>0, <1>3 DEF TimerFires, TypeOK
  <1>4. ASSUME NEW c \in Connects, TokenMissing(c) PROVE OneHand'
    BY <1>0, <1>4 DEF TokenMissing, Reconnect, TypeOK
  <1>5. ASSUME NEW c \in Connects, OpenChannel(c) PROVE OneHand'
    BY <1>0, <1>5 DEF OpenChannel, StartHeartbeat, TypeOK
  <1>6. ASSUME NEW c \in Connects, Established(c) PROVE OneHand'
    BY <1>0, <1>6 DEF Established
  <1>7. ASSUME NEW c \in Connects, Fails(c) PROVE OneHand'
    BY <1>7 DEF Fails
  <1>8. ASSUME NEW c \in Connects, Ends(c) PROVE OneHand'
    <2>1. c \in Open /\ channel = c /\ closing = {}
      BY <1>0, <1>8 DEF Ends
    <2>2. CASE disposed
      BY <1>0, <1>8, <2>1, <2>2 DEF Ends, TypeOK
    <2>3. CASE ~disposed
      <3>1. state' = [d \in Connects |-> IF d = c THEN "ended" ELSE state[d]]
        BY <1>0, <1>8, <2>1, <2>3 DEF Ends, TypeOK
      <3>2. /\ closing' = {<<c, "done">>} /\ ~heartbeat'
            /\ UNCHANGED <<timer, channel, isConnected, pc>>
        BY <1>8, <2>1, <2>3 DEF Ends
      <3>3. Open' = {} /\ ~timer /\ \A d \in Connects : ~Awaiting(d)
        BY <1>0, <2>1, <3>1 DEF TypeOK
      <3>4. \A k \in closing' : k = <<c, "done">> /\ k[2] = "done"
        BY <3>2
      <3>5. \A d \in Connects : pc'[d] # "closing" /\ state'[d] # "closed" /\ ~Awaiting(d)'
        BY <1>0, <3>1, <3>2, <3>3
      <3> HIDE DEF IInv
      <3> QED
        BY <3>2, <3>3, <3>4, <3>5
    <2> QED
      BY <2>2, <2>3
  <1>9. ASSUME NEW k \in Disconnects, EndDisconnect(k) PROVE OneHand'
    <2>1. closing' = {} /\ k[2] # "force" /\ UNCHANGED <<pc, state, heartbeat>>
      BY <1>0, <1>9 DEF EndDisconnect
    <2> QED
      BY <1>0, <1>9, <2>1 DEF EndDisconnect, Disconnected, Reconnect
  <1>10. CASE UNCHANGED vars
    BY <1>0, <1>10 DEF vars
  <1> QED
    BY <1>1, <1>2, <1>3, <1>4, <1>5, <1>6, <1>7, <1>8, <1>9, <1>10 DEF Next

-----------------------------------------------------------------------------
LEMMA Inductive == Spec => []IInv
  <1>1. IInv /\ [Next]_vars => IInv'
    BY TypeKeeps, UnusedKeeps, StrandedKeeps, OneHandKeeps DEF IInv
  <1> QED
    BY InitIInv, <1>1, PTL DEF Spec

\* The variables keep their types, and no reconnect is scheduled in a disposed
\* service.
THEOREM Typed == Spec => []TypeOK
  <1>1. IInv => TypeOK
    BY DEF IInv
  <1> QED
    BY Inductive, <1>1, PTL

\* However connect, errors, ends and reconnects interleave, a service in use has
\* an open channel, a call at work or the reconnect timer.
THEOREM NotStranded == Spec => []NeverStranded
  <1>1. IInv => NeverStranded
    BY DEF IInv
  <1> QED
    BY Inductive, <1>1, PTL

\* Without errors there is one channel at a time, the known one, and the heartbeat
\* runs exactly while there is one.
THEOREM OneAtATime == Spec => []OneChannel
  <1>1. IInv => OneChannel
    BY DEF IInv, OneHand, OneChannel
  <1> QED
    BY Inductive, <1>1, PTL
=============================================================================
