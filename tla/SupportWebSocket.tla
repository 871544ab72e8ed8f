--------------------------- MODULE SupportWebSocket ---------------------------
(***************************************************************************)
(* The support chat's connection: CustomerSupportWebSocketService          *)
(* (online_support/services/websocket_service.dart) and its only caller,   *)
(* websocket_auto_connector.dart, which connects at login and disposes of  *)
(* the service at logout.                                                  *)
(*                                                                         *)
(* One object, one thread; its methods interleave at every await.  connect *)
(* awaits the user's token, _disconnect the closing of the channel.  The   *)
(* server may send, fail and end a channel at any time, and a channel that *)
(* the client has closed still reports its end.                            *)
(*                                                                         *)
(* A channel is named by the call of connect that opens it.                *)
(***************************************************************************)
EXTENDS FiniteSets

CONSTANTS
  Connects,  \* calls of connect
  None

ASSUME NoneAssumption == None \notin Connects

VARIABLES
  authenticated,  \* xboardUserAuthProvider.isAuthenticated
  disposed,       \* _isDisposed
  isConnected,    \* _isConnected
  channel,        \* _channel
  heartbeat,      \* _heartbeatTimer is active
  timer,          \* _reconnectTimer is active
  pc,             \* where each call of connect is
  state,          \* state[c]: the channel that c opens
  failed,         \* channels that have reported an error
  closing,        \* calls of _disconnect that await sink.close()
  started         \* history: the user has logged in

vars == <<authenticated, disposed, isConnected, channel, heartbeat, timer, pc,
          state, failed, closing, started>>

user == <<authenticated, disposed, started>>

\* A call of _disconnect: from connect itself, or from onError or onDone.
Disconnects == Connects \X {"force", "error", "done"}

InFlight == \E c \in Connects : pc[c] \in {"closing", "token"}

Open == {c \in Connects : state[c] = "open"}

-----------------------------------------------------------------------------
Init ==
  /\ authenticated = FALSE
  /\ disposed = FALSE
  /\ isConnected = FALSE
  /\ channel = None
  /\ heartbeat = FALSE
  /\ timer = FALSE
  /\ pc = [c \in Connects |-> "idle"]
  /\ state = [c \in Connects |-> "none"]
  /\ failed = {}
  /\ closing = {}
  /\ started = FALSE

Goto(c, place) == pc' = [pc EXCEPT ![c] = place]

\* Faulty variants: nothing is scheduled, or in a disposed service too.
NoReconnect == timer
ReconnectDisposed == TRUE

\* _reconnect(): if (_isDisposed || timer is active) return
Reconnect == timer \/ ~disposed

\* _disconnect up to its await; at once over when the service is disposed.
BeginDisconnect(k) ==
  \/ /\ disposed
     /\ UNCHANGED <<heartbeat, state, closing>>
  \/ /\ ~disposed
     /\ heartbeat' = FALSE
     /\ state' = [c \in Connects |-> IF c = channel /\ state[c] = "open"
                                     THEN "closed" ELSE state[c]]
     /\ closing' = closing \cup {k}

\* The auto connector: connect() at login; a disposed service ignores it.
Login(c) ==
  /\ pc[c] = "idle"
  /\ ~authenticated
  /\ authenticated' = TRUE
  /\ started' = TRUE
  /\ Goto(c, IF disposed \/ isConnected THEN "done" ELSE "token")
  /\ UNCHANGED <<disposed, isConnected, channel, heartbeat, timer, state, failed,
                 closing>>

\* dispose() at logout: _isDisposed is set before _disconnect() looks at it.
Logout ==
  /\ authenticated
  /\ authenticated' = FALSE
  /\ disposed' = TRUE
  /\ timer' = FALSE
  /\ UNCHANGED <<isConnected, channel, heartbeat, pc, state, failed, closing,
                 started>>

\* The reconnect timer calls connect(forceReconnect: true, isReconnect: true).
TimerFires(c) ==
  /\ pc[c] = "idle"
  /\ timer
  /\ timer' = FALSE
  /\ \/ isConnected /\ Goto(c, "closing") /\ BeginDisconnect(<<c, "force">>)
     \/ ~isConnected /\ Goto(c, "token") /\ UNCHANGED <<heartbeat, state, closing>>
  /\ UNCHANGED <<user, isConnected, channel, failed>>

\* Faulty variant: the flag survives a disconnect.
StillConnected == isConnected

\* _isConnected = false
Disconnected == FALSE

\* Back from sink.close(): _channel = null, whatever it is by now, and, as every
\* caller asks for it, _reconnect().  A forced connect goes on, unless the closed
\* status stream of a disposed service throws.
\* sink.close() is taken not to throw, as that of web_socket_channel 3.0.3 does not.
EndDisconnect(k) ==
  /\ k \in closing
  /\ closing' = closing \ {k}
  /\ channel' = None
  /\ isConnected' = Disconnected
  /\ timer' = Reconnect
  /\ IF k[2] = "force"
     THEN Goto(k[1], IF disposed THEN "done" ELSE "token")
     ELSE UNCHANGED pc
  /\ UNCHANGED <<user, heartbeat, state, failed>>

\* getUserToken() gives no token, or the connection cannot be set up.
TokenMissing(c) ==
  /\ pc[c] = "token"
  /\ timer' = Reconnect
  /\ Goto(c, "done")
  /\ UNCHANGED <<user, isConnected, channel, heartbeat, state, failed, closing>>

\* _startHeartbeat()
StartHeartbeat == TRUE

\* getUserToken() returns: the channel is opened, also in a disposed service.
OpenChannel(c) ==
  /\ pc[c] = "token"
  /\ channel' = c
  /\ state' = [state EXCEPT ![c] = "open"]
  /\ heartbeat' = StartHeartbeat
  /\ Goto(c, "done")
  /\ UNCHANGED <<user, isConnected, timer, failed, closing>>

-----------------------------------------------------------------------------
\* The server has accepted the token: connection_established.
Established(c) ==
  /\ state[c] \in {"open", "closed"}
  /\ isConnected' = TRUE
  /\ UNCHANGED <<user, channel, heartbeat, timer, pc, state, failed, closing>>

\* onError: the channel reports its failure, and its end later.
Fails(c) ==
  /\ state[c] \in {"open", "closed"} /\ c \notin failed
  /\ failed' = failed \cup {c}
  /\ BeginDisconnect(<<c, "error">>)
  /\ UNCHANGED <<user, isConnected, channel, timer, pc>>

\* onDone: the server has ended the channel, or the client's close is complete.
Ends(c) ==
  /\ state[c] \in {"open", "closed"}
  /\ \/ /\ disposed
        /\ state' = [state EXCEPT ![c] = "ended"]
        /\ UNCHANGED <<heartbeat, closing>>
     \/ /\ ~disposed
        /\ heartbeat' = FALSE
        /\ state' = [d \in Connects |-> IF d = c THEN "ended"
                                        ELSE IF d = channel /\ state[d] = "open"
                                        THEN "closed" ELSE state[d]]
        /\ closing' = closing \cup {<<c, "done">>}
  /\ UNCHANGED <<user, isConnected, channel, timer, pc, failed>>

Next ==
  \/ Logout
  \/ \E c \in Connects :
       \/ Login(c) \/ TimerFires(c) \/ TokenMissing(c) \/ OpenChannel(c)
       \/ Established(c) \/ Fails(c) \/ Ends(c)
  \/ \E k \in Disconnects : EndDisconnect(k)

Spec == Init /\ [][Next]_vars

-----------------------------------------------------------------------------
\* Besides the types: a disposed service never schedules a reconnect.
TypeOK ==
  /\ {authenticated, disposed, isConnected, heartbeat, timer, started}
       \subseteq BOOLEAN
  /\ channel \in Connects \cup {None}
  /\ pc \in [Connects -> {"idle", "closing", "token", "done"}]
  /\ state \in [Connects -> {"none", "open", "closed", "ended"}]
  /\ failed \subseteq Connects
  /\ closing \subseteq Disconnects
  /\ disposed => ~timer

Busy == InFlight \/ closing # {}

\* A service in use always has something that will connect it: the channel that
\* is open and known, a call at work, or the reconnect timer.
NeverStranded ==
  started /\ ~disposed /\ ~Busy => timer \/ channel \in Open

\* There is one channel at a time, the one messages are sent to, and with no
\* _disconnect at work the heartbeat runs exactly while there is one; as long as no
\* channel has reported an error: after an error the end of the same channel is
\* handled a second time, and meets the next attempt to connect.
OneChannel ==
  failed = {} =>
    /\ Open \subseteq {channel}
    /\ closing = {} => (heartbeat <=> channel # None)

\* What the connector promises: connected at login, disconnected at logout.
\* Not so: dispose() leaves the channel open, and nothing connects again.
FollowsLogin ==
  ~Busy => IF authenticated THEN timer \/ channel \in Open
                            ELSE Open = {} /\ ~heartbeat
=============================================================================
