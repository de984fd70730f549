----------------------------- MODULE GsxRemoteApi -----------------------------
(***************************************************************************)
(* The client's end of the socket to GSX's remote server                   *)
(* (GsxRemoteApiClient) and the copy of GSX's state it keeps from what     *)
(* comes over it (GsxRemoteStateReducer): attempts that back off, a server *)
(* that accepts and never answers, a server that comes back on another     *)
(* port or with less to tell, a snapshot and the patches after it.         *)
(***************************************************************************)
EXTENDS Integers, Sequences

CONSTANTS
  Fields,      \* the parts of the state that are kept (kStateFields)
  Values,      \* what GSX may tell of each
  MaxBackoff,  \* doublings until kMaxBackoffMs
  MaxWire,     \* bound on messages under way
  MaxOutages   \* bound on starts and ends of the server, and on dropped links

ASSUME ApiConstants == MaxBackoff \in Nat /\ MaxOutages \in Nat

VARIABLES
  api,     \* GsxRemoteApiClient
  mirror,  \* GsxRemoteState
  server,  \* GSX (environment)
  wire     \* messages on their way to the client, oldest first

apiVars == <<api, mirror, server, wire>>

None == "none"
NothingKnown == [f \in Fields |-> None]
EmptyMirror == [connected |-> FALSE, synced |-> FALSE, of |-> NothingKnown]

-----------------------------------------------------------------------------
(***************************************************************************)
(* The reducer.  A snapshot only holds what there is to tell.              *)
(***************************************************************************)
ApplySnapshot(m, told) ==
  [m EXCEPT !.synced = TRUE,
            !.of = [f \in Fields |-> IF told[f] = None THEN @[f] ELSE told[f]]]
ApplyPatch(m, field, value) == [m EXCEPT !.of[field] = value]

KeepsTheOldState(m, connected) == [m EXCEPT !.connected = connected]
ApplyConnection(m, connected) ==
  [(IF connected THEN EmptyMirror ELSE m) EXCEPT !.connected = connected]

Applied(m, message) ==
  CASE message.type = "snapshot" -> ApplySnapshot(m, message.told)
    [] message.type = "patch" -> ApplyPatch(m, message.field, message.value)
    [] OTHER -> m

-----------------------------------------------------------------------------
(***************************************************************************)
(* The connection.                                                         *)
(***************************************************************************)
KeepsThePort == api.port
ResolvePort == server.ini

Scheduled(a) ==
  IF a.stopping \/ a.reconnecting THEN a
  ELSE [a EXCEPT !.reconnecting = TRUE,
                 !.backoff = IF @ < MaxBackoff THEN @ + 1 ELSE @]

ForgetHandshake ==
  mirror' = IF api.done THEN ApplyConnection(mirror, FALSE) ELSE mirror

OnReconnect ==
  /\ api.reconnecting
  /\ api' = [api EXCEPT !.reconnecting = FALSE, !.port = ResolvePort,
                        !.socket = "opening"]
  /\ UNCHANGED <<mirror, server, wire>>

WatchesForTheAnswer(a) == [a EXCEPT !.watching = TRUE]

\* The socket opens, and the subscription goes out.
OnConnected ==
  /\ api.socket = "opening" /\ server.up /\ api.port = server.port
  /\ ForgetHandshake
  /\ api' = WatchesForTheAnswer([api EXCEPT !.socket = "open", !.done = FALSE])
  /\ server' = [server EXCEPT !.heard = IF server.deaf THEN "lost" ELSE "no"]
  /\ UNCHANGED wire

\* The socket could not be opened, or closes on either side.
Disconnected(a) ==
  Scheduled([a EXCEPT !.socket = "closed", !.done = FALSE, !.watching = FALSE])
OnDisconnected ==
  /\ ForgetHandshake
  /\ api' = Disconnected(api)
  /\ wire' = <<>>

CannotConnect ==
  /\ api.socket = "opening" /\ ~(server.up /\ api.port = server.port)
  /\ OnDisconnected /\ UNCHANGED server

\* An answer that comes later than the timeout counts as a fault.
MayFail == server.faults < MaxOutages
OnHandshakeTimeout ==
  /\ api.watching
  /\ \/ server.heard = "lost" /\ UNCHANGED server
     \/ MayFail /\ server.heard # "lost" /\ server' = [server EXCEPT !.faults = @ + 1]
  /\ api' = Scheduled(Disconnected(api))
  /\ wire' = <<>>
  /\ UNCHANGED mirror

Stop ==
  /\ ~api.stopping
  /\ api' = [api EXCEPT !.stopping = TRUE, !.reconnecting = FALSE, !.watching = FALSE,
                        !.socket = IF @ = "closed" THEN @ ELSE "closing"]
  /\ UNCHANGED <<mirror, server, wire>>
Closed == api.socket = "closing" /\ OnDisconnected /\ UNCHANGED server

\* The first message of whatever kind is the answer that was waited for.
OnTextMessage ==
  /\ wire # <<>> /\ api.socket = "open"
  /\ wire' = Tail(wire)
  /\ api' = IF api.done THEN api
            ELSE [api EXCEPT !.done = TRUE, !.watching = FALSE, !.backoff = 0]
  /\ mirror' = Applied(IF api.done THEN mirror ELSE ApplyConnection(mirror, TRUE),
                       Head(wire))
  /\ UNCHANGED server

-----------------------------------------------------------------------------
(***************************************************************************)
(* GSX.  A server may be deaf: it accepts and never answers.               *)
(***************************************************************************)
Tell(messages) == wire' = wire \o messages

AnswersTheSubscription ==
  /\ server.up /\ server.heard = "no" /\ api.socket = "open"
  /\ server' = [server EXCEPT !.heard = "yes"]
  /\ Tell(<<[type |-> "hello"], [type |-> "snapshot", told |-> server.of]>>)
  /\ UNCHANGED <<api, mirror>>

StateChanges ==
  /\ server.up /\ Len(wire) < MaxWire
  /\ \E f \in Fields, v \in Values :
       /\ v # server.of[f]
       /\ server' = [server EXCEPT !.of[f] = v]
       /\ IF server.heard = "yes" /\ api.socket = "open"
          THEN Tell(<<[type |-> "patch", field |-> f, value |-> v]>>) ELSE UNCHANGED wire
  /\ UNCHANGED <<api, mirror>>

AnswersACommand ==
  /\ server.up /\ server.heard = "yes" /\ api.socket = "open" /\ api.done /\ Len(wire) < MaxWire
  /\ Tell(<<[type |-> "result"]>>)
  /\ UNCHANGED <<api, mirror, server>>

ServerEnds ==
  /\ MayFail /\ server.up
  /\ server' = [server EXCEPT !.up = FALSE, !.heard = "no", !.faults = @ + 1]
  /\ IF api.socket = "open" THEN OnDisconnected ELSE UNCHANGED <<api, mirror, wire>>

LinkIsLost ==
  /\ MayFail /\ api.socket = "open"
  /\ server' = [server EXCEPT !.heard = "no", !.faults = @ + 1]
  /\ OnDisconnected

\* It starts with nothing to tell, on the port that stands in its settings.
ServerStarts ==
  /\ ~server.up
  /\ \E port \in {"fallback", "own"}, deaf \in {FALSE, MayFail} :
       server' = [server EXCEPT !.up = TRUE, !.port = port, !.ini = port, !.deaf = deaf,
                                !.of = NothingKnown]
  /\ UNCHANGED <<api, mirror, wire>>

HearsAgain ==
  /\ server.up /\ server.deaf
  /\ server' = [server EXCEPT !.deaf = FALSE]
  /\ UNCHANGED <<api, mirror, wire>>

-----------------------------------------------------------------------------
\* Start opens the socket at once.
ApiInit ==
  /\ api = [socket |-> "opening", done |-> FALSE, watching |-> FALSE, stopping |-> FALSE,
            reconnecting |-> FALSE, backoff |-> 0, port |-> "fallback"]
  /\ mirror = EmptyMirror /\ wire = <<>>
  /\ server \in [up : BOOLEAN, deaf : BOOLEAN, heard : {"no"}, port : {"fallback"},
                 ini : {"fallback"}, of : {NothingKnown}, faults : {0}]

ApiNext ==
  \/ OnReconnect \/ OnConnected \/ CannotConnect \/ OnHandshakeTimeout
  \/ Stop \/ Closed \/ OnTextMessage
  \/ AnswersTheSubscription \/ StateChanges \/ AnswersACommand
  \/ ServerEnds \/ LinkIsLost \/ ServerStarts \/ HearsAgain

ApiSpec == ApiInit /\ [][ApiNext]_apiVars

\* Timers and sockets go on, the server starts again and does not stay deaf.
ApiFairness ==
  /\ WF_apiVars(OnReconnect) /\ WF_apiVars(OnConnected) /\ WF_apiVars(CannotConnect)
  /\ WF_apiVars(OnHandshakeTimeout) /\ WF_apiVars(Closed) /\ WF_apiVars(OnTextMessage)
  /\ WF_apiVars(AnswersTheSubscription) /\ WF_apiVars(ServerStarts)
  /\ WF_apiVars(HearsAgain)

ApiFairSpec == ApiSpec /\ ApiFairness

-----------------------------------------------------------------------------
ApiTypeOK ==
  /\ api \in [socket : {"closed", "opening", "open", "closing"}, done : BOOLEAN,
              watching : BOOLEAN, stopping : BOOLEAN, reconnecting : BOOLEAN,
              backoff : 0 .. MaxBackoff, port : {"fallback", "own"}]
  /\ api.reconnecting => api.socket = "closed"
  /\ mirror.of \in [Fields -> Values \cup {None}]
  /\ mirror.connected = api.done

(***************************************************************************)
(* Once a snapshot has come, the last that was told of each part of GSX's  *)
(* state, be it in the copy or in a message still under way, is that part  *)
(* as it is, with nothing of an earlier connection left (ApplyConnection). *)
(***************************************************************************)
Tells(message, f) ==
  CASE message.type = "snapshot" -> message.told[f] # None
    [] message.type = "patch" -> message.field = f
    [] OTHER -> FALSE
Told(message, f) ==
  IF message.type = "snapshot" THEN message.told[f] ELSE message.value

LastTold(m, messages, f, value) ==
  \/ m.of[f] = value /\ \A i \in 1 .. Len(messages) : ~Tells(messages[i], f)
  \/ \E i \in 1 .. Len(messages) :
       /\ Tells(messages[i], f) /\ Told(messages[i], f) = value
       /\ \A j \in i + 1 .. Len(messages) : ~Tells(messages[j], f)

MirrorFollowsGsx ==
  mirror.connected /\ mirror.synced /\ api.socket = "open"
    => \A f \in Fields : LastTold(mirror, wire, f, server.of[f])

(***************************************************************************)
(* Unless it is stopped, the client always comes to hold a copy of GSX's   *)
(* state again: after refused and dropped connections, from a server that  *)
(* was deaf when it connected, and from one that moved to another port.    *)
(***************************************************************************)
IsInStep == (mirror.connected /\ mirror.synced) \/ api.stopping
=============================================================================
