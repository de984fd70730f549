--------------------------------- MODULE EfbBridge ---------------------------------
(***************************************************************************)
(* The client's state on the tablet (EfbStatePublisher) and the bridge in  *)
(* the simulator it goes through (CommBusBridgeClient): the client writes  *)
(* envelopes into one area and reads another, the bridge passes on what    *)
(* was subscribed to, and the page on the tablet, which comes and goes,    *)
(* says hello when it opens.                                               *)
(***************************************************************************)
EXTENDS Integers, Sequences

CONSTANTS
  States,   \* what the client may have to show
  MaxWire,  \* bound on the envelopes under way
  MaxFaults \* bound on lost connections and reopened pages

VARIABLES
  client, \* the bridge's client, the publisher, and the state it is to show
  bridge, \* the bridge in the simulator, and the envelopes under way to it
  tablet  \* the page of the tablet, and what is under way to the client

efbVars == <<client, bridge, tablet>>

Nothing == "nothing"

Envelope(kind, state) == [kind |-> kind, state |-> state]
NewBridge == [up |-> TRUE, hello |-> FALSE, wire |-> << >>]
NewTablet == [open |-> FALSE, shown |-> Nothing, heard |-> FALSE, said |-> << >>]
HasRoom == Len(bridge.wire) < MaxWire

-----------------------------------------------------------------------------
(***************************************************************************)
(* SendEnvelope and Call: nothing is sent without a connection, and no     *)
(* call before the bridge has told its protocol.                           *)
(***************************************************************************)
SendEnvelope(e) ==
  bridge' = [bridge EXCEPT !.wire = IF client.connected THEN Append(@, e) ELSE @]

\* Setup of the bridge's client subscribes to what was asked for before.
SubscribesAnew ==
  bridge' = [bridge EXCEPT !.wire = Append(@, Envelope("subscribe", Nothing))]
Setup ==
  /\ ~client.connected /\ bridge.up /\ HasRoom
  /\ client' = [client EXCEPT !.connected = TRUE]
  /\ SubscribesAnew
  /\ UNCHANGED tablet

\* Shutdown; a simulator that had answered is gone then, and the client exits:
\* the connection is set up again only before the bridge was available.
Shutdown ==
  /\ client.connected /\ ~client.available /\ client.faults < MaxFaults
  /\ client' = [client EXCEPT !.connected = FALSE, !.faults = @ + 1]
  /\ bridge' = NewBridge /\ tablet' = NewTablet

\* OnReadyData: the bridge tells its protocol.
OnReadyData ==
  /\ client.connected /\ ~client.available
  /\ client' = [client EXCEPT !.available = TRUE]
  /\ UNCHANGED <<bridge, tablet>>

-----------------------------------------------------------------------------
(***************************************************************************)
(* Send, Publish and Republish: what was sent last is not sent again, but  *)
(* to a page that says hello.                                              *)
(***************************************************************************)
Sent(c) == IF c.available THEN [c EXCEPT !.last = c.state] ELSE c

Publishes(c) ==
  /\ client' = Sent(c)
  /\ IF c.available /\ c.state # c.last
     THEN SendEnvelope(Envelope("state", c.state)) ELSE UNCHANGED bridge

\* Publish is called when the snapshot has changed.
StateChanges ==
  /\ HasRoom
  /\ \E s \in States \ {client.state} : Publishes([client EXCEPT !.state = s])
  /\ UNCHANGED tablet

ForHello(c) == c
Anew(c) == [c EXCEPT !.last = Nothing]
Republish ==
  /\ tablet.said # << >> /\ client.connected /\ HasRoom
  /\ Publishes(Anew(client))
  /\ tablet' = [tablet EXCEPT !.said = Tail(@), !.heard = client.available]

-----------------------------------------------------------------------------
(***************************************************************************)
(* The bridge, in the order of the envelopes, and the page.                *)
(***************************************************************************)
PassesOn ==
  /\ bridge.wire # << >>
  /\ LET e == Head(bridge.wire) IN
     /\ bridge' = [bridge EXCEPT !.wire = Tail(@), !.hello = @ \/ e.kind = "subscribe"]
     /\ tablet' = [tablet EXCEPT
          !.shown = IF e.kind = "state" /\ tablet.open THEN e.state ELSE @]
  /\ UNCHANGED client

\* The page says hello when it is shown; without the subscription nobody hears.
Opens ==
  /\ ~tablet.open
  /\ tablet' = [tablet EXCEPT !.open = TRUE,
                              !.said = IF bridge.hello THEN Append(@, "hello") ELSE @]
  /\ UNCHANGED <<client, bridge>>

Closes ==
  /\ tablet.open /\ client.faults < MaxFaults
  /\ tablet' = [tablet EXCEPT !.open = FALSE, !.shown = Nothing, !.heard = FALSE]
  /\ client' = [client EXCEPT !.faults = @ + 1]
  /\ UNCHANGED bridge

Init ==
  /\ client \in [connected : {FALSE}, available : {FALSE}, last : {Nothing},
                 state : States, faults : {0}]
  /\ bridge = NewBridge /\ tablet = NewTablet

Next ==
  \/ Setup \/ Shutdown \/ OnReadyData \/ Republish \/ StateChanges
  \/ PassesOn \/ Opens \/ Closes

Spec == Init /\ [][Next]_efbVars

\* The client connects and updates, and the bridge runs.
Fairness ==
  /\ WF_efbVars(Setup) /\ WF_efbVars(OnReadyData) /\ WF_efbVars(PassesOn)
  /\ SF_efbVars(Republish)

FairSpec == Spec /\ Fairness

-----------------------------------------------------------------------------
(***************************************************************************)
(* A call is made only of a bridge that is available; what the page shows  *)
(* has been sent.                                                          *)
(***************************************************************************)
TypeOK ==
  /\ client.available => client.connected
  /\ client.last # Nothing => client.available
  /\ tablet.shown # Nothing => tablet.open /\ client.available

(***************************************************************************)
(* A page that was heard, or that shows anything, shows the state of the   *)
(* client in the end, however often it is opened again.  (A hello said     *)
(* before the bridge was available is lost: such a page shows nothing      *)
(* until the state changes.)                                               *)
(***************************************************************************)
HasShown == tablet.heard \/ tablet.shown # Nothing
TabletShowsTheState ==
  \A s \in States :
    <>[](client.state = s /\ tablet.open /\ HasShown) => <>[](tablet.shown = s)
=============================================================================
