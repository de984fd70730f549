-------------------------------- MODULE MCGsx --------------------------------
(***************************************************************************)
(* The client's ends of GSX on small instances, side by side.  Of the menu *)
(* navigator: one request and a menu of the pilot ("menu", the constants   *)
(* of the configuration), two requests in the queue, the completions of    *)
(* two services, and the dialogues of the reposition, the pushback and the *)
(* engines.  Then the tracks of a boarding and of a pushback, the counters *)
(* of passengers and cargo, the connection of the remote API, and the door *)
(* sync.  A behaviour is about one side, chosen at the start; the others   *)
(* rest.  The configuration checks CountsWhoMoved of GsxCounters and       *)
(* MirrorFollowsGsx of GsxRemoteApi.                                       *)
(***************************************************************************)
EXTENDS GsxMenuNavigator, GsxCounters, GsxRemoteApi

VARIABLES
  side,
  tracks, readings, disk, past,
  pushTracks, pushReadings, pushDisk, pushPast,
  sync, door, vehicle, host

Queue == INSTANCE GsxMenuNavigator WITH
  Requests <- {"GPU", "Boarding"}, WhileUnderway <- {"GPU"}, Menus <- {}

CompletionMenus == {"Root", "RefuelRunning", "BoardingRunning"}
Completions == INSTANCE GsxMenuNavigator WITH
  Requests <- {}, Toggles <- {}, WhileUnderway <- {}, Menus <- CompletionMenus,
  Chores <- {"refuel", "boarding"}, MaxFaults <- 0

Walks == INSTANCE GsxMenuNavigator WITH
  Requests <- {}, Toggles <- {}, WhileUnderway <- {}, Menus <- {"Root", "Positions"},
  Chores <- {"reposition", "disable"}, MaxFaults <- 0

Dialogue == INSTANCE GsxMenuNavigator WITH
  Requests <- {}, Toggles <- {}, WhileUnderway <- {},
  Menus <- {"Interrupt", "FollowUp"}, Chores <- {"complete", "hold"}, MaxFaults <- 0

Engines == INSTANCE GsxMenuNavigator WITH
  Requests <- {}, Toggles <- {}, WhileUnderway <- {}, Menus <- {"Engines", "DeIce"},
  Chores <- {"engines"}, AutoDeice <- TRUE, MaxFaults <- 0

Boarding == INSTANCE GsxServiceTracks WITH
  Ordinary <- {"Boarding"}, WithoutCompleted <- {}, MaxTrackFaults <- MaxFaults

Pushback == INSTANCE GsxServiceTracks WITH
  Ordinary <- {}, WithoutCompleted <- {"Pushback"}, MaxTrackFaults <- MaxFaults,
  tracks <- pushTracks, readings <- pushReadings, disk <- pushDisk, past <- pushPast

Doors == INSTANCE GsxDoorSync WITH BoundTicks <- 4, Travel <- 3

NavigatorSides == {"menu", "queue", "completions", "walks", "dialogue", "engines"}

boardingVars == <<tracks, readings, disk, past>>
pushbackVars == <<pushTracks, pushReadings, pushDisk, pushPast>>
doorVars == <<sync, door, vehicle, host>>
gsxVars == <<side, vars, boardingVars, pushbackVars, counterVars, apiVars, doorVars>>

\* Every side starts as it does alone; those that rest, in one way only.
GsxInit ==
  /\ side \in NavigatorSides \cup {"boarding", "pushback", "counters", "api", "doors"}
  /\ Boarding!TrackInit /\ Pushback!TrackInit /\ CounterInit /\ ApiInit /\ Doors!Init
  /\ CASE side = "queue" -> Queue!Init
       [] side = "completions" -> Completions!Init
       [] side = "walks" -> Walks!Init
       [] side = "dialogue" -> Dialogue!Init
       [] side = "engines" -> Engines!Init
       [] OTHER -> Init
  /\ side \notin NavigatorSides => \A id \in Requests : gsx.svc[id] = "Callable"
  /\ side # "counters" => counted.count = 0 /\ counted.percent = 0
  /\ side # "api" => server.up /\ ~server.deaf
  /\ side # "doors" => door.kind = "bare" /\ door.at = "closed"

\* An action of one side, which leaves the others as they are.
NavigatorMoves(name, action) ==
  /\ side = name /\ action
  /\ UNCHANGED <<side, boardingVars, pushbackVars, counterVars, apiVars, doorVars>>

BoardingMoves(action) ==
  /\ side = "boarding" /\ action
  /\ UNCHANGED <<side, vars, pushbackVars, counterVars, apiVars, doorVars>>

PushbackMoves(action) ==
  /\ side = "pushback" /\ action
  /\ UNCHANGED <<side, vars, boardingVars, counterVars, apiVars, doorVars>>

CountersMove(action) ==
  /\ side = "counters" /\ action
  /\ UNCHANGED <<side, vars, boardingVars, pushbackVars, apiVars, doorVars>>

ApiMoves(action) ==
  /\ side = "api" /\ action
  /\ UNCHANGED <<side, vars, boardingVars, pushbackVars, counterVars, doorVars>>

DoorsMove(action) ==
  /\ side = "doors" /\ action
  /\ UNCHANGED <<side, vars, boardingVars, pushbackVars, counterVars, apiVars>>

GsxNext ==
  \/ NavigatorMoves("menu", Next)
  \/ NavigatorMoves("queue", Queue!Next)
  \/ NavigatorMoves("completions", Completions!Next)
  \/ NavigatorMoves("walks", Walks!Next)
  \/ NavigatorMoves("dialogue", Dialogue!Next)
  \/ NavigatorMoves("engines", Engines!Next)
  \/ BoardingMoves(Boarding!TrackNext)
  \/ PushbackMoves(Pushback!TrackNext)
  \/ CountersMove(CounterNext)
  \/ ApiMoves(ApiNext)
  \/ DoorsMove(Doors!Next)

(***************************************************************************)
(* The fairness of each module, and of the navigator's on the side of the  *)
(* menu.  No two sides move in a behaviour, so one action of every side    *)
(* can share a condition.                                                  *)
(***************************************************************************)
Menu(action) == NavigatorMoves("menu", action)

First ==
  \/ Menu(OnMenuChanged)
  \/ BoardingMoves(Boarding!Observe(TRUE)) \/ PushbackMoves(Pushback!Observe(TRUE))
  \/ ApiMoves(OnReconnect)
  \/ DoorsMove(Doors!Tick)

Second ==
  \/ BoardingMoves(Boarding!ReassertTakeovers) \/ PushbackMoves(Pushback!ReassertTakeovers)
  \/ ApiMoves(OnConnected)
  \/ DoorsMove(Doors!CouatlStarts)

Third ==
  \/ BoardingMoves(Boarding!CouatlStarts) \/ PushbackMoves(Pushback!CouatlStarts)
  \/ ApiMoves(CannotConnect)
  \/ DoorsMove(Doors!VariableArrives)

Fourth == ApiMoves(OnHandshakeTimeout) \/ DoorsMove(Doors!PositionArrives)

GsxSpec ==
  /\ GsxInit /\ [][GsxNext]_gsxVars
  /\ WF_gsxVars(First) /\ WF_gsxVars(Second) /\ WF_gsxVars(Third) /\ WF_gsxVars(Fourth)
  /\ WF_gsxVars(ApiMoves(Closed)) /\ WF_gsxVars(ApiMoves(OnTextMessage))
  /\ WF_gsxVars(ApiMoves(AnswersTheSubscription))
  /\ WF_gsxVars(ApiMoves(ServerStarts)) /\ WF_gsxVars(ApiMoves(HearsAgain))
  /\ SF_gsxVars(Menu(Seen /\ Tick)) /\ SF_gsxVars(Menu(Seen /\ GsxActsOnSomething))

\* The types, on every side.
Types ==
  /\ CASE side = "queue" -> Queue!TypeOK
       [] side = "completions" -> Completions!TypeOK
       [] side \in {"walks", "dialogue", "engines"} -> Walks!TypeOK
       [] OTHER -> TypeOK
  /\ ApiTypeOK /\ Doors!TypeOK

(***************************************************************************)
(* GsxMenuNavigator: a toggle that took effect is not sent again, a menu   *)
(* of the pilot's is left open, only what the client opened itself is told *)
(* to be complete, and every request leaves the queue (on the side that    *)
(* states its fairness).                                                   *)
(***************************************************************************)
MenuServesItsRequests ==
  /\ []ToggleIsNotUndone
  /\ PilotsMenuIsLeftOpen
  /\ OnlyWhatItOpenedIsCompleted
  /\ \A id \in Requests : []<>(side = "menu" /\ InQueue(id) => MayStay)

(***************************************************************************)
(* GsxServiceTracks: no service counts as completed but by an end of its   *)
(* own, a run that ends while it is watched is noticed, what was taken     *)
(* over from GSX does not stay with it, and the report of the passengers a *)
(* service moved does not go back.                                         *)
(***************************************************************************)
ServicesAreSeenToTheirEnd ==
  /\ [](Boarding!OnlyWhatEndedIsCompleted /\ Pushback!OnlyWhatEndedIsCompleted)
  /\ PassengersDoNotLeave
  /\ []<>(Boarding!NoneIsDue /\ Pushback!NoneIsDue)
  /\ []<>(Boarding!IsReasserted /\ Pushback!IsReasserted)

(***************************************************************************)
(* GsxRemoteApi: the client comes to hold a copy of GSX's state again      *)
(* after every fault.  GsxDoorSync: doors open for vehicles that are there *)
(* and close on none, a door on its way is let arrive, and comes to be as  *)
(* its vehicle needs it.                                                   *)
(***************************************************************************)
GsxIsFollowed ==
  /\ []<>(side = "api" => IsInStep)
  /\ Doors!FollowsRealVehicles /\ Doors!LetsTheDoorArrive /\ Doors!DoorFollowsItsVehicle
=============================================================================
