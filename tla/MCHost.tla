------------------------------- MODULE MCHost -------------------------------
(***************************************************************************)
(* The clients of the aircraft add-ons, of the simulator, of the EFB page  *)
(* and of the releases on small instances, side by side.  A behaviour is   *)
(* about one of them, chosen at the start; the others rest.                *)
(***************************************************************************)
EXTENDS UpdateFlow

CONSTANTS
  MaxFaults,       \* faults on each side
  DoorRetryTicks, DoorAttempts,           \* of PmdgDoors
  GroundRetryTicks, GroundAttempts,       \* of PmdgGroundConn
  ToggleShows, MaxToggles, HoldTravel,    \* of FslabsHolds
  SettleTicks, SettingsEvery, FullZfw,    \* of FenixA32x
  MaxRetries, MaxDelay, VariableMessages, \* of SimVariables
  MaxEnvelopes                            \* of EfbBridge

ASSUME HostConstants ==
  /\ {MaxFaults, DoorAttempts, GroundAttempts, MaxToggles, FullZfw, MaxRetries, MaxDelay,
      VariableMessages} \subseteq Nat
  /\ {DoorRetryTicks, GroundRetryTicks, HoldTravel, SettleTicks, SettingsEvery}
       \subseteq Nat \ {0}
  /\ ToggleShows \in Nat \ {0, 1}

VARIABLES
  side,
  recon, doors, world,
  conn, plane, saved,
  aoc, client, mcdu,
  follow, ground, hold,
  efb, fenix, cockpit,
  slot, sim, seen,
  app, simulator, past,
  page, bridge, tablet

DoorSlots == {"0", "2"}
SimValues == {1, 2}
PageStates == {"a", "b"}

PmdgDoor == INSTANCE PmdgDoors WITH
  Slots <- DoorSlots, RetryTicks <- DoorRetryTicks, MaxAttempts <- DoorAttempts

PmdgGround == INSTANCE PmdgGroundConn WITH
  RetryTicks <- GroundRetryTicks, MaxAttempts <- GroundAttempts

Aoc == INSTANCE FslabsAoc WITH
  Requests <- {"board"}, ProbeInterval <- 1, RepeatHold <- 1, MaxStops <- 3

Holds == INSTANCE FslabsHolds WITH Travel <- HoldTravel

Fenix == INSTANCE FenixA32x

Variables == INSTANCE SimVariables WITH Values <- SimValues, MaxWire <- VariableMessages

Session == INSTANCE SimSession WITH OpenDeadline <- 2, MaxWire <- 2, sim <- simulator

Efb == INSTANCE EfbBridge WITH
  States <- PageStates, MaxWire <- MaxEnvelopes, client <- page

pmdgDoorVars == <<recon, doors, world>>
pmdgGroundVars == <<conn, plane, saved>>
aocVars == <<aoc, client, mcdu>>
holdVars == <<follow, ground, hold>>
fenixVars == <<efb, fenix, cockpit>>
variableVars == <<slot, sim, seen>>
sessionVars == <<app, simulator, past>>
efbVars == <<page, bridge, tablet>>

FenixSides == {"fenixDoors", "fenixLoading"}

\* Every side starts as it does alone; those that rest, in one way only.
Init ==
  /\ side \in {"pmdgDoor", "pmdgGround", "aoc", "holds", "fenixDoors", "fenixLoading",
               "variables", "session", "efb", "update"}
  /\ PmdgDoor!Init /\ PmdgGround!Init /\ Aoc!Init /\ Holds!Init
  /\ Fenix!Init /\ Variables!Init /\ Session!Init /\ Efb!Init /\ UpdateInit
  /\ side # "pmdgDoor" => world.slot = "0"
  /\ side # "pmdgGround" => plane.kind = "chocks" /\ ~plane.on
  /\ side # "aoc" => mcdu.box
  /\ side # "holds" => hold.at = "closed"
  /\ side \notin FenixSides => cockpit.bulk = 0 /\ cockpit.major = 3
  /\ side # "variables" => sim.exists /\ sim.value = 1
  /\ side # "session" =>
       simulator.version = "2024" /\ ~simulator.up /\ simulator.camera = "menu"
  /\ side # "efb" => page.state = "a"
  /\ side # "update" => view.mode = CHOOSE mode \in Modes : TRUE

\* An action of one side, which leaves the others as they are.
PmdgDoorMoves(action) ==
  /\ side = "pmdgDoor" /\ action
  /\ UNCHANGED <<side, pmdgGroundVars, aocVars, holdVars, fenixVars, variableVars,
                 sessionVars, efbVars, updateVars>>

PmdgGroundMoves(action) ==
  /\ side = "pmdgGround" /\ action
  /\ UNCHANGED <<side, pmdgDoorVars, aocVars, holdVars, fenixVars, variableVars,
                 sessionVars, efbVars, updateVars>>

AocMoves(action) ==
  /\ side = "aoc" /\ action
  /\ UNCHANGED <<side, pmdgDoorVars, pmdgGroundVars, holdVars, fenixVars, variableVars,
                 sessionVars, efbVars, updateVars>>

HoldsMoves(action) ==
  /\ side = "holds" /\ action
  /\ UNCHANGED <<side, pmdgDoorVars, pmdgGroundVars, aocVars, fenixVars, variableVars,
                 sessionVars, efbVars, updateVars>>

FenixMoves(action) ==
  /\ side \in FenixSides /\ action
  /\ UNCHANGED <<side, pmdgDoorVars, pmdgGroundVars, aocVars, holdVars, variableVars,
                 sessionVars, efbVars, updateVars>>

VariablesMoves(action) ==
  /\ side = "variables" /\ action
  /\ UNCHANGED <<side, pmdgDoorVars, pmdgGroundVars, aocVars, holdVars, fenixVars,
                 sessionVars, efbVars, updateVars>>

SessionMoves(action) ==
  /\ side = "session" /\ action
  /\ UNCHANGED <<side, pmdgDoorVars, pmdgGroundVars, aocVars, holdVars, fenixVars,
                 variableVars, efbVars, updateVars>>

EfbMoves(action) ==
  /\ side = "efb" /\ action
  /\ UNCHANGED <<side, pmdgDoorVars, pmdgGroundVars, aocVars, holdVars, fenixVars,
                 variableVars, sessionVars, updateVars>>

UpdateMoves(action) ==
  /\ side = "update" /\ action
  /\ UNCHANGED <<side, pmdgDoorVars, pmdgGroundVars, aocVars, holdVars, fenixVars,
                 variableVars, sessionVars, efbVars>>

Next ==
  \/ PmdgDoorMoves(PmdgDoor!Next)
  \/ PmdgGroundMoves(PmdgGround!Next)
  \/ AocMoves(Aoc!Next)
  \/ HoldsMoves(Holds!Next)
  \/ FenixMoves(side = "fenixDoors" /\ Fenix!DoorsNext)
  \/ FenixMoves(side = "fenixLoading" /\ Fenix!LoadingNext)
  \/ VariablesMoves(Variables!Next)
  \/ SessionMoves(Session!Next)
  \/ EfbMoves(Efb!Next)
  \/ UpdateMoves(UpdateNext)

hostVars == <<side, pmdgDoorVars, pmdgGroundVars, aocVars, holdVars, fenixVars,
              variableVars, sessionVars, efbVars, updateVars>>

(***************************************************************************)
(* The fairness of each module.  No two sides move in a behaviour, so one  *)
(* action of every side can share a condition.                             *)
(***************************************************************************)
First ==
  \/ PmdgDoorMoves(PmdgDoor!DoorStarts("0"))
  \/ PmdgGroundMoves(PmdgGround!Moves)
  \/ AocMoves(Aoc!HandlesAKey)
  \/ HoldsMoves(Holds!Advance)
  \/ FenixMoves(Fenix!Observe)
  \/ VariablesMoves(Variables!Attach)
  \/ SessionMoves(Session!Dispatch)
  \/ EfbMoves(Efb!Setup)
  \/ UpdateMoves(CheckFinished \/ CheckFails)

Second ==
  \/ PmdgDoorMoves(PmdgDoor!DoorArrives("0"))
  \/ PmdgGroundMoves(PmdgGround!Arrives)
  \/ AocMoves(Aoc!PowerChanges)
  \/ HoldsMoves(Holds!OnGroundFinished)
  \/ FenixMoves(Fenix!OnPollFinished)
  \/ VariablesMoves(Variables!Dispatch)
  \/ SessionMoves(Session!TryConnect)
  \/ EfbMoves(Efb!OnReadyData)
  \/ UpdateMoves(OnShaHttpFinished)

Third ==
  \/ PmdgDoorMoves(PmdgDoor!DoorStarts("2"))
  \/ PmdgGroundMoves(PmdgGround!ReadingArrives)
  \/ HoldsMoves(Holds!LoaderLeaves)
  \/ FenixMoves(Fenix!OnSettingsFinished)
  \/ SessionMoves(Session!Answers)
  \/ EfbMoves(Efb!PassesOn)
  \/ UpdateMoves(OnZipHttpFinished)

Fourth ==
  \/ PmdgDoorMoves(PmdgDoor!DoorArrives("2"))
  \/ FenixMoves(Fenix!EfbComesBack)
  \/ UpdateMoves(OnExtractFinished)

Repeated ==
  \/ PmdgDoorMoves(PmdgDoor!Tick)
  \/ PmdgGroundMoves(\E lost \in BOOLEAN : PmdgGround!Tick(lost))
  \/ AocMoves(Aoc!Tick)
  \/ VariablesMoves(Variables!RetryRejected)
  \/ SessionMoves(Session!Second)
  \/ EfbMoves(Efb!Republish)

RepeatedReply ==
  \/ AocMoves(Aoc!PollAnswered)
  \/ VariablesMoves(Variables!Sends)

Spec ==
  /\ Init /\ [][Next]_hostVars
  /\ WF_hostVars(First) /\ WF_hostVars(Second) /\ WF_hostVars(Third) /\ WF_hostVars(Fourth)
  /\ WF_hostVars(UpdateMoves(HelperInstalls))
  /\ SF_hostVars(Repeated) /\ SF_hostVars(RepeatedReply)
  /\ SF_hostVars(AocMoves(Aoc!Request("board")))

(***************************************************************************)
(* What a client does to what it drives or reads is as it means it.        *)
(*   PmdgDoors, PmdgGroundConn: what toggles is not told twice to.         *)
(*   FslabsHolds: a hold is closed behind its loader, not before it, and   *)
(* never opened again by the toggle that is to close it.                   *)
(*   FenixA32x: a door that still moves is not taken for shut, and there   *)
(* is one final loadsheet of a loading.                                    *)
(*   SimVariables: what is read came in this connection, the span holds    *)
(* every sample, and refusals count once.                                  *)
(*   EfbBridge, UpdateFlow: what is shown has been sent, and is so.        *)
(***************************************************************************)
ClientsDoAsMeant ==
  /\ []PmdgDoor!TypeOK /\ PmdgDoor!NoToggleUndoesItself
  /\ []PmdgGround!TypeOK /\ PmdgGround!NoPressUndoesItself
  /\ [](Holds!TypeOK /\ Holds!NoToggleReopens /\ Holds!LoaderKeepsItsHold)
  /\ [](Fenix!TypeOK /\ Fenix!ClosedDoorsAreShut /\ Fenix!OneFinalLoadsheet)
  /\ [](Variables!TypeOK /\ Variables!ReadsThisConnection)
  /\ [](Variables!SpanHoldsEverySample /\ Variables!RefusalsCountOnce)
  /\ []Efb!TypeOK
  /\ []UpdateTypeOK

(***************************************************************************)
(* What is asked of the add-ons is done in the end.                        *)
(*   PmdgDoors, PmdgGroundConn: what is asked for last comes to be.        *)
(*   FslabsAoc: boarding is asked for with its box, it is asked for in the *)
(* end, and so is it noticed that the MCDU has power.                      *)
(*   FslabsHolds: a hold that its loader left is closed.                   *)
(*   FenixA32x: what is asked of the EFB is done.                          *)
(***************************************************************************)
AddOnsDoAsAsked ==
  /\ PmdgDoor!WhatWasOpenedCloses /\ PmdgDoor!WhatIsWantedOpens
  /\ PmdgGround!AskedIsReached
  /\ [](Aoc!TypeOK /\ Aoc!BoardingIsAskedWithTheBox)
  /\ []<>(side = "aoc" => Aoc!IsServed("board"))
  /\ Aoc!PowerIsNoticed
  /\ Holds!LeftHoldIsClosed
  /\ []<>(side \in FenixSides => Fenix!Settled)

(***************************************************************************)
(* The client follows the simulator, and the tablet the client.            *)
(*   SimVariables: variables that come to exist late are read too.         *)
(*   SimSession: the client finds the simulator, follows the flight, and   *)
(* ends with it.                                                           *)
(*   EfbBridge: the page shows the state of the client in the end.         *)
(*   UpdateFlow: no download is waited for that is over.                   *)
(***************************************************************************)
ClientKeepsUp ==
  /\ Variables!LateVariablesArrive
  /\ [](Session!TypeOK /\ Session!ExitsOnlyWithTheSimulator)
  /\ Session!ReachesTheSimulator
  /\ Session!SessionFollowsTheFlight
  /\ Efb!TabletShowsTheState
  /\ DownloadsEnd
=============================================================================
