------------------------------ MODULE FenixA32x ------------------------------
(***************************************************************************)
(* The Fenix A32x behind its EFB (FenixA32x, FenixEfbClient and the rule   *)
(* that sets the EFB up): values polled one reply at a time, settings less *)
(* often, writes that are dropped while the EFB is away and lost while     *)
(* nobody knows yet, and what waits for the EFB's return.                  *)
(***************************************************************************)
EXTENDS Integers

CONSTANTS
  SettleTicks,    \* kDoorSettleTicks
  SettingsEvery,  \* kPollsBetweenSettingsRequests
  FullZfw,        \* steps of the zero fuel weight until it is as planned
  MaxFaults       \* bound on failed replies and on times the EFB goes away

VARIABLES
  efb,     \* FenixEfbClient
  fenix,   \* FenixA32x and its rule
  cockpit  \* the EFB and the aircraft (environment)

fenixVars == <<efb, fenix, cockpit>>

None == "none"

-----------------------------------------------------------------------------
(***************************************************************************)
(* FenixEfbClient.  A second failure in a row takes the EFB for gone; the  *)
(* values stay as they were read last.                                     *)
(***************************************************************************)
Polled(e) ==
  [e EXCEPT !.polling = TRUE,
            !.settings = IF e.settingsIn > 0 THEN @ ELSE "asked",
            !.settingsIn = IF @ > 0 THEN @ - 1
                           ELSE IF e.settings = "asked" THEN 0 ELSE SettingsEvery - 1]

Succeeded(e) ==
  [e EXCEPT !.polling = FALSE, !.failures = 0, !.available = TRUE,
            !.door = cockpit.reading, !.bulk = cockpit.bulk]

Failed(e) ==
  [e EXCEPT !.polling = FALSE, !.failures = IF @ < 2 THEN @ + 1 ELSE @,
            !.available = @ /\ e.failures = 0]

\* SendMutation: what is written while the EFB is away without the client knowing
\* of it is lost.
Written(c, field, value) ==
  IF ~c.up THEN [c EXCEPT !.lost = TRUE] ELSE [c EXCEPT ![field] = value]

DoorCommanded(c, open) ==
  IF ~c.up THEN [c EXCEPT !.lost = TRUE]
  ELSE IF open THEN [c EXCEPT !.door = "open", !.reading = 1]
  ELSE IF c.door = "open" THEN [c EXCEPT !.door = "closing", !.reading = 0, !.shutsIn = SettleTicks]
  ELSE c

-----------------------------------------------------------------------------
(***************************************************************************)
(* One tick: the poll, what is made of the last answer, what waited for    *)
(* the EFB, and the rule.  A door whose reading has only just come to      *)
(* closed is still on its way.                                             *)
(***************************************************************************)
Unanswered == 0 - 1

AdvanceDoorSettle(f) ==
  [f EXCEPT !.settling = IF efb.door # 0 THEN 0
                         ELSE IF f.lastDoor > 0 THEN SettleTicks
                         ELSE IF @ > 0 THEN @ - 1 ELSE 0,
            !.lastDoor = efb.door]

DoorPositionOf ==
  IF ~efb.available \/ efb.door = Unanswered THEN "pending"
  ELSE IF efb.door > 0 THEN "open"
  ELSE IF fenix.settling > 0 THEN "pending"
  ELSE "closed"

DetectThirdGeneration(f) == [f EXCEPT !.third = @ \/ efb.major >= 3]

\* What waited: [fenix, cockpit].
ApplyThePendingGroundPower(w) ==
  IF w.fenix.pendingPower = None THEN w
  ELSE [fenix |-> [w.fenix EXCEPT !.pendingPower = None],
        cockpit |-> Written(w.cockpit, "power", w.fenix.pendingPower)]

ApplyThePendingCloseAll(w) ==
  IF ~w.fenix.closeAllPending THEN w
  ELSE [fenix |-> [w.fenix EXCEPT !.closeAllPending = FALSE],
        cockpit |-> DoorCommanded(w.cockpit, FALSE)]

CloseTheBulkDoorWhenItReadsOpen(w) ==
  IF ~w.fenix.bulkArmed \/ ~efb.available \/ efb.bulk = Unanswered THEN w
  ELSE [fenix |-> [w.fenix EXCEPT !.bulkArmed = FALSE],
        cockpit |-> IF efb.bulk > 0 THEN Written(w.cockpit, "bulk", 0) ELSE w.cockpit]

InitializeEfbOnce(w) ==
  IF ~efb.available THEN [w EXCEPT !.fenix.initialized = FALSE]
  ELSE IF w.fenix.initialized THEN w
  ELSE [fenix |-> [w.fenix EXCEPT !.initialized = TRUE],
        cockpit |-> Written(w.cockpit, "automation", FALSE)]

ApplyWhatWaitedForTheEfb(w) ==
  IF ~efb.available THEN w
  ELSE CloseTheBulkDoorWhenItReadsOpen(ApplyThePendingCloseAll(ApplyThePendingGroundPower(w)))

\* The aircraft moves on with the ticks.
DoorMoves(c) ==
  IF c.shutsIn = 0 THEN c
  ELSE [c EXCEPT !.shutsIn = @ - 1, !.door = IF c.shutsIn = 1 THEN "closed" ELSE @]

\* A reply that is still under way at the next tick counts as failed.
Observe ==
  /\ ~efb.polling
  /\ efb' = Polled(efb)
  /\ \E w \in {InitializeEfbOnce(ApplyWhatWaitedForTheEfb(
                 [fenix |-> AdvanceDoorSettle(DetectThirdGeneration(fenix)),
                  cockpit |-> DoorMoves(cockpit)]))} :
       fenix' = w.fenix /\ cockpit' = w.cockpit

-----------------------------------------------------------------------------
(***************************************************************************)
(* What the turnaround and its rules ask of the aircraft in the tick,      *)
(* before the next reply.  The doors are closed and held closed on         *)
(* readings that are up to date.                                           *)
(***************************************************************************)
Carried(w) == fenix' = w.fenix /\ cockpit' = w.cockpit /\ UNCHANGED efb
Now == [fenix |-> fenix, cockpit |-> cockpit]

SetGroundPowerFirstAsked(on) ==
  IF efb.available THEN [Now EXCEPT !.cockpit = Written(cockpit, "power", on)]
  ELSE [Now EXCEPT !.fenix.pendingPower = IF @ = None THEN on ELSE @]

SetGroundPower(on) ==
  IF ~efb.available THEN [Now EXCEPT !.fenix.pendingPower = on]
  ELSE [fenix |-> [fenix EXCEPT !.pendingPower = None],
        cockpit |-> Written(cockpit, "power", on)]

PowerIsAsked ==
  \E on \in {"on", "off"} \ {cockpit.askedPower} :
    \E w \in {SetGroundPower(on)} :
      Carried([w EXCEPT !.cockpit.askedPower = on])

CloseAllDoors ==
  IF ~efb.available THEN [Now EXCEPT !.fenix.closeAllPending = TRUE]
  ELSE [fenix |-> [fenix EXCEPT !.closeAllPending = FALSE],
        cockpit |-> DoorCommanded(cockpit, FALSE)]

\* The doors follow GSX's vehicles only while the EFB answers, and once a door is
\* known to be where it was sent to.
DoorsFollowGsx(open) ==
  /\ efb.available /\ DoorPositionOf = (IF open THEN "closed" ELSE "open")
  /\ Carried([Now EXCEPT !.cockpit = DoorCommanded(cockpit, open)])

HoldDoorsClosed(hold) ==
  CloseTheBulkDoorWhenItReadsOpen([Now EXCEPT !.fenix.bulkArmed = hold])

OnLoadingStarted ==
  [Now EXCEPT !.fenix.finalAsked = FALSE, !.cockpit.finals = 0, !.cockpit.loading = "on"]

\* Seats and holds, and the final loadsheet once they are as planned.
MaybeRequestFinalLoadsheet(f, zfw) == ~f.finalAsked /\ zfw >= FullZfw

SetCurrentZfw(zfw) ==
  IF fenix.third \/ ~efb.available \/ zfw = fenix.lastZfw THEN Now
  ELSE LET isFinal == MaybeRequestFinalLoadsheet(fenix, zfw)
       IN  [fenix |-> [fenix EXCEPT !.lastZfw = zfw, !.finalAsked = @ \/ isFinal],
            cockpit |-> IF isFinal /\ cockpit.up
                        THEN [Written(cockpit, "seats", zfw) EXCEPT !.finals = @ + 1]
                        ELSE Written(cockpit, "seats", zfw)]

AsksOfTheDoors ==
  /\ efb.polling
  /\ \/ /\ efb.door \in {Unanswered, cockpit.reading}
        /\ Carried([CloseAllDoors EXCEPT !.cockpit.closing = TRUE])
     \/ ~cockpit.closing /\ \E open \in BOOLEAN : DoorsFollowGsx(open)
     \/ /\ efb.bulk \in {Unanswered, cockpit.bulk}
        /\ \E hold \in BOOLEAN : Carried([HoldDoorsClosed(hold) EXCEPT !.cockpit.held = hold])

AsksOfTheLoading ==
  /\ efb.polling
  /\ \/ PowerIsAsked
     \/ cockpit.loading # "on" /\ Carried(OnLoadingStarted)
     \/ /\ cockpit.loading = "on"
        /\ \E zfw \in cockpit.seats .. FullZfw : Carried(SetCurrentZfw(zfw))

\* A relaunch: what is saved of the loading stands (OnTurnaroundResumed).
NewFenix(boardingFinished) ==
  [third |-> FALSE, settling |-> 0, lastDoor |-> 0, pendingPower |-> None,
   closeAllPending |-> FALSE, bulkArmed |-> FALSE, initialized |-> FALSE,
   finalAsked |-> boardingFinished, lastZfw |-> Unanswered]

NewEfb ==
  [polling |-> FALSE, failures |-> 0, available |-> FALSE, settings |-> None,
   settingsIn |-> 0, major |-> 0, door |-> Unanswered, bulk |-> Unanswered]

Fault == cockpit.faults < MaxFaults
FaultOf(c) == [c EXCEPT !.faults = @ + 1]

\* A door on its way has arrived before a client is back, and what was asked of the
\* old one and still waits goes with it.
Relaunch ==
  /\ Fault /\ fenix.pendingPower = None /\ ~fenix.closeAllPending /\ ~fenix.bulkArmed
  /\ cockpit.shutsIn = 0
  /\ efb' = NewEfb
  /\ fenix' = NewFenix(cockpit.finals > 0)
  /\ cockpit' = FaultOf(cockpit)

-----------------------------------------------------------------------------
(***************************************************************************)
(* The EFB.  One that comes back has its own automation on again.          *)
(***************************************************************************)
OnPollFinished ==
  /\ efb.polling
  /\ \/ cockpit.up /\ efb' = Succeeded(efb) /\ UNCHANGED cockpit
     \/ ~cockpit.up /\ efb' = Failed(efb) /\ UNCHANGED cockpit
     \/ Fault /\ cockpit.up /\ efb' = Failed(efb) /\ cockpit' = FaultOf(cockpit)
  /\ UNCHANGED fenix

OnSettingsFinished ==
  /\ efb.settings = "asked"
  /\ efb' = [efb EXCEPT !.settings = None, !.major = IF cockpit.up THEN cockpit.major ELSE @]
  /\ UNCHANGED <<fenix, cockpit>>

EfbGoesAway ==
  /\ Fault /\ cockpit.up
  /\ cockpit' = [FaultOf(cockpit) EXCEPT !.up = FALSE]
  /\ UNCHANGED <<efb, fenix>>

\* It is away for long enough for the client to notice.
EfbComesBack ==
  /\ ~cockpit.up /\ ~efb.available
  /\ cockpit' = [cockpit EXCEPT !.up = TRUE, !.automation = TRUE]
  /\ UNCHANGED <<efb, fenix>>

PilotOpensTheBulkDoor ==
  /\ cockpit.bulk = 0 /\ ~fenix.bulkArmed /\ ~cockpit.held
  /\ cockpit' = [cockpit EXCEPT !.bulk = 1]
  /\ UNCHANGED <<efb, fenix>>

-----------------------------------------------------------------------------
Init ==
  /\ efb = NewEfb /\ fenix = NewFenix(FALSE)
  /\ cockpit \in [up : {TRUE}, power : {"off"}, askedPower : {"off"}, automation : {TRUE},
                  door : {"closed"}, reading : {0}, shutsIn : {0}, closing : {FALSE},
                  bulk : {0, 1}, held : {FALSE}, loading : {"off"}, seats : {0},
                  finals : {0}, major : {2, 3}, lost : {FALSE},
                  faults : {0}]

Anyway ==
  \/ Observe \/ Relaunch \/ OnPollFinished \/ OnSettingsFinished
  \/ EfbGoesAway \/ EfbComesBack

\* What is asked of the doors and of the loading is apart from each other.
DoorsNext == Anyway \/ AsksOfTheDoors \/ PilotOpensTheBulkDoor
LoadingNext == Anyway \/ AsksOfTheLoading

Next == DoorsNext \/ LoadingNext

Spec == Init /\ [][Next]_fenixVars

\* The client ticks, replies come, and an EFB that went away comes back.
Fairness ==
  /\ WF_fenixVars(Observe) /\ WF_fenixVars(OnPollFinished)
  /\ WF_fenixVars(OnSettingsFinished) /\ WF_fenixVars(EfbComesBack)

FairSpec == Spec /\ Fairness

-----------------------------------------------------------------------------
TypeOK ==
  /\ efb.failures \in 0 .. 2 /\ (efb.available => efb.failures < 2)
  /\ efb.settingsIn \in 0 .. SettingsEvery - 1
  /\ fenix.settling \in 0 .. SettleTicks
  /\ cockpit.shutsIn \in 0 .. SettleTicks
  /\ (cockpit.shutsIn > 0) = (cockpit.door = "closing")

(***************************************************************************)
(* A door whose reading has come to closed is not taken for shut while it  *)
(* still moves by whoever reads it in a tick, also when the readings stop  *)
(* for a while in between (AdvanceDoorSettle, DoorPositionOf).             *)
(***************************************************************************)
ClosedDoorsAreShut ==
  efb.polling /\ DoorPositionOf = "closed" => cockpit.door # "closing"

(***************************************************************************)
(* The final loadsheet of a loading is asked for once, with everyone on    *)
(* board, also when the client is started anew in between                  *)
(* (MaybeRequestFinalLoadsheet, OnTurnaroundResumed).                      *)
(***************************************************************************)
OneFinalLoadsheet ==
  /\ cockpit.finals <= 1
  /\ cockpit.finals = 1 => cockpit.seats = FullZfw

(***************************************************************************)
(* What is asked while the EFB is away is carried out on its return: the   *)
(* ground power as it was asked for last, the doors closed, the bulk door  *)
(* closed when the doors are held, and the EFB's own automation off again. *)
(* Writes into an EFB not yet known to be away are lost and excepted.      *)
(***************************************************************************)
AsAsked ==
  /\ cockpit.power = cockpit.askedPower
  /\ cockpit.closing => cockpit.door = "closed"
  /\ cockpit.held => cockpit.bulk = 0
  /\ ~cockpit.automation
Settled == AsAsked \/ cockpit.lost
EndsAsAsked == []<>Settled
=============================================================================
