------------------------ MODULE TurnaroundResumption ------------------------
(***************************************************************************)
(* What the client keeps on the disk of a turnaround, and how it takes it  *)
(* up again: TurnaroundResumption, the judgement of the keys, and the part *)
(* of IntegratorRuntime that drives them.  Everything runs on one thread,  *)
(* so an action is a whole handler; a handler is a composition of          *)
(* functions of the client, which is its memory and its file.              *)
(*                                                                         *)
(* The phases are grouped by what these components tell apart.  GSX, the   *)
(* aircraft, the disk and the pilot are the environment: every update sees *)
(* of the world what has arrived, which may be nothing, and the disk may   *)
(* refuse.                                                                 *)
(***************************************************************************)
EXTENDS Naturals

CONSTANTS
  Aircraft, Stands,     \* what a key is made of, with the runs of GSX
  Unknown,              \* a reading that has not arrived
  NoDocument,           \* no file, or an optional document that is empty
  MaxFlows,             \* bound: turnarounds started
  MaxCouatl,            \* bound: runs of GSX (couatl)
  MaxCrashes,           \* bound: ends of the client without a trace
  SnapshotsAreComplete  \* once it lists its services, GSX has told its run
                        \* and the stand

ASSUME ResumptionConstants ==
  /\ Unknown \notin Stands /\ Unknown \notin Nat
  /\ MaxFlows \in Nat /\ MaxCouatl \in Nat \ {0} /\ MaxCrashes \in Nat
  /\ SnapshotsAreComplete \in BOOLEAN

VARIABLES
  client,     \* the memory of the client, its file, and history
  live,       \* the aircraft, its stand and the run of GSX as they are
  autoStart,  \* settings.autoStartFlow
  crashes     \* ends of the client so far

vars == <<client, live, autoStart, crashes>>

(***************************************************************************)
(* Preparing: WaitingSupportedAircraft, WaitingAircraftReady.  AtTheStand: *)
(* RepositionAircraft up to RemoveGroundEquipment.  Pushing:               *)
(* RequestPushback up to WaitingForEngines.  Flying: WaitingDeparture up   *)
(* to WaitingEngineShutdown.  Arrived: up to CabinServices.  Over:         *)
(* WaitingNewFlight, which has no checkpoint.                              *)
(***************************************************************************)
Preparing  == 0
AtTheStand == 1
Pushing    == 2
Flying     == 3
Arrived    == 4
Over       == 5
Steps == Preparing .. Over
SavedSteps == AtTheStand .. Over

(***************************************************************************)
(* A document: its key, the checkpoint (the turnaround and the step it     *)
(* reached) and the mark that GSX repositioned the aircraft in this run.   *)
(***************************************************************************)
Couatls == 1 .. MaxCouatl
Flows == 1 .. MaxFlows
Documents ==
  [flow : Flows, step : SavedSteps, aircraft : Aircraft,
   stand : Stands \cup {Unknown}, couatl : Couatls, mark : BOOLEAN]

HasCheckpoint(document) == document.step # Over
HasAnythingToRead(document) == HasCheckpoint(document) \/ document.mark

-----------------------------------------------------------------------------
(***************************************************************************)
(* TurnaroundResumption: what a call does to the client.  `works' is       *)
(* whether the disk obeys during the call.                                 *)
(***************************************************************************)
IsHolding(c) == c.stage # "Idle"

ForgetKeepingTheStage(c) ==
  [c EXCEPT !.pending = NoDocument, !.couatlDiffers = FALSE,
            !.pilotResumed = FALSE]
Forget(c) ==
  [c EXCEPT !.pending = NoDocument, !.stage = "Idle",
            !.couatlDiffers = FALSE, !.pilotResumed = FALSE]

\* Erasing a file that is not there succeeds whatever the disk does.
CanErase(c, works) == works \/ c.disk = NoDocument
TryErase(c, works) ==
  [c EXCEPT !.disk = IF works THEN NoDocument ELSE @,
            !.discardPending = ~CanErase(c, works)]

\* History: the turnarounds that Discard was to end.
DiscardedNow(c) ==
  ({c.flow} \cup (IF c.disk = NoDocument THEN {} ELSE {c.disk.flow})) \ {0}

DiscardKeepingTheWritten(c, works) ==
  TryErase([Forget(c) EXCEPT !.discarded = @ \cup DiscardedNow(c)], works)
Discard(c, works) ==
  TryErase([Forget(c) EXCEPT !.lastWritten = NoDocument,
                             !.discarded = @ \cup DiscardedNow(c)], works)

DiscardIsNotRetried(c, works) == c
RetryPendingDiscard(c, works) ==
  IF c.discardPending THEN TryErase(c, works) ELSE c

Read(c, works) ==
  IF works /\ c.disk # NoDocument /\ HasAnythingToRead(c.disk)
  THEN c.disk
  ELSE NoDocument

LoadReading(c, works) ==
  LET document == Read(c, works) IN
    [Forget(c) EXCEPT
       !.pending = document,
       !.stage = IF document = NoDocument THEN "Idle" ELSE "Judging"]

Load(c, works) ==
  IF ~c.discardPending
  THEN LoadReading(c, works)
  ELSE IF CanErase(c, works)
       THEN [Forget(c) EXCEPT !.disk = NoDocument]
       ELSE Forget(c)

AnswerResume(c) ==
  IF c.stage = "Deciding"
  THEN [c EXCEPT !.stage = "Restoring", !.pilotResumed = TRUE]
  ELSE c

Settle(c) == Forget([c EXCEPT !.lastWritten = c.pending])

Save(c, document, works) ==
  IF c.lastWritten = document \/ ~works
  THEN c
  ELSE [Forget(c) EXCEPT !.disk = document, !.lastWritten = document,
                         !.discardPending = FALSE]

(***************************************************************************)
(* TurnaroundKeyJudgement::Judge.  An aircraft title and id that have not  *)
(* both arrived are an aircraft that is Unknown.                           *)
(***************************************************************************)
HasFlownSinceTheSave(document) == document.step = Flying

IsAnotherStandOnlyByItsAirport(document, seen) == FALSE
IsAnotherStand(document, seen) ==
  Unknown \notin {document.stand, seen.stand} /\ document.stand # seen.stand

IsStillWaitingForTheStand(document, seen) ==
  document.stand # Unknown /\ seen.stand = Unknown

IsDifferent(document, seen) ==
  \/ document.aircraft # seen.aircraft
  \/ ~HasFlownSinceTheSave(document) /\ IsAnotherStand(document, seen)

Verdict(document, seen) ==
  CASE seen.aircraft = Unknown -> "NotYetJudgeable"
    [] seen.aircraft # Unknown /\ IsDifferent(document, seen) -> "Different"
    [] OTHER ->
         IF \/ /\ ~HasFlownSinceTheSave(document)
               /\ IsStillWaitingForTheStand(document, seen)
            \/ seen.couatl = Unknown
         THEN "NotYetJudgeable"
         ELSE IF document.couatl = seen.couatl
              THEN "Same"
              ELSE "OnlyCouatlDiffers"

(***************************************************************************)
(* TurnaroundResumption::Judge.  The mark of a document without checkpoint *)
(* is released at once; a checkpoint waits for the pilot when GSX has run  *)
(* anew, unless the pilot has answered already.                            *)
(***************************************************************************)
Release(c, verdict) ==
  [Forget(c) EXCEPT !.mark = @ \/ verdict = "Same"]

EnterJudgedStage(c, couatlDiffers) ==
  [c EXCEPT !.couatlDiffers = couatlDiffers,
            !.stage = IF couatlDiffers THEN "Deciding" ELSE "Restoring"]

NoteCouatlChangedWhileRestoring(c) ==
  [c EXCEPT !.couatlDiffers = TRUE,
            !.stage = IF c.pilotResumed THEN @ ELSE "Deciding"]

JudgedCheckpoint(c, couatlDiffers) ==
  IF c.stage = "Judging" THEN EnterJudgedStage(c, couatlDiffers)
  ELSE IF c.stage = "Restoring" /\ couatlDiffers
       THEN NoteCouatlChangedWhileRestoring(c)
       ELSE c

Judge(c, seen) ==
  LET verdict == Verdict(c.pending, seen) IN
    CASE verdict = "NotYetJudgeable" -> c
      [] verdict = "Different" -> Discard(c, seen.works)
      [] verdict \in {"Same", "OnlyCouatlDiffers"} ->
           IF HasCheckpoint(c.pending)
           THEN JudgedCheckpoint(c, verdict = "OnlyCouatlDiffers")
           ELSE Release(c, verdict)

-----------------------------------------------------------------------------
(***************************************************************************)
(* IntegratorRuntime.                                                      *)
(***************************************************************************)
ClearFlightState(c) ==
  [Forget(c) EXCEPT !.enabled = FALSE, !.flow = 0, !.step = Preparing,
                    !.mark = FALSE, !.watched = Unknown]

MaybeAutoStart(c) == [c EXCEPT !.enabled = @ \/ autoStart]

RestartFlow(c, works) == MaybeAutoStart(ClearFlightState(Discard(c, works)))

OnFlightStart(c, works) ==
  MaybeAutoStart([Load(ClearFlightState(c), works) EXCEPT !.session = TRUE])

OnSessionEnd(c) == [ClearFlightState(c) EXCEPT !.session = FALSE]

(***************************************************************************)
(* RestoreSavedTurnaround: the machine stands where the checkpoint was     *)
(* taken.  What GSX did in another run of it is not taken up.              *)
(***************************************************************************)
RestoreSavedTurnaround(c) ==
  [Settle([c EXCEPT !.mark = @ \/ (c.pending.mark /\ ~c.couatlDiffers)])
     EXCEPT !.flow = c.pending.flow, !.step = c.pending.step,
            !.enabled = TRUE]

IsReadyToRestore(c, seen) == c.stage = "Restoring" /\ seen.ready

AdvanceResumption(c, seen) ==
  IF c.pending = NoDocument
  THEN c
  ELSE LET judged == Judge(c, seen) IN
         IF IsReadyToRestore(judged, seen)
         THEN RestoreSavedTurnaround(judged)
         ELSE judged

IsDrivingTheGsx(c, seen) == c.enabled /\ seen.gsx /\ ~IsHolding(c)

LiveDocument(c, seen) ==
  [flow |-> c.flow, step |-> c.step, aircraft |-> seen.aircraft,
   stand |-> seen.stand, couatl |-> seen.couatl, mark |-> c.mark]

SaveTurnaround(c, seen) ==
  IF /\ IsDrivingTheGsx(c, seen)
     /\ c.step \in SavedSteps
     /\ Unknown \notin {seen.aircraft, seen.couatl}
  THEN Save(c, LiveDocument(c, seen), seen.works)
  ELSE c

(***************************************************************************)
(* WatchTheStand: a turnaround at the stand starts over when the aircraft  *)
(* changes stands, and a finished one forgets that it repositioned.        *)
(***************************************************************************)
WatchTheStand(c, seen) ==
  LET underWay == IsDrivingTheGsx(c, seen) /\ c.step = AtTheStand
      finished == c.mark /\ c.step \in {Over, Preparing}
      watching == [c EXCEPT !.watched = seen.stand] IN
    CASE ~underWay /\ ~finished -> [c EXCEPT !.watched = Unknown]
      [] underWay \/ finished ->
           IF seen.stand = Unknown THEN c
           ELSE IF c.watched \in {Unknown, seen.stand} THEN watching
           ELSE IF underWay THEN RestartFlow(watching, seen.works)
           ELSE [watching EXCEPT !.mark = FALSE]

(***************************************************************************)
(* TurnaroundStateMachine::Tick, as far as it is saved: the phases follow  *)
(* each other, WaitingDeparture falls back to WaitingForEngines, any of    *)
(* those before the flight may turn out to be flying, and the end of a     *)
(* turnaround, which one tick reaches from CabinServices when the pilot    *)
(* touches, disables the automation unless it starts by itself.            *)
(***************************************************************************)
StepsOn ==
  {<<AtTheStand, Pushing>>, <<AtTheStand, Flying>>, <<Pushing, Flying>>,
   <<Flying, Pushing>>, <<Flying, Arrived>>, <<Arrived, Over>>}

Starts(c, next) ==
  [c EXCEPT !.flow = c.flows + 1, !.flows = @ + 1, !.step = next]

Ticks(c) ==
  {c}
  \cup {[c EXCEPT !.mark = TRUE] : step \in {c.step} \cap {AtTheStand}}
  \cup {[c EXCEPT !.step = next] :
          next \in {n \in Steps : <<c.step, n>> \in StepsOn}}
  \cup {Starts(c, next) :
          next \in {n \in {AtTheStand, Flying} :
                      c.step = Preparing /\ c.flows < MaxFlows}}
  \cup {[c EXCEPT !.step = Preparing, !.flow = 0, !.enabled = autoStart] :
          step \in {c.step} \cap {Arrived, Over}}

(***************************************************************************)
(* The update of every second.  It sees of the world what has arrived.     *)
(***************************************************************************)
Sights ==
  {seen \in [aircraft : {live.aircraft, Unknown},
             stand : {live.stand, Unknown},
             couatl : {live.couatl, Unknown},
             gsx : BOOLEAN,    \* gsxService_.IsAvailable()
             ready : BOOLEAN,  \* readingsArrived and aircraftReachable
             works : BOOLEAN] :
     seen.ready =>
       /\ seen.aircraft # Unknown
       /\ SnapshotsAreComplete => Unknown \notin {seen.stand, seen.couatl}}

Driven(c, seen) == {SaveTurnaround(ticked, seen) : ticked \in Ticks(c)}

UpdateSeeing(seen) ==
  LET settled == RetryPendingDiscard(client, seen.works)
      watched == WatchTheStand(settled, seen)
      drives == IsDrivingTheGsx(watched, seen) /\ seen.aircraft # Unknown
  IN \E driven \in IF drives THEN Driven(watched, seen) ELSE {watched} :
       client' = AdvanceResumption(driven, seen)

Update ==
  /\ client.session
  /\ \E seen \in Sights : UpdateSeeing(seen)
  /\ UNCHANGED <<live, autoStart, crashes>>

-----------------------------------------------------------------------------
(***************************************************************************)
(* The pilot, the simulator, and the end of the client.                    *)
(***************************************************************************)
Calls(handler) == client' = handler /\ UNCHANGED <<live, autoStart, crashes>>

StartSession ==
  /\ ~client.session
  /\ \E works \in BOOLEAN : Calls(OnFlightStart(client, works))

EndSession == client.session /\ Calls(OnSessionEnd(client))

PilotSetsAutomation ==
  \E enabled \in BOOLEAN : Calls([client EXCEPT !.enabled = enabled])

PilotResumes == client.stage = "Deciding" /\ Calls(AnswerResume(client))

PilotRestartsTheFlow ==
  \E works \in BOOLEAN : Calls(RestartFlow(client, works))

\* ReloadSimbrief saves the turnaround outside of an update; of the sights the
\* ones with which it has anything to save.
PilotReloadsTheFlightPlan ==
  /\ client.session /\ ~IsHolding(client)
  /\ \E seen \in {s \in Sights : IsDrivingTheGsx(client, s) /\ ~s.ready} :
       Calls(SaveTurnaround(client, seen))

PilotChangesTheSettings ==
  /\ autoStart' = ~autoStart
  /\ client' = [client EXCEPT !.enabled = @ \/ ~autoStart]
  /\ UNCHANGED <<live, crashes>>

\* Between sessions the pilot may take another aircraft.
TheAircraftChanges ==
  /\ \E aircraft \in IF client.session THEN {live.aircraft} ELSE Aircraft,
        stand \in Stands :
       live' = [live EXCEPT !.aircraft = aircraft, !.stand = stand]
  /\ UNCHANGED <<client, autoStart, crashes>>

CouatlRestarts ==
  /\ live.couatl < MaxCouatl
  /\ live' = [live EXCEPT !.couatl = @ + 1]
  /\ UNCHANGED <<client, autoStart, crashes>>

Started(disk, flows, discardedBefore) ==
  [session |-> FALSE, enabled |-> FALSE, stage |-> "Idle",
   pending |-> NoDocument, lastWritten |-> NoDocument,
   couatlDiffers |-> FALSE, pilotResumed |-> FALSE,
   discardPending |-> FALSE, flow |-> 0, step |-> Preparing, mark |-> FALSE,
   watched |-> Unknown, disk |-> disk, flows |-> flows, discarded |-> {},
   discardedBefore |-> discardedBefore]

Crash ==
  /\ crashes < MaxCrashes
  /\ crashes' = crashes + 1
  /\ client' = Started(client.disk, client.flows,
                       client.discardedBefore \cup client.discarded)
  /\ UNCHANGED <<live, autoStart>>

Init ==
  /\ client = Started(NoDocument, 0, {})
  /\ live \in [aircraft : Aircraft, stand : Stands, couatl : {1}]
  /\ autoStart \in BOOLEAN
  /\ crashes = 0

Next ==
  \/ Update
  \/ StartSession
  \/ EndSession
  \/ PilotSetsAutomation
  \/ PilotResumes
  \/ PilotRestartsTheFlow
  \/ PilotReloadsTheFlightPlan
  \/ PilotChangesTheSettings
  \/ TheAircraftChanges
  \/ CouatlRestarts
  \/ Crash

Spec == Init /\ [][Next]_vars

(***************************************************************************)
(* The timer updates every second.  Fairness asks of the world that again  *)
(* and again an update finds that all its readings have arrived and that   *)
(* the disk works.                                                         *)
(***************************************************************************)
UpdateSeeingEverything ==
  /\ client.session
  /\ \E seen \in Sights :
       /\ seen.ready /\ seen.works
       /\ Unknown \notin {seen.stand, seen.couatl}
       /\ UpdateSeeing(seen)
  /\ UNCHANGED <<live, autoStart, crashes>>

FairSpec == Spec /\ SF_vars(UpdateSeeingEverything)

-----------------------------------------------------------------------------
Clients ==
  [session : BOOLEAN, enabled : BOOLEAN,
   stage : {"Idle", "Judging", "Deciding", "Restoring"},
   pending : Documents \cup {NoDocument},
   lastWritten : Documents \cup {NoDocument},
   couatlDiffers : BOOLEAN, pilotResumed : BOOLEAN,
   discardPending : BOOLEAN, flow : Flows \cup {0}, step : Steps,
   mark : BOOLEAN, watched : Stands \cup {Unknown},
   disk : Documents \cup {NoDocument}, flows : Flows \cup {0},
   discarded : SUBSET Flows, discardedBefore : SUBSET Flows]

\* The types of the client's memory and of its file; a stage without a
\* document to judge, or a document no stage waits for, would hold for ever.
TypeOK ==
  /\ client \in Clients
  /\ live \in [aircraft : Aircraft, stand : Stands, couatl : Couatls]
  /\ autoStart \in BOOLEAN
  /\ crashes \in 0 .. MaxCrashes
  /\ IsHolding(client) <=> client.pending # NoDocument

(***************************************************************************)
(* While a saved turnaround is held (judged, decided on, or waiting for    *)
(* its readings), the machine does not move and nothing overwrites or      *)
(* erases the file: whatever the pilot, GSX and the disk do, a client that *)
(* dies in the hold finds the turnaround again.                            *)
(***************************************************************************)
HeldTurnaroundIsKept ==
  IsHolding(client) =>
    /\ client.disk = client.pending
    /\ client.step = Preparing
    /\ ~client.mark

(***************************************************************************)
(* Save writes nothing when the document is the one it wrote last.  That   *)
(* one is on the disk then, across discards that failed, resumed           *)
(* turnarounds and sessions: a save that is skipped is not lost.           *)
(***************************************************************************)
SkippedSavesAreOnTheDisk ==
  client.lastWritten # NoDocument => client.disk = client.lastWritten

\* The step that takes a saved turnaround up again.
Resumes ==
  /\ client.pending # NoDocument
  /\ HasCheckpoint(client.pending)
  /\ client'.step = client.pending.step

(***************************************************************************)
(* A turnaround is resumed with the aircraft it belongs to and, unless it  *)
(* was in flight, at its stand, although both may change while the client  *)
(* waits for the pilot's answer and for the readings.                      *)
(***************************************************************************)
ResumesOnlyWhatBelongsHere ==
  [][Resumes =>
       /\ client.pending.aircraft = live.aircraft
       /\ \/ HasFlownSinceTheSave(client.pending)
          \/ client.pending.stand \in {Unknown, live.stand}]_vars

(***************************************************************************)
(* The pilot is asked before a turnaround of another run of GSX is taken   *)
(* up, also when GSX starts anew while the readings are waited for (the    *)
(* test aCouatlThatRestartsWhileTheReadingsAreAwaitedAsksThePilot).        *)
(***************************************************************************)
AnotherGsxRunAsksThePilot ==
  [][Resumes =>
       client.pilotResumed \/ client.pending.couatl = live.couatl]_vars

(***************************************************************************)
(* That GSX repositioned the aircraft is known of the run of GSX that did  *)
(* it: a start of the client takes the mark over from the file only for    *)
(* the run that is live.                                                   *)
(***************************************************************************)
RepositionBelongsToTheGsxRun ==
  [][IsHolding(client) /\ client'.mark =>
       client.pending.mark /\ client.pending.couatl = live.couatl]_vars

(***************************************************************************)
(* A turnaround that was discarded is not resumed by this process, even    *)
(* when its file could not be deleted (the test                            *)
(* aDocumentWhoseErasureFailedIsNeverRestoredInThisProcess).               *)
(***************************************************************************)
DiscardedIsNotResumed ==
  [][Resumes => client.pending.flow \notin client.discarded]_vars

(***************************************************************************)
(* TurnaroundResumption.cpp, the warning of TryErase: a saved turnaround   *)
(* that could not be deleted "will not be restored".                       *)
(***************************************************************************)
DiscardedIsNeverRestored ==
  [][Resumes => client.pending.flow \notin client.discardedBefore]_vars

(***************************************************************************)
(* A hold that does not ask the pilot ends without him: the turnaround is  *)
(* resumed or discarded, or the pilot is asked.                            *)
(***************************************************************************)
HoldsEndWithoutThePilot ==
  []<>(client.stage \notin {"Judging", "Restoring"})

(***************************************************************************)
(* A file that could not be deleted is deleted (or written over) in the    *)
(* end, as the warning of TryErase says, while the session lasts.          *)
(***************************************************************************)
DiscardsAreDone ==
  []<>(client.session => ~client.discardPending)

(***************************************************************************)
(* The file is as the client takes it to be: what is held is on it, and so *)
(* is what it skips to write.                                              *)
(***************************************************************************)
FileIsAsRemembered == HeldTurnaroundIsKept /\ SkippedSavesAreOnTheDisk

(***************************************************************************)
(* What is resumed belongs to this aircraft and stand, to a turnaround     *)
(* that was not discarded, and to this run of GSX or the pilot was asked;  *)
(* it takes over no mark of another run.                                   *)
(***************************************************************************)
ResumesOnlyItsOwn ==
  /\ ResumesOnlyWhatBelongsHere
  /\ AnotherGsxRunAsksThePilot
  /\ DiscardedIsNotResumed
  /\ RepositionBelongsToTheGsxRun
=============================================================================
