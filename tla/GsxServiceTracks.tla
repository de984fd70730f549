--------------------------- MODULE GsxServiceTracks ---------------------------
(***************************************************************************)
(* What GsxStateService makes of the readings of GSX's services: which of  *)
(* them have been completed, told from the ones that only went back to     *)
(* idle because couatl, the program behind GSX, died; over a relaunch of   *)
(* the client, and over a couatl that restarted in the meantime.  Also the *)
(* takeover of GSX's own loading, which couatl takes back when it starts.  *)
(***************************************************************************)
EXTENDS Integers

CONSTANTS
  Ordinary,          \* services that end in Completed, as boarding does
  WithoutCompleted,  \* services that go straight back to idle, as pushback does
  MaxTrackFaults     \* bound on deaths of couatl and relaunches of the client

Services == Ordinary \cup WithoutCompleted

VARIABLES
  tracks,   \* states_, and fuelAndPayloadTakenOver_
  readings, \* what GSX's variables read (environment)
  disk,     \* the memory in the checkpoint, whether couatl is the one of the
            \* save, and the runs that ended in the turnaround it is of
  past      \* history: the runs that ended by themselves, the ones the client
            \* watches, and the ones it has yet to notice

trackVars == <<tracks, readings, disk, past>>

Idle == {"Callable", "Bypassed"}
IsRequestedOrUnderway(status) == status \in {"Requested", "Active", "Completing"}

NoTrack ==
  [status |-> "Unavailable", completed |-> FALSE, died |-> FALSE, resumption |-> "None"]

-----------------------------------------------------------------------------
(***************************************************************************)
(* One reading of one service (StateTrack).                                *)
(***************************************************************************)
HadStarted(t) ==
  \/ t.status \in {"Active", "Completing"}
  \/ t.resumption # "None" /\ t.status = "Requested"

WasInterruptedByGsxRestart(t) ==
  t.resumption = "AfterGsxRestart" /\ IsRequestedOrUnderway(t.status)

ReturnedWhateverDied(t, s, reading) == reading \in Idle /\ HadStarted(t)
ReturnedToIdle(t, s, reading) ==
  /\ reading \in Idle
  /\ IF s \in WithoutCompleted
     THEN t.resumption = "None" /\ t.status = "Active"
     ELSE HadStarted(t) /\ ~t.died

Died(t, s, reading, down) ==
  IF down THEN TRUE
  ELSE IF reading = "Active" /\ t.status # "Active" THEN FALSE
  ELSE t.died \/ (s \in Ordinary /\ WasInterruptedByGsxRestart(t))

Observed(t, s, reading, down) ==
  LET died == Died(t, s, reading, down)
  IN  [status |-> reading, died |-> died, resumption |-> "None",
       completed |-> \/ t.completed \/ reading = "Completed"
                     \/ ReturnedToIdle([t EXCEPT !.died = died], s, reading)]

-----------------------------------------------------------------------------
(***************************************************************************)
(* The client.                                                             *)
(***************************************************************************)
\* The lowest reading of couatl's flag since the last look decides.
WasDown == readings.low

\* The runs whose beginning the client has seen.
WatchedBy(seen) ==
  {s \in Services : /\ seen[s].status = "Active" /\ ~WasDown
                    /\ tracks.of[s].status # "Active" \/ s \in past.watched}

\* Observe, and the save of the same tick, which may fail; ReassertTakeovers
\* looks at the flags on its own timer.
Observe(saved) ==
  /\ \E seen \in {[s \in Services |->
                     Observed(tracks.of[s], s, readings.of[s], WasDown)]} :
       /\ tracks' = [tracks EXCEPT !.of = seen]
       /\ disk' = IF saved THEN [of |-> seen, taken |-> tracks.taken, same |-> TRUE,
                                ended |-> past.ended]
                  ELSE disk
       /\ past' = [past EXCEPT !.due = {s \in @ : ~seen[s].completed},
                               !.watched = WatchedBy(seen)]
  /\ readings' = [readings EXCEPT !.low = ~readings.up]

TakeOverFuelAndPayload ==
  /\ ~tracks.taken
  /\ tracks' = [tracks EXCEPT !.taken = TRUE]
  /\ readings' = [readings EXCEPT !.raised = FALSE]
  /\ UNCHANGED <<disk, past>>

MayBeRaised == readings.raised
ReassertTakeovers ==
  /\ tracks.taken /\ MayBeRaised
  /\ readings' = [readings EXCEPT !.raised = FALSE]
  /\ UNCHANGED <<tracks, disk, past>>

\* In a tick that has looked, with the services of the turnaround over.
OnTurnaroundTurned ==
  /\ tracks' = [tracks EXCEPT !.of = [s \in Services |->
                  [@[s] EXCEPT !.completed = FALSE, !.died = FALSE]]]
  /\ \A s \in Services : tracks.of[s].completed /\ tracks.of[s].status \in Idle
  /\ \A s \in Services : tracks.of[s].status = readings.of[s]
  /\ past' = [past EXCEPT !.ended = {}, !.due = {}]
  /\ UNCHANGED <<readings, disk>>

Fault == past.faults < MaxTrackFaults

\* RestoreMemory, after a crash: couatl may have restarted since the save.
Restored(t) ==
  [t EXCEPT !.resumption = IF disk.same THEN "OnSameGsx" ELSE "AfterGsxRestart"]

ClientIsRelaunched ==
  /\ Fault
  /\ tracks' = [of |-> [s \in Services |-> Restored(disk.of[s])], taken |-> disk.taken]
  /\ past' = [past EXCEPT !.due = {}, !.watched = {}, !.ended = disk.ended, !.faults = @ + 1]
  /\ readings' = [readings EXCEPT !.low = ~readings.up]
  /\ UNCHANGED disk

-----------------------------------------------------------------------------
(***************************************************************************)
(* GSX: a service goes its way, one of the ordinary ones passing Completed *)
(* when it has the time, and couatl may die, with what it did lost, and be *)
(* started again.  A run that the client watches is due to be noticed.     *)
(***************************************************************************)
FollowsOn(s) ==
  [Unavailable |-> {"Callable"}, Callable |-> {"Requested"}, Bypassed |-> {},
   Requested |-> {"Active"}, Completed |-> {"Callable"},
   Completing |-> {"Completed", "Callable"},
   Active |-> IF s \in Ordinary THEN {"Completing", "Completed", "Callable"}
              ELSE {"Callable"}]

IsWatched(s) == s \in past.watched /\ ~readings.low

ServiceGoesOn(s) ==
  /\ readings.up
  /\ \E next \in FollowsOn(s)[readings.of[s]] :
       /\ readings' = [readings EXCEPT !.of[s] = next]
       /\ LET ends == readings.of[s] \in {"Active", "Completing"}
                      /\ next \in {"Completed", "Callable"}
              again == next \in {"Requested", "Active"}
          IN  /\ past' = [past EXCEPT
                !.ended = IF ends THEN @ \cup {s} ELSE @,
                !.due = IF ends /\ IsWatched(s) THEN @ \cup {s}
                        ELSE IF again THEN @ \ {s} ELSE @]
              /\ disk' = IF ends THEN [disk EXCEPT !.ended = @ \cup {s}] ELSE disk
  /\ UNCHANGED tracks

CouatlDies ==
  /\ Fault /\ readings.up
  /\ readings' = [readings EXCEPT !.up = FALSE, !.low = TRUE]
  /\ past' = [past EXCEPT !.due = {}, !.watched = {}, !.faults = @ + 1]
  /\ UNCHANGED <<tracks, disk>>

CouatlStarts ==
  /\ ~readings.up
  /\ readings' = [readings EXCEPT !.up = TRUE, !.raised = TRUE,
                                  !.of = [s \in Services |-> "Callable"]]
  /\ disk' = [disk EXCEPT !.same = FALSE]
  /\ UNCHANGED <<tracks, past>>

-----------------------------------------------------------------------------
TrackInit ==
  /\ tracks = [of |-> [s \in Services |-> NoTrack], taken |-> FALSE]
  /\ readings = [up |-> TRUE, low |-> FALSE, raised |-> TRUE,
                 of |-> [s \in Services |-> "Unavailable"]]
  /\ disk = [of |-> [s \in Services |-> NoTrack], taken |-> FALSE, same |-> TRUE,
             ended |-> {}]
  /\ past = [ended |-> {}, due |-> {}, watched |-> {}, faults |-> 0]

TrackNext ==
  \/ \E saved \in BOOLEAN : Observe(saved)
  \/ TakeOverFuelAndPayload
  \/ ReassertTakeovers
  \/ OnTurnaroundTurned
  \/ ClientIsRelaunched
  \/ \E s \in Services : ServiceGoesOn(s)
  \/ CouatlDies
  \/ CouatlStarts

TrackSpec == TrackInit /\ [][TrackNext]_trackVars

\* The runtime ticks, its slower timer looks at the flags, and couatl is
\* started again.
TrackFairness ==
  /\ WF_trackVars(Observe(TRUE)) /\ WF_trackVars(ReassertTakeovers)
  /\ WF_trackVars(CouatlStarts)

TrackFairSpec == TrackSpec /\ TrackFairness

-----------------------------------------------------------------------------
(***************************************************************************)
(* A run that couatl's death cut short is not taken for a completed one: a *)
(* service that reads Completed at its end is only completed when a run of *)
(* it has ended by itself since the turnaround turned, whatever the client *)
(* missed between two looks, and over relaunches (couatlDiedDuringRun).    *)
(***************************************************************************)
OnlyWhatEndedIsCompleted ==
  \A s \in Ordinary : tracks.of[s].completed => s \in past.ended

(***************************************************************************)
(* A run that ends while the client watches it is noticed, also when GSX   *)
(* went past Completed between two looks, unless it is started once more,  *)
(* couatl dies or the client is relaunched before the next look.           *)
(***************************************************************************)
NoneIsDue == \A s \in past.due : tracks.of[s].completed

(***************************************************************************)
(* Once the client has taken the loading over, it does not stay with GSX:  *)
(* a couatl that starts again and takes it back gives it up again.         *)
(***************************************************************************)
IsReasserted == tracks.taken => ~readings.raised
=============================================================================
