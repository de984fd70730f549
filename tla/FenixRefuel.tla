----------------------------- MODULE FenixRefuel -----------------------------
(***************************************************************************)
(* The third-party refuelling of the Fenix A32x, armed for GSX's truck as  *)
(* the loading starts and disarmed once GSX is done (FenixA32xDisarm-      *)
(* RefuelWhenDoneRule).  After a relaunch the rule takes the hose for      *)
(* armed, and tells that GSX is done also from the checkpoint, or from a   *)
(* service that has read callable for long enough.                         *)
(***************************************************************************)
EXTENDS Integers

CONSTANTS
  CallableTicks,  \* kConsecutiveCallableTicksBeforeTheRefuelCountsAsEnded
  MaxFaults       \* bound on relaunches of the client and on restarts of GSX

VARIABLES
  refuel,  \* the rule
  hose,    \* the aircraft's variable, and the readings received of it and of GSX
  truck    \* GSX's service, how long it waits to be asked, what the client saved

refuelVars == <<refuel, hose, truck>>

Inputs == {"hose", "service"}

-----------------------------------------------------------------------------
Sees(what) == what \in hose.received
ServiceReads(state) == Sees("service") /\ truck.service = state

GsxLeftTheFinishedServiceBehind(r) == ~r.gsxRestarted /\ r.callable >= CallableTicks

RefuelHasEnded(r) ==
  \/ ServiceReads("completed")
  \/ r.resumed /\ (r.finished \/ GsxLeftTheFinishedServiceBehind(r))

CountTheCallableReading(r) ==
  IF r.armed /\ r.resumed
  THEN [r EXCEPT !.callable =
          IF ~ServiceReads("callable") THEN 0
          ELSE IF r.callable < CallableTicks THEN r.callable + 1 ELSE r.callable]
  ELSE r

Left(r) == [r |-> r, armed |-> hose.armed]

\* A hose not read after a relaunch is waited for; one read as disarmed is left alone.
Disarm(r) ==
  IF ~r.armed \/ ~RefuelHasEnded(r) \/ (r.resumed /\ ~Sees("hose")) THEN Left(r)
  ELSE [r |-> [r EXCEPT !.armed = FALSE], armed |-> FALSE]

Acted(r) ==
  IF ~truck.loading
  THEN Left([r EXCEPT !.loadingSeen = FALSE, !.resumed = FALSE, !.callable = 0])
  ELSE IF ~r.loadingSeen
  THEN [r |-> [r EXCEPT !.loadingSeen = TRUE, !.armed = TRUE], armed |-> TRUE]
  ELSE Disarm(CountTheCallableReading(r))

\* The phase of the same tick notes a completed service, and saves that.
Act ==
  /\ hose.up
  /\ \E done \in {Acted(refuel)} :
       /\ refuel' = done.r
       /\ hose' = [hose EXCEPT !.armed = done.armed]
  /\ truck' = [truck EXCEPT
       !.finished = @ \/ ServiceReads("completed"),
       !.waited = IF truck.service = "callable" /\ truck.loading /\ @ < CallableTicks - 1
                  THEN @ + 1 ELSE @]

Receives ==
  /\ hose.up
  /\ \E what \in Inputs \ hose.received : hose' = [hose EXCEPT !.received = @ \cup {what}]
  /\ UNCHANGED <<refuel, truck>>

-----------------------------------------------------------------------------
NewRefuel ==
  [loadingSeen |-> FALSE, armed |-> FALSE, resumed |-> FALSE, finished |-> FALSE,
   gsxRestarted |-> FALSE, callable |-> 0]

\* Not in the second between the loading's start and the arming: the client that
\* follows would take the hose for armed.
ClientEnds ==
  /\ hose.up /\ truck.faults < MaxFaults /\ (truck.loading => refuel.loadingSeen)
  /\ hose' = [hose EXCEPT !.up = FALSE, !.received = {}]
  /\ truck' = [truck EXCEPT !.faults = @ + 1, !.restarted = FALSE]
  /\ UNCHANGED refuel

ResumeLoading ==
  [loadingSeen |-> TRUE, armed |-> TRUE, resumed |-> TRUE, finished |-> truck.finished,
   gsxRestarted |-> truck.restarted, callable |-> 0]

OnTurnaroundResumed ==
  /\ ~hose.up
  /\ refuel' = IF truck.loading THEN ResumeLoading ELSE NewRefuel
  /\ hose' = [hose EXCEPT !.up = TRUE]
  /\ UNCHANGED truck

-----------------------------------------------------------------------------
\* Told by the client (loadingStartNotified), until the turnaround is over.
LoadingStarts ==
  /\ hose.up /\ ~truck.loading /\ ~truck.finished /\ truck.service = "callable"
  /\ truck' = [truck EXCEPT !.loading = TRUE, !.waited = 0]
  /\ UNCHANGED <<refuel, hose>>

\* The client asks for the refuelling in the ticks after the loading started; of a
\* GSX that restarted the pilot does, at any time.
MustBeAsked ==
  /\ truck.waited = CallableTicks - 1 /\ truck.service = "callable"
  /\ ~truck.served /\ ~truck.restarted

ActInTime == Act /\ (hose.up => ~MustBeAsked)

\* Nobody asks a GSX that restarted while the client is away.
GsxRefuels ==
  /\ (truck.restarted => hose.up)
  /\ truck.loading /\ ~truck.served /\ truck.service = "callable" /\ hose.armed
  /\ truck' = [truck EXCEPT !.service = "active", !.served = TRUE]
  /\ UNCHANGED <<refuel, hose>>

GsxCompletes ==
  /\ truck.service = "active"
  /\ truck' = [truck EXCEPT !.service = "completed"]
  /\ UNCHANGED <<refuel, hose>>

\* GSX leaves the completed service behind, a while after the readings have arrived.
GsxLeavesItBehind ==
  /\ truck.service = "completed" /\ (hose.up => truck.finished /\ ~refuel.armed)
  /\ truck' = [truck EXCEPT !.service = "callable"]
  /\ UNCHANGED <<refuel, hose>>

\* A new GSX has served nothing; the refuelling that was under way is asked for again.
GsxRestarts ==
  /\ truck.faults < MaxFaults /\ ~hose.up
  /\ truck' = [truck EXCEPT !.service = "callable", !.restarted = TRUE, !.faults = @ + 1,
                            !.served = truck.finished, !.waited = 0]
  /\ UNCHANGED <<refuel, hose>>

TurnaroundIsOver ==
  /\ hose.up /\ truck.loading /\ truck.finished /\ ~refuel.armed
  /\ truck' = [truck EXCEPT !.loading = FALSE]
  /\ UNCHANGED <<refuel, hose>>

-----------------------------------------------------------------------------
Init ==
  /\ refuel = NewRefuel
  /\ hose = [armed |-> FALSE, received |-> Inputs, up |-> TRUE]
  /\ truck = [loading |-> FALSE, service |-> "callable", served |-> FALSE, waited |-> 0,
              finished |-> FALSE, restarted |-> FALSE, faults |-> 0]

Next ==
  \/ ActInTime \/ Receives \/ ClientEnds \/ OnTurnaroundResumed \/ LoadingStarts \/ GsxRefuels
  \/ GsxCompletes \/ GsxLeavesItBehind \/ GsxRestarts \/ TurnaroundIsOver

Spec == Init /\ [][Next]_refuelVars
FairSpec ==
  /\ Spec /\ WF_refuelVars(ActInTime) /\ WF_refuelVars(Receives)
  /\ WF_refuelVars(OnTurnaroundResumed) /\ WF_refuelVars(GsxRefuels)
  /\ WF_refuelVars(GsxCompletes)

-----------------------------------------------------------------------------
TypeOK ==
  /\ refuel.callable \in 0..CallableTicks
  /\ refuel.resumed => refuel.loadingSeen
  /\ hose.armed => truck.loading

(***************************************************************************)
(* The hose is taken from GSX's truck only once GSX is done, over          *)
(* relaunches in the middle of the refuelling and before it.  The test     *)
(* aResumeWithTheRefuelStillRunningNeverDisarmsTheHose has one of them.    *)
(***************************************************************************)
HoseIsNotTakenFromTheTruck ==
  [][hose.armed /\ ~hose'.armed => truck.served /\ truck.service # "active"]_refuelVars

(***************************************************************************)
(* The truck comes to refuel, and the hose does not stay armed behind it,  *)
(* also where GSX was done while the client was away.                      *)
(***************************************************************************)
HoseServesTheTruck ==
  /\ []<>(truck.loading => truck.served)
  /\ []<>(truck.served /\ truck.service # "active" => ~hose.armed)
=============================================================================
