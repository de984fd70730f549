-------------------------------- MODULE UpdateFlow --------------------------------
(***************************************************************************)
(* The update of the client (UpdateViewModel over GithubUpdateService): a  *)
(* check of the newest release, in the background or asked for, a download *)
(* that is verified and staged, and a helper that installs what is staged  *)
(* when the client ends.  Checks and downloads run side by side, fail at   *)
(* any step, and the pilot changes the mode and asks in between.           *)
(***************************************************************************)
EXTENDS Integers

CONSTANTS
  Newest,     \* the releases are 1 .. Newest; the installed one is 1
  MaxFailures \* bound on failed requests and steps

VARIABLES
  view,     \* the UpdateViewModel
  service,  \* the GithubUpdateService and what it has staged
  releases    \* the newest release, what is installed, what was asked for

updateVars == <<view, service, releases>>

NoVersion == 0
Modes == {"Manual", "Notify", "Auto"}
States == {"Idle", "Checking", "UpToDate", "UpdateAvailable", "Downloading", "ReadyToRestart", "Error"}
NewView(mode) ==
  [state |-> "Idle", mode |-> mode, known |-> FALSE, latest |-> NoVersion,
   explicit |-> FALSE, restarts |-> FALSE]
NewService ==
  [checks |-> FALSE, step |-> "idle", pending |-> NoVersion, staged |-> NoVersion,
   file |-> NoVersion, verified |-> FALSE, launched |-> FALSE]

HasStagedUpdate(s) == s.staged # NoVersion
Running == releases.runs = "client"
CanFail == releases.faults < MaxFailures
Failed == releases' = [releases EXCEPT !.faults = @ + 1]

-----------------------------------------------------------------------------
(***************************************************************************)
(* DiscardStaged and DownloadAndStage: a download under way goes on.       *)
(***************************************************************************)
DiscardStaged(s) == [s EXCEPT !.staged = NoVersion, !.file = NoVersion, !.verified = FALSE]
DownloadAndStage(s, version) ==
  IF s.step # "idle" THEN s
  ELSE [DiscardStaged(s) EXCEPT !.step = "sha", !.pending = version]

\* BeginDownload; only a download the pilot asked for restarts the client.
BeginDownload(v, restarts) == [v EXCEPT !.restarts = restarts, !.state = "Downloading"]

-----------------------------------------------------------------------------
(***************************************************************************)
(* Checks, of the timers (StartBackgroundCheck) and the pilot.             *)
(***************************************************************************)
StartBackgroundCheck ==
  /\ Running /\ view.mode # "Manual" /\ view.state \notin {"Checking", "Downloading"}
  /\ view' = [view EXCEPT !.explicit = FALSE]
  /\ service' = [service EXCEPT !.checks = TRUE]
  /\ UNCHANGED releases

CheckForUpdates ==
  /\ Running /\ view.state \notin {"Checking", "Downloading"}
  /\ view' = [view EXCEPT !.explicit = TRUE, !.state = "Checking"]
  /\ service' = [service EXCEPT !.checks = TRUE]
  /\ UNCHANGED releases

\* OnClientCheckHttpFinished and OnCheckFinished of a release that was read:
\* another version than the staged one discards it.
KeepsTheOlder(s, version) == s
DiscardedByTheCheck(s, version) ==
  IF HasStagedUpdate(s) /\ version # s.staged THEN DiscardStaged(s) ELSE s
IsNewer(version) == version > releases.installed
Noted(v) == [v EXCEPT !.explicit = FALSE, !.latest = releases.newest, !.known = IsNewer(releases.newest)]

CheckFinished ==
  /\ Running /\ service.checks
  /\ \E s \in {[DiscardedByTheCheck(service, releases.newest) EXCEPT !.checks = FALSE]} :
       \/ /\ HasStagedUpdate(s)
          /\ view' = [Noted(view) EXCEPT !.state = "ReadyToRestart"] /\ service' = s
       \/ /\ ~HasStagedUpdate(s) /\ ~IsNewer(releases.newest)
          /\ view' = [Noted(view) EXCEPT !.state = "UpToDate"] /\ service' = s
       \/ /\ ~HasStagedUpdate(s) /\ IsNewer(releases.newest) /\ view.mode = "Auto"
          /\ view' = BeginDownload(Noted(view), FALSE)
          /\ service' = DownloadAndStage(s, releases.newest)
       \/ /\ ~HasStagedUpdate(s) /\ IsNewer(releases.newest) /\ view.mode # "Auto"
          /\ view' = [Noted(view) EXCEPT !.state = "UpdateAvailable"] /\ service' = s
  /\ UNCHANGED releases

CheckFails ==
  /\ Running /\ service.checks /\ CanFail /\ Failed
  /\ service' = [service EXCEPT !.checks = FALSE]
  /\ view' = [view EXCEPT !.explicit = FALSE,
                          !.state = IF view.explicit THEN "Error"
                                    ELSE IF @ = "Checking" THEN "Idle" ELSE @]

-----------------------------------------------------------------------------
(***************************************************************************)
(* The pilot: downloadAndInstall, SetMode.                                 *)
(***************************************************************************)
DownloadAndInstall ==
  /\ Running /\ view.known /\ view.state \notin {"Downloading", "ReadyToRestart"}
  /\ view' = BeginDownload(view, view.mode # "Auto")
  /\ service' = DownloadAndStage(service, view.latest)
  /\ releases' = [releases EXCEPT !.asked = @ \/ view.mode # "Auto"]

SetMode ==
  /\ Running
  /\ \E mode \in Modes \ {view.mode} :
       IF mode = "Auto" /\ view.state = "UpdateAvailable"
       THEN /\ view' = [view EXCEPT !.mode = mode, !.restarts = FALSE, !.state = "Downloading"]
            /\ service' = DownloadAndStage(service, view.latest)
       ELSE /\ view' = [view EXCEPT !.mode = mode]
            /\ UNCHANGED service
  /\ UNCHANGED releases

-----------------------------------------------------------------------------
(***************************************************************************)
(* The steps of a download: the checksum's file, the package, the check of *)
(* its sum, the extraction.                                                *)
(***************************************************************************)
OnShaHttpFinished ==
  /\ Running /\ service.step = "sha"
  /\ service' = [service EXCEPT !.step = "package"]
  /\ UNCHANGED <<view, releases>>

\* A package that does not have the sum is removed.
OnZipHttpFinished ==
  /\ Running /\ service.step = "package"
  /\ service' = [service EXCEPT !.step = "extract", !.file = service.pending, !.verified = TRUE]
  /\ UNCHANGED <<view, releases>>

\* LaunchApplyHelper: once, and only of what is staged.
CanApply(s) == HasStagedUpdate(s) /\ s.file # NoVersion
LaunchApplyHelper(s) == [s EXCEPT !.launched = TRUE]

\* restartNow, when OnStageFinished calls it or the pilot does; the helper may
\* not start.
Restarts(s, v) ==
  \/ /\ CanApply(s)
     /\ view' = v /\ service' = LaunchApplyHelper(s)
     /\ releases' = [releases EXCEPT !.runs = "helper", !.relaunches = TRUE, !.asked = FALSE]
  \/ /\ ~CanApply(s) \/ CanFail
     /\ view' = [v EXCEPT !.state = "Error"] /\ service' = s
     /\ releases' = [releases EXCEPT !.asked = FALSE, !.faults = IF CanFail THEN @ + 1 ELSE @]

Staged(s) == [s EXCEPT !.step = "idle", !.staged = s.pending]

Drops(v) == [v EXCEPT !.restarts = FALSE]
OnExtractFinished ==
  /\ Running /\ service.step = "extract"
  /\ \E v \in {[Drops(view) EXCEPT !.state = "ReadyToRestart"]} :
       IF view.restarts THEN Restarts(Staged(service), v)
       ELSE /\ view' = v /\ service' = Staged(service)
            /\ releases' = [releases EXCEPT !.asked = FALSE]

\* Any of the steps may fail; what was asked for is then over.
GivesUp(s) == [s EXCEPT !.step = "idle", !.file = IF s.step = "extract" THEN @ ELSE NoVersion]
StageFails ==
  /\ Running /\ service.step # "idle" /\ CanFail
  /\ service' = GivesUp(service)
  /\ view' = [Drops(view) EXCEPT !.state = "Error"]
  /\ releases' = [releases EXCEPT !.faults = @ + 1, !.asked = FALSE]

RestartNow ==
  /\ Running /\ view.state = "ReadyToRestart"
  /\ Restarts(service, view)

-----------------------------------------------------------------------------
(***************************************************************************)
(* The end of the client (aboutToQuit, ShouldApplyOnExit), the helper,     *)
(* which is over before the client starts again, and the start, which      *)
(* discards what is staged.                                                *)
(***************************************************************************)
ShouldApplyOnExit == view.mode = "Auto" /\ HasStagedUpdate(service)

Quit ==
  /\ Running
  /\ IF ShouldApplyOnExit /\ CanApply(service)
     THEN /\ service' = LaunchApplyHelper(service)
          /\ releases' = [releases EXCEPT !.runs = "helper", !.relaunches = FALSE]
     ELSE UNCHANGED service /\ releases' = [releases EXCEPT !.runs = "nothing"]
  /\ UNCHANGED view

HelperInstalls ==
  /\ releases.runs = "helper"
  /\ \/ releases' = [releases EXCEPT !.installed = service.file,
                               !.wrong = @ \/ ~service.verified \/ service.file # service.staged,
                               !.runs = "nothing"]
     \/ CanFail /\ releases' = [releases EXCEPT !.faults = @ + 1, !.runs = "nothing"]
  /\ UNCHANGED <<view, service>>

Start ==
  /\ releases.runs = "nothing"
  /\ view' = NewView(view.mode) /\ service' = NewService
  /\ releases' = [releases EXCEPT !.runs = "client", !.asked = FALSE]

Publishes ==
  /\ releases.newest < Newest
  /\ releases' = [releases EXCEPT !.newest = @ + 1]
  /\ UNCHANGED <<view, service>>

UpdateInit ==
  /\ view \in {NewView(mode) : mode \in Modes}
  /\ service = NewService
  /\ releases = [newest |-> 1, installed |-> 1, runs |-> "client", relaunches |-> FALSE,
              asked |-> FALSE, wrong |-> FALSE, faults |-> 0]

UpdateNext ==
  \/ StartBackgroundCheck \/ CheckForUpdates \/ CheckFinished \/ CheckFails
  \/ DownloadAndInstall \/ SetMode \/ OnShaHttpFinished \/ OnZipHttpFinished
  \/ OnExtractFinished \/ StageFails \/ RestartNow
  \/ Quit \/ HelperInstalls \/ Start \/ Publishes

UpdateSpec == UpdateInit /\ [][UpdateNext]_updateVars

\* Requests and processes end; the transfers have a timeout.
UpdateFairness ==
  /\ WF_updateVars(CheckFinished \/ CheckFails)
  /\ WF_updateVars(OnShaHttpFinished) /\ WF_updateVars(OnZipHttpFinished)
  /\ WF_updateVars(OnExtractFinished) /\ WF_updateVars(HelperInstalls)

UpdateFairSpec == UpdateSpec /\ UpdateFairness

-----------------------------------------------------------------------------
(***************************************************************************)
(* Something is staged only when nothing is being downloaded, and a        *)
(* download is shown only while there is one.                              *)
(***************************************************************************)
UpdateTypeOK ==
  /\ view.state \in States
  /\ HasStagedUpdate(service) => service.step = "idle"
  /\ Running /\ view.state = "Downloading" => service.step # "idle"
  /\ Running /\ view.state = "ReadyToRestart" => HasStagedUpdate(service)

(***************************************************************************)
(* What is installed has been verified, and is the version it is taken     *)
(* for, whatever releases are published while it is downloaded.            *)
(***************************************************************************)
InstallsWhatWasVerified == ~releases.wrong

(***************************************************************************)
(* The client restarts by itself only when the pilot asked for the         *)
(* download that was staged: no automatic update ends a flight.            *)
(***************************************************************************)
RestartsOnlyWhenAsked ==
  [][ Running /\ releases'.runs = "helper" /\ releases'.relaunches =>
        releases.asked \/ view.state = "ReadyToRestart" ]_updateVars

(***************************************************************************)
(* An older staged update does not outlive a check that found a newer one. *)
(***************************************************************************)
ChecksDiscardTheOlder ==
  [][ service.checks /\ ~service'.checks /\ Running /\ ~(releases'.faults > releases.faults) =>
        service'.staged \in {NoVersion, releases.newest} ]_updateVars

(***************************************************************************)
(* Only what was verified is installed, no flight ends by an update that   *)
(* was not asked for, and what is older is discarded.                      *)
(***************************************************************************)
UpdatesAreSafe ==
  []InstallsWhatWasVerified /\ RestartsOnlyWhenAsked /\ ChecksDiscardTheOlder

(***************************************************************************)
(* The client never waits for a download that is over.                     *)
(***************************************************************************)
DownloadsEnd == []<>(view.state # "Downloading" \/ ~Running)
=============================================================================
