---------------------------- MODULE MCPersistence ----------------------------
(***************************************************************************)
(* What the client keeps on disk, side by side: the saved turnaround, the  *)
(* file it is in, and the settings.  A behaviour is about one of them,     *)
(* chosen at the start; the others rest.                                   *)
(***************************************************************************)
EXTENDS TurnaroundResumption, CheckpointFile, SettingsDrafts, TLC

\* Two aircraft and two stands, which nothing tells apart but their difference.
Interchangeable == Permutations(Aircraft) \cup Permutations(Stands)

VARIABLE side

\* Every side starts as it does alone; those that rest, in one way only.
SavedInit ==
  /\ side \in {"turnaround", "file", "settings"}
  /\ Init /\ FileInit /\ SettingsInit
  /\ side # "turnaround" => ~autoStart
  /\ side # "file" => program = CHOOSE version \in Versions : TRUE
  /\ side # "settings" => disk = OlderFile(CHOOSE panel \in OldPanels : TRUE)

TurnaroundMoves(action) ==
  side = "turnaround" /\ action /\ UNCHANGED <<side, fileVars, settingsVars>>
FileMoves(action) == side = "file" /\ action /\ UNCHANGED <<side, vars, settingsVars>>
SettingsMove(action) == side = "settings" /\ action /\ UNCHANGED <<side, vars, fileVars>>

SavedNext == TurnaroundMoves(Next) \/ FileMoves(FileNext) \/ SettingsMove(SettingsNext)

\* A state is told by the side that moves: the others are as they started.
Moving ==
  CASE side = "turnaround" -> <<side, vars>>
    [] side = "file" -> <<side, fileVars>>
    [] side = "settings" -> <<side, settingsVars>>

SavedSpec == SavedInit /\ [][SavedNext]_<<side, vars, fileVars, settingsVars>>
=============================================================================
