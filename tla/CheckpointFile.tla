------------------------------ MODULE CheckpointFile ------------------------------
(***************************************************************************)
(* The file of the saved turnaround (JsonFileTurnaroundCheckpointStore):   *)
(* what is written of a document, and which files are read back.  A        *)
(* document is a function from its leaves to their values, and so is the   *)
(* JSON object; one leaf stands for all of its type and place.             *)
(***************************************************************************)
EXTENDS Integers

CONSTANTS
  Versions,  \* the versions of the client
  MaxFaults  \* bound on refused writes, damages and changes of the version

ASSUME FileConstants == MaxFaults \in Nat

VARIABLES
  file,     \* the file, and the directory it is in
  program,   \* the version of the client that runs
  written   \* history: the last document committed, and by which version

fileVars == <<file, program, written>>

Absent == "absent"
CheckpointLeaves == {"phase", "flag", "count", "stale", "ticks", "aircraftMemory"}
PlanLeaves == {"fuel", "unit"}
DocumentLeaves == {"key", "repositioned", "memory"}
Leaves == CheckpointLeaves \cup PlanLeaves \cup DocumentLeaves
Containers == {"checkpoint", "plan"}

\* ticks stands for the leaves that aren't classed Raw: they aren't written.
NotSaved == {"ticks"}
LeafType == [leaf \in Leaves |->
  CASE leaf \in {"key", "phase"} -> "string"
    [] leaf \in {"memory", "aircraftMemory"} -> "bag"
    [] leaf \in {"flag", "repositioned"} -> "bool"
    [] leaf \in {"count", "unit"} -> "whole"
    [] leaf = "stale" -> "optional"
    [] leaf = "fuel" -> "real"
    [] OTHER -> "none"]
Default == [leaf \in Leaves |->
  CASE leaf \in CheckpointLeaves \cup PlanLeaves -> Absent
    [] leaf = "key" -> "k" [] leaf = "memory" -> "empty" [] OTHER -> "false"]

\* What a leaf reads as when the file has the container and not the leaf.
DefaultInside == [leaf \in {"flag", "count", "unit", "ticks", "stale", "aircraftMemory"} |->
  CASE leaf = "flag" -> "false" [] leaf = "stale" -> "null" [] leaf = "aircraftMemory" -> "empty"
    [] OTHER -> "0"]

Resumable == {"Loading"}
KnownUnits == {"0", "1"}
NotFinite == "nan"

\* Documents the client may have to write: also of a phase that isn't resumed,
\* and with a number that isn't finite.
Checkpoints ==
  { [phase |-> phase, flag |-> "true", count |-> "5", stale |-> stale, ticks |-> "7",
     aircraftMemory |-> "held"] : phase \in {"Loading", "WaitingNewFlight"}, stale \in {"null", "3"} }
  \cup { [leaf \in CheckpointLeaves |-> Absent] }
Plans ==
  { [fuel |-> fuel, unit |-> unit] : fuel \in {"7500.5", NotFinite}, unit \in {"0", "9"} }
  \cup { [leaf \in PlanLeaves |-> Absent] }
WrittenDocuments ==
  { [leaf \in Leaves |->
       CASE leaf \in CheckpointLeaves -> checkpoint[leaf] [] leaf \in PlanLeaves -> plan[leaf]
         [] OTHER -> [Default EXCEPT !["repositioned"] = repositioned][leaf]] :
    checkpoint \in Checkpoints, plan \in Plans, repositioned \in {"true", "false"} }

HoldsCheckpoint(document) == document["phase"] # Absent
HoldsPlan(document) == document["fuel"] # Absent

-----------------------------------------------------------------------------
(***************************************************************************)
(* Encode and Decode.  A number that isn't finite becomes null in the      *)
(* text; a whole number is read only when it is whole and within the       *)
(* stored type.                                                            *)
(***************************************************************************)
Json(k, v) == [kind |-> k, value |-> v]
Undefined == Json("undefined", "none")
Null == Json("null", "none")

Encode(type, value) ==
  IF value = NotFinite \/ (type = "optional" /\ value = "null") THEN Null
  ELSE CASE type = "bool" -> Json("bool", value)
         [] type \in {"whole", "real", "optional"} -> Json("number", value)
         [] type = "bag" -> Json("array", value)
         [] OTHER -> Json("string", value)

Fraction == "1.5"
TooLarge == "1e300"
IsWhole(json) == json.kind = "number" /\ json.value \notin {Fraction, TooLarge}

Decodes(type, json) ==
  CASE type = "bool" -> json.kind = "bool"
    [] type = "whole" -> IsWhole(json)
    [] type = "real" -> json.kind = "number"
    [] type = "optional" -> json.kind = "null" \/ IsWhole(json)
    [] type = "bag" -> json.kind \in {"undefined", "null", "array"} /\ json.value # "broken"
    [] OTHER -> json.kind = "string"

Decoded(type, json) ==
  CASE type = "optional" /\ json.kind = "null" -> "null"
    [] type = "bag" /\ json.kind # "array" -> "empty"
    [] OTHER -> json.value

-----------------------------------------------------------------------------
(***************************************************************************)
(* DocumentToJson.  The stamp is the client's version and the number of     *)
(* its phases.                                                             *)
(***************************************************************************)
Stamp == {"clientVersion", "phaseCount"}
PhaseCountOf(version) == version

DocumentToJson(document, version) ==
  [at \in Leaves \cup Containers \cup Stamp |->
     CASE at = "clientVersion" -> Json("string", version)
       [] at = "phaseCount" -> Json("number", PhaseCountOf(version))
       [] at = "checkpoint" -> IF HoldsCheckpoint(document) THEN Json("object", "none") ELSE Undefined
       [] at = "plan" -> IF HoldsPlan(document) THEN Json("object", "none") ELSE Undefined
       [] at \in NotSaved -> Undefined
       [] at \in CheckpointLeaves /\ ~HoldsCheckpoint(document) -> Undefined
       [] at \in PlanLeaves /\ ~HoldsPlan(document) -> Undefined
       [] OTHER -> Encode(LeafType[at], document[at])]

(***************************************************************************)
(* The reader.  Leaves of the data and some of the plan may be missing;    *)
(* the key, the phase and the plan's weights may not.  An absent or null   *)
(* container is none.                                                      *)
(***************************************************************************)
IsAbsent(json) == json.kind \in {"undefined", "null"}
MayBeMissing == {"flag", "count", "stale", "unit", "repositioned"}

LeafDecodes(json, leaf) ==
  \/ leaf \in NotSaved
  \/ leaf \in MayBeMissing /\ json[leaf] = Undefined
  \/ Decodes(LeafType[leaf], json[leaf])

CheckpointFromJson(json) ==
  IsAbsent(json["checkpoint"]) \/
  /\ json["checkpoint"].kind = "object"
  /\ json["phase"].value \in Resumable
  /\ \A leaf \in CheckpointLeaves : LeafDecodes(json, leaf)

LeafRead(json, leaf) ==
  IF leaf \in NotSaved \/ json[leaf] = Undefined
    THEN IF leaf \in DOMAIN DefaultInside THEN DefaultInside[leaf] ELSE Default[leaf]
    ELSE Decoded(LeafType[leaf], json[leaf])

PlanFromJson(json) ==
  IsAbsent(json["plan"]) \/
  /\ json["plan"].kind = "object"
  /\ \A leaf \in PlanLeaves : LeafDecodes(json, leaf)
  /\ LeafRead(json, "unit") \in KnownUnits

IsAccepted(json, version) ==
  /\ json["clientVersion"] = Json("string", version)
  /\ json["phaseCount"] = Json("number", PhaseCountOf(version))
  /\ \A leaf \in DocumentLeaves : LeafDecodes(json, leaf)
  /\ CheckpointFromJson(json)
  /\ PlanFromJson(json)

DocumentFromJson(json) ==
  [leaf \in Leaves |->
     IF \/ leaf \in CheckpointLeaves /\ IsAbsent(json["checkpoint"])
        \/ leaf \in PlanLeaves /\ IsAbsent(json["plan"])
     THEN Absent ELSE LeafRead(json, leaf)]

\* Read: none without a file, and none from one that is refused.
CanBeRead == file.exists /\ file.readable /\ IsAccepted(file.json, program)
ReadDocument == DocumentFromJson(file.json)

-----------------------------------------------------------------------------
NoFile == [exists |-> FALSE, readable |-> TRUE, json |-> [at \in {} |-> Undefined], faults |-> 0]
Nothing == [document |-> Default, version |-> "none", kept |-> FALSE]

FileInit ==
  /\ file = NoFile
  /\ program \in Versions
  /\ written = Nothing

\* A document by its phase alone.
CanBeReadBackByItsPhase(document) ==
  HoldsCheckpoint(document) => document["phase"] \in Resumable

\* CanBeReadBack: a document the reader would refuse isn't written.
CanBeReadBack(document) ==
  /\ HoldsCheckpoint(document) => document["phase"] \in Resumable
  /\ HoldsPlan(document) => document["unit"] \in KnownUnits

\* Write replaces the file at once (QSaveFile), or leaves it as it was.
Write ==
  /\ \E document \in WrittenDocuments :
       /\ CanBeReadBack(document)
       /\ file' = [file EXCEPT !.exists = TRUE, !.readable = TRUE,
                               !.json = DocumentToJson(document, program)]
       /\ written' = [document |-> document, version |-> program, kept |-> TRUE]
  /\ UNCHANGED program

Fault == file.faults < MaxFaults
WriteFails ==
  /\ Fault
  /\ file' = [file EXCEPT !.faults = @ + 1]
  /\ UNCHANGED <<program, written>>

Erase ==
  /\ file.exists
  /\ file' = [file EXCEPT !.exists = FALSE]
  /\ written' = Nothing
  /\ UNCHANGED program

\* Another version is installed, which also may be an older one.
Replaced ==
  /\ Fault
  /\ program' \in Versions \ {program}
  /\ file' = [file EXCEPT !.faults = @ + 1]
  /\ UNCHANGED written

\* The file is edited or damaged: it can't be read at all (also one that is too
\* large or no object), or a value is another; once after it was written.
IsDamaged ==
  /\ Fault /\ file.exists /\ written.kept
  /\ \/ file' = [file EXCEPT !.readable = FALSE, !.faults = @ + 1]
     \/ \E at \in DOMAIN file.json,
           json \in {Undefined, Null, Json("string", "other"), Json("bool", "true"), Json("object", "none"),
                     Json("number", Fraction), Json("number", TooLarge), Json("number", "9"),
                     Json("array", "broken")} :
          file' = [file EXCEPT !.json[at] = json, !.faults = @ + 1]
  /\ written' = [written EXCEPT !.kept = FALSE]
  /\ UNCHANGED program

FileNext == Write \/ WriteFails \/ Erase \/ Replaced \/ IsDamaged

FileSpec == FileInit /\ [][FileNext]_fileVars

-----------------------------------------------------------------------------
FileTypeOK ==
  /\ file.exists \in BOOLEAN /\ file.readable \in BOOLEAN /\ file.faults \in 0 .. MaxFaults
  /\ program \in Versions /\ written.kept \in BOOLEAN
  /\ written.kept => file.exists /\ file.readable

(***************************************************************************)
(* What this version has written it reads back, and as it was but for the  *)
(* leaves that aren't saved; a number that isn't finite is the exception,  *)
(* and loses the document.                                                 *)
(***************************************************************************)
WhatIsWrittenIsReadBack ==
  written.kept /\ written.version = program =>
    IF written.document["fuel"] = NotFinite THEN ~CanBeRead
    ELSE /\ CanBeRead
         /\ ReadDocument = [leaf \in Leaves |->
                      IF leaf \in NotSaved /\ HoldsCheckpoint(written.document) THEN DefaultInside[leaf]
                      ELSE written.document[leaf]]

(***************************************************************************)
(* Whatever the file holds, what is read of it is a document: of a phase   *)
(* that is resumed, with values of their types, whole or not at all, and   *)
(* written by a client with the same phases.                               *)
(***************************************************************************)
OnlyDocumentsAreRead ==
  CanBeRead =>
    /\ HoldsCheckpoint(ReadDocument) =>
         ReadDocument["phase"] \in Resumable /\ \A leaf \in CheckpointLeaves : ReadDocument[leaf] # Absent
    /\ HoldsPlan(ReadDocument) => ReadDocument["unit"] \in KnownUnits /\ ReadDocument["fuel"] # NotFinite
    /\ \A leaf \in Leaves :
         /\ LeafType[leaf] = "bool" => ReadDocument[leaf] \in {"true", "false", Absent}
         /\ LeafType[leaf] \in {"whole", "optional"} => ReadDocument[leaf] \notin {Fraction, TooLarge, "true"}

(***************************************************************************)
(* What this version has written it reads back as it was, and of any other *)
(* file it reads a whole document or none.                                 *)
(***************************************************************************)
DocumentsAreReadBack == FileTypeOK /\ WhatIsWrittenIsReadBack /\ OnlyDocumentsAreRead
=============================================================================
