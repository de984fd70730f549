--------------------------- MODULE Persistence_proof ---------------------------
(***************************************************************************)
(* Proofs about what the client keeps on disk.  First, what it keeps of a  *)
(* turnaround: a handler is a composition of functions of the client, so   *)
(* the inductive invariant is a predicate of a client, and every function  *)
(* has a lemma that says what it keeps of it.  Then the file the document  *)
(* is in, and then the settings.                                           *)
(***************************************************************************)
EXTENDS TurnaroundResumption, CheckpointFile, SettingsDrafts, TLAPS

(***************************************************************************)
(* What is held is on the disk and worth reading, is not about to be       *)
(* erased, and nothing has moved since the session started.                *)
(***************************************************************************)
KeepsTheHeld(c) ==
  /\ IsHolding(c) <=> c.pending # NoDocument
  /\ IsHolding(c) => /\ c.disk = c.pending
                     /\ c.discardPending = FALSE
                     /\ c.step = Preparing
                     /\ c.mark = FALSE
                     /\ HasAnythingToRead(c.pending)

(***************************************************************************)
(* What was written last is on the disk; what is discarded and still on    *)
(* the disk is waited for; and a new turnaround is none of those that are  *)
(* on the disk or were discarded, because they were counted.               *)
(***************************************************************************)
KnowsTheFile(c) ==
  /\ c.lastWritten # NoDocument => c.disk = c.lastWritten
  /\ c.discardPending => c.lastWritten = NoDocument
  /\ c.disk # NoDocument /\ c.disk.flow \in c.discarded => c.discardPending
  /\ c.disk # NoDocument => c.disk.flow <= c.flows
  /\ c.discarded \subseteq 1 .. c.flows

\* A turnaround that is under way has been started and not been discarded.
RunsItsOwnFlow(c) ==
  /\ c.step = Preparing <=> c.flow = 0
  /\ c.flow <= c.flows
  /\ c.flow \notin c.discarded

Good(c) ==
  /\ c \in Clients
  /\ KeepsTheHeld(c)
  /\ KnowsTheFile(c)
  /\ RunsItsOwnFlow(c)

IInv == TypeOK /\ Good(client)
-----------------------------------------------------------------------------
(***************************************************************************)
(* What the calls of TurnaroundResumption keep.                            *)
(***************************************************************************)
LEMMA ForgetType ==
  ASSUME NEW c \in Clients
  PROVE  Forget(c) \in Clients
BY DEF Forget, Clients

LEMMA ForgetKeeps ==
  ASSUME NEW c, Good(c)
  PROVE  Good(Forget(c))
<1>1. Forget(c) \in Clients
  BY ForgetType DEF Good
<1> QED
  BY <1>1 DEF Good, Forget, Clients, KeepsTheHeld, KnowsTheFile,
       RunsItsOwnFlow, IsHolding

LEMMA TryEraseType ==
  ASSUME NEW c \in Clients, NEW works \in BOOLEAN
  PROVE  TryErase(c, works) \in Clients
<1>1. CanErase(c, works) \in BOOLEAN
  BY DEF CanErase
<1>2. \A document \in Documents \cup {NoDocument}, pends \in BOOLEAN :
        [c EXCEPT !.disk = document, !.discardPending = pends] \in Clients
  BY DEF Clients
<1>3. (IF works THEN NoDocument ELSE c.disk) \in Documents \cup {NoDocument}
  BY DEF Clients
<1> QED
  BY <1>1, <1>2, <1>3, Zenon DEF TryErase

LEMMA RetryKeeps ==
  ASSUME NEW c, Good(c), NEW works \in BOOLEAN
  PROVE  Good(RetryPendingDiscard(c, works))
<1>1. CASE ~c.discardPending
  BY <1>1 DEF RetryPendingDiscard
<1>2. CASE c.discardPending
  <2>1. TryErase(c, works) \in Clients
    BY TryEraseType DEF Good
  <2>2. Good(TryErase(c, works))
    BY <1>2, <2>1 DEF Good, TryErase, CanErase, Clients, KeepsTheHeld,
         KnowsTheFile, RunsItsOwnFlow, IsHolding
  <2> QED
    BY <1>2, <2>2 DEF RetryPendingDiscard
<1> QED
  BY <1>1, <1>2

(***************************************************************************)
(* A discard knows its file whenever it is called.  A client that has no   *)
(* turnaround under way has discarded none of its own.                     *)
(***************************************************************************)
LEMMA DiscardType ==
  ASSUME NEW c \in Clients, NEW works \in BOOLEAN
  PROVE  Discard(c, works) \in Clients
<1>1. DiscardedNow(c) \subseteq Flows
  BY DEF DiscardedNow, Clients, Documents
<1>2. \A d \in Clients, ended \in SUBSET Flows :
        [d EXCEPT !.lastWritten = NoDocument,
                  !.discarded = @ \cup ended] \in Clients
  BY DEF Clients
<1> QED
  BY <1>1, <1>2, ForgetType, TryEraseType, Zenon DEF Discard

LEMMA DiscardFields ==
  ASSUME NEW c \in Clients, NEW works \in BOOLEAN, NEW d,
         d = Discard(c, works)
  PROVE  /\ d.pending = NoDocument /\ d.stage = "Idle"
         /\ d.lastWritten = NoDocument
         /\ d.disk = IF works THEN NoDocument ELSE c.disk
         /\ d.discardPending <=> ~(works \/ c.disk = NoDocument)
         /\ d.discarded = c.discarded \cup DiscardedNow(c)
         /\ d.step = c.step /\ d.flow = c.flow /\ d.mark = c.mark
         /\ d.flows = c.flows
BY DEF Discard, TryErase, CanErase, Forget, Clients

LEMMA DiscardKnowsTheFile ==
  ASSUME NEW c \in Clients, KnowsTheFile(c), c.flow <= c.flows,
         NEW works \in BOOLEAN, NEW d, d = Discard(c, works)
  PROVE  KnowsTheFile(d)
<1>1. /\ d.lastWritten = NoDocument
      /\ d.disk = IF works THEN NoDocument ELSE c.disk
      /\ d.discardPending <=> ~(works \/ c.disk = NoDocument)
      /\ d.discarded = c.discarded \cup DiscardedNow(c)
      /\ d.flows = c.flows
  BY DiscardFields
<1>2. d.discarded \subseteq 1 .. d.flows
  BY <1>1 DEF KnowsTheFile, DiscardedNow, Clients, Documents, Flows
<1> QED
  BY <1>1, <1>2 DEF KnowsTheFile

LEMMA DiscardKeeps ==
  ASSUME NEW c, Good(c), c.step = Preparing, NEW works \in BOOLEAN,
         NEW d, d = Discard(c, works)
  PROVE  Good(d)
<1>1. c \in Clients /\ c.flow = 0 /\ c.flow <= c.flows
  BY DEF Good, RunsItsOwnFlow
<1>2. d \in Clients /\ KnowsTheFile(d)
  BY <1>1, DiscardType, DiscardKnowsTheFile DEF Good
<1>3. /\ d.pending = NoDocument /\ d.stage = "Idle"
      /\ d.discarded = c.discarded \cup DiscardedNow(c)
      /\ d.step = c.step /\ d.flow = c.flow /\ d.flows = c.flows
  BY <1>1, DiscardFields
<1>4. KeepsTheHeld(d)
  BY <1>3 DEF KeepsTheHeld, IsHolding
<1>5. RunsItsOwnFlow(d)
  BY <1>1, <1>3 DEF Good, RunsItsOwnFlow, DiscardedNow
<1> QED
  BY <1>2, <1>4, <1>5 DEF Good

LEMMA SaveKeeps ==
  ASSUME NEW c, Good(c), NEW document \in Documents,
         document.flow = c.flow, NEW works \in BOOLEAN
  PROVE  Good(Save(c, document, works))
<1>1. CASE c.lastWritten = document \/ ~works
  BY <1>1 DEF Save
<1>2. CASE ~(c.lastWritten = document \/ ~works)
  <2> DEFINE d == [Forget(c) EXCEPT !.disk = document,
                                    !.lastWritten = document,
                                    !.discardPending = FALSE]
  <2>1. d \in Clients
    BY DEF Good, Forget, Clients
  <2>2. Good(d)
    BY <2>1 DEF Good, Forget, Clients, KeepsTheHeld, KnowsTheFile,
         RunsItsOwnFlow, IsHolding
  <2> QED
    BY <1>2, <2>2 DEF Save
<1> QED
  BY <1>1, <1>2

LEMMA LoadKeeps ==
  ASSUME NEW c, Good(c), c.step = Preparing, c.mark = FALSE,
         NEW works \in BOOLEAN
  PROVE  Good(Load(c, works))
<1>1. CASE ~c.discardPending
  <2>1. /\ Read(c, works) \in {c.disk, NoDocument}
        /\ Read(c, works) # NoDocument => HasAnythingToRead(Read(c, works))
    BY DEF Read
  <2>2. LoadReading(c, works) \in Clients
    <3>1. \A d \in Clients, document \in Documents \cup {NoDocument},
              stage \in {"Idle", "Judging"} :
            [d EXCEPT !.pending = document, !.stage = stage] \in Clients
      BY DEF Clients
    <3>2. Read(c, works) \in Documents \cup {NoDocument}
      BY <2>1 DEF Good, Clients
    <3> QED
      BY <3>1, <3>2, ForgetType, Zenon DEF LoadReading, Good
  <2>3. Good(LoadReading(c, works))
    BY <1>1, <2>1, <2>2 DEF Good, LoadReading, Forget, Clients, KeepsTheHeld,
         KnowsTheFile, RunsItsOwnFlow, IsHolding
  <2> QED
    BY <1>1, <2>3 DEF Load
<1>2. CASE c.discardPending
  <2> DEFINE d == [Forget(c) EXCEPT !.disk = NoDocument]
  <2>1. d \in Clients
    BY DEF Good, Forget, Clients
  <2>2. Good(d)
    BY <1>2, <2>1 DEF Good, Forget, Clients, KeepsTheHeld, KnowsTheFile,
         RunsItsOwnFlow, IsHolding
  <2> QED
    BY <1>2, <2>2, ForgetKeeps DEF Load
<1> QED
  BY <1>1, <1>2
-----------------------------------------------------------------------------
(***************************************************************************)
(* What the handlers of IntegratorRuntime keep.                            *)
(***************************************************************************)
LEMMA EnabledKeeps ==
  ASSUME NEW c, Good(c), NEW enabled \in BOOLEAN
  PROVE  Good([c EXCEPT !.enabled = enabled])
<1>1. [c EXCEPT !.enabled = enabled] \in Clients
  BY DEF Good, Clients
<1> QED
  BY <1>1 DEF Good, Clients, KeepsTheHeld, KnowsTheFile, RunsItsOwnFlow,
       IsHolding

LEMMA ClearKeeps ==
  ASSUME NEW c \in Clients, KnowsTheFile(c), NEW d, d = ClearFlightState(c)
  PROVE  Good(d) /\ d.step = Preparing /\ d.mark = FALSE
<1>1. d \in Clients
  <2>1. Preparing \in Steps
    BY DEF Steps, Preparing, Over
  <2>2. Forget(c) \in Clients
    BY ForgetType
  <2> DEFINE e == Forget(c)
  <2>3. e \in Clients
    BY <2>2
  <2> HIDE DEF e
  <2>4. [e EXCEPT !.enabled = FALSE, !.flow = 0, !.step = Preparing,
                  !.mark = FALSE, !.watched = Unknown] \in Clients
    BY <2>1, <2>3 DEF Clients
  <2> QED
    BY <2>4 DEF ClearFlightState, e
<1>2. /\ d.pending = NoDocument /\ d.stage = "Idle" /\ d.flow = 0
      /\ d.step = Preparing /\ d.mark = FALSE /\ d.disk = c.disk
      /\ d.lastWritten = c.lastWritten /\ d.flows = c.flows
      /\ d.discarded = c.discarded /\ d.discardPending = c.discardPending
  BY DEF ClearFlightState, Forget, Clients
<1>3. KeepsTheHeld(d) /\ KnowsTheFile(d)
  BY <1>2 DEF KeepsTheHeld, KnowsTheFile, IsHolding
<1>4. RunsItsOwnFlow(d)
  BY <1>1, <1>2 DEF RunsItsOwnFlow, KnowsTheFile, Clients, Flows
<1> QED
  BY <1>1, <1>2, <1>3, <1>4 DEF Good

LEMMA RestartFlowKeeps ==
  ASSUME NEW c \in Clients, KnowsTheFile(c), c.flow <= c.flows,
         NEW works \in BOOLEAN, autoStart \in BOOLEAN
  PROVE  Good(RestartFlow(c, works))
<1>1. Discard(c, works) \in Clients /\ KnowsTheFile(Discard(c, works))
  BY DiscardType, DiscardKnowsTheFile
<1>2. Good(ClearFlightState(Discard(c, works)))
  BY <1>1, ClearKeeps
<1>3. \A d : Good(d) => d.enabled \in BOOLEAN
  BY DEF Good, Clients
<1> QED
  BY <1>2, <1>3, EnabledKeeps DEF RestartFlow, MaybeAutoStart

LEMMA MaybeAutoStartKeeps ==
  ASSUME NEW c, Good(c), autoStart \in BOOLEAN
  PROVE  Good(MaybeAutoStart(c))
<1>1. (c.enabled \/ autoStart) \in BOOLEAN
  OBVIOUS
<1> QED
  BY <1>1, EnabledKeeps DEF MaybeAutoStart

LEMMA SessionKeeps ==
  ASSUME NEW c, Good(c), NEW session \in BOOLEAN
  PROVE  Good([c EXCEPT !.session = session])
<1>1. [c EXCEPT !.session = session] \in Clients
  BY DEF Good, Clients
<1> QED
  BY <1>1 DEF Good, Clients, KeepsTheHeld, KnowsTheFile, RunsItsOwnFlow,
       IsHolding

LEMMA OnFlightStartKeeps ==
  ASSUME NEW c, Good(c), NEW works \in BOOLEAN, autoStart \in BOOLEAN
  PROVE  Good(OnFlightStart(c, works))
<1> DEFINE d == ClearFlightState(c)
<1>1. Good(d) /\ d.step = Preparing /\ d.mark = FALSE
  BY ClearKeeps DEF Good
<1>2. Good(Load(d, works))
  BY <1>1, LoadKeeps
<1>3. Good([Load(d, works) EXCEPT !.session = TRUE])
  BY <1>2, SessionKeeps
<1> QED
  BY <1>3, MaybeAutoStartKeeps DEF OnFlightStart

LEMMA OnSessionEndKeeps ==
  ASSUME NEW c, Good(c)
  PROVE  Good(OnSessionEnd(c))
<1>1. Good(ClearFlightState(c))
  BY ClearKeeps DEF Good
<1> QED
  BY <1>1, SessionKeeps DEF OnSessionEnd

LEMMA AnswerResumeKeeps ==
  ASSUME NEW c, Good(c), c.stage = "Deciding"
  PROVE  Good(AnswerResume(c))
<1> DEFINE d == [c EXCEPT !.stage = "Restoring", !.pilotResumed = TRUE]
<1>1. d \in Clients
  BY DEF Good, Clients
<1>2. Good(d)
  BY <1>1 DEF Good, Clients, KeepsTheHeld, KnowsTheFile, RunsItsOwnFlow,
       IsHolding
<1> QED
  BY <1>2 DEF AnswerResume

(***************************************************************************)
(* A judged turnaround is discarded, released, or held on in a stage that  *)
(* may be another.                                                         *)
(***************************************************************************)
LEMMA MarkKeeps ==
  ASSUME NEW c, Good(c), c.pending = NoDocument, NEW mark \in BOOLEAN
  PROVE  Good([c EXCEPT !.mark = mark])
<1>1. [c EXCEPT !.mark = mark] \in Clients
  BY DEF Good, Clients
<1> QED
  BY <1>1 DEF Good, Clients, KeepsTheHeld, KnowsTheFile, RunsItsOwnFlow,
       IsHolding

LEMMA ReleaseKeeps ==
  ASSUME NEW c, Good(c), NEW verdict
  PROVE  Good(Release(c, verdict))
<1> DEFINE f == Forget(c)
           mark == f.mark \/ verdict = "Same"
<1>1. Good(f)
  BY ForgetKeeps
<1>2. f.pending = NoDocument
  BY DEF Forget, Good, Clients
<1>3. mark \in BOOLEAN
  OBVIOUS
<1>4. Release(c, verdict) = [f EXCEPT !.mark = mark]
  BY DEF Release
<1> HIDE DEF f, mark
<1> QED
  BY <1>1, <1>2, <1>3, <1>4, MarkKeeps

LEMMA StageKeeps ==
  ASSUME NEW c, Good(c), IsHolding(c), NEW couatlDiffers \in BOOLEAN,
         NEW stage \in {"Deciding", "Restoring"}
  PROVE  Good([c EXCEPT !.couatlDiffers = couatlDiffers, !.stage = stage])
<1> DEFINE d == [c EXCEPT !.couatlDiffers = couatlDiffers, !.stage = stage]
<1>1. d \in Clients
  BY DEF Good, Clients
<1> QED
  BY <1>1 DEF Good, Clients, KeepsTheHeld, KnowsTheFile, RunsItsOwnFlow,
       IsHolding

LEMMA JudgedCheckpointKeeps ==
  ASSUME NEW c, Good(c), IsHolding(c), NEW couatlDiffers \in BOOLEAN
  PROVE  Good(JudgedCheckpoint(c, couatlDiffers))
<1>1. CASE c.stage = "Judging"
  BY <1>1, StageKeeps DEF JudgedCheckpoint, EnterJudgedStage
<1>2. CASE c.stage = "Restoring" /\ couatlDiffers
  BY <1>2, StageKeeps DEF JudgedCheckpoint, NoteCouatlChangedWhileRestoring
<1>3. CASE c.stage # "Judging" /\ ~(c.stage = "Restoring" /\ couatlDiffers)
  BY <1>3 DEF JudgedCheckpoint
<1> QED
  BY <1>1, <1>2, <1>3

LEMMA JudgeKeeps ==
  ASSUME NEW c, Good(c), c.pending # NoDocument, NEW seen,
         seen.works \in BOOLEAN
  PROVE  Good(Judge(c, seen))
<1> DEFINE verdict == Verdict(c.pending, seen)
<1>1. IsHolding(c) /\ c.step = Preparing
  BY DEF Good, KeepsTheHeld
<1>2. verdict \in {"NotYetJudgeable", "Different", "Same", "OnlyCouatlDiffers"}
  BY DEF Verdict
<1> HIDE DEF verdict
<1>3. CASE verdict = "NotYetJudgeable"
  BY <1>3 DEF Judge, verdict
<1>4. CASE verdict = "Different"
  <2>1. Judge(c, seen) = Discard(c, seen.works)
    BY <1>4 DEF Judge, verdict
  <2> QED
    BY <1>1, <2>1, DiscardKeeps
<1>5. CASE verdict \in {"Same", "OnlyCouatlDiffers"}
  <2>1. Judge(c, seen) = IF HasCheckpoint(c.pending)
                         THEN JudgedCheckpoint(c, verdict = "OnlyCouatlDiffers")
                         ELSE Release(c, verdict)
    BY <1>5 DEF Judge, verdict
  <2>2. (verdict = "OnlyCouatlDiffers") \in BOOLEAN
    OBVIOUS
  <2> QED
    BY <1>1, <2>1, <2>2, JudgedCheckpointKeeps, ReleaseKeeps
<1> QED
  BY <1>2, <1>3, <1>4, <1>5

(***************************************************************************)
(* What is restored is what is on the disk, and counts as written.         *)
(***************************************************************************)
LEMMA RestoreKeeps ==
  ASSUME NEW c, Good(c), c.pending # NoDocument
  PROVE  Good(RestoreSavedTurnaround(c))
<1> DEFINE mark == c.mark \/ (c.pending.mark /\ ~c.couatlDiffers)
           d == [c EXCEPT !.mark = mark]
           e == [d EXCEPT !.lastWritten = d.pending]
           f == Forget(e)
           r == [f EXCEPT !.flow = c.pending.flow, !.step = c.pending.step,
                          !.enabled = TRUE]
<1>1. c \in Clients /\ c.pending \in Documents
  BY DEF Good, Clients
<1>2. d \in Clients
  <2>1. mark \in BOOLEAN
    OBVIOUS
  <2> HIDE DEF mark
  <2> QED
    BY <1>1, <2>1 DEF Clients
<1>3. d.pending = c.pending
  BY <1>1 DEF Clients
<1>4. e \in Clients
  <2> HIDE DEF d
  <2> QED
    BY <1>1, <1>2, <1>3 DEF Clients
<1>5. f \in Clients
  BY <1>4, ForgetType
<1>6. c.pending.flow \in Flows /\ c.pending.step \in Steps \ {Preparing}
  BY <1>1 DEF Documents, Steps, SavedSteps, Preparing, AtTheStand, Over
<1>7. r \in Clients
  <2> HIDE DEF f
  <2> QED
    BY <1>5, <1>6 DEF Clients
<1>8. /\ r.pending = NoDocument /\ r.stage = "Idle"
      /\ r.lastWritten = c.pending /\ r.disk = c.disk
      /\ r.discardPending = c.discardPending
      /\ r.discarded = c.discarded /\ r.flows = c.flows
      /\ r.flow = c.pending.flow /\ r.step = c.pending.step
  <2> HIDE DEF mark
  <2> QED
    BY <1>1 DEF Forget, Clients
<1>9. /\ c.disk = c.pending /\ c.discardPending = FALSE
  BY DEF Good, KeepsTheHeld
<1> HIDE DEF r
<1>10. KeepsTheHeld(r)
  BY <1>8 DEF KeepsTheHeld, IsHolding
<1>11. KnowsTheFile(r)
  BY <1>8, <1>9 DEF Good, KnowsTheFile
<1>12. RunsItsOwnFlow(r)
  BY <1>6, <1>8, <1>9 DEF Good, KnowsTheFile, RunsItsOwnFlow, Flows
<1>13. RestoreSavedTurnaround(c) = r
  BY DEF RestoreSavedTurnaround, Settle, r
<1> QED
  BY <1>7, <1>10, <1>11, <1>12, <1>13 DEF Good

LEMMA AdvanceKeeps ==
  ASSUME NEW c, Good(c), NEW seen, seen.works \in BOOLEAN
  PROVE  Good(AdvanceResumption(c, seen))
<1>1. CASE c.pending = NoDocument
  BY <1>1 DEF AdvanceResumption
<1>2. CASE c.pending # NoDocument
  <2> DEFINE judged == Judge(c, seen)
  <2>1. Good(judged)
    BY <1>2, JudgeKeeps
  <2>2. judged.stage = "Restoring" => judged.pending # NoDocument
    BY <2>1 DEF Good, KeepsTheHeld, IsHolding
  <2> QED
    BY <1>2, <2>1, <2>2, RestoreKeeps DEF AdvanceResumption, IsReadyToRestore
<1> QED
  BY <1>1, <1>2

LEMMA SaveTurnaroundKeeps ==
  ASSUME NEW c, Good(c), NEW seen, seen.works \in BOOLEAN,
         seen.aircraft \in Aircraft \cup {Unknown},
         seen.stand \in Stands \cup {Unknown},
         seen.couatl \in Couatls \cup {Unknown}
  PROVE  Good(SaveTurnaround(c, seen))
<1>1. CASE /\ c.step \in SavedSteps
           /\ Unknown \notin {seen.aircraft, seen.couatl}
  <2>1. c.flow \in Flows
    BY <1>1 DEF Good, RunsItsOwnFlow, Clients, SavedSteps, AtTheStand, Over,
         Preparing
  <2>2. LiveDocument(c, seen) \in Documents
    BY <1>1, <2>1 DEF Good, Clients, LiveDocument, Documents
  <2>3. LiveDocument(c, seen).flow = c.flow
    BY DEF LiveDocument
  <2> QED
    BY <2>2, <2>3, SaveKeeps DEF SaveTurnaround
<1>2. CASE ~(/\ c.step \in SavedSteps
             /\ Unknown \notin {seen.aircraft, seen.couatl})
  BY <1>2 DEF SaveTurnaround
<1> QED
  BY <1>1, <1>2

(***************************************************************************)
(* What the client watches does not matter for what it keeps.              *)
(***************************************************************************)
LEMMA WatchedKeeps ==
  ASSUME NEW c, Good(c), NEW stand \in Stands \cup {Unknown}
  PROVE  Good([c EXCEPT !.watched = stand])
<1>1. [c EXCEPT !.watched = stand] \in Clients
  BY DEF Good, Clients
<1> QED
  BY <1>1 DEF Good, Clients, KeepsTheHeld, KnowsTheFile, RunsItsOwnFlow,
       IsHolding

LEMMA WatchTheStandKeeps ==
  ASSUME NEW c, Good(c), NEW seen, seen.works \in BOOLEAN,
         seen.stand \in Stands \cup {Unknown}, autoStart \in BOOLEAN
  PROVE  Good(WatchTheStand(c, seen))
<1> DEFINE underWay == IsDrivingTheGsx(c, seen) /\ c.step = AtTheStand
           finished == c.mark /\ c.step \in {Over, Preparing}
           watching == [c EXCEPT !.watched = seen.stand]
<1>1. CASE ~underWay /\ ~finished
  BY <1>1, WatchedKeeps DEF WatchTheStand
<1>2. CASE underWay \/ finished
  <2>1. Good(watching) /\ watching.pending = c.pending
    BY WatchedKeeps DEF Good, Clients
  <2>2. Good(RestartFlow(watching, seen.works))
    BY <2>1, RestartFlowKeeps DEF Good, RunsItsOwnFlow
  <2>3. finished /\ ~underWay => Good([watching EXCEPT !.mark = FALSE])
    <3>1. c.mark => c.pending = NoDocument
      BY DEF Good, KeepsTheHeld, Clients
    <3> QED
      BY <2>1, <3>1, MarkKeeps
  <2>4. WatchTheStand(c, seen) \in
          {c, watching, RestartFlow(watching, seen.works)}
          \/ (/\ WatchTheStand(c, seen) = [watching EXCEPT !.mark = FALSE]
              /\ ~underWay)
    BY <1>2 DEF WatchTheStand
  <2> QED
    BY <1>2, <2>1, <2>2, <2>3, <2>4
<1> QED
  BY <1>1, <1>2

(***************************************************************************)
(* A tick of the machine, which nothing holds.                             *)
(***************************************************************************)
LEMMA StepKeeps ==
  ASSUME NEW c, Good(c), ~IsHolding(c), c.step # Preparing,
         NEW next \in Steps \ {Preparing}
  PROVE  Good([c EXCEPT !.step = next])
<1>1. [c EXCEPT !.step = next] \in Clients
  BY DEF Good, Clients
<1> QED
  BY <1>1 DEF Good, Clients, KeepsTheHeld, KnowsTheFile, RunsItsOwnFlow,
       IsHolding

LEMMA StartsKeeps ==
  ASSUME NEW c, Good(c), ~IsHolding(c), c.flows < MaxFlows,
         NEW next \in Steps \ {Preparing}
  PROVE  Good(Starts(c, next))
<1>1. c.flows \in Nat /\ c.flows + 1 \in Flows
  BY ResumptionConstants DEF Good, Clients, Flows
<1>2. Starts(c, next) \in Clients
  BY <1>1 DEF Good, Clients, Starts
<1>3. /\ Starts(c, next).flow = c.flows + 1 /\ Starts(c, next).flows = c.flows + 1
      /\ Starts(c, next).step = next
      /\ Starts(c, next).disk = c.disk
      /\ Starts(c, next).lastWritten = c.lastWritten
      /\ Starts(c, next).discarded = c.discarded
      /\ Starts(c, next).discardPending = c.discardPending
      /\ Starts(c, next).stage = c.stage /\ Starts(c, next).pending = c.pending
  BY DEF Good, Clients, Starts
<1>4. KeepsTheHeld(Starts(c, next))
  BY <1>3 DEF Good, KeepsTheHeld, IsHolding
<1>5. KnowsTheFile(Starts(c, next))
  <2>1. c.disk # NoDocument => c.disk.flow \in Nat
    BY DEF Good, Clients, Documents, Flows
  <2> QED
    BY <1>1, <1>3, <2>1 DEF Good, KnowsTheFile
<1>6. RunsItsOwnFlow(Starts(c, next))
  BY <1>1, <1>3 DEF Good, KnowsTheFile, RunsItsOwnFlow, Preparing
<1> QED
  BY <1>2, <1>4, <1>5, <1>6 DEF Good

LEMMA TurnKeeps ==
  ASSUME NEW c, Good(c), ~IsHolding(c), NEW enabled \in BOOLEAN
  PROVE  Good([c EXCEPT !.step = Preparing, !.flow = 0, !.enabled = enabled])
<1> DEFINE d == [c EXCEPT !.step = Preparing, !.flow = 0, !.enabled = enabled]
<1>1. Preparing \in Steps
  BY DEF Steps, Preparing, Over
<1>2. d \in Clients
  BY <1>1 DEF Good, Clients
<1> QED
  BY <1>2 DEF Good, Clients, KeepsTheHeld, KnowsTheFile, RunsItsOwnFlow,
       IsHolding, Flows

LEMMA TicksKeep ==
  ASSUME NEW c, Good(c), ~IsHolding(c), autoStart \in BOOLEAN,
         NEW ticked \in Ticks(c)
  PROVE  Good(ticked)
<1>1. CASE ticked = c
  BY <1>1
<1>2. CASE ticked = [c EXCEPT !.mark = TRUE]
  BY <1>2, MarkKeeps DEF Good, KeepsTheHeld
<1>3. ASSUME NEW next \in Steps, <<c.step, next>> \in StepsOn,
             ticked = [c EXCEPT !.step = next]
      PROVE  Good(ticked)
  <2>1. c.step # Preparing /\ next # Preparing
    BY <1>3 DEF StepsOn, Preparing, AtTheStand, Pushing, Flying, Arrived, Over
  <2> QED
    BY <1>3, <2>1, StepKeeps
<1>4. ASSUME NEW next \in {AtTheStand, Flying}, c.flows < MaxFlows,
             ticked = Starts(c, next)
      PROVE  Good(ticked)
  <2>1. next \in Steps \ {Preparing}
    BY DEF Steps, Preparing, AtTheStand, Flying, Over
  <2> QED
    BY <1>4, <2>1, StartsKeeps
<1>5. CASE ticked = [c EXCEPT !.step = Preparing, !.flow = 0,
                              !.enabled = autoStart]
  BY <1>5, TurnKeeps
<1> QED
  BY <1>1, <1>2, <1>3, <1>4, <1>5 DEF Ticks

-----------------------------------------------------------------------------
(***************************************************************************)
(* Every handler keeps the invariant.                                      *)
(***************************************************************************)
LEMMA SightTypes ==
  ASSUME TypeOK, NEW seen \in Sights
  PROVE  /\ seen.works \in BOOLEAN /\ seen.ready \in BOOLEAN
         /\ seen.aircraft \in Aircraft \cup {Unknown}
         /\ seen.stand \in Stands \cup {Unknown}
         /\ seen.couatl \in Couatls \cup {Unknown}
BY DEF TypeOK, Sights

LEMMA UpdateKeeps ==
  ASSUME IInv, NEW seen \in Sights, UpdateSeeing(seen)
  PROVE  Good(client')
<1> DEFINE settled == RetryPendingDiscard(client, seen.works)
           watched == WatchTheStand(settled, seen)
           drives == IsDrivingTheGsx(watched, seen) /\ seen.aircraft # Unknown
<1>1. /\ seen.works \in BOOLEAN /\ autoStart \in BOOLEAN
      /\ seen.aircraft \in Aircraft \cup {Unknown}
      /\ seen.stand \in Stands \cup {Unknown}
      /\ seen.couatl \in Couatls \cup {Unknown}
  BY SightTypes DEF IInv, TypeOK
<1>2. Good(watched)
  <2>1. Good(settled)
    BY <1>1, RetryKeeps DEF IInv
  <2> QED
    BY <1>1, <2>1, WatchTheStandKeeps
<1>3. PICK driven \in IF drives THEN Driven(watched, seen) ELSE {watched} :
        client' = AdvanceResumption(driven, seen)
  BY DEF UpdateSeeing
<1>4. Good(driven)
  <2>1. CASE ~drives
    BY <1>2, <1>3, <2>1
  <2>2. CASE drives
    <3>1. PICK ticked \in Ticks(watched) : driven = SaveTurnaround(ticked, seen)
      BY <1>3, <2>2 DEF Driven
    <3>2. Good(ticked)
      BY <1>1, <1>2, <2>2, <3>1, TicksKeep DEF IsDrivingTheGsx
    <3> QED
      BY <1>1, <3>1, <3>2, SaveTurnaroundKeeps
  <2> QED
    BY <2>1, <2>2
<1> QED
  BY <1>1, <1>3, <1>4, AdvanceKeeps

LEMMA StartedIsGood ==
  ASSUME NEW c, Good(c), NEW earlier \in SUBSET Flows
  PROVE  Good(Started(c.disk, c.flows, earlier))
<1> DEFINE d == Started(c.disk, c.flows, earlier)
<1>1. Preparing \in Steps
  BY DEF Steps, Preparing, Over
<1>2. d \in Clients
  BY <1>1 DEF Good, Clients, Started
<1> QED
  BY <1>2 DEF Good, Clients, Started, KeepsTheHeld, KnowsTheFile,
       RunsItsOwnFlow, IsHolding, Flows

LEMMA InitiallyGood ==
  ASSUME Init
  PROVE  IInv
<1>1. Preparing \in Steps
  BY DEF Steps, Preparing, Over
<1>2. client \in Clients
  BY <1>1 DEF Init, Started, Clients
<1>3. Good(client)
  BY <1>2 DEF Init, Started, Good, Clients, KeepsTheHeld, KnowsTheFile,
       RunsItsOwnFlow, IsHolding, Flows
<1>4. TypeOK
  BY <1>2, <1>3, ResumptionConstants DEF Init, TypeOK, Good, KeepsTheHeld,
     Couatls
<1> QED
  BY <1>3, <1>4 DEF IInv

LEMMA NextKeeps ==
  ASSUME IInv, [Next]_vars
  PROVE  IInv'
<1> USE DEF IInv
<1>1. /\ Good(client) /\ client \in Clients
      /\ live \in [aircraft : Aircraft, stand : Stands, couatl : Couatls]
      /\ autoStart \in BOOLEAN /\ crashes \in 0 .. MaxCrashes
  BY DEF TypeOK
<1>2. /\ Good(client')
      /\ live' \in [aircraft : Aircraft, stand : Stands, couatl : Couatls]
      /\ autoStart' \in BOOLEAN /\ crashes' \in 0 .. MaxCrashes
  <2>1. CASE Update
    BY <1>1, <2>1, UpdateKeeps DEF Update
  <2>2. CASE StartSession
    BY <1>1, <2>2, OnFlightStartKeeps DEF StartSession, Calls
  <2>3. CASE EndSession
    BY <1>1, <2>3, OnSessionEndKeeps DEF EndSession, Calls
  <2>4. CASE PilotSetsAutomation
    BY <1>1, <2>4, EnabledKeeps DEF PilotSetsAutomation, Calls
  <2>5. CASE PilotResumes
    BY <1>1, <2>5, AnswerResumeKeeps DEF PilotResumes, Calls
  <2>6. CASE PilotRestartsTheFlow
    BY <1>1, <2>6, RestartFlowKeeps
       DEF PilotRestartsTheFlow, Calls, Good, RunsItsOwnFlow
  <2>7. CASE PilotReloadsTheFlightPlan
    BY <1>1, <2>7, SaveTurnaroundKeeps, SightTypes
       DEF PilotReloadsTheFlightPlan, Calls
  <2>8. CASE PilotChangesTheSettings
    <3>1. (client.enabled \/ ~autoStart) \in BOOLEAN
      OBVIOUS
    <3> QED
      BY <1>1, <2>8, <3>1, EnabledKeeps DEF PilotChangesTheSettings
  <2>9. CASE TheAircraftChanges
    BY <1>1, <2>9 DEF TheAircraftChanges
  <2>10. CASE CouatlRestarts
    BY <1>1, <2>10, ResumptionConstants DEF CouatlRestarts, Couatls
  <2>11. CASE Crash
    <3>1. client.discardedBefore \cup client.discarded \in SUBSET Flows
      BY <1>1 DEF Clients
    <3>2. crashes' \in 0 .. MaxCrashes
      BY <1>1, <2>11, ResumptionConstants DEF Crash
    <3> QED
      BY <1>1, <2>11, <3>1, <3>2, StartedIsGood DEF Crash
  <2>12. CASE UNCHANGED vars
    BY <1>1, <2>12 DEF vars
  <2> QED
    BY <2>1, <2>2, <2>3, <2>4, <2>5, <2>6, <2>7, <2>8, <2>9, <2>10, <2>11,
       <2>12 DEF Next
<1>3. IsHolding(client') <=> client'.pending # NoDocument
  BY <1>2 DEF Good, KeepsTheHeld
<1> QED
  BY <1>2, <1>3 DEF TypeOK, Good, KeepsTheHeld, KnowsTheFile, RunsItsOwnFlow,
     IsHolding

\* The invariant, for any number of turnarounds, stands, runs of GSX and
\* crashes.
THEOREM InvariantHolds == Spec => []IInv
<1>1. Init => IInv
  BY InitiallyGood
<1>2. IInv /\ [Next]_vars => IInv'
  BY NextKeeps
<1> QED
  BY <1>1, <1>2, PTL DEF Spec

\* The types of the client's memory and file, and a hold for every document
\* that is pending.
THEOREM TypeCorrect == Spec => []TypeOK
<1>1. IInv => TypeOK
  BY DEF IInv
<1> QED
  BY <1>1, InvariantHolds, PTL

\* A turnaround that is held is still on the disk, whatever happens in the
\* hold.
THEOREM HeldIsKept == Spec => []HeldTurnaroundIsKept
<1>1. IInv => HeldTurnaroundIsKept
  BY DEF IInv, Good, KeepsTheHeld, HeldTurnaroundIsKept
<1> QED
  BY <1>1, InvariantHolds, PTL

\* A save that is skipped is of a document that is on the disk.
THEOREM SkippedIsOnTheDisk == Spec => []SkippedSavesAreOnTheDisk
<1>1. IInv => SkippedSavesAreOnTheDisk
  BY DEF IInv, Good, KnowsTheFile, SkippedSavesAreOnTheDisk
<1> QED
  BY <1>1, InvariantHolds, PTL

\* The file is as the client takes it to be.
THEOREM FileIsKept == Spec => []FileIsAsRemembered
BY HeldIsKept, SkippedIsOnTheDisk, PTL DEF FileIsAsRemembered

\* No process resumes a turnaround it was to discard, whether or not its file
\* could be deleted.
THEOREM DiscardedStaysDiscarded == Spec => DiscardedIsNotResumed
<1>1. IInv /\ Resumes => client.pending.flow \notin client.discarded
  BY DEF IInv, Good, KeepsTheHeld, KnowsTheFile, Resumes
<1>2. IInv => [Resumes => client.pending.flow \notin client.discarded]_vars
  BY <1>1
<1> QED
  BY <1>2, InvariantHolds, PTL DEF DiscardedIsNotResumed

-----------------------------------------------------------------------------
(***************************************************************************)
(* What a resumption was judged by.  Only an update resumes: what it       *)
(* judges is the client as it is, since a hold leaves it nothing to retry, *)
(* watch, drive or save.                                                   *)
(***************************************************************************)
LEMMA OnlyUpdatesResume ==
  ASSUME IInv, [Next]_vars, Resumes
  PROVE  Update
<1>1. /\ client.step = Preparing /\ IsHolding(client)
      /\ client \in Clients /\ Good(client) /\ client'.step # Preparing
  BY DEF IInv, Good, KeepsTheHeld, Resumes, Clients, Documents, SavedSteps,
     AtTheStand, Preparing
<1>2. \A works \in BOOLEAN : Load(ClearFlightState(client), works).step = Preparing
  BY <1>1 DEF Load, LoadReading, ClearFlightState, Forget, Clients
<1>3. ~StartSession
  <2>1. \A works \in BOOLEAN : Good(Load(ClearFlightState(client), works))
    BY <1>1, ClearKeeps, LoadKeeps DEF Good
  <2>2. \A works \in BOOLEAN :
          OnFlightStart(client, works).step = Preparing
    BY <1>2, <2>1 DEF OnFlightStart, MaybeAutoStart, Good, Clients
  <2> QED
    BY <1>1, <2>2 DEF StartSession, Calls
<1>4. ~EndSession
  BY <1>1 DEF EndSession, Calls, OnSessionEnd, ClearFlightState, Forget, Clients
<1>5. ~PilotSetsAutomation /\ ~PilotResumes /\ ~PilotChangesTheSettings
  BY <1>1 DEF PilotSetsAutomation, PilotResumes, PilotChangesTheSettings,
     AnswerResume, Calls, Clients
<1>6. ~PilotRestartsTheFlow
  <2>1. \A works \in BOOLEAN :
          ClearFlightState(Discard(client, works)).step = Preparing
    <3>1. \A works \in BOOLEAN : Discard(client, works) \in Clients
      BY <1>1, DiscardType
    <3>2. \A c \in Clients : ClearFlightState(c).step = Preparing
      BY DEF ClearFlightState, Forget, Clients
    <3> QED
      BY <3>1, <3>2
  <2>2. \A works \in BOOLEAN : Good(ClearFlightState(Discard(client, works)))
    BY <1>1, DiscardType, DiscardKnowsTheFile, ClearKeeps
       DEF Good, RunsItsOwnFlow
  <2>3. \A works \in BOOLEAN : RestartFlow(client, works).step = Preparing
    BY <2>1, <2>2 DEF RestartFlow, MaybeAutoStart, Good, Clients
  <2> QED
    BY <1>1, <2>3 DEF PilotRestartsTheFlow, Calls
<1>7. ~PilotReloadsTheFlightPlan
  BY <1>1 DEF PilotReloadsTheFlightPlan
<1>8. ~TheAircraftChanges /\ ~CouatlRestarts /\ client' # client
  BY <1>1 DEF TheAircraftChanges, CouatlRestarts
<1>9. ~Crash
  BY <1>1 DEF Crash, Started
<1> QED
  BY <1>3, <1>4, <1>5, <1>6, <1>7, <1>8, <1>9 DEF Next, vars

LEMMA AHoldOnlyAdvances ==
  ASSUME IInv, IsHolding(client), NEW seen \in Sights, UpdateSeeing(seen),
         NEW w, w = [client EXCEPT !.watched = Unknown]
  PROVE  client' = AdvanceResumption(w, seen)
<1>1. /\ client.discardPending = FALSE /\ client.mark = FALSE
      /\ client \in Clients
  BY DEF IInv, Good, KeepsTheHeld
<1>2. RetryPendingDiscard(client, seen.works) = client
  BY <1>1 DEF RetryPendingDiscard
<1>3. ~IsDrivingTheGsx(client, seen)
  BY DEF IsDrivingTheGsx
<1>4. WatchTheStand(client, seen) = w
  BY <1>1, <1>3 DEF WatchTheStand
<1>5. ~IsDrivingTheGsx(w, seen)
  BY <1>1 DEF IsDrivingTheGsx, IsHolding, Clients
<1> QED
  BY <1>2, <1>4, <1>5 DEF UpdateSeeing

\* A turnaround that is still to be restored after it was judged.
LEMMA JudgedToBeRestored ==
  ASSUME NEW c, Good(c), c.pending # NoDocument, HasCheckpoint(c.pending),
         NEW seen, seen.works \in BOOLEAN,
         Verdict(c.pending, seen) # "NotYetJudgeable",
         Judge(c, seen).stage = "Restoring"
  PROVE  /\ ~IsDifferent(c.pending, seen)
         /\ c.pending.couatl = seen.couatl \/ c.pilotResumed
<1>1. c \in Clients
  BY DEF Good
<1>2. CASE IsDifferent(c.pending, seen)
  <2>1. Verdict(c.pending, seen) = "Different"
    BY <1>2 DEF Verdict
  <2>2. Judge(c, seen) = Discard(c, seen.works)
    BY <2>1 DEF Judge
  <2>3. Discard(c, seen.works).stage = "Idle"
    BY <1>1, DiscardFields
  <2>4. Judge(c, seen).stage # "Restoring"
    BY <2>2, <2>3
  <2> QED
    BY <2>4
<1>3. CASE ~IsDifferent(c.pending, seen) /\ c.pending.couatl # seen.couatl
  <2>1. Verdict(c.pending, seen) = "OnlyCouatlDiffers"
    BY <1>3 DEF Verdict
  <2>2. Judge(c, seen) = JudgedCheckpoint(c, TRUE)
    BY <2>1 DEF Judge
  <2>3. CASE c.stage = "Judging"
    BY <1>1, <2>2, <2>3
       DEF JudgedCheckpoint, EnterJudgedStage, Clients
  <2>4. CASE c.stage = "Restoring"
    <3>1. c.pilotResumed
      BY <1>1, <2>2, <2>4
         DEF JudgedCheckpoint, NoteCouatlChangedWhileRestoring, Clients
    <3> QED
      BY <1>3, <3>1
  <2>5. CASE c.stage \notin {"Judging", "Restoring"}
    BY <2>2, <2>5 DEF JudgedCheckpoint
  <2> QED
    BY <1>3, <2>3, <2>4, <2>5
<1> QED
  BY <1>2, <1>3

LEMMA JudgeStaysWhereItIs ==
  ASSUME NEW c, Good(c), NEW seen, seen.works \in BOOLEAN
  PROVE  Judge(c, seen).step = c.step
<1> DEFINE verdict == Verdict(c.pending, seen)
<1>1. c \in Clients
  BY DEF Good
<1>2. Discard(c, seen.works).step = c.step
  BY <1>1, DiscardFields
<1>3. Release(c, verdict).step = c.step
  BY <1>1 DEF Release, Forget, Clients
<1>4. \A differs \in BOOLEAN : JudgedCheckpoint(c, differs).step = c.step
  BY <1>1 DEF JudgedCheckpoint, EnterJudgedStage,
     NoteCouatlChangedWhileRestoring, Clients
<1>5. verdict \in {"NotYetJudgeable", "Different", "Same", "OnlyCouatlDiffers"}
  BY DEF Verdict
<1> QED
  BY <1>2, <1>3, <1>4, <1>5 DEF Judge

LEMMA ResumesWhatWasJudged ==
  ASSUME IInv, [Next]_vars, Resumes, SnapshotsAreComplete
  PROVE  /\ client.pending.aircraft = live.aircraft
         /\ \/ HasFlownSinceTheSave(client.pending)
            \/ client.pending.stand \in {Unknown, live.stand}
         /\ client.pilotResumed \/ client.pending.couatl = live.couatl
<1> DEFINE w == [client EXCEPT !.watched = Unknown]
<1>1. PICK seen \in Sights : UpdateSeeing(seen)
  BY OnlyUpdatesResume DEF Update
<1>2. /\ IsHolding(client) /\ client.step = Preparing
      /\ client \in Clients /\ Good(client) /\ client'.step # Preparing
      /\ client.pending # NoDocument /\ HasCheckpoint(client.pending)
  BY DEF IInv, Good, KeepsTheHeld, Resumes, Clients, Documents, SavedSteps,
     AtTheStand, Preparing
<1>3. /\ w.pending = client.pending /\ w.step = Preparing
      /\ w.pilotResumed = client.pilotResumed
  BY <1>2 DEF Clients
<1>4. Good(w)
  BY <1>2, WatchedKeeps
<1>5. client' = AdvanceResumption(w, seen)
  BY <1>1, <1>2, AHoldOnlyAdvances
<1> HIDE DEF w
<1>6. Judge(w, seen).stage = "Restoring" /\ seen.ready
  <2>1. Judge(w, seen).step = Preparing
    BY <1>1, <1>3, <1>4, JudgeStaysWhereItIs, SightTypes DEF IInv
  <2> QED
    BY <1>2, <1>3, <1>5, <2>1 DEF AdvanceResumption, IsReadyToRestore
<1>7. /\ seen.aircraft = live.aircraft /\ seen.aircraft # Unknown
      /\ seen.stand = live.stand /\ seen.stand # Unknown
      /\ seen.couatl = live.couatl /\ seen.couatl # Unknown
  BY <1>1, <1>6 DEF Sights
<1>8. Verdict(w.pending, seen) # "NotYetJudgeable"
  BY <1>7 DEF Verdict, IsStillWaitingForTheStand
<1>9. /\ ~IsDifferent(w.pending, seen)
      /\ w.pending.couatl = seen.couatl \/ w.pilotResumed
  BY <1>1, <1>2, <1>3, <1>4, <1>6, <1>8, JudgedToBeRestored, SightTypes
     DEF IInv
<1> QED
  BY <1>3, <1>7, <1>9 DEF IsDifferent, IsAnotherStand

\* When the snapshots of GSX are complete, a turnaround is resumed with its
\* aircraft and at its stand.
THEOREM ResumedBelongsHere ==
  SnapshotsAreComplete => (Spec => ResumesOnlyWhatBelongsHere)
<1> SUFFICES ASSUME SnapshotsAreComplete
             PROVE  Spec => ResumesOnlyWhatBelongsHere
  OBVIOUS
<1>1. IInv /\ [Next]_vars =>
        [Resumes =>
           /\ client.pending.aircraft = live.aircraft
           /\ \/ HasFlownSinceTheSave(client.pending)
              \/ client.pending.stand \in {Unknown, live.stand}]_vars
  BY ResumesWhatWasJudged
<1> QED
  BY <1>1, InvariantHolds, PTL DEF Spec, ResumesOnlyWhatBelongsHere

\* When the snapshots of GSX are complete, a turnaround of another run of GSX
\* is resumed only when the pilot answered so.
THEOREM AnotherRunIsAskedAbout ==
  SnapshotsAreComplete => (Spec => AnotherGsxRunAsksThePilot)
<1> SUFFICES ASSUME SnapshotsAreComplete
             PROVE  Spec => AnotherGsxRunAsksThePilot
  OBVIOUS
<1>1. IInv /\ [Next]_vars =>
        [Resumes =>
           client.pilotResumed \/ client.pending.couatl = live.couatl]_vars
  BY ResumesWhatWasJudged
<1> QED
  BY <1>1, InvariantHolds, PTL DEF Spec, AnotherGsxRunAsksThePilot

-----------------------------------------------------------------------------
(***************************************************************************)
(* The mark of the reposition.  In a hold it is not set, and only an       *)
(* update sets it.                                                         *)
(***************************************************************************)
LEMMA OnlyUpdatesMark ==
  ASSUME IInv, [Next]_vars, IsHolding(client), client'.mark
  PROVE  Update
<1>1. client \in Clients /\ Good(client) /\ client.mark = FALSE
      /\ client.step = Preparing
  BY DEF IInv, Good, KeepsTheHeld
<1>2. \A works \in BOOLEAN : Load(ClearFlightState(client), works).mark = FALSE
  BY <1>1 DEF Load, LoadReading, ClearFlightState, Forget, Clients
<1>3. ~StartSession
  <2>1. \A works \in BOOLEAN : Good(Load(ClearFlightState(client), works))
    BY <1>1, ClearKeeps, LoadKeeps DEF Good
  <2>2. \A works \in BOOLEAN : OnFlightStart(client, works).mark = FALSE
    BY <1>2, <2>1 DEF OnFlightStart, MaybeAutoStart, Good, Clients
  <2> QED
    BY <1>1, <2>2 DEF StartSession, Calls
<1>4. ~EndSession
  BY <1>1 DEF EndSession, Calls, OnSessionEnd, ClearFlightState, Forget, Clients
<1>5. ~PilotSetsAutomation /\ ~PilotResumes /\ ~PilotChangesTheSettings
  BY <1>1 DEF PilotSetsAutomation, PilotResumes, PilotChangesTheSettings,
     AnswerResume, Calls, Clients
<1>6. ~PilotRestartsTheFlow
  <2>1. \A works \in BOOLEAN :
          ClearFlightState(Discard(client, works)).mark = FALSE
    <3>1. \A works \in BOOLEAN : Discard(client, works) \in Clients
      BY <1>1, DiscardType
    <3>2. \A c \in Clients : ClearFlightState(c).mark = FALSE
      BY DEF ClearFlightState, Forget, Clients
    <3> QED
      BY <3>1, <3>2
  <2>2. \A works \in BOOLEAN : Good(ClearFlightState(Discard(client, works)))
    BY <1>1, DiscardType, DiscardKnowsTheFile, ClearKeeps
       DEF Good, RunsItsOwnFlow
  <2>3. \A works \in BOOLEAN : RestartFlow(client, works).mark = FALSE
    BY <2>1, <2>2 DEF RestartFlow, MaybeAutoStart, Good, Clients
  <2> QED
    BY <1>1, <2>3 DEF PilotRestartsTheFlow, Calls
<1>7. ~PilotReloadsTheFlightPlan
  BY <1>1 DEF PilotReloadsTheFlightPlan
<1>8. ~TheAircraftChanges /\ ~CouatlRestarts /\ client' # client
  BY <1>1 DEF TheAircraftChanges, CouatlRestarts
<1>9. ~Crash
  BY <1>1 DEF Crash, Started
<1> QED
  BY <1>3, <1>4, <1>5, <1>6, <1>7, <1>8, <1>9 DEF Next, vars

LEMMA MarkIsJudged ==
  ASSUME NEW c, Good(c), IsHolding(c), NEW seen, seen.works \in BOOLEAN,
         Judge(c, seen).mark
  PROVE  c.pending.mark /\ Verdict(c.pending, seen) = "Same"
<1> DEFINE verdict == Verdict(c.pending, seen)
           d == Judge(c, seen)
<1>1. c \in Clients /\ c.mark = FALSE /\ HasAnythingToRead(c.pending)
  BY DEF Good, KeepsTheHeld
<1>2. verdict # "NotYetJudgeable"
  BY <1>1 DEF Judge
<1>3. verdict # "Different"
  <2>1. Discard(c, seen.works).mark = FALSE
    BY <1>1 DEF Discard, TryErase, Forget, Clients
  <2> QED
    BY <2>1 DEF Judge
<1>4. ~HasCheckpoint(c.pending)
  <2>1. \A differs \in BOOLEAN : JudgedCheckpoint(c, differs).mark = FALSE
    BY <1>1 DEF JudgedCheckpoint, EnterJudgedStage,
       NoteCouatlChangedWhileRestoring, Clients
  <2> QED
    BY <1>2, <1>3, <2>1 DEF Judge, Verdict
<1>5. d = Release(c, verdict)
  BY <1>2, <1>3, <1>4 DEF Judge, Verdict
<1>6. verdict = "Same"
  BY <1>1, <1>5 DEF Release, Forget, Clients
<1> QED
  BY <1>1, <1>4, <1>6 DEF HasAnythingToRead

LEMMA RestoringIsJudged ==
  ASSUME NEW c, Good(c), IsHolding(c), NEW seen, seen.works \in BOOLEAN,
         Judge(c, seen).stage = "Restoring",
         Verdict(c.pending, seen) # "NotYetJudgeable"
  PROVE  /\ Judge(c, seen).pending = c.pending
         /\ ~Judge(c, seen).mark
         /\ ~Judge(c, seen).couatlDiffers => Verdict(c.pending, seen) = "Same"
<1> DEFINE verdict == Verdict(c.pending, seen)
           d == Judge(c, seen)
<1>1. c \in Clients /\ c.mark = FALSE
  BY DEF Good, KeepsTheHeld
<1>2. verdict # "Different"
  <2>1. Discard(c, seen.works).stage = "Idle"
    BY <1>1, DiscardFields
  <2> QED
    BY <2>1 DEF Judge
<1>3. HasCheckpoint(c.pending)
  <2>1. Release(c, verdict).stage = "Idle"
    BY <1>1 DEF Release, Forget, Clients
  <2> QED
    BY <1>2, <2>1 DEF Judge, Verdict
<1>4. d = JudgedCheckpoint(c, verdict = "OnlyCouatlDiffers")
  BY <1>2, <1>3 DEF Judge, Verdict
<1>5. d.mark = FALSE /\ d.pending = c.pending
  BY <1>1, <1>4 DEF JudgedCheckpoint, EnterJudgedStage,
     NoteCouatlChangedWhileRestoring, Clients
<1>6. ASSUME verdict = "OnlyCouatlDiffers"
      PROVE  d.couatlDiffers
  BY <1>1, <1>4, <1>6 DEF JudgedCheckpoint, EnterJudgedStage,
     NoteCouatlChangedWhileRestoring, Clients
<1> QED
  BY <1>2, <1>5, <1>6 DEF Verdict

LEMMA MarkIsOfThisRun ==
  ASSUME IInv, [Next]_vars, IsHolding(client), client'.mark,
         SnapshotsAreComplete
  PROVE  client.pending.mark /\ client.pending.couatl = live.couatl
<1> DEFINE w == [client EXCEPT !.watched = Unknown]
<1>1. PICK seen \in Sights : UpdateSeeing(seen)
  BY OnlyUpdatesMark DEF Update
<1>0. seen.works \in BOOLEAN
  BY <1>1, SightTypes DEF IInv
<1>2. client \in Clients /\ Good(client) /\ client.pending # NoDocument
  BY DEF IInv, Good, KeepsTheHeld
<1>3. w.pending = client.pending /\ IsHolding(w) /\ w.pending # NoDocument
  BY <1>2 DEF Clients, IsHolding
<1>4. Good(w)
  BY <1>2, WatchedKeeps
<1>5. client' = AdvanceResumption(w, seen)
  BY <1>1, <1>2, AHoldOnlyAdvances
<1> HIDE DEF w
<1> DEFINE d == Judge(w, seen)
           verdict == Verdict(w.pending, seen)
<1>6. d.mark => w.pending.mark /\ verdict = "Same"
  BY <1>0, <1>3, <1>4, MarkIsJudged
<1>7. verdict = "Same" => w.pending.couatl = live.couatl
  <2>1. seen.couatl \in {live.couatl, Unknown}
    BY <1>1 DEF Sights
  <2> QED
    BY <2>1 DEF Verdict
<1>8. CASE IsReadyToRestore(d, seen)
  <2>1. client' = RestoreSavedTurnaround(d) /\ d.stage = "Restoring" /\ seen.ready
    BY <1>2, <1>3, <1>5, <1>8 DEF AdvanceResumption, IsReadyToRestore
  <2>2. d \in Clients
    BY <1>0, <1>3, <1>4, JudgeKeeps DEF Good
  <2>3. client'.mark = (d.mark \/ (d.pending.mark /\ ~d.couatlDiffers))
    BY <2>1, <2>2 DEF RestoreSavedTurnaround, Settle, Forget, Clients
  <2>4. /\ seen.aircraft = live.aircraft /\ seen.aircraft # Unknown
        /\ seen.stand # Unknown /\ seen.couatl # Unknown
    BY <1>1, <2>1 DEF Sights
  <2>5. verdict # "NotYetJudgeable"
    BY <2>4 DEF Verdict, IsStillWaitingForTheStand
  <2>6. d.stage = "Restoring"
    BY <2>1
  <2>7. /\ d.pending = w.pending /\ ~d.mark
        /\ ~d.couatlDiffers => verdict = "Same"
    BY <1>0, <1>3, <1>4, <2>5, <2>6, RestoringIsJudged
  <2> HIDE DEF d, verdict
  <2>8. w.pending.mark /\ verdict = "Same"
    BY <2>3, <2>7
  <2> QED
    BY <1>3, <1>7, <2>8
<1>9. CASE ~IsReadyToRestore(d, seen)
  BY <1>2, <1>3, <1>5, <1>6, <1>7, <1>9 DEF AdvanceResumption
<1> QED
  BY <1>8, <1>9

\* When the snapshots of GSX are complete, the mark that GSX has repositioned
\* the aircraft is taken over for the run of GSX that did it.
THEOREM MarkStaysWithItsRun ==
  SnapshotsAreComplete => (Spec => RepositionBelongsToTheGsxRun)
<1> SUFFICES ASSUME SnapshotsAreComplete
             PROVE  Spec => RepositionBelongsToTheGsxRun
  OBVIOUS
<1>1. IInv /\ [Next]_vars =>
        [IsHolding(client) /\ client'.mark =>
           client.pending.mark /\ client.pending.couatl = live.couatl]_vars
  BY MarkIsOfThisRun
<1> QED
  BY <1>1, InvariantHolds, PTL DEF Spec, RepositionBelongsToTheGsxRun

\* When the snapshots of GSX are complete, what is resumed belongs to this
\* aircraft, stand, turnaround and run of GSX.
THEOREM ResumedIsItsOwn == SnapshotsAreComplete => (Spec => ResumesOnlyItsOwn)
BY ResumedBelongsHere, AnotherRunIsAskedAbout, DiscardedStaysDiscarded,
   MarkStaysWithItsRun DEF ResumesOnlyItsOwn

-----------------------------------------------------------------------------
\* A value of the JSON json that may be in a saved leaf: a number is one, a
\* truth value is one, and nothing reads as no value at all.
IsJson(json) ==
  /\ json.kind = "bool" => json.value \in {"true", "false"}
  /\ json.kind = "number" => json.value \notin {NotFinite, "true"}
  /\ json.value # Absent

Places == Leaves \cup Containers \cup Stamp

\* A document that can be read back, leaf by leaf.
HasNoCheckpoint(d) == \A leaf \in CheckpointLeaves : d[leaf] = Absent
HasItsCheckpoint(d) ==
  /\ d["phase"] = "Loading" /\ d["flag"] = "true" /\ d["count"] = "5"
  /\ d["stale"] \in {"null", "3"} /\ d["ticks"] = "7" /\ d["aircraftMemory"] = "held"
HasNoPlan(d) == d["fuel"] = Absent /\ d["unit"] = Absent
HasItsPlan(d) == d["fuel"] \in {"7500.5", NotFinite} /\ d["unit"] = "0"
IsWorthWriting(d) ==
  /\ d = [leaf \in Leaves |-> d[leaf]]
  /\ d["key"] = "k" /\ d["memory"] = "empty" /\ d["repositioned"] \in {"true", "false"}
  /\ HasNoCheckpoint(d) \/ HasItsCheckpoint(d)
  /\ HasNoPlan(d) \/ HasItsPlan(d)

(***************************************************************************)
(* The invariant of the file: while it is as it was written it holds what  *)
(* DocumentToJson makes of a document that can be read back; and in any    *)
(* file the leaves are values, whatever was damaged.                       *)
(***************************************************************************)
FileInv ==
  /\ FileTypeOK
  /\ written.kept =>
       /\ IsWorthWriting(written.document)
       /\ file.json = DocumentToJson(written.document, written.version)
  /\ file.exists => /\ file.json = [at \in Places |-> file.json[at]]
                    /\ \A leaf \in Leaves : IsJson(file.json[leaf])
  /\ file = [exists |-> file.exists, readable |-> file.readable, json |-> file.json,
             faults |-> file.faults]
  /\ written = [document |-> written.document, version |-> written.version, kept |-> written.kept]

(***************************************************************************)
(* The type of every leaf.                                                 *)
(***************************************************************************)
LEMMA TypesOfLeaves ==
  /\ LeafType["key"] = "string" /\ LeafType["phase"] = "string"
  /\ LeafType["memory"] = "bag" /\ LeafType["aircraftMemory"] = "bag"
  /\ LeafType["flag"] = "bool" /\ LeafType["repositioned"] = "bool"
  /\ LeafType["count"] = "whole" /\ LeafType["unit"] = "whole"
  /\ LeafType["stale"] = "optional" /\ LeafType["fuel"] = "real"
  /\ LeafType["ticks"] = "none"
<1>1. /\ LeafType["key"] = "string" /\ LeafType["phase"] = "string"
      /\ LeafType["memory"] = "bag" /\ LeafType["aircraftMemory"] = "bag"
      /\ LeafType["flag"] = "bool" /\ LeafType["repositioned"] = "bool"
  BY DEF LeafType, Leaves, CheckpointLeaves, PlanLeaves, DocumentLeaves
<1>2. /\ LeafType["count"] = "whole" /\ LeafType["unit"] = "whole"
      /\ LeafType["stale"] = "optional" /\ LeafType["fuel"] = "real"
      /\ LeafType["ticks"] = "none"
  BY DEF LeafType, Leaves, CheckpointLeaves, PlanLeaves, DocumentLeaves
<1> QED
  BY <1>1, <1>2

(***************************************************************************)
(* What a leaf is by default, inside a container and outside.              *)
(***************************************************************************)
LEMMA Inside ==
  /\ DefaultInside["flag"] = "false" /\ DefaultInside["count"] = "0"
  /\ DefaultInside["unit"] = "0" /\ DefaultInside["ticks"] = "0"
  /\ DefaultInside["stale"] = "null" /\ DefaultInside["aircraftMemory"] = "empty"
  /\ DOMAIN DefaultInside = {"flag", "count", "unit", "ticks", "stale", "aircraftMemory"}
  /\ Default["key"] = "k" /\ Default["memory"] = "empty" /\ Default["repositioned"] = "false"
  /\ Default["phase"] = Absent /\ Default["fuel"] = Absent
<1>1. /\ DefaultInside["flag"] = "false" /\ DefaultInside["count"] = "0"
      /\ DefaultInside["unit"] = "0" /\ DefaultInside["ticks"] = "0"
      /\ DefaultInside["stale"] = "null" /\ DefaultInside["aircraftMemory"] = "empty"
      /\ DOMAIN DefaultInside = {"flag", "count", "unit", "ticks", "stale", "aircraftMemory"}
  BY DEF DefaultInside
<1>2. /\ Default["key"] = "k" /\ Default["memory"] = "empty" /\ Default["repositioned"] = "false"
      /\ Default["phase"] = Absent /\ Default["fuel"] = Absent
  BY DEF Default, Leaves, CheckpointLeaves, PlanLeaves, DocumentLeaves
<1> QED
  BY <1>1, <1>2

(***************************************************************************)
(* A document that passes CanBeReadBack is worth writing.                  *)
(***************************************************************************)
LEMMA WorthWriting ==
  ASSUME NEW d \in WrittenDocuments, CanBeReadBack(d)
  PROVE  IsWorthWriting(d)
<1>1. PICK c \in Checkpoints, p \in Plans, r \in {"true", "false"} :
        d = [leaf \in Leaves |->
               CASE leaf \in CheckpointLeaves -> c[leaf] [] leaf \in PlanLeaves -> p[leaf]
                 [] OTHER -> [Default EXCEPT !["repositioned"] = r][leaf]]
  BY DEF WrittenDocuments
<1>2. d = [leaf \in Leaves |-> d[leaf]]
  BY <1>1
<1>3. /\ d["phase"] = c["phase"] /\ d["flag"] = c["flag"] /\ d["count"] = c["count"]
      /\ d["stale"] = c["stale"] /\ d["ticks"] = c["ticks"]
      /\ d["aircraftMemory"] = c["aircraftMemory"]
  <2>1. \A leaf \in CheckpointLeaves : d[leaf] = c[leaf]
    BY <1>1 DEF Leaves, CheckpointLeaves, PlanLeaves
  <2> QED
    BY <2>1 DEF CheckpointLeaves
<1>4. d["fuel"] = p["fuel"] /\ d["unit"] = p["unit"]
  BY <1>1 DEF Leaves, CheckpointLeaves, PlanLeaves
<1>5. DOMAIN Default = Leaves /\ "repositioned" \in Leaves
  BY DEF Default, Leaves, DocumentLeaves
<1>6. d["key"] = "k" /\ d["memory"] = "empty" /\ d["repositioned"] = r
  BY <1>1, <1>5, Inside DEF Leaves, CheckpointLeaves, PlanLeaves, DocumentLeaves
<1>7. HasNoCheckpoint(d) \/ HasItsCheckpoint(d)
  <2>1. CASE c = [leaf \in CheckpointLeaves |-> Absent]
    BY <2>1, <1>3 DEF HasNoCheckpoint, CheckpointLeaves
  <2>2. CASE c # [leaf \in CheckpointLeaves |-> Absent]
    <3>1. /\ c["phase"] \in {"Loading", "WaitingNewFlight"} /\ c["stale"] \in {"null", "3"}
          /\ c["flag"] = "true" /\ c["count"] = "5" /\ c["ticks"] = "7"
          /\ c["aircraftMemory"] = "held"
      BY <2>2 DEF Checkpoints
    <3>2. HoldsCheckpoint(d)
      BY <3>1, <1>3 DEF HoldsCheckpoint, Absent
    <3> QED
      BY <3>1, <3>2, <1>3 DEF CanBeReadBack, Resumable, HasItsCheckpoint
  <2> QED
    BY <2>1, <2>2
<1>8. HasNoPlan(d) \/ HasItsPlan(d)
  <2>1. CASE p = [leaf \in PlanLeaves |-> Absent]
    BY <2>1, <1>4 DEF HasNoPlan, PlanLeaves
  <2>2. CASE p # [leaf \in PlanLeaves |-> Absent]
    <3>1. p["fuel"] \in {"7500.5", NotFinite} /\ p["unit"] \in {"0", "9"}
      BY <2>2 DEF Plans
    <3>2. HoldsPlan(d)
      BY <3>1, <1>4 DEF HoldsPlan, Absent, NotFinite
    <3> QED
      BY <3>1, <3>2, <1>4 DEF CanBeReadBack, KnownUnits, HasItsPlan
  <2> QED
    BY <2>1, <2>2
<1> QED
  BY <1>2, <1>6, <1>7, <1>8 DEF IsWorthWriting

(***************************************************************************)
(* What the JSON json of such a document holds.                          *)
(***************************************************************************)
\* What the JSON object of such a document holds.
HoldsDocument(json, d, version) ==
  /\ json = [at \in Places |-> json[at]]
  /\ json["clientVersion"] = Json("string", version)
  /\ json["phaseCount"] = Json("number", PhaseCountOf(version))
  /\ json["key"] = Json("string", "k") /\ json["memory"] = Json("array", "empty")
  /\ json["repositioned"] = Json("bool", d["repositioned"])
  /\ json["ticks"] = Undefined
  /\ HasNoCheckpoint(d) =>
       json["checkpoint"] = Undefined /\ \A leaf \in CheckpointLeaves : json[leaf] = Undefined
  /\ HasItsCheckpoint(d) =>
       /\ json["checkpoint"] = Json("object", "none")
       /\ json["phase"] = Json("string", "Loading") /\ json["flag"] = Json("bool", "true")
       /\ json["count"] = Json("number", "5")
       /\ json["stale"] = IF d["stale"] = "null" THEN Null ELSE Json("number", "3")
       /\ json["aircraftMemory"] = Json("array", "held")
  /\ HasNoPlan(d) =>
       json["plan"] = Undefined /\ \A leaf \in PlanLeaves : json[leaf] = Undefined
  /\ HasItsPlan(d) =>
       /\ json["plan"] = Json("object", "none")
       /\ json["fuel"] = IF d["fuel"] = NotFinite THEN Null ELSE Json("number", "7500.5")
       /\ json["unit"] = Json("number", "0")

\* DocumentToJson, leaf by leaf.
LEMMA JsonOfDocument ==
  ASSUME NEW d, IsWorthWriting(d), NEW version
  PROVE  HoldsDocument(DocumentToJson(d, version), d, version)
<1> DEFINE json == DocumentToJson(d, version)
<1> USE DEF Leaves, Containers, Stamp, CheckpointLeaves, PlanLeaves, DocumentLeaves, NotSaved
<1>1. json = [at \in Places |-> json[at]]
  BY DEF DocumentToJson, Places
<1>2. /\ json["clientVersion"] = Json("string", version)
      /\ json["phaseCount"] = Json("number", PhaseCountOf(version))
      /\ json["ticks"] = Undefined
      /\ json["checkpoint"] = IF HoldsCheckpoint(d) THEN Json("object", "none") ELSE Undefined
      /\ json["plan"] = IF HoldsPlan(d) THEN Json("object", "none") ELSE Undefined
  BY DEF DocumentToJson
<1>3. \A leaf \in CheckpointLeaves \ {"ticks"} :
        json[leaf] = IF HoldsCheckpoint(d) THEN Encode(LeafType[leaf], d[leaf]) ELSE Undefined
  BY DEF DocumentToJson
<1>4. \A leaf \in PlanLeaves :
        json[leaf] = IF HoldsPlan(d) THEN Encode(LeafType[leaf], d[leaf]) ELSE Undefined
  BY DEF DocumentToJson
<1>5. \A leaf \in DocumentLeaves : json[leaf] = Encode(LeafType[leaf], d[leaf])
  BY DEF DocumentToJson
<1> HIDE DEF json, Leaves, Containers, Stamp, NotSaved
<1>6. /\ json["key"] = Json("string", "k") /\ json["memory"] = Json("array", "empty")
      /\ json["repositioned"] = Json("bool", d["repositioned"])
  BY <1>5, TypesOfLeaves DEF Encode, IsWorthWriting, NotFinite
<1>7. HasNoCheckpoint(d) => json["checkpoint"] = Undefined
                            /\ \A leaf \in CheckpointLeaves : json[leaf] = Undefined
  BY <1>2, <1>3 DEF HasNoCheckpoint, HoldsCheckpoint
<1>8. ASSUME HasItsCheckpoint(d)
      PROVE  /\ json["checkpoint"] = Json("object", "none")
             /\ json["phase"] = Json("string", "Loading") /\ json["flag"] = Json("bool", "true")
             /\ json["count"] = Json("number", "5")
             /\ json["stale"] = IF d["stale"] = "null" THEN Null ELSE Json("number", "3")
             /\ json["aircraftMemory"] = Json("array", "held")
  <2>1. HoldsCheckpoint(d)
    BY <1>8 DEF HoldsCheckpoint, HasItsCheckpoint, Absent
  <2>2. json["phase"] = Json("string", "Loading") /\ json["flag"] = Json("bool", "true")
    BY <1>3, <1>8, <2>1, TypesOfLeaves DEF Encode, HasItsCheckpoint, NotFinite
  <2>3. json["count"] = Json("number", "5") /\ json["aircraftMemory"] = Json("array", "held")
    BY <1>3, <1>8, <2>1, TypesOfLeaves DEF Encode, HasItsCheckpoint, NotFinite
  <2>4. json["stale"] = IF d["stale"] = "null" THEN Null ELSE Json("number", "3")
    <3>1. json["stale"] = Encode("optional", d["stale"])
      BY <1>3, <2>1, TypesOfLeaves
    <3>2. CASE d["stale"] = "null"
      BY <3>1, <3>2 DEF Encode
    <3>3. CASE d["stale"] = "3"
      BY <3>1, <3>3 DEF Encode, NotFinite
    <3> QED
      BY <3>2, <3>3, <1>8 DEF HasItsCheckpoint
  <2> QED
    BY <1>2, <2>1, <2>2, <2>3, <2>4
<1>9. HasNoPlan(d) => json["plan"] = Undefined /\ \A leaf \in PlanLeaves : json[leaf] = Undefined
  BY <1>2, <1>4 DEF HasNoPlan, HoldsPlan
<1>10. ASSUME HasItsPlan(d)
       PROVE  /\ json["plan"] = Json("object", "none")
              /\ json["fuel"] = IF d["fuel"] = NotFinite THEN Null ELSE Json("number", "7500.5")
              /\ json["unit"] = Json("number", "0")
  <2>1. HoldsPlan(d)
    BY <1>10 DEF HoldsPlan, HasItsPlan, Absent, NotFinite
  <2>2. json["fuel"] = IF d["fuel"] = NotFinite THEN Null ELSE Json("number", "7500.5")
    <3>1. json["fuel"] = Encode("real", d["fuel"])
      BY <1>4, <2>1, TypesOfLeaves
    <3>2. CASE d["fuel"] = NotFinite
      BY <3>1, <3>2 DEF Encode
    <3>3. CASE d["fuel"] = "7500.5"
      BY <3>1, <3>3 DEF Encode, NotFinite
    <3> QED
      BY <3>2, <3>3, <1>10 DEF HasItsPlan
  <2>3. json["unit"] = Json("number", "0")
    BY <1>4, <1>10, <2>1, TypesOfLeaves DEF Encode, HasItsPlan, NotFinite
  <2> QED
    BY <1>2, <2>1, <2>2, <2>3
<1> QED
  BY <1>1, <1>2, <1>6, <1>7, <1>8, <1>9, <1>10 DEF HoldsDocument, json

(***************************************************************************)
(* Such a document is read back as it was, but for what isn't saved.       *)
(***************************************************************************)
LEMMA ReadsBack ==
  ASSUME NEW d, IsWorthWriting(d), NEW version
  PROVE  LET json == DocumentToJson(d, version)
         IN  IF d["fuel"] = NotFinite THEN ~IsAccepted(json, version)
             ELSE /\ IsAccepted(json, version)
                  /\ DocumentFromJson(json) =
                       [leaf \in Leaves |->
                          IF leaf \in NotSaved /\ HoldsCheckpoint(d) THEN DefaultInside[leaf]
                          ELSE d[leaf]]
<1> DEFINE json == DocumentToJson(d, version)
<1> HIDE DEF json
<1>0. HoldsDocument(json, d, version)
  BY JsonOfDocument DEF json
<1>1. /\ json = [at \in Places |-> json[at]]
      /\ json["clientVersion"] = Json("string", version)
      /\ json["phaseCount"] = Json("number", PhaseCountOf(version))
      /\ json["key"] = Json("string", "k") /\ json["memory"] = Json("array", "empty")
      /\ json["repositioned"] = Json("bool", d["repositioned"])
      /\ json["ticks"] = Undefined
  BY <1>0 DEF HoldsDocument
<1>2. HasNoCheckpoint(d) =>
        json["checkpoint"] = Undefined /\ \A leaf \in CheckpointLeaves : json[leaf] = Undefined
  BY <1>0 DEF HoldsDocument
<1>3. HasItsCheckpoint(d) =>
        /\ json["checkpoint"] = Json("object", "none")
        /\ json["phase"] = Json("string", "Loading") /\ json["flag"] = Json("bool", "true")
        /\ json["count"] = Json("number", "5")
        /\ json["stale"] = IF d["stale"] = "null" THEN Null ELSE Json("number", "3")
        /\ json["aircraftMemory"] = Json("array", "held")
  BY <1>0 DEF HoldsDocument
<1>4. HasNoPlan(d) =>
        json["plan"] = Undefined /\ \A leaf \in PlanLeaves : json[leaf] = Undefined
  BY <1>0 DEF HoldsDocument
<1>5. HasItsPlan(d) =>
        /\ json["plan"] = Json("object", "none")
        /\ json["fuel"] = IF d["fuel"] = NotFinite THEN Null ELSE Json("number", "7500.5")
        /\ json["unit"] = Json("number", "0")
  BY <1>0 DEF HoldsDocument
<1>6. \A leaf \in DocumentLeaves : LeafDecodes(json, leaf)
  BY <1>1, TypesOfLeaves
  DEF LeafDecodes, Decodes, DocumentLeaves, IsWorthWriting, Json, Undefined, Null
<1>7. CheckpointFromJson(json)
  <2>1. CASE HasNoCheckpoint(d)
    BY <2>1, <1>2 DEF CheckpointFromJson, IsAbsent, Json, Undefined, Null
  <2>2. CASE HasItsCheckpoint(d)
    <3>1. LeafDecodes(json, "phase") /\ LeafDecodes(json, "flag") /\ LeafDecodes(json, "ticks")
      BY <2>2, <1>3, TypesOfLeaves DEF LeafDecodes, Decodes, NotSaved, Json, Undefined, Null
    <3>2. LeafDecodes(json, "count") /\ LeafDecodes(json, "aircraftMemory")
      BY <2>2, <1>3, TypesOfLeaves
      DEF LeafDecodes, Decodes, NotSaved, IsWhole, Fraction, TooLarge, Json, Undefined, Null
    <3>3. LeafDecodes(json, "stale")
      <4>1. Decodes("optional", json["stale"])
        BY <2>2, <1>3 DEF Decodes, IsWhole, Fraction, TooLarge, Json, Undefined, Null
      <4> QED
        BY <4>1, TypesOfLeaves DEF LeafDecodes
    <3> QED
      BY <3>1, <3>2, <3>3, <2>2, <1>3
      DEF CheckpointFromJson, CheckpointLeaves, Resumable, Json, Undefined, Null
  <2> QED
    BY <2>1, <2>2 DEF IsWorthWriting
<1>8. CASE d["fuel"] = NotFinite
  <2>1. HasItsPlan(d)
    BY <1>8 DEF IsWorthWriting, HasNoPlan, NotFinite, Absent
  <2>2. ~LeafDecodes(json, "fuel")
    BY <2>1, <1>8, <1>5, TypesOfLeaves
    DEF LeafDecodes, Decodes, NotSaved, MayBeMissing, Json, Undefined, Null
  <2>3. ~IsAbsent(json["plan"])
    BY <2>1, <1>5 DEF IsAbsent, Json, Undefined, Null
  <2>4. ~PlanFromJson(json)
    BY <2>2, <2>3 DEF PlanFromJson, PlanLeaves
  <2> QED
    BY <2>4, <1>8 DEF IsAccepted, json
<1>9. CASE d["fuel"] # NotFinite
  <2>1. HasItsPlan(d) => LeafRead(json, "unit") = "0" /\ LeafRead(json, "fuel") = "7500.5"
    BY <1>5, <1>9, TypesOfLeaves DEF LeafRead, NotSaved, Decoded, Json, Undefined, Null
  <2>2. PlanFromJson(json)
    <3>1. CASE HasNoPlan(d)
      BY <3>1, <1>4 DEF PlanFromJson, IsAbsent, Json, Undefined, Null
    <3>2. CASE HasItsPlan(d)
      <4>1. LeafDecodes(json, "fuel") /\ LeafDecodes(json, "unit")
        BY <3>2, <1>5, <1>9, TypesOfLeaves
        DEF LeafDecodes, Decodes, IsWhole, Fraction, TooLarge, Json, Undefined, Null
      <4> QED
        BY <4>1, <3>2, <1>5, <2>1 DEF PlanFromJson, PlanLeaves, KnownUnits, Json, Undefined, Null
    <3> QED
      BY <3>1, <3>2 DEF IsWorthWriting
  <2>3. IsAccepted(json, version)
    BY <1>1, <1>6, <1>7, <2>2 DEF IsAccepted
  <2> DEFINE read(leaf) ==
        IF \/ leaf \in CheckpointLeaves /\ IsAbsent(json["checkpoint"])
           \/ leaf \in PlanLeaves /\ IsAbsent(json["plan"])
        THEN Absent ELSE LeafRead(json, leaf)
      meant(leaf) ==
        IF leaf \in NotSaved /\ HoldsCheckpoint(d) THEN DefaultInside[leaf] ELSE d[leaf]
  <2>4. \A leaf \in DocumentLeaves : read(leaf) = meant(leaf)
    <3>1. /\ LeafRead(json, "key") = "k" /\ LeafRead(json, "memory") = "empty"
          /\ LeafRead(json, "repositioned") = d["repositioned"]
      BY <1>1, TypesOfLeaves DEF LeafRead, NotSaved, Decoded, Json, Undefined, Null
    <3> QED
      BY <3>1 DEF DocumentLeaves, CheckpointLeaves, PlanLeaves, NotSaved, IsWorthWriting
  <2>5. \A leaf \in CheckpointLeaves : read(leaf) = meant(leaf)
    <3>1. CASE HasNoCheckpoint(d)
      <4>1. IsAbsent(json["checkpoint"]) /\ ~HoldsCheckpoint(d)
        BY <3>1, <1>2
        DEF IsAbsent, HoldsCheckpoint, HasNoCheckpoint, CheckpointLeaves, Json, Undefined, Null
      <4> QED
        BY <4>1, <3>1 DEF HasNoCheckpoint
    <3>2. CASE HasItsCheckpoint(d)
      <4>1. ~IsAbsent(json["checkpoint"]) /\ HoldsCheckpoint(d)
        BY <3>2, <1>3 DEF IsAbsent, HoldsCheckpoint, HasItsCheckpoint, Absent, Json, Undefined, Null
      <4>2. LeafRead(json, "phase") = "Loading" /\ LeafRead(json, "flag") = "true"
        BY <3>2, <1>3, TypesOfLeaves DEF LeafRead, NotSaved, Decoded, Json, Undefined, Null
      <4>3. LeafRead(json, "count") = "5" /\ LeafRead(json, "aircraftMemory") = "held"
        BY <3>2, <1>3, TypesOfLeaves DEF LeafRead, NotSaved, Decoded, Json, Undefined, Null
      <4>4. LeafRead(json, "stale") = d["stale"]
        <5>1. LeafRead(json, "stale") = Decoded("optional", json["stale"])
          BY <3>2, <1>3, TypesOfLeaves DEF LeafRead, NotSaved, Json, Undefined, Null
        <5> QED
          BY <5>1, <3>2, <1>3 DEF Decoded, HasItsCheckpoint, Json, Undefined, Null
      <4>5. LeafRead(json, "ticks") = DefaultInside["ticks"]
        BY Inside DEF LeafRead, NotSaved
      <4>6. \A leaf \in CheckpointLeaves : leaf \notin PlanLeaves
        BY DEF CheckpointLeaves, PlanLeaves
      <4>7. \A leaf \in CheckpointLeaves : read(leaf) = LeafRead(json, leaf)
        BY <4>1, <4>6
      <4>8. \A leaf \in CheckpointLeaves \ {"ticks"} : meant(leaf) = d[leaf]
        BY DEF NotSaved
      <4>9. meant("ticks") = DefaultInside["ticks"]
        BY <4>1 DEF NotSaved
      <4> HIDE DEF read, meant
      <4> QED
        BY <4>2, <4>3, <4>4, <4>5, <4>7, <4>8, <4>9, <3>2 DEF CheckpointLeaves, HasItsCheckpoint
    <3> QED
      BY <3>1, <3>2 DEF IsWorthWriting
  <2>6. \A leaf \in PlanLeaves : read(leaf) = meant(leaf)
    <3>1. CASE HasNoPlan(d)
      BY <3>1, <1>4 DEF IsAbsent, HasNoPlan, PlanLeaves, NotSaved, Json, Undefined, Null
    <3>2. CASE HasItsPlan(d)
      <4>1. ~IsAbsent(json["plan"])
        BY <3>2, <1>5 DEF IsAbsent, Json, Undefined, Null
      <4>2. d["fuel"] = "7500.5" /\ d["unit"] = "0"
        BY <3>2, <1>9 DEF HasItsPlan
      <4> QED
        BY <4>1, <4>2, <2>1, <3>2 DEF PlanLeaves, CheckpointLeaves, NotSaved
    <3> QED
      BY <3>1, <3>2 DEF IsWorthWriting
  <2>7. \A leaf \in Leaves : read(leaf) = meant(leaf)
    BY <2>4, <2>5, <2>6 DEF Leaves
  <2>8. DocumentFromJson(json) = [leaf \in Leaves |-> read(leaf)]
    BY DEF DocumentFromJson
  <2>9. DocumentFromJson(json) = [leaf \in Leaves |-> meant(leaf)]
    <3> HIDE DEF read, meant
    <3> QED
      BY <2>7, <2>8
  <2> QED
    BY <2>3, <2>9, <1>9 DEF json
<1> QED
  BY <1>8, <1>9

(***************************************************************************)
(* The leaves of what is written are values.                               *)
(***************************************************************************)
LEMMA JsonsOfDocument ==
  ASSUME NEW d, IsWorthWriting(d), NEW version, NEW leaf \in Leaves
  PROVE  IsJson(DocumentToJson(d, version)[leaf])
<1> DEFINE json == DocumentToJson(d, version)
<1> HIDE DEF json
<1>0. HoldsDocument(json, d, version)
  BY JsonOfDocument DEF json
<1> USE DEF IsJson, Json, Undefined, Null, NotFinite, Absent
<1>1. CASE leaf \in DocumentLeaves
  <2>1. IsJson(json["key"]) /\ IsJson(json["memory"])
    BY <1>0 DEF HoldsDocument
  <2>2. IsJson(json["repositioned"])
    BY <1>0 DEF HoldsDocument, IsWorthWriting
  <2> QED
    BY <1>1, <2>1, <2>2 DEF DocumentLeaves, json
<1>2. CASE leaf \in CheckpointLeaves
  <2>1. CASE HasNoCheckpoint(d)
    BY <2>1, <1>0, <1>2 DEF HoldsDocument, json
  <2>2. CASE HasItsCheckpoint(d)
    <3>1. IsJson(json["phase"]) /\ IsJson(json["flag"])
      BY <2>2, <1>0 DEF HoldsDocument
    <3>2. IsJson(json["count"]) /\ IsJson(json["aircraftMemory"])
      BY <2>2, <1>0 DEF HoldsDocument
    <3>3. IsJson(json["stale"]) /\ IsJson(json["ticks"])
      BY <2>2, <1>0 DEF HoldsDocument
    <3> QED
      BY <3>1, <3>2, <3>3, <1>2 DEF CheckpointLeaves, json
  <2> QED
    BY <2>1, <2>2 DEF IsWorthWriting
<1>3. CASE leaf \in PlanLeaves
  <2>1. CASE HasNoPlan(d)
    BY <2>1, <1>0, <1>3 DEF HoldsDocument, json
  <2>2. CASE HasItsPlan(d)
    <3>1. IsJson(json["fuel"]) /\ IsJson(json["unit"])
      BY <2>2, <1>0 DEF HoldsDocument
    <3> QED
      BY <3>1, <1>3 DEF PlanLeaves, json
  <2> QED
    BY <2>1, <2>2 DEF IsWorthWriting
<1> QED
  BY <1>1, <1>2, <1>3 DEF Leaves

(***************************************************************************)
(* There is no file at first.                                              *)
(***************************************************************************)
LEMMA FileInvInit == FileInit => FileInv
  BY FileConstants DEF FileInit, FileInv, FileTypeOK, NoFile, Nothing

(***************************************************************************)
(* Each operation on the file, and each damage to it, keeps its invariant. *)
(***************************************************************************)
LEMMA FileInvStep == FileInv /\ [FileNext]_fileVars => FileInv'
<1> SUFFICES ASSUME FileInv, [FileNext]_fileVars PROVE FileInv'
  OBVIOUS
<1>0. FileTypeOK /\ MaxFaults \in Nat
  BY FileConstants DEF FileInv
<1>a. Fault => file.faults + 1 \in 0 .. MaxFaults
  BY <1>0 DEF Fault, FileTypeOK
<1>1. ASSUME NEW d \in WrittenDocuments, CanBeReadBack(d),
             file' = [file EXCEPT !.exists = TRUE, !.readable = TRUE,
                                  !.json = DocumentToJson(d, program)],
             written' = [document |-> d, version |-> program, kept |-> TRUE],
             UNCHANGED program
      PROVE  FileInv'
  <2>1. IsWorthWriting(d)
    BY <1>1, WorthWriting
  <2>2. HoldsDocument(DocumentToJson(d, program), d, program)
    BY <2>1, JsonOfDocument
  <2>3. file' = [exists |-> TRUE, readable |-> TRUE, json |-> DocumentToJson(d, program),
                 faults |-> file.faults]
    BY <1>1 DEF FileInv
  <2>4. \A leaf \in Leaves : IsJson(file'.json[leaf])
    BY <2>1, <2>3, JsonsOfDocument
  <2>5. file'.json = [at \in Places |-> file'.json[at]]
    BY <2>2, <2>3 DEF HoldsDocument
  <2>6. FileTypeOK'
    BY <2>3, <1>0, <1>1 DEF FileTypeOK
  <2> QED
    BY <2>1, <2>3, <2>4, <2>5, <2>6, <1>1 DEF FileInv
<1>2. CASE Write
  BY <1>1, <1>2 DEF Write
<1>3. CASE WriteFails
  <2>1. file' = [exists |-> file.exists, readable |-> file.readable, json |-> file.json,
                 faults |-> file.faults + 1] /\ UNCHANGED <<program, written>>
    BY <1>3 DEF WriteFails, FileInv
  <2>2. file.faults + 1 \in 0 .. MaxFaults
    BY <1>a, <1>3 DEF WriteFails
  <2> QED
    BY <2>1, <2>2 DEF FileInv, FileTypeOK
<1>4. CASE Erase
  <2>1. file' = [exists |-> FALSE, readable |-> file.readable, json |-> file.json,
                 faults |-> file.faults] /\ UNCHANGED program /\ written' = Nothing
    BY <1>4 DEF Erase, FileInv
  <2> QED
    BY <2>1 DEF FileInv, FileTypeOK, Nothing
<1>5. CASE Replaced
  <2>1. file' = [exists |-> file.exists, readable |-> file.readable, json |-> file.json,
                 faults |-> file.faults + 1] /\ program' \in Versions /\ UNCHANGED written
    BY <1>5 DEF Replaced, FileInv
  <2>2. file.faults + 1 \in 0 .. MaxFaults
    BY <1>a, <1>5 DEF Replaced
  <2> QED
    BY <2>1, <2>2 DEF FileInv, FileTypeOK
<1>6. CASE IsDamaged
  <2>1. /\ file.exists /\ UNCHANGED program
        /\ written' = [document |-> written.document, version |-> written.version, kept |-> FALSE]
    BY <1>6 DEF IsDamaged, FileInv
  <2>2. file.faults + 1 \in 0 .. MaxFaults
    BY <1>a, <1>6 DEF IsDamaged
  <2>3. CASE file' = [file EXCEPT !.readable = FALSE, !.faults = @ + 1]
    <3>1. file' = [exists |-> file.exists, readable |-> FALSE, json |-> file.json,
                   faults |-> file.faults + 1]
      BY <2>3 DEF FileInv
    <3> QED
      BY <3>1, <2>1, <2>2 DEF FileInv, FileTypeOK
  <2>4. ASSUME NEW at \in DOMAIN file.json,
               NEW json \in {Undefined, Null, Json("string", "other"), Json("bool", "true"),
                             Json("object", "none"), Json("number", Fraction),
                             Json("number", TooLarge), Json("number", "9"),
                             Json("array", "broken")},
               file' = [file EXCEPT !.json[at] = json, !.faults = @ + 1]
        PROVE  FileInv'
    <3> DEFINE damaged == [file.json EXCEPT ![at] = json]
    <3>1. file' = [exists |-> file.exists, readable |-> file.readable, json |-> damaged,
                   faults |-> file.faults + 1]
      BY <2>4 DEF FileInv
    <3>2. IsJson(json)
      BY <2>4 DEF IsJson, Undefined, Null, Json, Fraction, TooLarge, NotFinite, Absent
    <3>3. Leaves \subseteq Places
      BY DEF Places
    <3>4. /\ damaged = [place \in Places |-> damaged[place]]
          /\ \A leaf \in Leaves : IsJson(damaged[leaf])
      BY <2>1, <3>2, <3>3 DEF FileInv
    <3> HIDE DEF damaged
    <3> QED
      BY <3>1, <3>4, <2>1, <2>2 DEF FileInv, FileTypeOK
  <2> QED
    BY <1>6, <2>3, <2>4 DEF IsDamaged
<1>7. CASE UNCHANGED fileVars
  BY <1>7 DEF FileInv, FileTypeOK, fileVars
<1> QED
  BY <1>2, <1>3, <1>4, <1>5, <1>6, <1>7 DEF FileNext

(***************************************************************************)
(* What is written is read back: the invariant says what the file holds.   *)
(***************************************************************************)
LEMMA WrittenIsRead == FileInv => WhatIsWrittenIsReadBack
<1> SUFFICES ASSUME FileInv, written.kept, written.version = program
             PROVE  WhatIsWrittenIsReadBack
  BY DEF WhatIsWrittenIsReadBack
<1>1. IsWorthWriting(written.document) /\ file.json = DocumentToJson(written.document, program)
  BY DEF FileInv
<1>2. file.exists /\ file.readable
  BY DEF FileInv, FileTypeOK
<1>3. IF written.document["fuel"] = NotFinite THEN ~IsAccepted(file.json, program)
      ELSE /\ IsAccepted(file.json, program)
           /\ ReadDocument = [leaf \in Leaves |->
                IF leaf \in NotSaved /\ HoldsCheckpoint(written.document) THEN DefaultInside[leaf]
                ELSE written.document[leaf]]
  BY <1>1, ReadsBack DEF ReadDocument
<1> QED
  BY <1>2, <1>3 DEF WhatIsWrittenIsReadBack, CanBeRead

(***************************************************************************)
(* What is read of any file is a document: the reader refuses every value  *)
(* that is of another type or out of range.                                *)
(***************************************************************************)
LEMMA DocumentsAreWhole == FileInv => OnlyDocumentsAreRead
<1> SUFFICES ASSUME FileInv, CanBeRead PROVE OnlyDocumentsAreRead
  BY DEF OnlyDocumentsAreRead
<1> DEFINE json == file.json
<1> HIDE DEF json
<1>1. /\ \A leaf \in Leaves : IsJson(json[leaf])
      /\ \A leaf \in DocumentLeaves : LeafDecodes(json, leaf)
      /\ CheckpointFromJson(json) /\ PlanFromJson(json)
  BY DEF FileInv, CanBeRead, IsAccepted, json
<1>2. \A leaf \in Leaves :
        ReadDocument[leaf] =
          IF \/ leaf \in CheckpointLeaves /\ IsAbsent(json["checkpoint"])
             \/ leaf \in PlanLeaves /\ IsAbsent(json["plan"])
          THEN Absent ELSE LeafRead(json, leaf)
  BY DEF ReadDocument, DocumentFromJson, json
<1>3. \A leaf \in CheckpointLeaves : leaf \in Leaves /\ leaf \notin PlanLeaves
  BY DEF CheckpointLeaves, PlanLeaves, Leaves
<1>4. \A leaf \in PlanLeaves : leaf \in Leaves /\ leaf \notin CheckpointLeaves
  BY DEF CheckpointLeaves, PlanLeaves, Leaves
<1>5. "phase" \in CheckpointLeaves /\ "fuel" \in PlanLeaves /\ "unit" \in PlanLeaves
  BY DEF CheckpointLeaves, PlanLeaves
<1>6. ASSUME HoldsCheckpoint(ReadDocument)
      PROVE  /\ ReadDocument["phase"] \in Resumable
             /\ \A leaf \in CheckpointLeaves : ReadDocument[leaf] # Absent
  <2>1. ~IsAbsent(json["checkpoint"])
    BY <1>6, <1>2, <1>3, <1>5 DEF HoldsCheckpoint
  <2>2. /\ \A leaf \in CheckpointLeaves : LeafDecodes(json, leaf)
        /\ json["phase"].value \in Resumable
    BY <2>1, <1>1 DEF CheckpointFromJson
  <2>3. \A leaf \in CheckpointLeaves : ReadDocument[leaf] = LeafRead(json, leaf)
    BY <1>2, <1>3, <2>1
  <2>4. Decodes("string", json["phase"])
    BY <2>2, <1>5, TypesOfLeaves DEF LeafDecodes, NotSaved, MayBeMissing
  <2>5. json["phase"].kind = "string"
    BY <2>4 DEF Decodes
  <2>6. json["phase"] # Undefined
    BY <2>5 DEF Undefined, Json
  <2>7. LeafRead(json, "phase") = json["phase"].value
    BY <2>6, TypesOfLeaves DEF LeafRead, NotSaved, Decoded
  <2>8. \A leaf \in CheckpointLeaves \ {"phase"} : LeafRead(json, leaf) # Absent
    <3> TAKE leaf \in CheckpointLeaves \ {"phase"}
    <3>1. CASE leaf \in NotSaved \/ json[leaf] = Undefined
      <4>1. leaf \in DOMAIN DefaultInside /\ LeafRead(json, leaf) = DefaultInside[leaf]
        BY <3>1, Inside DEF LeafRead, CheckpointLeaves
      <4> QED
        BY <4>1, Inside DEF Absent
    <3>2. CASE ~(leaf \in NotSaved \/ json[leaf] = Undefined)
      <4>1. LeafRead(json, leaf) = Decoded(LeafType[leaf], json[leaf])
        BY <3>2 DEF LeafRead
      <4>2. json[leaf].value # Absent
        BY <1>1, <1>3 DEF IsJson
      <4>3. Decoded(LeafType[leaf], json[leaf]) \in {"null", "empty", json[leaf].value}
        BY TypesOfLeaves DEF Decoded, CheckpointLeaves
      <4> QED
        BY <4>1, <4>2, <4>3 DEF Absent
    <3> QED
      BY <3>1, <3>2
  <2>9. "Loading" # Absent
    BY DEF Absent
  <2> QED
    BY <2>2, <2>3, <2>7, <2>8, <2>9, <1>5 DEF Resumable
<1>7. ASSUME HoldsPlan(ReadDocument)
      PROVE  ReadDocument["unit"] \in KnownUnits /\ ReadDocument["fuel"] # NotFinite
  <2>1. ~IsAbsent(json["plan"])
    BY <1>7, <1>2, <1>4, <1>5 DEF HoldsPlan
  <2>2. /\ LeafDecodes(json, "fuel") /\ LeafRead(json, "unit") \in KnownUnits
    BY <2>1, <1>1, <1>5 DEF PlanFromJson
  <2>3. \A leaf \in PlanLeaves : ReadDocument[leaf] = LeafRead(json, leaf)
    BY <1>2, <1>4, <2>1
  <2>4. Decodes("real", json["fuel"])
    BY <2>2, TypesOfLeaves DEF LeafDecodes, NotSaved, MayBeMissing
  <2>5. json["fuel"].kind = "number"
    BY <2>4 DEF Decodes
  <2>6. json["fuel"] # Undefined
    BY <2>5 DEF Undefined, Json
  <2>7. LeafRead(json, "fuel") = json["fuel"].value
    BY <2>6, TypesOfLeaves DEF LeafRead, NotSaved, Decoded
  <2>8. json["fuel"].value # NotFinite
    BY <2>5, <1>1, <1>4, <1>5 DEF IsJson
  <2> QED
    BY <2>2, <2>3, <2>7, <2>8, <1>5
<1>8. ASSUME NEW leaf \in Leaves, LeafType[leaf] = "bool"
      PROVE  ReadDocument[leaf] \in {"true", "false", Absent}
  <2>1. leaf \in {"flag", "repositioned"}
    BY <1>8, TypesOfLeaves DEF Leaves, CheckpointLeaves, PlanLeaves, DocumentLeaves
  <2>2. CASE ReadDocument[leaf] = Absent
    BY <2>2
  <2>3. CASE ReadDocument[leaf] # Absent
    <3>1. ReadDocument[leaf] = LeafRead(json, leaf)
      BY <2>3, <1>2
    <3>2. LeafDecodes(json, leaf)
      <4>1. CASE leaf = "repositioned"
        BY <4>1, <1>1 DEF DocumentLeaves
      <4>2. CASE leaf = "flag"
        <5>1. leaf \in CheckpointLeaves
          BY <4>2 DEF CheckpointLeaves
        <5>2. ~IsAbsent(json["checkpoint"])
          BY <5>1, <2>3, <1>2
        <5> QED
          BY <5>1, <5>2, <1>1 DEF CheckpointFromJson
      <4> QED
        BY <4>1, <4>2, <2>1
    <3>3. CASE json[leaf] = Undefined
      BY <3>1, <3>3, <2>1, Inside DEF LeafRead
    <3>4. CASE json[leaf] # Undefined
      <4>1. Decodes("bool", json[leaf])
        BY <3>2, <3>4, <1>8, <2>1 DEF LeafDecodes, NotSaved
      <4>2. json[leaf].value \in {"true", "false"}
        BY <4>1, <1>1 DEF Decodes, IsJson
      <4>3. LeafRead(json, leaf) = json[leaf].value
        BY <3>4, <1>8, <2>1 DEF LeafRead, NotSaved, Decoded
      <4> QED
        BY <4>2, <4>3, <3>1
    <3> QED
      BY <3>3, <3>4
  <2> QED
    BY <2>2, <2>3
<1>9. ASSUME NEW leaf \in Leaves, LeafType[leaf] \in {"whole", "optional"}
      PROVE  ReadDocument[leaf] \notin {Fraction, TooLarge, "true"}
  <2>1. leaf \in {"count", "unit", "stale"}
    BY <1>9, TypesOfLeaves DEF Leaves, CheckpointLeaves, PlanLeaves, DocumentLeaves
  <2>2. CASE ReadDocument[leaf] = Absent
    BY <2>2 DEF Absent, Fraction, TooLarge
  <2>3. CASE ReadDocument[leaf] # Absent
    <3>1. ReadDocument[leaf] = LeafRead(json, leaf)
      BY <2>3, <1>2
    <3>2. LeafDecodes(json, leaf)
      <4>1. CASE leaf \in CheckpointLeaves
        <5>2. ~IsAbsent(json["checkpoint"])
          BY <4>1, <2>3, <1>2
        <5> QED
          BY <4>1, <5>2, <1>1 DEF CheckpointFromJson
      <4>2. CASE leaf \in PlanLeaves
        <5>2. ~IsAbsent(json["plan"])
          BY <4>2, <2>3, <1>2
        <5> QED
          BY <4>2, <5>2, <1>1 DEF PlanFromJson
      <4> QED
        BY <4>1, <4>2, <2>1 DEF CheckpointLeaves, PlanLeaves
    <3>3. CASE json[leaf] = Undefined
      BY <3>1, <3>3, <2>1, Inside DEF LeafRead, Fraction, TooLarge
    <3>4. CASE json[leaf] # Undefined
      <4>1. Decodes(LeafType[leaf], json[leaf])
        BY <3>2, <3>4, <2>1 DEF LeafDecodes, NotSaved
      <4>2. LeafRead(json, leaf) = Decoded(LeafType[leaf], json[leaf])
        BY <3>4, <2>1 DEF LeafRead, NotSaved
      <4>3. CASE LeafType[leaf] = "optional" /\ json[leaf].kind = "null"
        BY <4>2, <4>3, <3>1 DEF Decoded, Fraction, TooLarge
      <4>4. CASE ~(LeafType[leaf] = "optional" /\ json[leaf].kind = "null")
        <5>1. IsWhole(json[leaf])
          BY <4>1, <4>4, <1>9 DEF Decodes
        <5>2. LeafRead(json, leaf) = json[leaf].value
          BY <4>2, <4>4, <1>9 DEF Decoded
        <5> QED
          BY <5>1, <5>2, <3>1, <1>1 DEF IsWhole, IsJson
      <4> QED
        BY <4>3, <4>4
    <3> QED
      BY <3>3, <3>4
  <2> QED
    BY <2>2, <2>3
<1> QED
  BY <1>6, <1>7, <1>8, <1>9 DEF OnlyDocumentsAreRead

(***************************************************************************)
(* What this version has written it reads back as it was, and of any other *)
(* file it reads a whole document or none                                  *)
(* (JsonFileTurnaroundCheckpointStore).                                    *)
(***************************************************************************)
THEOREM DocumentsHold == FileSpec => []DocumentsAreReadBack
<1>1. FileInv => DocumentsAreReadBack
  BY WrittenIsRead, DocumentsAreWhole DEF FileInv, DocumentsAreReadBack
<1> QED
  BY <1>1, FileInvInit, FileInvStep, PTL DEF FileSpec

-----------------------------------------------------------------------------
(***************************************************************************)
(* Rates and their texts.  A text shows a rate, when it and the texts it   *)
(* becomes as the unit changes and changes back are near the rate.         *)
(* Kilograms come back as they were; pounds may not, but their kilograms   *)
(* then stay what they are, and that is why the rounding does not add up.  *)
(***************************************************************************)
OfPounds(text) == 454 * text
OfKilograms(text) == 1000 * text
ToPounds(rate) == (rate + 227) \div 454
ToKilograms(rate) == (rate + 500) \div 1000
Near(shown, rate) == shown - 727 <= rate /\ rate <= shown + 727

KilogramsShow(text, rate) ==
  Near(OfKilograms(text), rate) /\ Near(OfPounds(ToPounds(OfKilograms(text))), rate)
PoundsShow(text, rate) ==
  Near(OfPounds(text), rate) /\ KilogramsShow(ToKilograms(OfPounds(text)), rate)
Shows(text, rate, isLb) ==
  text \in Nat /\ (IF isLb THEN PoundsShow(text, rate) ELSE KilogramsShow(text, rate))

LEMMA GramsOfTexts ==
  ASSUME NEW text \in Nat
  PROVE  OfPounds(text) \in Nat /\ OfKilograms(text) \in Nat
BY SMT DEF OfPounds, OfKilograms

LEMMA RoundedToPounds ==
  ASSUME NEW rate \in Nat
  PROVE  /\ ToPounds(rate) \in Nat /\ OfPounds(ToPounds(rate)) <= rate + 227
         /\ rate < OfPounds(ToPounds(rate)) + 227
BY SMT DEF ToPounds, OfPounds

LEMMA RoundedToKilograms ==
  ASSUME NEW rate \in Nat
  PROVE  /\ ToKilograms(rate) \in Nat /\ OfKilograms(ToKilograms(rate)) <= rate + 500
         /\ rate < OfKilograms(ToKilograms(rate)) + 500
BY SMT DEF ToKilograms, OfKilograms

LEMMA TextsInPounds ==
  ASSUME NEW text \in Nat
  PROVE  /\ ParseFuelRate(text, TRUE) = OfPounds(text)
         /\ FormatFuelRate(text, TRUE) = ToPounds(text)
         /\ ConvertRateText(text, TRUE, FALSE) = ToKilograms(OfPounds(text))
<1>1. ParseFuelRate(text, TRUE) = OfPounds(text)
  BY SMT DEF ParseFuelRate, OfPounds, Unit, GramsOfAPound
<1>2. FormatFuelRate(text, TRUE) = ToPounds(text)
  BY SMT DEF FormatFuelRate, ToPounds, Unit, GramsOfAPound
<1>3. ConvertRateText(text, TRUE, FALSE) = ToKilograms(OfPounds(text))
  BY SMT DEF ConvertRateText, ParseFuelRate, FormatFuelRate, ToKilograms, OfPounds, Unit, GramsOfAPound
<1> QED  BY <1>1, <1>2, <1>3, Zenon

LEMMA TextsInKilograms ==
  ASSUME NEW text \in Nat
  PROVE  /\ ParseFuelRate(text, FALSE) = OfKilograms(text)
         /\ FormatFuelRate(text, FALSE) = ToKilograms(text)
         /\ ConvertRateText(text, FALSE, TRUE) = ToPounds(OfKilograms(text))
<1>1. ParseFuelRate(text, FALSE) = OfKilograms(text)
  BY SMT DEF ParseFuelRate, OfKilograms, Unit, GramsOfAPound
<1>2. FormatFuelRate(text, FALSE) = ToKilograms(text)
  BY SMT DEF FormatFuelRate, ToKilograms, Unit, GramsOfAPound
<1>3. ConvertRateText(text, FALSE, TRUE) = ToPounds(OfKilograms(text))
  BY SMT DEF ConvertRateText, ParseFuelRate, FormatFuelRate, ToPounds, OfKilograms, Unit, GramsOfAPound
<1> QED  BY <1>1, <1>2, <1>3, Zenon

\* Kilograms shown as pounds and back are the same kilograms.
LEMMA KilogramsComeBack ==
  ASSUME NEW text \in Nat
  PROVE  ToKilograms(OfPounds(ToPounds(OfKilograms(text)))) = text
<1> DEFINE shown == OfPounds(ToPounds(OfKilograms(text)))
           back == ToKilograms(shown)
<1>1. shown \in Nat /\ shown <= OfKilograms(text) + 227 /\ OfKilograms(text) < shown + 227
  BY GramsOfTexts, RoundedToPounds
<1> HIDE DEF shown
<1>2. back \in Nat /\ OfKilograms(back) <= shown + 500 /\ shown < OfKilograms(back) + 500
  BY <1>1, RoundedToKilograms
<1> HIDE DEF back
<1>3. back = text  BY <1>1, <1>2, SMT DEF OfKilograms
<1> QED  BY <1>3 DEF back, shown

LEMMA ConvertedShows ==
  ASSUME NEW text \in Nat, NEW rate \in Nat, NEW from \in BOOLEAN, NEW to \in BOOLEAN,
         Shows(text, rate, from)
  PROVE  Shows(ConvertRateText(text, from, to), rate, to)
<1>1. CASE from = to
  BY <1>1 DEF ConvertRateText
<1>2. CASE from = FALSE /\ to = TRUE
  <2> DEFINE pounds == ToPounds(OfKilograms(text))
  <2>1. KilogramsShow(text, rate)  BY <1>2 DEF Shows
  <2>2. KilogramsShow(ToKilograms(OfPounds(pounds)), rate)
    BY <2>1, KilogramsComeBack, Zenon
  <2>3. Near(OfPounds(pounds), rate)  BY <2>1 DEF KilogramsShow
  <2>4. pounds \in Nat  BY GramsOfTexts, RoundedToPounds
  <2>5. Shows(pounds, rate, TRUE)  BY <2>2, <2>3, <2>4, Zenon DEF Shows, PoundsShow
  <2>6. Shows(ConvertRateText(text, FALSE, TRUE), rate, TRUE)
    BY <2>5, TextsInKilograms, Zenon
  <2> QED  BY <1>2, <2>6, Zenon
<1>3. CASE from = TRUE /\ to = FALSE
  <2>1. KilogramsShow(ToKilograms(OfPounds(text)), rate)  BY <1>3 DEF Shows, PoundsShow
  <2>2. ToKilograms(OfPounds(text)) \in Nat  BY GramsOfTexts, RoundedToKilograms
  <2>3. Shows(ToKilograms(OfPounds(text)), rate, FALSE)  BY <2>1, <2>2, Zenon DEF Shows
  <2>4. Shows(ConvertRateText(text, TRUE, FALSE), rate, FALSE)
    BY <2>3, TextsInPounds, Zenon
  <2> QED  BY <1>3, <2>4, Zenon
<1> QED  BY <1>1, <1>2, <1>3

LEMMA KilogramsOfARate ==
  ASSUME NEW rate \in Nat, NEW text \in Nat,
         OfKilograms(text) <= rate + 500, rate < OfKilograms(text) + 500
  PROVE  KilogramsShow(text, rate)
<1> DEFINE shown == OfPounds(ToPounds(OfKilograms(text)))
<1>1. /\ OfKilograms(text) \in Nat /\ shown \in Nat
      /\ shown <= OfKilograms(text) + 227 /\ OfKilograms(text) < shown + 227
  BY GramsOfTexts, RoundedToPounds
<1> HIDE DEF shown
<1>2. Near(OfKilograms(text), rate) /\ Near(shown, rate)
  BY <1>1, SMT DEF Near
<1> QED  BY <1>2, Zenon DEF KilogramsShow, shown

LEMMA PoundsOfARate ==
  ASSUME NEW rate \in Nat, NEW text \in Nat,
         OfPounds(text) <= rate + 227, rate < OfPounds(text) + 227
  PROVE  PoundsShow(text, rate)
<1> DEFINE kilograms == ToKilograms(OfPounds(text))
           back == ToPounds(OfKilograms(kilograms))
<1>1. /\ OfPounds(text) \in Nat /\ kilograms \in Nat
      /\ OfKilograms(kilograms) <= OfPounds(text) + 500
      /\ OfPounds(text) < OfKilograms(kilograms) + 500
  BY GramsOfTexts, RoundedToKilograms
<1> HIDE DEF kilograms
<1>2. /\ OfKilograms(kilograms) \in Nat /\ back \in Nat /\ OfPounds(back) \in Nat
      /\ OfPounds(back) <= OfKilograms(kilograms) + 227
      /\ OfKilograms(kilograms) < OfPounds(back) + 227
  BY <1>1, GramsOfTexts, RoundedToPounds
<1> HIDE DEF back
<1>3. Near(OfPounds(text), rate) /\ Near(OfKilograms(kilograms), rate)
  BY <1>1, <1>2, SMT DEF Near
<1>4. Near(OfPounds(back), rate)
  BY <1>1, <1>2, SMT DEF Near, OfPounds, OfKilograms
<1> QED  BY <1>3, <1>4, Zenon DEF PoundsShow, KilogramsShow, kilograms, back

LEMMA FormatShows ==
  ASSUME NEW rate \in Nat, NEW isLb \in BOOLEAN
  PROVE  Shows(FormatFuelRate(rate, isLb), rate, isLb)
<1>1. CASE isLb = TRUE
  <2>1. Shows(ToPounds(rate), rate, TRUE)
    BY RoundedToPounds, PoundsOfARate DEF Shows
  <2>2. Shows(FormatFuelRate(rate, TRUE), rate, TRUE)  BY <2>1, TextsInPounds, Zenon
  <2> QED  BY <1>1, <2>2, Zenon
<1>2. CASE isLb = FALSE
  <2>1. Shows(ToKilograms(rate), rate, FALSE)
    BY RoundedToKilograms, KilogramsOfARate DEF Shows
  <2>2. Shows(FormatFuelRate(rate, FALSE), rate, FALSE)  BY <2>1, TextsInKilograms, Zenon
  <2> QED  BY <1>2, <2>2, Zenon
<1> QED  BY <1>1, <1>2

\* A text that is saved shows the rate that it is saved as.
LEMMA ParsedShows ==
  ASSUME NEW text \in Nat \ {0}, NEW isLb \in BOOLEAN
  PROVE  /\ ParseFuelRate(text, isLb) \in Nat \ {0}
         /\ Shows(text, ParseFuelRate(text, isLb), isLb)
<1>1. /\ OfPounds(text) \in Nat \ {0} /\ OfPounds(text) <= OfPounds(text) + 227
      /\ OfPounds(text) < OfPounds(text) + 227
  BY SMT DEF OfPounds
<1>2. /\ OfKilograms(text) \in Nat \ {0} /\ OfKilograms(text) <= OfKilograms(text) + 500
      /\ OfKilograms(text) < OfKilograms(text) + 500
  BY SMT DEF OfKilograms
<1>3. CASE isLb = TRUE
  <2>1. Shows(text, OfPounds(text), TRUE)  BY <1>1, PoundsOfARate DEF Shows
  <2>2. ParseFuelRate(text, TRUE) = OfPounds(text)  BY TextsInPounds, Zenon
  <2> QED  BY <1>1, <1>3, <2>1, <2>2, Zenon
<1>4. CASE isLb = FALSE
  <2>1. Shows(text, OfKilograms(text), FALSE)  BY <1>2, KilogramsOfARate DEF Shows
  <2>2. ParseFuelRate(text, FALSE) = OfKilograms(text)  BY TextsInKilograms, Zenon
  <2> QED  BY <1>2, <1>4, <2>1, <2>2, Zenon
<1> QED  BY <1>3, <1>4

LEMMA TextsAreNumbers ==
  ASSUME NEW text \in Nat, NEW from \in BOOLEAN, NEW to \in BOOLEAN
  PROVE  ConvertRateText(text, from, to) \in Nat
<1>1. ToPounds(OfKilograms(text)) \in Nat /\ ToKilograms(OfPounds(text)) \in Nat
  BY GramsOfTexts, RoundedToPounds, RoundedToKilograms
<1>2. CASE from = to  BY <1>2 DEF ConvertRateText
<1>3. CASE from = FALSE /\ to = TRUE  BY <1>1, <1>3, TextsInKilograms, Zenon
<1>4. CASE from = TRUE /\ to = FALSE  BY <1>1, <1>4, TextsInPounds, Zenon
<1> QED  BY <1>2, <1>3, <1>4

\* What a text shows is no further from the rate than rounding brings it.
LEMMA ShownIsNear ==
  ASSUME NEW text, NEW rate \in Nat, NEW isLb \in BOOLEAN, Shows(text, rate, isLb)
  PROVE  rate \in (ParseFuelRate(text, isLb) - Rounding) .. (ParseFuelRate(text, isLb) + Rounding)
<1>1. text \in Nat  BY DEF Shows
<1>2. Rounding = 727  BY SMT DEF Rounding, Unit, GramsOfAPound
<1>3. OfPounds(text) \in Nat /\ OfKilograms(text) \in Nat  BY <1>1, GramsOfTexts
<1>4. \E shown \in Nat : ParseFuelRate(text, isLb) = shown /\ Near(shown, rate)
  <2>1. CASE isLb = TRUE
    <3>1. Near(OfPounds(text), rate)  BY <2>1 DEF Shows, PoundsShow
    <3>2. ParseFuelRate(text, TRUE) = OfPounds(text)  BY <1>1, TextsInPounds, Zenon
    <3> QED  BY <1>3, <2>1, <3>1, <3>2, Zenon
  <2>2. CASE isLb = FALSE
    <3>1. Near(OfKilograms(text), rate)  BY <2>2 DEF Shows, KilogramsShow
    <3>2. ParseFuelRate(text, FALSE) = OfKilograms(text)  BY <1>1, TextsInKilograms, Zenon
    <3> QED  BY <1>3, <2>2, <3>1, <3>2, Zenon
  <2> QED  BY <2>1, <2>2
<1>5. PICK shown \in Nat : ParseFuelRate(text, isLb) = shown /\ Near(shown, rate)
  BY <1>4
<1>6. rate \in (shown - 727) .. (shown + 727)  BY <1>5, SMT DEF Near
<1> QED  BY <1>2, <1>5, <1>6

-----------------------------------------------------------------------------
(***************************************************************************)
(* The settings, the page and what they agree on.  What is on the disk, in *)
(* the page and in the automation is clean: a profile that uses the global *)
(* settings holds nothing of its own, which is why it can be left out of   *)
(* the file.                                                               *)
(***************************************************************************)
RateModes == {"recommended", "manual"}
ProfileModes == RateModes \cup {"global"}
Rates == Nat \ {0}
ProfileRecords ==
  [useGlobal : BOOLEAN, mode : ProfileModes, rate : Rates,
   skip : BOOLEAN, skipNew : BOOLEAN, callGpu : BOOLEAN, chocks : BOOLEAN]
SettingsRecords ==
  [mode : RateModes, rate : Rates, panel : 0 .. 2, unit : {"auto", "kg", "lb"},
   skip : BOOLEAN, skipNew : BOOLEAN, callGpu : BOOLEAN, chocks : BOOLEAN,
   profiles : [Profiles -> ProfileRecords]]
Drafts ==
  [useGlobal : BOOLEAN, mode : ProfileModes, text : Nat,
   skip : BOOLEAN, skipNew : BOOLEAN, callGpu : BOOLEAN, chocks : BOOLEAN]
Pages ==
  [settings : SettingsRecords, text : Nat, mode : RateModes, isLb : BOOLEAN,
   drafts : [Profiles -> Drafts], selected : Profiles, unsaved : BOOLEAN,
   edits : 0 .. MaxEdits, faults : 0 .. MaxFailedSaves]

IsClean(s) ==
  /\ s \in SettingsRecords
  /\ \A p \in Profiles : s.profiles[p].useGlobal => s.profiles[p] = NewProfile

IsAPage(v) == v \in Pages /\ IsClean(v.settings)

\* The drafts are what is saved; of the rates, those that are used.
DraftShows(d, s) ==
  /\ d.useGlobal = s.useGlobal
  /\ ~d.useGlobal => d.mode = s.mode /\ ServicesOf(d) = ServicesOf(s)

DraftShowsRate(d, s, isLb) ==
  ~d.useGlobal /\ d.mode = "manual" => Shows(d.text, s.rate, isLb)

ShowsSettings(v) ==
  /\ v.mode = v.settings.mode
  /\ v.mode = "manual" => Shows(v.text, v.settings.rate, v.isLb)
  /\ \A p \in Profiles : DraftShows(v.drafts[p], v.settings.profiles[p])
  /\ \A p \in RefuelledByTheClient :
       DraftShowsRate(v.drafts[p], v.settings.profiles[p], v.isLb)

PageInv(v, sv, d) ==
  /\ IsAPage(v)
  /\ IsClean(LoadSettings(d)) /\ d.old \in BOOLEAN
  /\ IsClean(sv.app)
  /\ ~v.unsaved => /\ ShowsSettings(v)
                   /\ LoadSettings(d) = v.settings
                   /\ sv.app = v.settings

SettingsInv ==
  /\ PageInv(view, service, disk)
  /\ there \in [aircraft : Profiles \cup {NoAircraft}, autoIsLb : BOOLEAN]
  /\ service = Applied(service.app, there.aircraft)

-----------------------------------------------------------------------------
(***************************************************************************)
(* What is written is read back, older files are read as clean settings.   *)
(***************************************************************************)
LEMMA NewProfileIsAProfile == NewProfile \in ProfileRecords
BY DEF NewProfile, ProfileRecords, ProfileModes, RateModes, Rates, DefaultFuelRate

LEMMA WrittenIsReadBack ==
  ASSUME NEW s, IsClean(s)
  PROVE  LoadSettings(Written(s)) = s /\ Written(s).old \in BOOLEAN
<1> DEFINE rewritten == [p \in Profiles |-> IF s.profiles[p].useGlobal THEN NewProfile ELSE s.profiles[p]]
<1>1. s.profiles \in [Profiles -> ProfileRecords] /\ s \in SettingsRecords
  BY DEF IsClean, SettingsRecords
<1>2. rewritten = s.profiles
  BY <1>1 DEF IsClean
<1>3. Written(s) = [old |-> FALSE, settings |-> [s EXCEPT !.profiles = rewritten]]
  BY DEF Written
<1> HIDE DEF rewritten
<1>4. [s EXCEPT !.profiles = rewritten] = s
  BY <1>1, <1>2 DEF SettingsRecords
<1> QED  BY <1>3, <1>4 DEF LoadSettings

LEMMA ChocksAsPower ==
  ASSUME NEW x \in ProfileRecords
  PROVE  /\ WithChocksAsPower(x) \in ProfileRecords
         /\ WithChocksAsPower(x).useGlobal = x.useGlobal
         /\ x.chocks = x.callGpu => WithChocksAsPower(x) = x
BY DEF WithChocksAsPower, ProfileRecords

LEMMA OlderFilesAreClean ==
  ASSUME NEW panel \in OldPanels
  PROVE  IsClean(LoadSettings(OlderFile(panel))) /\ OlderFile(panel).old \in BOOLEAN
<1> DEFINE rate == 14 * GramsOfAPound
           mine == [NewProfile EXCEPT !.useGlobal = FALSE, !.mode = "manual", !.rate = rate]
           theirs == [p \in Profiles |-> IF p = "client" THEN mine ELSE NewProfile]
           old == [NewSettings EXCEPT !.panel = panel, !.callGpu = TRUE, !.profiles = theirs]
           x == WithChocksAsPower(old)
           profiles == [p \in Profiles |-> WithChocksAsPower(theirs[p])]
           loaded == [x EXCEPT !.panel = RetireKeepClosed(panel), !.profiles = profiles]
           Older == [mode : RateModes, rate : Rates, panel : 0 .. 3, unit : {"auto", "kg", "lb"},
                     skip : BOOLEAN, skipNew : BOOLEAN, callGpu : BOOLEAN, chocks : BOOLEAN,
                     profiles : [Profiles -> ProfileRecords]]
<1>1. rate \in Rates  BY SMT DEF Rates, GramsOfAPound
<1>2. mine \in ProfileRecords /\ mine.useGlobal = FALSE
  <2> HIDE DEF rate
  <2> QED  BY <1>1, NewProfileIsAProfile DEF ProfileRecords, ProfileModes, RateModes
<1>3. theirs \in [Profiles -> ProfileRecords]
  <2> HIDE DEF mine
  <2> QED  BY <1>2, NewProfileIsAProfile
<1>4. OlderFile(panel) = [old |-> TRUE, settings |-> old]
  <2>1. [NewSettings.profiles EXCEPT !["client"] =
           [NewSettings.profiles["client"] EXCEPT !.useGlobal = FALSE, !.mode = "manual", !.rate = rate]]
          = theirs
    <3>1. NewSettings.profiles = [p \in Profiles |-> NewProfile] /\ "client" \in Profiles
      BY DEF NewSettings, Profiles
    <3> HIDE DEF rate
    <3> QED  BY <3>1
  <2> HIDE DEF theirs
  <2> QED  BY <2>1 DEF OlderFile, rate
<1> HIDE DEF mine, rate
<1>5. old \in Older /\ old.panel = panel /\ old.profiles = theirs
  <2>1. NewSettings \in Older
    <3>1. [p \in Profiles |-> NewProfile] \in [Profiles -> ProfileRecords]  BY NewProfileIsAProfile
    <3> QED  BY <3>1 DEF NewSettings, RateModes, Rates, DefaultFuelRate
  <2>2. panel \in 0 .. 3  BY SettingsConstants
  <2> HIDE DEF theirs
  <2> QED  BY <1>3, <2>1, <2>2
<1> HIDE DEF theirs
<1>6. x \in Older /\ x.panel = panel /\ x.profiles = theirs
  <2> HIDE DEF old
  <2> QED  BY <1>5 DEF WithChocksAsPower
<1>7. LoadSettings(OlderFile(panel)) = loaded
  <2> HIDE DEF old
  <2>1. OlderFile(panel).old = TRUE /\ OlderFile(panel).settings = old  BY <1>4
  <2>2. LoadSettings(OlderFile(panel)) =
          [x EXCEPT !.panel = RetireKeepClosed(x.panel),
                    !.profiles = [p \in Profiles |-> WithChocksAsPower(x.profiles[p])]]
    BY <2>1 DEF LoadSettings
  <2> HIDE DEF x
  <2> QED  BY <1>6, <2>2
<1>8. RetireKeepClosed(panel) \in 0 .. 2
  BY SettingsConstants DEF RetireKeepClosed
<1>9. profiles \in [Profiles -> ProfileRecords]
      /\ \A p \in Profiles : profiles[p].useGlobal => profiles[p] = NewProfile
  <2>1. \A p \in Profiles : WithChocksAsPower(theirs[p]) \in ProfileRecords
    BY <1>3, ChocksAsPower
  <2>2. ASSUME NEW p \in Profiles, profiles[p].useGlobal  PROVE profiles[p] = NewProfile
    <3>1. CASE p = "client"
      BY <1>2, <2>2, <3>1, ChocksAsPower DEF theirs
    <3>2. CASE p # "client"
      <4>1. NewProfile.chocks = NewProfile.callGpu  BY DEF NewProfile
      <4>2. theirs[p] = NewProfile  BY <3>2 DEF theirs
      <4> QED  BY <4>1, <4>2, NewProfileIsAProfile, ChocksAsPower
    <3> QED  BY <3>1, <3>2
  <2> QED  BY <2>1, <2>2
<1> HIDE DEF x, profiles, old
<1>10. loaded \in SettingsRecords /\ loaded.profiles = profiles
  BY <1>6, <1>8, <1>9 DEF SettingsRecords
<1> HIDE DEF loaded
<1>11. IsClean(loaded)  BY <1>9, <1>10 DEF IsClean
<1>12. OlderFile(panel).old \in BOOLEAN  BY <1>4
<1> QED  BY <1>7, <1>11, <1>12

-----------------------------------------------------------------------------
(***************************************************************************)
(* The page: as it is built, and with another unit.                        *)
(***************************************************************************)
ServiceFields == [skip : BOOLEAN, skipNew : BOOLEAN, callGpu : BOOLEAN, chocks : BOOLEAN]

LEMMA DraftOfAProfile ==
  ASSUME NEW profile \in ProfileRecords, NEW text \in Nat, NEW isLb \in BOOLEAN
  PROVE  /\ DraftOf(profile, text, isLb) \in Drafts
         /\ DraftShows(DraftOf(profile, text, isLb), profile)
         /\ DraftShowsRate(DraftOf(profile, text, isLb), profile, isLb)
<1> DEFINE rate == FormatFuelRate(profile.rate, isLb)
           d == DraftOf(profile, text, isLb)
           shown == IF profile.useGlobal THEN text ELSE rate
<1>1. rate \in Nat /\ Shows(rate, profile.rate, isLb) /\ profile.rate \in Nat
  BY FormatShows DEF Shows, ProfileRecords, Rates
<1>2. d = [[useGlobal |-> profile.useGlobal, mode |-> profile.mode, text |-> shown,
            skip |-> FALSE, skipNew |-> TRUE, callGpu |-> FALSE, chocks |-> FALSE] EXCEPT
             !.skip = profile.skip, !.skipNew = profile.skipNew,
             !.callGpu = profile.callGpu, !.chocks = profile.chocks]
  BY DEF DraftOf, CopyServiceFields
<1>3. shown \in Nat /\ (~profile.useGlobal => shown = rate)
  BY <1>1 DEF ProfileRecords
<1> HIDE DEF d, shown, rate
<1>4. /\ d \in Drafts /\ d.useGlobal = profile.useGlobal /\ d.mode = profile.mode /\ d.text = shown
      /\ d.skip = profile.skip /\ d.skipNew = profile.skipNew
      /\ d.callGpu = profile.callGpu /\ d.chocks = profile.chocks
  BY <1>2, <1>3 DEF Drafts, ProfileRecords
<1>5. ServicesOf(d) = ServicesOf(profile)
  BY <1>4 DEF ServicesOf
<1>6. DraftShows(d, profile)
  BY <1>4, <1>5 DEF DraftShows
<1>7. DraftShowsRate(d, profile, isLb)
  BY <1>1, <1>3, <1>4 DEF DraftShowsRate
<1> QED  BY <1>4, <1>6, <1>7 DEF d

LEMMA BuiltShows ==
  ASSUME NEW s, IsClean(s), NEW autoIsLb \in BOOLEAN, NEW used,
         used.edits \in 0 .. MaxEdits, used.faults \in 0 .. MaxFailedSaves
  PROVE  /\ IsAPage(Built(s, autoIsLb, used)) /\ ShowsSettings(Built(s, autoIsLb, used))
         /\ Built(s, autoIsLb, used).settings = s /\ Built(s, autoIsLb, used).unsaved = FALSE
<1> DEFINE isLb == EffectiveIsLb(s, autoIsLb)
           text == FormatFuelRate(s.rate, isLb)
           drafts == [p \in Profiles |-> DraftOf(s.profiles[p], text, isLb)]
           v == Built(s, autoIsLb, used)
<1>1. s \in SettingsRecords  BY DEF IsClean
<1>2. isLb \in BOOLEAN  BY <1>1 DEF EffectiveIsLb
<1>3. v = [settings |-> s, text |-> text, mode |-> s.mode, isLb |-> isLb, drafts |-> drafts,
           selected |-> "client", unsaved |-> FALSE, edits |-> used.edits, faults |-> used.faults]
  BY DEF Built
<1> HIDE DEF isLb
<1>4. s.rate \in Nat /\ s.mode \in RateModes /\ \A p \in Profiles : s.profiles[p] \in ProfileRecords
  BY <1>1 DEF SettingsRecords, Rates
<1>5. text \in Nat /\ Shows(text, s.rate, isLb)
  BY <1>2, <1>4, FormatShows DEF Shows
<1> HIDE DEF text
<1>6. \A p \in Profiles : /\ drafts[p] \in Drafts /\ DraftShows(drafts[p], s.profiles[p])
                          /\ DraftShowsRate(drafts[p], s.profiles[p], isLb)
  BY <1>2, <1>4, <1>5, DraftOfAProfile
<1>7. drafts \in [Profiles -> Drafts]
  BY <1>6
<1> HIDE DEF drafts, v
<1>8. v \in Pages
  BY <1>1, <1>2, <1>3, <1>4, <1>5, <1>7 DEF Pages, Profiles
<1>9. /\ v.settings = s /\ v.unsaved = FALSE /\ v.mode = s.mode /\ v.text = text
      /\ v.isLb = isLb /\ v.drafts = drafts
  BY <1>3
<1>10. ShowsSettings(v)
  BY <1>5, <1>6, <1>9 DEF ShowsSettings, RefuelledByTheClient, Profiles
<1> QED  BY <1>8, <1>9, <1>10 DEF IsAPage, v

LEMMA SyncedShows ==
  ASSUME NEW v, IsAPage(v), NEW autoIsLb \in BOOLEAN
  PROVE  /\ IsAPage(DisplayUnitSynced(v, autoIsLb))
         /\ DisplayUnitSynced(v, autoIsLb).settings = v.settings
         /\ DisplayUnitSynced(v, autoIsLb).unsaved = v.unsaved
         /\ DisplayUnitSynced(v, autoIsLb).faults = v.faults
         /\ ShowsSettings(v) => ShowsSettings(DisplayUnitSynced(v, autoIsLb))
<1> DEFINE toLb == EffectiveIsLb(v.settings, autoIsLb)
           Converted(text) == ConvertRateText(text, v.isLb, toLb)
           drafts == [p \in Profiles |-> [v.drafts[p] EXCEPT !.text = Converted(v.drafts[p].text)]]
           w == DisplayUnitSynced(v, autoIsLb)
<1>1. v \in Pages /\ v.settings \in SettingsRecords /\ IsClean(v.settings)
  BY DEF IsAPage, IsClean
<1>2. toLb \in BOOLEAN  BY <1>1 DEF EffectiveIsLb
<1>3. w = [v EXCEPT !.isLb = toLb, !.text = Converted(v.text), !.drafts = drafts]
  BY DEF DisplayUnitSynced
<1> HIDE DEF toLb, w
<1>4. \A text \in Nat : Converted(text) \in Nat
  BY <1>1, <1>2, TextsAreNumbers DEF Pages
<1>5. \A text \in Nat, rate \in Nat : Shows(text, rate, v.isLb) => Shows(Converted(text), rate, toLb)
  BY <1>1, <1>2, ConvertedShows DEF Pages
<1> HIDE DEF Converted
<1>6. \A p \in Profiles : v.drafts[p] \in Drafts
  BY <1>1 DEF Pages
<1>7. \A p \in Profiles : /\ drafts[p] \in Drafts
                          /\ drafts[p].useGlobal = v.drafts[p].useGlobal
                          /\ drafts[p].mode = v.drafts[p].mode
                          /\ drafts[p].text = Converted(v.drafts[p].text)
                          /\ ServicesOf(drafts[p]) = ServicesOf(v.drafts[p])
  BY <1>4, <1>6 DEF Drafts, ServicesOf
<1>8. drafts \in [Profiles -> Drafts]  BY <1>7
<1> HIDE DEF drafts
<1>9. /\ w \in Pages /\ w.settings = v.settings /\ w.unsaved = v.unsaved /\ w.faults = v.faults
      /\ w.isLb = toLb /\ w.text = Converted(v.text) /\ w.drafts = drafts /\ w.mode = v.mode
  <2>1. Converted(v.text) \in Nat  BY <1>1, <1>4 DEF Pages
  <2>2. /\ w.settings = v.settings /\ w.unsaved = v.unsaved /\ w.faults = v.faults
        /\ w.isLb = toLb /\ w.text = Converted(v.text) /\ w.drafts = drafts /\ w.mode = v.mode
    BY <1>1, <1>3 DEF Pages
  <2>3. w \in Pages  BY <1>1, <1>2, <1>3, <1>8, <2>1 DEF Pages
  <2> QED  BY <2>2, <2>3
<1>10. ASSUME ShowsSettings(v)  PROVE ShowsSettings(w)
  <2>1. v.text \in Nat /\ v.settings.rate \in Nat
        /\ \A p \in Profiles : v.drafts[p].text \in Nat /\ v.settings.profiles[p].rate \in Nat
    BY <1>1, <1>6 DEF Pages, SettingsRecords, ProfileRecords, Drafts, Rates
  <2>2. /\ w.mode = w.settings.mode
        /\ w.mode = "manual" => Shows(w.text, w.settings.rate, w.isLb)
    BY <1>5, <1>9, <1>10, <2>1 DEF ShowsSettings
  <2>3. ASSUME NEW p \in Profiles  PROVE DraftShows(w.drafts[p], w.settings.profiles[p])
    <3>1. DraftShows(v.drafts[p], v.settings.profiles[p])  BY <1>10 DEF ShowsSettings
    <3> QED  BY <1>7, <1>9, <3>1 DEF DraftShows
  <2>4. ASSUME NEW p \in RefuelledByTheClient
        PROVE  DraftShowsRate(w.drafts[p], w.settings.profiles[p], w.isLb)
    <3>1. DraftShowsRate(v.drafts[p], v.settings.profiles[p], v.isLb)  BY <1>10 DEF ShowsSettings
    <3>2. p \in Profiles  BY DEF RefuelledByTheClient, Profiles
    <3> QED  BY <1>5, <1>7, <1>9, <2>1, <3>1, <3>2 DEF DraftShowsRate
  <2> QED  BY <2>2, <2>3, <2>4 DEF ShowsSettings
<1> QED  BY <1>1, <1>9, <1>10 DEF IsAPage, w

-----------------------------------------------------------------------------
(***************************************************************************)
(* Saving, and changing without saving.                                    *)
(***************************************************************************)
LEMMA AppliedAs ==
  ASSUME NEW s, NEW aircraft
  PROVE  /\ Applied(s, aircraft).app = s
         /\ Applied(s, aircraft) = Applied(Applied(s, aircraft).app, aircraft)
BY DEF Applied

\* After a save that fails, what is shown counts as not saved.
LEMMA SavesKeep ==
  ASSUME SettingsInv, NEW v, IsAPage(v), v.faults = view.faults,
         ~v.unsaved => ShowsSettings(v), SavesAs(v), UNCHANGED there
  PROVE  SettingsInv'
<1> USE DEF SettingsInv
<1>1. v \in Pages /\ IsClean(v.settings)  BY DEF IsAPage
<1>2. LoadSettings(Written(v.settings)) = v.settings /\ Written(v.settings).old \in BOOLEAN
  BY <1>1, WrittenIsReadBack
<1>3. CASE /\ disk' = Written(v.settings) /\ service' = Applied(v.settings, there.aircraft)
           /\ view' = v
  <2>1. service'.app = v.settings /\ service' = Applied(service'.app, there'.aircraft)
    BY <1>3, AppliedAs
  <2>2. PageInv(v, service', disk')
    BY <1>1, <1>2, <1>3, <2>1 DEF PageInv
  <2> QED  BY <1>3, <2>1, <2>2
<1>4. CASE /\ view.faults < Limits.faults /\ disk' \in {disk, Written(v.settings)}
           /\ UNCHANGED service /\ view' = [v EXCEPT !.unsaved = TRUE, !.faults = v.faults + 1]
  <2>1. v.faults + 1 \in 0 .. MaxFailedSaves
    BY <1>1, <1>4, SettingsConstants DEF Pages, Limits
  <2>2. view' \in Pages /\ view'.settings = v.settings /\ view'.unsaved = TRUE
    BY <1>1, <1>4, <2>1 DEF Pages
  <2>3. IsClean(LoadSettings(disk')) /\ disk'.old \in BOOLEAN
    BY <1>1, <1>2, <1>4 DEF PageInv
  <2>4. PageInv(view', service', disk')
    BY <1>1, <1>4, <2>2, <2>3 DEF PageInv, IsAPage
  <2> QED  BY <1>4, <2>4
<1> QED  BY <1>3, <1>4 DEF SavesAs

LEMMA DraftsKeep ==
  ASSUME SettingsInv, Edits, NEW v, IsAPage(v), v.edits = view.edits, Drafted(v)
  PROVE  SettingsInv'
<1> USE DEF SettingsInv
<1>1. /\ view' = [[v EXCEPT !.edits = v.edits + 1] EXCEPT !.unsaved = TRUE]
      /\ service' = service /\ disk' = disk /\ there' = there
  BY DEF Drafted, Edited, Edits
<1>2. v \in Pages /\ IsClean(v.settings)  BY DEF IsAPage
<1>3. v.edits + 1 \in 0 .. MaxEdits
  BY <1>2, SettingsConstants DEF Edits, Limits, Pages
<1>4. view' \in Pages /\ view'.settings = v.settings /\ view'.unsaved = TRUE
  BY <1>1, <1>2, <1>3 DEF Pages
<1>5. PageInv(view', service', disk')
  BY <1>1, <1>2, <1>4 DEF PageInv, IsAPage
<1> QED  BY <1>1, <1>5

\* A switch changes settings that have no draft.
LEMMA SwitchesKeep ==
  ASSUME SettingsInv, NEW s, IsClean(s), s.mode = view.settings.mode,
         s.rate = view.settings.rate, s.profiles = view.settings.profiles
  PROVE  LET v == Edited([view EXCEPT !.settings = s])
         IN  view.edits < Limits.edits =>
               /\ IsAPage(v) /\ v.settings = s /\ v.faults = view.faults
               /\ ~v.unsaved => ShowsSettings(v)
<1> SUFFICES ASSUME view.edits < Limits.edits
             PROVE  LET v == Edited([view EXCEPT !.settings = s])
                    IN  /\ IsAPage(v) /\ v.settings = s /\ v.faults = view.faults
                        /\ ~v.unsaved => ShowsSettings(v)
  OBVIOUS
<1> DEFINE v == Edited([view EXCEPT !.settings = s])
<1>1. view \in Pages /\ s \in SettingsRecords  BY DEF SettingsInv, PageInv, IsAPage, IsClean
<1>2. v = [[view EXCEPT !.settings = s] EXCEPT !.edits = view.edits + 1]
  BY <1>1 DEF Edited, Pages
<1>3. view.edits + 1 \in 0 .. MaxEdits
  BY <1>1, SettingsConstants DEF Limits, Pages
<1> HIDE DEF v
<1>4. v \in Pages
  BY <1>1, <1>2, <1>3 DEF Pages
<1>5. /\ v.settings = s /\ v.faults = view.faults /\ v.unsaved = view.unsaved /\ v.mode = view.mode
      /\ v.text = view.text /\ v.isLb = view.isLb /\ v.drafts = view.drafts
  BY <1>1, <1>2 DEF Pages
<1>6. ASSUME ~v.unsaved  PROVE ShowsSettings(v)
  <2>1. ShowsSettings(view)  BY <1>5, <1>6 DEF SettingsInv, PageInv
  <2> QED  BY <1>5, <2>1 DEF ShowsSettings
<1> QED  BY <1>4, <1>5, <1>6 DEF IsAPage, v

LEMMA SetPersistedKeeps ==
  ASSUME SettingsInv, NEW s, IsClean(s), s.mode = view.settings.mode,
         s.rate = view.settings.rate, s.profiles = view.settings.profiles, SetPersisted(s)
  PROVE  SettingsInv'
<1> DEFINE v == Edited([view EXCEPT !.settings = s])
<1>1. view.edits < Limits.edits /\ UNCHANGED there /\ SavesAs(v)
  BY DEF SetPersisted, Edits
<1>2. IsAPage(v) /\ v.faults = view.faults /\ (~v.unsaved => ShowsSettings(v))
  BY <1>1, SwitchesKeep
<1> HIDE DEF v
<1> QED  BY <1>1, <1>2, SavesKeep

LEMMA SwitchesAreClean ==
  ASSUME SettingsInv
  PROVE  /\ \A panel \in 0 .. 2 :
              SetPersisted([view.settings EXCEPT !.panel = panel]) => SettingsInv'
         /\ SetSkipReposition => SettingsInv'
         /\ SetSkipRepositionOnNewTurnaround => SettingsInv'
         /\ SetCallGpu => SettingsInv'
<1> DEFINE old == view.settings
<1>1. old \in SettingsRecords /\ IsClean(old)  BY DEF SettingsInv, PageInv, IsAPage, IsClean
<1> HIDE DEF old
<1>2. ASSUME NEW s \in SettingsRecords, s.mode = old.mode, s.rate = old.rate,
             s.profiles = old.profiles, SetPersisted(s)
      PROVE  SettingsInv'
  <2>1. IsClean(s)  BY <1>1, <1>2 DEF IsClean
  <2> QED  BY <1>2, <2>1, SetPersistedKeeps DEF old
<1>3. \A panel \in 0 .. 2 : SetPersisted([old EXCEPT !.panel = panel]) => SettingsInv'
  <2> TAKE panel \in 0 .. 2
  <2> DEFINE s == [old EXCEPT !.panel = panel]
  <2>1. s \in SettingsRecords /\ s.mode = old.mode /\ s.rate = old.rate /\ s.profiles = old.profiles
    BY <1>1 DEF SettingsRecords
  <2> HIDE DEF s
  <2>2. SetPersisted(s) => SettingsInv'  BY <1>2, <2>1
  <2> QED  BY <2>2 DEF s
<1>4. SetPersisted([old EXCEPT !.skip = ~old.skip]) => SettingsInv'
  <2> DEFINE s == [old EXCEPT !.skip = ~old.skip]
  <2>1. s \in SettingsRecords /\ s.mode = old.mode /\ s.rate = old.rate /\ s.profiles = old.profiles
    BY <1>1 DEF SettingsRecords
  <2> HIDE DEF s
  <2>2. SetPersisted(s) => SettingsInv'  BY <1>2, <2>1
  <2> QED  BY <2>2 DEF s
<1>5. SetPersisted([old EXCEPT !.skipNew = ~old.skipNew]) => SettingsInv'
  <2> DEFINE s == [old EXCEPT !.skipNew = ~old.skipNew]
  <2>1. s \in SettingsRecords /\ s.mode = old.mode /\ s.rate = old.rate /\ s.profiles = old.profiles
    BY <1>1 DEF SettingsRecords
  <2> HIDE DEF s
  <2>2. SetPersisted(s) => SettingsInv'  BY <1>2, <2>1
  <2> QED  BY <2>2 DEF s
<1>6. SetPersisted([old EXCEPT !.callGpu = ~old.callGpu]) => SettingsInv'
  <2> DEFINE s == [old EXCEPT !.callGpu = ~old.callGpu]
  <2>1. s \in SettingsRecords /\ s.mode = old.mode /\ s.rate = old.rate /\ s.profiles = old.profiles
    BY <1>1 DEF SettingsRecords
  <2> HIDE DEF s
  <2>2. SetPersisted(s) => SettingsInv'  BY <1>2, <2>1
  <2> QED  BY <2>2 DEF s
<1> QED
  BY <1>3, <1>4, <1>5, <1>6
     DEF old, SetSkipReposition, SetSkipRepositionOnNewTurnaround, SetCallGpu

LEMMA SetWeightUnitModeKeeps ==
  ASSUME SettingsInv, SetWeightUnitMode
  PROVE  SettingsInv'
<1>1. PICK unit \in {"auto", "kg", "lb"} :
        SavesAs(DisplayUnitSynced(Edited([view EXCEPT !.settings.unit = unit]), there.autoIsLb))
  BY DEF SetWeightUnitMode
<1>2. view.edits < Limits.edits /\ UNCHANGED there  BY DEF SetWeightUnitMode, Edits
<1> DEFINE old == view.settings
           s == [old EXCEPT !.unit = unit]
           v == Edited([view EXCEPT !.settings = s])
           w == DisplayUnitSynced(v, there.autoIsLb)
<1>3. view \in Pages /\ old \in SettingsRecords /\ IsClean(old) /\ there.autoIsLb \in BOOLEAN
  BY DEF SettingsInv, PageInv, IsAPage, IsClean
<1>4. SavesAs(w)
  <2>1. [view EXCEPT !.settings.unit = unit] = [view EXCEPT !.settings = s]
    BY <1>3 DEF Pages
  <2> QED  BY <1>1, <2>1
<1>5. s \in SettingsRecords /\ s.mode = old.mode /\ s.rate = old.rate /\ s.profiles = old.profiles
  <2> HIDE DEF old
  <2> QED  BY <1>3 DEF SettingsRecords
<1>6. IsClean(s)
  <2> HIDE DEF s, old
  <2> QED  BY <1>3, <1>5 DEF IsClean
<1>7. IsAPage(v) /\ v.faults = view.faults /\ (~v.unsaved => ShowsSettings(v))
  <2> HIDE DEF s
  <2> QED  BY <1>2, <1>5, <1>6, SwitchesKeep
<1> HIDE DEF v
<1>8. IsAPage(w) /\ w.faults = view.faults /\ (~w.unsaved => ShowsSettings(w))
  BY <1>3, <1>7, SyncedShows
<1> HIDE DEF w
<1> QED  BY <1>2, <1>4, <1>8, SavesKeep

-----------------------------------------------------------------------------
(***************************************************************************)
(* The drafts of the pilot are drafts, whatever they were copied from.     *)
(***************************************************************************)
HasServices(x) == x.skip \in BOOLEAN /\ x.skipNew \in BOOLEAN /\ x.callGpu \in BOOLEAN /\ x.chocks \in BOOLEAN

LEMMA CopiedIntoADraft ==
  ASSUME NEW d \in Drafts, NEW source, HasServices(source)
  PROVE  /\ CopyServiceFields(d, source) \in Drafts
         /\ CopyServiceFields(d, source).useGlobal = d.useGlobal
BY DEF CopyServiceFields, Drafts, HasServices

LEMMA CopiedIntoSettings ==
  ASSUME NEW s, IsClean(s), NEW source, HasServices(source)
  PROVE  IsClean(CopyServiceFields(s, source))
<1> DEFINE t == CopyServiceFields(s, source)
<1>1. s \in SettingsRecords  BY DEF IsClean
<1>2. t \in SettingsRecords /\ t.profiles = s.profiles
  BY <1>1 DEF CopyServiceFields, SettingsRecords, HasServices
<1> HIDE DEF t
<1>3. IsClean(t)  BY <1>2 DEF IsClean
<1> QED  BY <1>3 DEF t

LEMMA DraftsHaveServices ==
  /\ \A d \in Drafts : HasServices(d)
  /\ \A s \in SettingsRecords : HasServices(s)
BY DEF Drafts, SettingsRecords, HasServices

LEMMA PageWithDraft ==
  ASSUME NEW v, IsAPage(v), NEW d \in Drafts
  PROVE  /\ IsAPage(WithDraft(v, d)) /\ WithDraft(v, d).edits = v.edits
         /\ v.drafts[v.selected] \in Drafts
<1>1. v \in Pages /\ IsClean(v.settings)  BY DEF IsAPage
<1> DEFINE drafts == [v.drafts EXCEPT ![v.selected] = d]
           w == WithDraft(v, d)
<1>2. drafts \in [Profiles -> Drafts] /\ v.drafts[v.selected] \in Drafts
  BY <1>1 DEF Pages
<1>3. w = [v EXCEPT !.drafts = drafts]
  BY DEF WithDraft
<1> HIDE DEF drafts, w
<1>4. w \in Pages /\ w.settings = v.settings /\ w.edits = v.edits
  BY <1>1, <1>2, <1>3 DEF Pages
<1> QED  BY <1>1, <1>2, <1>4 DEF IsAPage, w

LEMMA DraftWithDraftKeeps ==
  ASSUME SettingsInv, Edits, NEW d \in Drafts, Drafted(WithDraft(view, d))
  PROVE  SettingsInv'
<1> DEFINE v == WithDraft(view, d)
<1>1. IsAPage(v) /\ v.edits = view.edits
  BY PageWithDraft DEF SettingsInv, PageInv
<1> HIDE DEF v
<1>2. Drafted(v)  BY DEF v
<1> QED  BY <1>1, <1>2, DraftsKeep

LEMMA SelectedIsADraft ==
  ASSUME SettingsInv
  PROVE  /\ view \in Pages /\ IsClean(view.settings) /\ view.settings \in SettingsRecords
         /\ SelectedDraft \in Drafts
BY DEF SettingsInv, PageInv, IsAPage, IsClean, Pages, SelectedDraft

LEMMA GlobalRateKeeps ==
  ASSUME SettingsInv, SetFuelRateText \/ SetFuelRateModeIndex
  PROVE  SettingsInv'
<1>1. view \in Pages /\ IsClean(view.settings)  BY SelectedIsADraft
<1>2. ASSUME NEW v \in Pages, v.settings = view.settings, v.edits = view.edits, Edits, Drafted(v)
      PROVE  SettingsInv'
  BY <1>1, <1>2, DraftsKeep DEF IsAPage
<1>3. ASSUME NEW text \in Texts, Edits, Drafted([view EXCEPT !.text = text])
      PROVE  SettingsInv'
  <2> DEFINE v == [view EXCEPT !.text = text]
  <2>1. v \in Pages /\ v.settings = view.settings /\ v.edits = view.edits
    BY <1>1, SettingsConstants DEF Pages
  <2> HIDE DEF v
  <2>2. Drafted(v)  BY <1>3 DEF v
  <2> QED  BY <1>2, <1>3, <2>1, <2>2
<1>4. ASSUME NEW mode \in RateModes, Edits, Drafted([view EXCEPT !.mode = mode])
      PROVE  SettingsInv'
  <2> DEFINE v == [view EXCEPT !.mode = mode]
  <2>1. v \in Pages /\ v.settings = view.settings /\ v.edits = view.edits
    BY <1>1 DEF Pages
  <2> HIDE DEF v
  <2>2. Drafted(v)  BY <1>4 DEF v
  <2> QED  BY <1>2, <1>4, <2>1, <2>2
<1> QED
  BY <1>3, <1>4 DEF SetFuelRateText, SetFuelRateModeIndex, RateModes

LEMMA SetProfileUseGlobalKeeps ==
  ASSUME SettingsInv, SetProfileUseGlobal
  PROVE  SettingsInv'
<1> DEFINE draft == [SelectedDraft EXCEPT !.useGlobal = ~SelectedDraft.useGlobal]
           with == [draft EXCEPT !.mode = view.mode, !.text = view.text]
           d == IF draft.useGlobal THEN draft ELSE CopyServiceFields(with, view.settings)
<1>1. Edits /\ Drafted(WithDraft(view, d))
  BY DEF SetProfileUseGlobal
<1>2. draft \in Drafts
  BY SelectedIsADraft DEF Drafts
<1>3. view.mode \in ProfileModes /\ view.text \in Nat
  BY SelectedIsADraft DEF Pages, ProfileModes
<1>4. with \in Drafts
  <2> HIDE DEF draft
  <2> QED  BY <1>2, <1>3 DEF Drafts
<1>5. CopyServiceFields(with, view.settings) \in Drafts
  <2> HIDE DEF with
  <2> QED  BY <1>4, SelectedIsADraft, DraftsHaveServices, CopiedIntoADraft
<1>6. d \in Drafts
  <2> HIDE DEF draft, with
  <2> QED  BY <1>2, <1>5
<1> HIDE DEF d
<1> QED  BY <1>1, <1>6, DraftWithDraftKeeps

LEMMA SetProfileKeeps ==
  ASSUME SettingsInv, SetProfileFuelRate \/ SetProfileToggle
  PROVE  SettingsInv'
<1> DEFINE old == SelectedDraft
<1>1. old \in Drafts  BY SelectedIsADraft
<1>2. Edits  BY DEF SetProfileFuelRate, SetProfileToggle
<1>3. \/ \E text \in Texts : Drafted(WithDraft(view, [old EXCEPT !.text = text]))
      \/ \E mode \in ProfileModes : Drafted(WithDraft(view, [old EXCEPT !.mode = mode]))
      \/ Drafted(WithDraft(view, [old EXCEPT !.callGpu = ~old.callGpu]))
      \/ Drafted(WithDraft(view, [old EXCEPT !.skip = ~old.skip]))
      \/ Drafted(WithDraft(view, [old EXCEPT !.skipNew = ~old.skipNew]))
  BY DEF SetProfileFuelRate, SetProfileToggle, ProfileModes, RateModes
<1> HIDE DEF old
<1>4. /\ \A text \in Texts : [old EXCEPT !.text = text] \in Drafts
      /\ \A mode \in ProfileModes : [old EXCEPT !.mode = mode] \in Drafts
      /\ [old EXCEPT !.callGpu = ~old.callGpu] \in Drafts
      /\ [old EXCEPT !.skip = ~old.skip] \in Drafts
      /\ [old EXCEPT !.skipNew = ~old.skipNew] \in Drafts
  BY <1>1, SettingsConstants DEF Drafts
<1>5. PICK d \in Drafts : Drafted(WithDraft(view, d))
  BY <1>3, <1>4, Zenon
<1> QED  BY <1>2, <1>5, DraftWithDraftKeeps

LEMMA SetProfileAsGlobalDefaultKeeps ==
  ASSUME SettingsInv, SetProfileAsGlobalDefault
  PROVE  SettingsInv'
<1> DEFINE old == SelectedDraft
           fuel == view.selected \in RefuelledByTheClient
           text == IF fuel THEN old.text ELSE view.text
           mode == IF fuel /\ old.mode # "global" THEN old.mode ELSE view.mode
           s == CopyServiceFields(view.settings, old)
           v == [view EXCEPT !.text = text, !.mode = mode, !.settings = s]
           d == [old EXCEPT !.useGlobal = TRUE]
           w == WithDraft(v, d)
<1>1. Edits /\ Drafted(w)
  BY DEF SetProfileAsGlobalDefault
<1>2. /\ old \in Drafts /\ view \in Pages /\ IsClean(s) /\ s \in SettingsRecords
  BY SelectedIsADraft, DraftsHaveServices, CopiedIntoSettings DEF IsClean
<1> HIDE DEF s
<1>3. d \in Drafts
  <2> HIDE DEF old
  <2> QED  BY <1>2 DEF Drafts
<1>4. text \in Nat /\ mode \in RateModes
  <2> HIDE DEF fuel, old
  <2> QED  BY <1>2 DEF Drafts, Pages, ProfileModes
<1> HIDE DEF text, mode, d
<1>5. v \in Pages /\ v.settings = s /\ v.edits = view.edits
  BY <1>2, <1>4 DEF Pages
<1> HIDE DEF v
<1>6. IsAPage(v)  BY <1>2, <1>5 DEF IsAPage
<1>7. IsAPage(w) /\ w.edits = view.edits
  BY <1>3, <1>5, <1>6, PageWithDraft
<1> HIDE DEF w
<1> QED  BY <1>1, <1>7, DraftsKeep

LEMMA ApplyProfileToAllProfilesKeeps ==
  ASSUME SettingsInv, ApplyProfileToAllProfiles
  PROVE  SettingsInv'
<1> DEFINE drafts == [p \in Profiles |-> SelectedDraft]
           v == [view EXCEPT !.drafts = drafts]
<1>1. Edits /\ Drafted(v)  BY DEF ApplyProfileToAllProfiles
<1>2. view \in Pages /\ IsClean(view.settings) /\ drafts \in [Profiles -> Drafts]
  BY SelectedIsADraft
<1> HIDE DEF drafts
<1>3. v \in Pages /\ v.settings = view.settings /\ v.edits = view.edits
  BY <1>2 DEF Pages
<1> HIDE DEF v
<1> QED  BY <1>1, <1>2, <1>3, DraftsKeep DEF IsAPage

-----------------------------------------------------------------------------
(***************************************************************************)
(* What is saved is what the drafts show.                                  *)
(***************************************************************************)
LEMMA GlobalRateIsARate ==
  ASSUME SettingsInv
  PROVE  /\ GlobalRateToSave \in Rates
         /\ view.text > 0 => Shows(view.text, GlobalRateToSave, view.isLb)
<1>1. /\ view.text \in Nat /\ view.isLb \in BOOLEAN /\ view.settings.rate \in Rates
  BY SelectedIsADraft DEF Pages, SettingsRecords
<1>2. CASE view.text > 0
  <2>1. view.text \in Nat \ {0}  BY <1>1, <1>2
  <2>2. GlobalRateToSave = ParseFuelRate(view.text, view.isLb)  BY <1>2 DEF GlobalRateToSave
  <2> QED  BY <1>1, <2>1, <2>2, ParsedShows DEF Rates
<1>3. CASE ~(view.text > 0)
  BY <1>1, <1>3 DEF GlobalRateToSave
<1> QED  BY <1>2, <1>3

LEMMA ProfileIsSaved ==
  ASSUME SettingsInv, NEW p \in Profiles
  PROVE  /\ ProfileToSave(p) \in ProfileRecords
         /\ ProfileToSave(p).useGlobal => ProfileToSave(p) = NewProfile
         /\ DraftShows(view.drafts[p], ProfileToSave(p))
         /\ p \in RefuelledByTheClient /\ IsValid =>
              DraftShowsRate(view.drafts[p], ProfileToSave(p), view.isLb)
<1> DEFINE d == view.drafts[p]
           hasRate == p \in RefuelledByTheClient /\ d.text > 0
           rate == IF hasRate THEN ParseFuelRate(d.text, view.isLb) ELSE GlobalRateToSave
           mine == [NewProfile EXCEPT !.useGlobal = FALSE, !.mode = d.mode, !.rate = rate]
           x == CopyServiceFields(mine, d)
<1>1. d \in Drafts /\ view.isLb \in BOOLEAN
  BY SelectedIsADraft DEF Pages
<1>2. CASE d.useGlobal
  <2>1. d.useGlobal = TRUE  BY <1>1, <1>2 DEF Drafts
  <2>2. ProfileToSave(p) = NewProfile  BY <1>2 DEF ProfileToSave, Overrides
  <2>3. NewProfile.useGlobal = TRUE  BY DEF NewProfile
  <2>4. DraftShows(d, NewProfile) /\ DraftShowsRate(d, NewProfile, view.isLb)
    BY <2>1, <2>3 DEF DraftShows, DraftShowsRate
  <2> QED  BY <2>2, <2>4, NewProfileIsAProfile
<1>3. CASE ~d.useGlobal
  <2>1. ProfileToSave(p) = x
    BY <1>3 DEF ProfileToSave, Overrides
  <2>2. rate \in Rates /\ (hasRate => Shows(d.text, rate, view.isLb))
    <3>1. CASE hasRate
      <4>1. d.text \in Nat \ {0} /\ rate = ParseFuelRate(d.text, view.isLb)
        BY <1>1, <3>1 DEF Drafts
      <4> QED  BY <1>1, <4>1, ParsedShows DEF Rates
    <3>2. CASE ~hasRate
      BY <3>2, GlobalRateIsARate
    <3> QED  BY <3>1, <3>2
  <2> HIDE DEF rate, d
  <2>3. /\ mine \in ProfileRecords /\ mine.useGlobal = FALSE /\ mine.mode = d.mode
        /\ mine.rate = rate
    BY <1>1, <2>2, NewProfileIsAProfile DEF ProfileRecords, Drafts
  <2> HIDE DEF mine
  <2>4. /\ x = [mine EXCEPT !.skip = d.skip, !.skipNew = d.skipNew, !.callGpu = d.callGpu,
                            !.chocks = d.chocks]
    BY DEF CopyServiceFields
  <2> HIDE DEF x
  <2>5. /\ x \in ProfileRecords /\ x.useGlobal = FALSE /\ x.mode = d.mode /\ x.rate = rate
        /\ x.skip = d.skip /\ x.skipNew = d.skipNew /\ x.callGpu = d.callGpu /\ x.chocks = d.chocks
    BY <1>1, <2>3, <2>4 DEF ProfileRecords, Drafts
  <2>6. DraftShows(d, x)
    <3>1. d.useGlobal = FALSE  BY <1>1, <1>3 DEF Drafts, d
    <3> QED  BY <2>5, <3>1 DEF DraftShows, ServicesOf
  <2>7. ASSUME p \in RefuelledByTheClient, IsValid  PROVE DraftShowsRate(d, x, view.isLb)
    <3>1. d.mode = "manual" => hasRate
      BY <1>3, <2>7 DEF IsValid, Overrides, d
    <3> QED  BY <2>2, <2>5, <3>1 DEF DraftShowsRate
  <2> QED  BY <2>1, <2>5, <2>6, <2>7 DEF d
<1> QED  BY <1>2, <1>3

LEMMA SaveSettingsKeeps ==
  ASSUME SettingsInv, SaveSettings
  PROVE  SettingsInv'
<1> DEFINE s == SettingsToSave
           profiles == [p \in Profiles |-> ProfileToSave(p)]
           v == [[[view EXCEPT !.settings = s] EXCEPT !.edits = view.edits + 1] EXCEPT !.unsaved = FALSE]
<1>1. view \in Pages /\ view.settings \in SettingsRecords /\ IsClean(view.settings)
  BY SelectedIsADraft
<1>2. Edits /\ IsValid /\ SavesAs(v)
  <2>1. SavesAs([Edited([view EXCEPT !.settings = SettingsToSave]) EXCEPT !.unsaved = FALSE])
    BY DEF SaveSettings
  <2>2. Edited([view EXCEPT !.settings = SettingsToSave])
          = [[view EXCEPT !.settings = s] EXCEPT !.edits = view.edits + 1]
    BY <1>1 DEF Edited, Pages
  <2> QED  BY <2>1, <2>2 DEF SaveSettings
<1>3. s = [view.settings EXCEPT !.mode = view.mode, !.rate = GlobalRateToSave, !.profiles = profiles]
  BY DEF SettingsToSave
<1>4. /\ profiles \in [Profiles -> ProfileRecords]
      /\ \A p \in Profiles : profiles[p] = ProfileToSave(p)
  BY ProfileIsSaved
<1> HIDE DEF profiles, s
<1>5. /\ s \in SettingsRecords /\ s.mode = view.mode /\ s.rate = GlobalRateToSave
      /\ s.profiles = profiles
  <2>1. view.mode \in RateModes  BY <1>1 DEF Pages
  <2> QED  BY <1>1, <1>3, <1>4, <2>1, GlobalRateIsARate DEF SettingsRecords
<1>6. IsClean(s)
  BY <1>4, <1>5, ProfileIsSaved DEF IsClean
<1>7. view.edits + 1 \in 0 .. MaxEdits /\ UNCHANGED there
  BY <1>1, <1>2, SettingsConstants DEF Edits, Limits, Pages
<1>8. v \in Pages
  BY <1>1, <1>5, <1>7 DEF Pages
<1>9. /\ v.settings = s /\ v.faults = view.faults /\ v.mode = view.mode /\ v.text = view.text
      /\ v.isLb = view.isLb /\ v.drafts = view.drafts
  BY <1>1 DEF Pages
<1> HIDE DEF v
<1>10. ShowsSettings(v)
  <2>1. v.mode = v.settings.mode  BY <1>5, <1>9
  <2>2. v.mode = "manual" => Shows(v.text, v.settings.rate, v.isLb)
    BY <1>2, <1>5, <1>9, GlobalRateIsARate DEF IsValid
  <2>3. \A p \in Profiles : DraftShows(v.drafts[p], v.settings.profiles[p])
    BY <1>4, <1>5, <1>9, ProfileIsSaved
  <2>4. \A p \in RefuelledByTheClient : DraftShowsRate(v.drafts[p], v.settings.profiles[p], v.isLb)
    <3> TAKE p \in RefuelledByTheClient
    <3>1. p \in Profiles  BY DEF RefuelledByTheClient, Profiles
    <3> QED  BY <1>2, <1>4, <1>5, <1>9, <3>1, ProfileIsSaved
  <2> QED  BY <2>1, <2>2, <2>3, <2>4 DEF ShowsSettings
<1> QED  BY <1>2, <1>6, <1>7, <1>8, <1>9, <1>10, SavesKeep DEF IsAPage

-----------------------------------------------------------------------------
(***************************************************************************)
(* The world: another aircraft, another unit, another process.             *)
(***************************************************************************)
LEMMA SettingsStart == SettingsInit => SettingsInv
<1> SUFFICES ASSUME SettingsInit  PROVE SettingsInv
  OBVIOUS
<1> DEFINE none == [edits |-> 0, faults |-> 0]
<1>1. PICK panel \in OldPanels : disk = OlderFile(panel)
  BY DEF SettingsInit
<1>2. IsClean(LoadSettings(disk)) /\ disk.old \in BOOLEAN
  BY <1>1, OlderFilesAreClean
<1>3. none.edits \in 0 .. MaxEdits /\ none.faults \in 0 .. MaxFailedSaves
  BY SettingsConstants
<1>4. view = Built(LoadSettings(disk), FALSE, none) /\ service = Applied(LoadSettings(disk), NoAircraft)
  BY DEF SettingsInit
<1>5. there = [aircraft |-> NoAircraft, autoIsLb |-> FALSE]
  BY DEF SettingsInit
<1> HIDE DEF none
<1>6. IsAPage(view) /\ ShowsSettings(view) /\ view.settings = LoadSettings(disk)
  BY <1>2, <1>3, <1>4, BuiltShows
<1>7. service.app = LoadSettings(disk) /\ service = Applied(service.app, there.aircraft)
  BY <1>4, <1>5, AppliedAs
<1>8. PageInv(view, service, disk)
  BY <1>2, <1>6, <1>7 DEF PageInv
<1> QED  BY <1>5, <1>7, <1>8 DEF SettingsInv

LEMMA RelaunchKeeps ==
  ASSUME SettingsInv, Relaunch
  PROVE  SettingsInv'
<1>1. /\ view' = Built(LoadSettings(disk), there.autoIsLb, view)
      /\ service' = Applied(LoadSettings(disk), NoAircraft)
      /\ disk' = disk /\ there' = there /\ there.aircraft = NoAircraft
  BY DEF Relaunch
<1>2. IsClean(LoadSettings(disk)) /\ disk.old \in BOOLEAN /\ there.autoIsLb \in BOOLEAN
  BY DEF SettingsInv, PageInv
<1>3. view.edits \in 0 .. MaxEdits /\ view.faults \in 0 .. MaxFailedSaves
  BY SelectedIsADraft DEF Pages
<1>4. IsAPage(view') /\ ShowsSettings(view') /\ view'.settings = LoadSettings(disk)
  BY <1>1, <1>2, <1>3, BuiltShows
<1>5. service'.app = LoadSettings(disk) /\ service' = Applied(service'.app, there'.aircraft)
  BY <1>1, AppliedAs
<1>6. PageInv(view', service', disk')
  BY <1>1, <1>2, <1>4, <1>5 DEF PageInv
<1> QED  BY <1>1, <1>5, <1>6 DEF SettingsInv

LEMMA AircraftChangesKeeps ==
  ASSUME SettingsInv, AircraftChanges
  PROVE  SettingsInv'
<1>1. PICK aircraft \in Profiles \cup {NoAircraft} :
        /\ there' = [there EXCEPT !.aircraft = aircraft]
        /\ service' = Applied(service.app, aircraft)
  BY DEF AircraftChanges
<1>2. view' = view /\ disk' = disk  BY DEF AircraftChanges
<1>3. there' \in [aircraft : Profiles \cup {NoAircraft}, autoIsLb : BOOLEAN] /\ there'.aircraft = aircraft
  BY <1>1 DEF SettingsInv
<1>4. service'.app = service.app /\ service' = Applied(service'.app, there'.aircraft)
  BY <1>1, <1>3, AppliedAs
<1>5. PageInv(view', service', disk')
  BY <1>2, <1>4 DEF SettingsInv, PageInv
<1> QED  BY <1>3, <1>4, <1>5 DEF SettingsInv

LEMMA AutoUnitChangesKeeps ==
  ASSUME SettingsInv, AutoUnitChanges
  PROVE  SettingsInv'
<1>1. /\ there' = [there EXCEPT !.autoIsLb = ~there.autoIsLb]
      /\ view' = DisplayUnitSynced(view, there'.autoIsLb) /\ service' = service /\ disk' = disk
  BY DEF AutoUnitChanges
<1>2. there' \in [aircraft : Profiles \cup {NoAircraft}, autoIsLb : BOOLEAN]
      /\ there'.aircraft = there.aircraft /\ there'.autoIsLb \in BOOLEAN
  BY <1>1 DEF SettingsInv
<1>3. /\ IsAPage(view') /\ view'.settings = view.settings /\ view'.unsaved = view.unsaved
      /\ ShowsSettings(view) => ShowsSettings(view')
  BY <1>1, <1>2, SyncedShows DEF SettingsInv, PageInv
<1>4. PageInv(view', service', disk')
  BY <1>1, <1>3 DEF SettingsInv, PageInv
<1> QED  BY <1>1, <1>2, <1>4 DEF SettingsInv

LEMMA SelectProfileKeeps ==
  ASSUME SettingsInv, SelectProfile
  PROVE  SettingsInv'
<1>1. PICK p \in Profiles : view' = [view EXCEPT !.selected = p]
  BY DEF SelectProfile
<1>2. service' = service /\ disk' = disk /\ there' = there  BY DEF SelectProfile
<1>3. view' \in Pages /\ view'.settings = view.settings /\ view'.unsaved = view.unsaved
      /\ view'.mode = view.mode /\ view'.text = view.text /\ view'.isLb = view.isLb
      /\ view'.drafts = view.drafts
  BY <1>1, SelectedIsADraft DEF Pages
<1>4. ShowsSettings(view) => ShowsSettings(view')
  BY <1>3 DEF ShowsSettings
<1>5. PageInv(view', service', disk')
  BY <1>2, <1>3, <1>4 DEF SettingsInv, PageInv, IsAPage
<1> QED  BY <1>2, <1>5 DEF SettingsInv

LEMMA SettingsKeep ==
  SettingsInv /\ [SettingsNext]_settingsVars => SettingsInv'
<1> SUFFICES ASSUME SettingsInv, [SettingsNext]_settingsVars
             PROVE  SettingsInv'
  OBVIOUS
<1>1. CASE UNCHANGED settingsVars
  BY <1>1 DEF settingsVars, SettingsInv, PageInv, IsAPage, ShowsSettings
<1>2. CASE SetGsxPanelMode
  BY <1>2, SwitchesAreClean DEF SetGsxPanelMode
<1>3. CASE SetSkipReposition \/ SetSkipRepositionOnNewTurnaround \/ SetCallGpu
  BY <1>3, SwitchesAreClean
<1>4. CASE SettingsNext /\ ~SetGsxPanelMode /\ ~SetSkipReposition
           /\ ~SetSkipRepositionOnNewTurnaround /\ ~SetCallGpu
  BY <1>4, RelaunchKeeps, AircraftChangesKeeps, AutoUnitChangesKeeps, SelectProfileKeeps,
     SetWeightUnitModeKeeps, GlobalRateKeeps, SetProfileUseGlobalKeeps, SetProfileKeeps,
     SetProfileAsGlobalDefaultKeeps, ApplyProfileToAllProfilesKeeps, SaveSettingsKeeps
     DEF SettingsNext
<1> QED  BY <1>1, <1>2, <1>3, <1>4

-----------------------------------------------------------------------------
(***************************************************************************)
(* What the automation runs on.                                            *)
(***************************************************************************)
LEMMA ResolvedRates ==
  ASSUME NEW mode \in RateModes, NEW manual \in Rates, NEW recommended \in Nat
  PROVE  /\ ResolveFuelRate(mode, manual, recommended) \in Rates
         /\ mode = "manual" => ResolveFuelRate(mode, manual, recommended) = manual
         /\ mode = "recommended" /\ recommended > 0 =>
              ResolveFuelRate(mode, manual, recommended) = recommended
BY DEF ResolveFuelRate, RateModes, Rates, DefaultFuelRate

LEMMA RecommendedRates ==
  /\ \A aircraft \in Profiles \cup {NoAircraft} : RecommendedFuelRate[aircraft] \in Nat
  /\ \A p \in RefuelledByTheClient : RecommendedFuelRate[p] > 0
BY DEF RecommendedFuelRate, Profiles, NoAircraft, RefuelledByTheClient

\* The services of a draft that shows a profile resolve as the profile's.
LEMMA ResolvedServices ==
  ASSUME NEW x, NEW y, HasServices(x), HasServices(y), ServicesOf(x) = ServicesOf(y)
  PROVE  ResolveServices(x) = ResolveServices(y)
<1>1. x.skip = y.skip /\ x.skipNew = y.skipNew
  BY DEF ServicesOf
<1> QED  BY <1>1 DEF ResolveServices

(***************************************************************************)
(* The rate that is used for an aircraft is the one that is shown for it.  *)
(***************************************************************************)
LEMMA UsedAsShown ==
  ASSUME SettingsInv, ~view.unsaved, NEW p \in Profiles \cap {there.aircraft}
  PROVE  LET used == service.effective
             shown == ParseFuelRate(ShownText(p), view.isLb)
         IN  /\ used.services = ResolveServices(IF Overrides(p) THEN view.drafts[p] ELSE view.settings)
             /\ used.panel = view.settings.panel
             /\ p \in RefuelledByTheClient =>
                  IF ShownMode(p) = "recommended" THEN used.rate = RecommendedFuelRate[p]
                  ELSE used.rate \in (shown - Rounding) .. (shown + Rounding)
<1> DEFINE s == view.settings
           d == view.drafts[p]
           profile == s.profiles[p]
           recommended == RecommendedFuelRate[p]
           used == service.effective
           globalRate == ResolveFuelRate(s.mode, s.rate, recommended)
<1>1. view \in Pages /\ s \in SettingsRecords /\ d \in Drafts /\ profile \in ProfileRecords
  BY SelectedIsADraft DEF Pages, SettingsRecords
<1>2. ShowsSettings(view)
  BY DEF SettingsInv, PageInv
<1>3. used = ResolveAutomationSettings(s, p)
  BY DEF SettingsInv, PageInv, Applied
<1>4. /\ used.services = ResolveServices(IF profile.useGlobal THEN s ELSE profile)
      /\ used.panel = s.panel
      /\ used.rate = IF profile.useGlobal \/ profile.mode = "global" THEN globalRate
                     ELSE ResolveFuelRate(profile.mode, profile.rate, recommended)
  BY <1>3 DEF ResolveAutomationSettings
<1>5. /\ d.useGlobal = profile.useGlobal
      /\ ~d.useGlobal => d.mode = profile.mode /\ ServicesOf(d) = ServicesOf(profile)
  BY <1>2 DEF ShowsSettings, DraftShows
<1>6. Overrides(p) <=> ~d.useGlobal
  BY DEF Overrides
<1> HIDE DEF used
<1>7. used.services = ResolveServices(IF Overrides(p) THEN d ELSE s)
  <2>1. CASE d.useGlobal  BY <1>4, <1>5, <1>6, <2>1
  <2>2. CASE ~d.useGlobal
    <3>1. ResolveServices(d) = ResolveServices(profile)
      <4>1. HasServices(d) /\ HasServices(profile)
        BY <1>1 DEF Drafts, ProfileRecords, HasServices
      <4> QED  BY <1>5, <2>2, <4>1, ResolvedServices
    <3> QED  BY <1>4, <1>5, <1>6, <2>2, <3>1
  <2> QED  BY <2>1, <2>2
<1>8. ASSUME p \in RefuelledByTheClient
      PROVE  IF ShownMode(p) = "recommended" THEN used.rate = recommended
             ELSE used.rate \in (ParseFuelRate(ShownText(p), view.isLb) - Rounding)
                                  .. (ParseFuelRate(ShownText(p), view.isLb) + Rounding)
  <2>1. recommended \in Nat /\ recommended > 0
    BY <1>8, RecommendedRates DEF Profiles, RefuelledByTheClient
  <2>2. /\ s.mode \in RateModes /\ s.rate \in Rates /\ profile.rate \in Rates
        /\ view.isLb \in BOOLEAN /\ profile.mode \in RateModes \cup {"global"}
    BY <1>1 DEF Pages, SettingsRecords, ProfileRecords, ProfileModes
  <2>3. CASE ~d.useGlobal /\ d.mode # "global"
    <3>1. ShownMode(p) = d.mode /\ ShownText(p) = d.text
      BY <1>6, <2>3 DEF ShownMode, ShownText
    <3>2. used.rate = ResolveFuelRate(d.mode, profile.rate, recommended) /\ d.mode \in RateModes
      BY <1>4, <1>5, <2>2, <2>3
    <3>3. CASE d.mode = "recommended"
      BY <2>1, <2>2, <3>1, <3>2, <3>3, ResolvedRates
    <3>4. CASE d.mode = "manual"
      <4>1. Shows(d.text, profile.rate, view.isLb)
        BY <1>2, <1>8, <2>3, <3>4 DEF ShowsSettings, DraftShowsRate
      <4>2. used.rate = profile.rate /\ profile.rate \in Nat
        BY <2>1, <2>2, <3>2, <3>4, ResolvedRates DEF Rates
      <4> QED  BY <2>2, <3>1, <3>4, <4>1, <4>2, ShownIsNear
    <3> QED  BY <3>2, <3>3, <3>4 DEF RateModes
  <2>4. CASE d.useGlobal \/ d.mode = "global"
    <3>1. ShownMode(p) = view.mode /\ ShownText(p) = view.text
      BY <1>6, <2>4 DEF ShownMode, ShownText
    <3>2. used.rate = ResolveFuelRate(s.mode, s.rate, recommended) /\ view.mode = s.mode
      BY <1>2, <1>4, <1>5, <2>4 DEF ShowsSettings
    <3>3. CASE view.mode = "recommended"
      BY <2>1, <2>2, <3>1, <3>2, <3>3, ResolvedRates
    <3>4. CASE view.mode = "manual"
      <4>1. Shows(view.text, s.rate, view.isLb)
        BY <1>2, <3>4 DEF ShowsSettings
      <4>2. used.rate = s.rate /\ s.rate \in Nat
        BY <2>1, <2>2, <3>2, <3>4, ResolvedRates DEF Rates
      <4> QED  BY <2>2, <3>1, <3>4, <4>1, <4>2, ShownIsNear
    <3> QED  BY <2>2, <3>2, <3>3, <3>4 DEF RateModes
  <2> QED  BY <2>3, <2>4
<1> QED  BY <1>4, <1>7, <1>8 DEF used

LEMMA SettingsTypesFollow ==
  ASSUME SettingsInv
  PROVE  SettingsTypeOK
<1>1. /\ view \in Pages /\ view.settings \in SettingsRecords  BY SelectedIsADraft
<1>2. /\ view.text \in Nat /\ view.selected \in Profiles /\ view.drafts \in [Profiles -> Drafts]
      /\ view.edits \in 0 .. MaxEdits /\ view.faults \in 0 .. MaxFailedSaves
  BY <1>1 DEF Pages
<1>3. \A p \in Profiles : view.drafts[p].text \in Nat
  BY <1>2 DEF Drafts
<1>4. view.settings.rate \in Nat \ {0} /\ view.settings.panel \in 0 .. 2
  BY <1>1 DEF SettingsRecords, Rates
<1>5. disk.old \in BOOLEAN /\ there.aircraft \in Profiles \cup {NoAircraft}
  BY DEF SettingsInv, PageInv
<1>6. service.effective.rate \in Nat \ {0}
  <2> DEFINE s == service.app
             aircraft == there.aircraft
             recommended == RecommendedFuelRate[aircraft]
             profile == IF aircraft \in Profiles THEN s.profiles[aircraft] ELSE NewProfile
             rate == IF profile.useGlobal \/ profile.mode = "global"
                     THEN ResolveFuelRate(s.mode, s.rate, recommended)
                     ELSE ResolveFuelRate(profile.mode, profile.rate, recommended)
  <2>1. service.effective.rate = rate
    <3>1. service.effective = ResolveAutomationSettings(s, aircraft)
      BY DEF SettingsInv, Applied
    <3> QED  BY <3>1 DEF ResolveAutomationSettings
  <2>2. s \in SettingsRecords  BY DEF SettingsInv, PageInv, IsClean
  <2>3. recommended \in Nat  BY <1>5, RecommendedRates
  <2>4. profile \in ProfileRecords
    BY <2>2, NewProfileIsAProfile DEF SettingsRecords
  <2> HIDE DEF profile, recommended, s
  <2>5. /\ s.mode \in RateModes /\ s.rate \in Rates /\ profile.rate \in Rates
        /\ profile.mode \in RateModes \cup {"global"}
    BY <2>2, <2>4 DEF SettingsRecords, ProfileRecords, ProfileModes
  <2>6. rate \in Rates
    <3>1. CASE profile.useGlobal \/ profile.mode = "global"
      BY <2>3, <2>5, <3>1, ResolvedRates
    <3>2. CASE ~(profile.useGlobal \/ profile.mode = "global")
      BY <2>3, <2>5, <3>2, ResolvedRates
    <3> QED  BY <3>1, <3>2
  <2> QED  BY <2>1, <2>6 DEF Rates
<1> QED  BY <1>2, <1>3, <1>4, <1>5, <1>6 DEF SettingsTypeOK, Limits

(***************************************************************************)
(* For any rates that may be typed, any number of edits, failed saves,     *)
(* relaunches and changes of the unit: without a draft or a failed save    *)
(* the automation runs on what the page shows, and a client started now    *)
(* shows the same.                                                         *)
(***************************************************************************)
THEOREM SettingsHold == SettingsSpec => []SettingsAreUsedAsShown
<1>1. SettingsInv => SettingsAreUsedAsShown
  <2> SUFFICES ASSUME SettingsInv  PROVE SettingsAreUsedAsShown
    OBVIOUS
  <2>1. SettingsTypeOK  BY SettingsTypesFollow
  <2>2. SavedIsShown  BY DEF SavedIsShown, SettingsInv, PageInv
  <2>3. ShownIsUsed
    BY UsedAsShown, Zenon DEF ShownIsUsed
  <2> QED  BY <2>1, <2>2, <2>3 DEF SettingsAreUsedAsShown
<1> QED  BY <1>1, SettingsStart, SettingsKeep, PTL DEF SettingsSpec
=============================================================================
