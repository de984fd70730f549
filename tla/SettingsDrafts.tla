------------------------------ MODULE SettingsDrafts ------------------------------
(***************************************************************************)
(* The settings from the page to the automation: SettingsViewModel, whose  *)
(* switches are saved at once and whose texts and profiles are drafts      *)
(* until save(); QSettingsRepository, which reads older files too; and     *)
(* RuntimeIntegratorService, which resolves what was saved for the         *)
(* aircraft that is there (EffectiveSettings).                             *)
(*   callGpu stands for the service fields, which are all treated alike    *)
(* but for the chocks, which older files don't have; panel for the         *)
(* settings without a draft.  A text is the number it parses to, 0 what is *)
(* no positive rate.  Rates are in grams a second.                         *)
(***************************************************************************)
EXTENDS Integers

CONSTANTS
  Texts,         \* the rates the pilot may type
  OldPanels,     \* the panel modes an older file may hold
  MaxEdits,      \* bound on what the pilot does
  MaxFailedSaves      \* bound on saves that fail

ASSUME SettingsConstants ==
  Texts \subseteq Nat /\ OldPanels \subseteq 0 .. 3 /\ MaxEdits \in Nat /\ MaxFailedSaves \in Nat

VARIABLES
  view,    \* SettingsViewModel
  service, \* RuntimeIntegratorService: appSettings_, appliedProfileId_ and what was applied
  disk,    \* the settings file
  there    \* the aircraft and the automatic unit of weight

settingsVars == <<view, service, disk, there>>

\* Two aircraft: one refuelled by the client, one that refuels by itself.
Profiles == {"client", "self"}
RefuelledByTheClient == {"client"}
NoAircraft == "none"
RecommendedFuelRate == [profile \in Profiles \cup {NoAircraft} |->
  CASE profile = "client" -> 18000 [] profile = "self" -> 15000 [] OTHER -> 0]
DefaultFuelRate == 20000
Limits == [edits |-> MaxEdits, faults |-> MaxFailedSaves]

-----------------------------------------------------------------------------
(***************************************************************************)
(* ParseFuelRate and FormatFuelRate, which rounds to whole kilograms or    *)
(* pounds: what is shown is less exact than what is saved.                 *)
(***************************************************************************)
GramsOfAPound == 454
Unit(isLb) == IF isLb THEN GramsOfAPound ELSE 1000
ParseFuelRate(text, isLb) == text * Unit(isLb)
FormatFuelRate(rate, isLb) == (rate + Unit(isLb) \div 2) \div Unit(isLb)
ConvertRateText(text, fromLb, toLb) ==
  IF fromLb = toLb THEN text ELSE FormatFuelRate(ParseFuelRate(text, fromLb), toLb)

ServicesOf(x) == [skip |-> x.skip, skipNew |-> x.skipNew, callGpu |-> x.callGpu, chocks |-> x.chocks]
NewServices == [skip |-> FALSE, skipNew |-> TRUE, callGpu |-> FALSE, chocks |-> FALSE]
CopyServiceFields(target, source) ==
  [target EXCEPT !.skip = source.skip, !.skipNew = source.skipNew,
                 !.callGpu = source.callGpu, !.chocks = source.chocks]

\* A profile that isn't in the settings uses the global ones.
NewProfile == [useGlobal |-> TRUE, mode |-> "recommended", rate |-> DefaultFuelRate,
               skip |-> FALSE, skipNew |-> TRUE, callGpu |-> FALSE, chocks |-> FALSE]
NewSettings == [mode |-> "recommended", rate |-> DefaultFuelRate, panel |-> 1, unit |-> "auto",
                skip |-> FALSE, skipNew |-> TRUE, callGpu |-> FALSE, chocks |-> FALSE,
                profiles |-> [p \in Profiles |-> NewProfile]]

(***************************************************************************)
(* ResolveAutomationSettings: the profile of the aircraft overrides, unless *)
(* it uses the global ones.                                                *)
(***************************************************************************)
ResolveFuelRate(mode, manual, recommended) ==
  LET rate == IF mode = "manual" THEN manual ELSE recommended
  IN  IF rate > 0 THEN rate ELSE DefaultFuelRate

ResolveServices(x) == [ServicesOf(x) EXCEPT !.skipNew = x.skip \/ x.skipNew]

ResolveAutomationSettings(settings, aircraft) ==
  LET recommended == RecommendedFuelRate[aircraft]
      profile == IF aircraft \in Profiles THEN settings.profiles[aircraft] ELSE NewProfile
      globalRate == ResolveFuelRate(settings.mode, settings.rate, recommended)
  IN  [ rate |-> IF profile.useGlobal \/ profile.mode = "global" THEN globalRate
                 ELSE ResolveFuelRate(profile.mode, profile.rate, recommended),
        services |-> ResolveServices(IF profile.useGlobal THEN settings ELSE profile),
        panel |-> settings.panel ]

(***************************************************************************)
(* QSettingsRepository: an older file has no chocks, which then follow the *)
(* ground power, and a panel mode on the scale of before; Save writes both.*)
(* Profiles that use the global settings aren't written.                   *)
(***************************************************************************)
RetireKeepClosed(stored) == CASE stored = 3 -> 2 [] stored \in {1, 2} -> 1 [] OTHER -> stored
WithChocksAsPower(x) == [x EXCEPT !.chocks = x.callGpu]

LoadSettings(file) ==
  IF ~file.old THEN file.settings
  ELSE [WithChocksAsPower(file.settings) EXCEPT
          !.panel = RetireKeepClosed(@),
          !.profiles = [p \in Profiles |-> WithChocksAsPower(@[p])]]

WrittenWithoutTheScale(settings) == [old |-> TRUE, settings |-> settings]
Written(settings) ==
  [old |-> FALSE,
   settings |-> [settings EXCEPT !.profiles =
                   [p \in Profiles |-> IF @[p].useGlobal THEN NewProfile ELSE @[p]]]]

-----------------------------------------------------------------------------
(***************************************************************************)
(* The view as it is built: a draft for every profile, with the global     *)
(* rate where there is none.                                               *)
(***************************************************************************)
EffectiveIsLb(settings, autoIsLb) == settings.unit = "lb" \/ (settings.unit = "auto" /\ autoIsLb)

DraftOf(profile, globalText, isLb) ==
  CopyServiceFields(
    [useGlobal |-> profile.useGlobal, mode |-> profile.mode,
     text |-> IF profile.useGlobal THEN globalText ELSE FormatFuelRate(profile.rate, isLb),
     skip |-> FALSE, skipNew |-> TRUE, callGpu |-> FALSE, chocks |-> FALSE], profile)

Built(settings, autoIsLb, used) ==
  LET isLb == EffectiveIsLb(settings, autoIsLb)
      text == FormatFuelRate(settings.rate, isLb)
  IN  [ settings |-> settings, text |-> text, mode |-> settings.mode, isLb |-> isLb,
        drafts |-> [p \in Profiles |-> DraftOf(settings.profiles[p], text, isLb)],
        selected |-> "client",
        unsaved |-> FALSE,          \* history: changed since it was saved or read
        edits |-> used.edits, faults |-> used.faults ]

\* PushEffectiveSettings.
Applied(settings, aircraft) ==
  [app |-> settings, profile |-> aircraft, effective |-> ResolveAutomationSettings(settings, aircraft)]

\* The file of an older client, where one aircraft has a rate of its own.
OlderFile(panel) ==
  [old |-> TRUE,
   settings |-> [NewSettings EXCEPT
     !.panel = panel, !.callGpu = TRUE,
     !.profiles["client"] = [@ EXCEPT !.useGlobal = FALSE, !.mode = "manual",
                                      !.rate = 14 * GramsOfAPound]]]

SettingsInit ==
  /\ disk \in { OlderFile(panel) : panel \in OldPanels }
  /\ there = [aircraft |-> NoAircraft, autoIsLb |-> FALSE]
  /\ view = Built(LoadSettings(disk), FALSE, [edits |-> 0, faults |-> 0])
  /\ service = Applied(LoadSettings(disk), NoAircraft)

\* The client ends and starts again; selectDetectedProfile then finds no aircraft yet.
Relaunch ==
  /\ there.aircraft = NoAircraft
  /\ view.edits > 0
  /\ view' = Built(LoadSettings(disk), there.autoIsLb, view)
  /\ service' = Applied(LoadSettings(disk), NoAircraft)
  /\ UNCHANGED <<disk, there>>

\* The aircraft is another: OnRuntimeUpdated pushes the settings for it.
AircraftChanges ==
  /\ \E aircraft \in (Profiles \cup {NoAircraft}) \ {there.aircraft} :
       /\ there' = [there EXCEPT !.aircraft = aircraft]
       /\ service' = Applied(service.app, aircraft)
  /\ UNCHANGED <<view, disk>>

\* SyncDisplayUnit: the texts are converted when the unit shown is another.
DisplayUnitSynced(v, autoIsLb) ==
  LET toLb == EffectiveIsLb(v.settings, autoIsLb)
      Converted(text) == ConvertRateText(text, v.isLb, toLb)
  IN  [v EXCEPT !.isLb = toLb, !.text = Converted(@),
                !.drafts = [p \in Profiles |->
                               [v.drafts[p] EXCEPT !.text = Converted(v.drafts[p].text)]]]

\* The plan of SimBrief or the aircraft brings another unit (GetAutoWeightUnit).
AutoUnitChanges ==
  /\ there' = [there EXCEPT !.autoIsLb = ~@]
  /\ view' = DisplayUnitSynced(view, there'.autoIsLb)
  /\ UNCHANGED <<service, disk>>

-----------------------------------------------------------------------------
(***************************************************************************)
(* Save and ApplySettings: after a save that fails nothing is applied, but *)
(* the view keeps what it has, and the next one saves it.  What could not  *)
(* be synchronised may still come to be in the file.                       *)
(***************************************************************************)
SavesAs(v) ==
  \/ /\ disk' = Written(v.settings)
     /\ service' = Applied(v.settings, there.aircraft)
     /\ view' = v
  \/ /\ view.faults < Limits.faults
     /\ disk' \in {disk, Written(v.settings)}
     /\ UNCHANGED service
     /\ view' = [v EXCEPT !.unsaved = TRUE, !.faults = @ + 1]

Edits == view.edits < Limits.edits /\ UNCHANGED there
Edited(v) == [v EXCEPT !.edits = @ + 1]
Drafted(v) ==
  /\ view' = [Edited(v) EXCEPT !.unsaved = TRUE]
  /\ UNCHANGED <<service, disk>>

\* SetPersisted and PersistImmediateSetting, for each setting without a draft.
SetPersisted(settings) ==
  /\ Edits /\ settings # view.settings
  /\ SavesAs(Edited([view EXCEPT !.settings = settings]))

SetGsxPanelMode == \E panel \in 0 .. 2 : SetPersisted([view.settings EXCEPT !.panel = panel])
SetSkipReposition == SetPersisted([view.settings EXCEPT !.skip = ~@])
SetSkipRepositionOnNewTurnaround ==
  ~view.settings.skip /\ SetPersisted([view.settings EXCEPT !.skipNew = ~@])
SetCallGpu == SetPersisted([view.settings EXCEPT !.callGpu = ~@])

\* It saves first, and then shows the new unit.
SetWeightUnitMode ==
  /\ Edits
  /\ \E unit \in {"auto", "kg", "lb"} \ {view.settings.unit} :
       SavesAs(DisplayUnitSynced(Edited([view EXCEPT !.settings.unit = unit]), there.autoIsLb))

SetFuelRateText ==
  Edits /\ \E text \in Texts \ {view.text} : Drafted([view EXCEPT !.text = text])
SetFuelRateModeIndex ==
  Edits /\ \E mode \in {"recommended", "manual"} \ {view.mode} : Drafted([view EXCEPT !.mode = mode])

-----------------------------------------------------------------------------
SelectedDraft == view.drafts[view.selected]
WithDraft(v, draft) == [v EXCEPT !.drafts[v.selected] = draft]

\* SetSelectedProfileIndex and selectDetectedProfile.
SelectProfile ==
  /\ view' \in { [view EXCEPT !.selected = p] : p \in Profiles \ {view.selected} }
  /\ UNCHANGED <<service, disk, there>>

\* A profile that is freed from the global settings starts with them.
SetProfileUseGlobal ==
  /\ Edits
  /\ LET draft == [SelectedDraft EXCEPT !.useGlobal = ~@]
     IN  Drafted(WithDraft(view,
           IF draft.useGlobal THEN draft
           ELSE CopyServiceFields([draft EXCEPT !.mode = view.mode, !.text = view.text],
                                  view.settings)))

SetProfileFuelRate ==
  /\ Edits /\ ~SelectedDraft.useGlobal
  /\ \/ \E text \in Texts \ {SelectedDraft.text} :
          Drafted(WithDraft(view, [SelectedDraft EXCEPT !.text = text]))
     \/ \E mode \in {"global", "recommended", "manual"} \ {SelectedDraft.mode} :
          Drafted(WithDraft(view, [SelectedDraft EXCEPT !.mode = mode]))

SetProfileToggle ==
  /\ Edits /\ ~SelectedDraft.useGlobal
  /\ \/ Drafted(WithDraft(view, [SelectedDraft EXCEPT !.callGpu = ~@]))
     \/ Drafted(WithDraft(view, [SelectedDraft EXCEPT !.skip = ~@]))
     \/ /\ ~SelectedDraft.skip
        /\ Drafted(WithDraft(view, [SelectedDraft EXCEPT !.skipNew = ~@]))

(***************************************************************************)
(* The profile becomes the global default: its rate as a draft, but its    *)
(* services in the settings themselves, which the next switch saves.       *)
(***************************************************************************)
SetProfileAsGlobalDefault ==
  /\ Edits /\ ~SelectedDraft.useGlobal
  /\ LET fuel == view.selected \in RefuelledByTheClient
     IN  Drafted(WithDraft(
           [view EXCEPT
              !.text = IF fuel THEN SelectedDraft.text ELSE @,
              !.mode = IF fuel /\ SelectedDraft.mode # "global" THEN SelectedDraft.mode ELSE @,
              !.settings = CopyServiceFields(@, SelectedDraft)],
           [SelectedDraft EXCEPT !.useGlobal = TRUE]))

ApplyProfileToAllProfiles ==
  Edits /\ Drafted([view EXCEPT !.drafts = [p \in Profiles |-> SelectedDraft]])

(***************************************************************************)
(* Validate: a rate that is used has to be one; a rate that isn't, and is  *)
(* none, stays what it was.                                                *)
(***************************************************************************)
Overrides(p) == ~view.drafts[p].useGlobal
IsValid ==
  /\ view.mode = "manual" => view.text > 0
  /\ \A p \in RefuelledByTheClient :
       Overrides(p) /\ view.drafts[p].mode = "manual" => view.drafts[p].text > 0

GlobalRateToSave ==
  IF view.text > 0 THEN ParseFuelRate(view.text, view.isLb) ELSE view.settings.rate
ProfileToSave(p) ==
  LET draft == view.drafts[p]
      hasRate == p \in RefuelledByTheClient /\ draft.text > 0
  IN  IF ~Overrides(p) THEN NewProfile
      ELSE CopyServiceFields(
             [NewProfile EXCEPT
                !.useGlobal = FALSE, !.mode = draft.mode,
                !.rate = IF hasRate THEN ParseFuelRate(draft.text, view.isLb) ELSE GlobalRateToSave],
             draft)

SettingsToSave ==
  [view.settings EXCEPT !.mode = view.mode, !.rate = GlobalRateToSave,
                        !.profiles = [p \in Profiles |-> ProfileToSave(p)]]
SaveSettings ==
  /\ Edits /\ IsValid
  /\ SavesAs([Edited([view EXCEPT !.settings = SettingsToSave]) EXCEPT !.unsaved = FALSE])

SettingsNext ==
  \/ Relaunch \/ AircraftChanges \/ AutoUnitChanges \/ SelectProfile
  \/ SetGsxPanelMode \/ SetSkipReposition \/ SetSkipRepositionOnNewTurnaround \/ SetCallGpu
  \/ SetWeightUnitMode \/ SetFuelRateText \/ SetFuelRateModeIndex
  \/ SetProfileUseGlobal \/ SetProfileFuelRate \/ SetProfileToggle
  \/ SetProfileAsGlobalDefault \/ ApplyProfileToAllProfiles \/ SaveSettings

SettingsSpec == SettingsInit /\ [][SettingsNext]_settingsVars

-----------------------------------------------------------------------------
\* Rates and texts are numbers that were typed, read or converted.
SettingsTypeOK ==
  /\ view.text \in Nat /\ \A p \in Profiles : view.drafts[p].text \in Nat
  /\ view.settings.rate \in Nat \ {0} /\ service.effective.rate \in Nat \ {0}
  /\ view.settings.panel \in 0 .. 2 /\ disk.old \in BOOLEAN
  /\ view.selected \in Profiles /\ there.aircraft \in Profiles \cup {NoAircraft}
  /\ view.edits \in 0 .. Limits.edits /\ view.faults \in 0 .. Limits.faults

(***************************************************************************)
(* What the page shows is what a client started now would read, unless     *)
(* there is a draft to save or a save has failed: older files are migrated *)
(* once, and profiles that went back to the global settings stay there.    *)
(***************************************************************************)
SavedIsShown == ~view.unsaved => LoadSettings(disk) = view.settings

(***************************************************************************)
(* The automation runs on what the page shows for the aircraft: its        *)
(* services, and its rate but for what rounding hides, however often the   *)
(* unit changed.                                                           *)
(***************************************************************************)
ShownMode(p) ==
  IF Overrides(p) /\ view.drafts[p].mode # "global" THEN view.drafts[p].mode ELSE view.mode
ShownText(p) ==
  IF Overrides(p) /\ view.drafts[p].mode # "global" THEN view.drafts[p].text ELSE view.text
Rounding == (Unit(TRUE) + Unit(FALSE)) \div 2

ShownIsUsed ==
  ~view.unsaved => \A p \in Profiles \cap {there.aircraft} :
    LET used == service.effective
        shown == ParseFuelRate(ShownText(p), view.isLb)
    IN  /\ used.services = ResolveServices(IF Overrides(p) THEN view.drafts[p] ELSE view.settings)
        /\ used.panel = view.settings.panel
        /\ p \in RefuelledByTheClient =>
             IF ShownMode(p) = "recommended" THEN used.rate = RecommendedFuelRate[p]
             ELSE used.rate \in (shown - Rounding) .. (shown + Rounding)

(***************************************************************************)
(* Without a draft or a failed save, the automation runs on what the page  *)
(* shows, and a client started now shows the same.                         *)
(***************************************************************************)
SettingsAreUsedAsShown == SettingsTypeOK /\ SavedIsShown /\ ShownIsUsed
=============================================================================
