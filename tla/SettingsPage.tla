---------------------------- MODULE SettingsPage ----------------------------
(***************************************************************************)
(* The settings page of the desktop application: the check for updates and *)
(* the telemetry switches.  Its state lives as long as the page is on the  *)
(* screen; the telemetry settings are kept in localStorage.                *)
(*                                                                         *)
(* useTelemetry also offers functions that track shares, connections and   *)
(* transfers; nothing calls them.                                          *)
(***************************************************************************)
EXTENDS Naturals

VARIABLES
    settingsOpen,
    telemetry,      \* settings of useTelemetry, and their copy in localStorage
    eventQueue,     \* length of eventQueueRef
    update,         \* checkingUpdate, updateInfo, updateError, lastChecked
    lastAnswer      \* history variable: what the last check that returned said

settingsVars == <<settingsOpen, telemetry, eventQueue, update, lastAnswer>>

TelemetrySettings == [enabled : BOOLEAN, usage : BOOLEAN, errors : BOOLEAN, consent : BOOLEAN]

DEFAULT_TELEMETRY_SETTINGS ==
    [enabled |-> FALSE, usage |-> FALSE, errors |-> FALSE, consent |-> FALSE]

FreshUpdate ==
    [checking |-> FALSE, info |-> FALSE, error |-> FALSE, lastChecked |-> FALSE]

SettingsInit ==
    /\ settingsOpen = FALSE
    /\ telemetry = DEFAULT_TELEMETRY_SETTINGS
    /\ eventQueue = 0
    /\ update = FreshUpdate
    /\ lastAnswer = "none"

SettingsOpens ==
    /\ settingsOpen' = TRUE
    /\ UNCHANGED <<telemetry, eventQueue, update, lastAnswer>>

(* Leaving the page drops its state, a check that is under way included. *)
SettingsCloses ==
    /\ settingsOpen' = FALSE
    /\ eventQueue' = 0
    /\ update' = FreshUpdate
    /\ lastAnswer' = "none"
    /\ UNCHANGED telemetry

-----------------------------------------------------------------------------
(* The section Updates: the button, what it says of a new version, and     *)
(* "You're running the latest version!".                                   *)
OffersCheck == settingsOpen /\ ~update.checking
AnnouncesNew == update.info
AnnouncesLatest == update.lastChecked /\ ~update.info /\ ~update.error

CheckForUpdates ==
    /\ OffersCheck
    /\ update' = [update EXCEPT !.checking = TRUE, !.error = FALSE]
    /\ UNCHANGED <<settingsOpen, telemetry, eventQueue, lastAnswer>>

UpdateInfo(available) == available

UpdateAnswered ==
    /\ update.checking
    /\ \/ \E available \in BOOLEAN :
             /\ update' = [update EXCEPT !.checking = FALSE, !.info = UpdateInfo(available),
                                         !.lastChecked = TRUE]
             /\ lastAnswer' = IF available THEN "available" ELSE "latest"
       \/ /\ update' = [update EXCEPT !.checking = FALSE, !.error = TRUE]
          /\ UNCHANGED lastAnswer
    /\ UNCHANGED <<settingsOpen, telemetry, eventQueue>>

(* updateSettings records the first consent. *)
UpdateSettings(new) ==
    telemetry' = [new EXCEPT !.consent = @ \/ (new.enabled /\ ~telemetry.enabled)]

(* track, called with the settings of the render that made the closure. *)
Track(seen) ==
    eventQueue' = IF seen.enabled /\ seen.usage THEN eventQueue + 1 ELSE eventQueue

(* The one button of the section Privacy, Opt In or Opt Out. *)
OffersOptIn == settingsOpen /\ ~telemetry.enabled
OffersOptOut == settingsOpen /\ telemetry.enabled

(* Seeded fault: the event is tracked with the settings just made. *)
EnableAllFresh ==
    /\ OffersOptIn
    /\ UpdateSettings([telemetry EXCEPT !.enabled = TRUE, !.usage = TRUE, !.errors = TRUE])
    /\ Track(telemetry')
    /\ UNCHANGED <<settingsOpen, update, lastAnswer>>

(* enableAll: the closure of track still has telemetry disabled. *)
EnableAll ==
    /\ OffersOptIn
    /\ UpdateSettings([telemetry EXCEPT !.enabled = TRUE, !.usage = TRUE, !.errors = TRUE])
    /\ Track(telemetry)
    /\ UNCHANGED <<settingsOpen, update, lastAnswer>>

DisableAll ==
    /\ OffersOptOut
    /\ UpdateSettings([telemetry EXCEPT !.enabled = FALSE, !.usage = FALSE, !.errors = FALSE])
    /\ eventQueue' = 0
    /\ UNCHANGED <<settingsOpen, update, lastAnswer>>

ToggleUsageData ==
    /\ settingsOpen /\ telemetry.enabled
    /\ UpdateSettings([telemetry EXCEPT !.usage = ~@])
    /\ UNCHANGED <<settingsOpen, eventQueue, update, lastAnswer>>

ToggleErrorReports ==
    /\ settingsOpen /\ telemetry.enabled
    /\ UpdateSettings([telemetry EXCEPT !.errors = ~@])
    /\ UNCHANGED <<settingsOpen, eventQueue, update, lastAnswer>>

SettingsNext ==
    \/ CheckForUpdates \/ UpdateAnswered
    \/ EnableAll \/ DisableAll \/ ToggleUsageData \/ ToggleErrorReports

-----------------------------------------------------------------------------
(* What the page announces is what the last answer said: a failed check    *)
(* neither withdraws a new version nor turns it into "You're running the   *)
(* latest version!".                                                       *)
AnnouncesLastAnswer ==
    /\ AnnouncesNew <=> lastAnswer = "available"
    /\ AnnouncesLatest => lastAnswer = "latest"

(* The settings page promises "no tracking, no data collection".  It is    *)
(* kept even by those who opt in: the event that opting in tracks sees the *)
(* settings from before, and nothing is ever queued.                       *)
NothingTracked == eventQueue = 0

(* What the settings page says is so: the announcement is that of the last *)
(* answer, and no event is collected.                                      *)
SettingsInv == telemetry \in TelemetrySettings /\ AnnouncesLastAnswer /\ NothingTracked
=============================================================================
