------------------------------ MODULE Screens ------------------------------
(***************************************************************************)
(* Six parts of the user interfaces that share no state: of the desktop    *)
(* application the setup wizard, the settings page, the search index, the  *)
(* library of recent files and projects and the panel of transfers, and    *)
(* the web site.  Each behaviour exercises one of them, the others staying *)
(* as they start:                                                          *)
(* since no step of one reads or writes another, what holds of each alone  *)
(* holds of all together.                                                  *)
(***************************************************************************)
EXTENDS SetupWizard, SettingsPage, FileIndex, Library, Transfers, Site

VARIABLE part

screensVars == <<part, wizardVars, settingsVars, indexVars, libraryVars, transfersVars, siteVars>>

ScreensInit ==
    /\ part \in {"wizard", "settings", "index", "library", "transfers", "site"}
    /\ WizardInit /\ SettingsInit /\ IndexInit /\ LibraryInit /\ TransfersInit /\ SiteInit
    /\ part # "wizard" => platform = "unknown"
    /\ part # "index" => ~slow
    /\ part # "library" => present = {}

WizardStep == WizardNext \/ WizardComplete \/ (~wizard /\ WizardOpens)

SettingsStep ==
    \/ SettingsNext
    \/ ~settingsOpen /\ SettingsOpens
    \/ settingsOpen /\ SettingsCloses

OnlyWizard ==
    part = "wizard" /\ UNCHANGED <<part, settingsVars, indexVars, libraryVars, transfersVars, siteVars>>
OnlySettings ==
    part = "settings" /\ UNCHANGED <<part, wizardVars, indexVars, libraryVars, transfersVars, siteVars>>
OnlyIndex ==
    part = "index" /\ UNCHANGED <<part, wizardVars, settingsVars, libraryVars, transfersVars, siteVars>>
OnlyLibrary ==
    part = "library" /\ UNCHANGED <<part, wizardVars, settingsVars, indexVars, transfersVars, siteVars>>
OnlySite ==
    part = "site" /\ UNCHANGED <<part, wizardVars, settingsVars, indexVars, libraryVars, transfersVars>>
OnlyTransfers ==
    part = "transfers" /\ UNCHANGED <<part, wizardVars, settingsVars, indexVars, libraryVars, siteVars>>

ScreensNext ==
    \/ OnlyWizard /\ WizardStep
    \/ OnlySettings /\ SettingsStep
    \/ OnlyIndex /\ IndexNext
    \/ OnlyLibrary /\ LibraryNext
    \/ OnlyTransfers /\ TransfersNext
    \/ OnlySite /\ SiteNext

ScreensSpec == ScreensInit /\ [][ScreensNext]_screensVars

(* The commands behind the checks, the index and Copy & Run return, the    *)
(* poll runs, the browser's timers fire, exports go on and their events    *)
(* arrive; the timer of a notice runs out when no event starts it again.   *)
ScreensFairSpec ==
    /\ ScreensSpec
    /\ WF_screensVars(OnlyWizard /\ CheckAnswered)
    /\ WF_screensVars(OnlyIndex /\ DirectoryIndexed)
    /\ WF_screensVars(OnlyIndex /\ Poll)
    /\ WF_screensVars(OnlyTransfers /\ TransfersProgress)
    /\ WF_screensVars(OnlySite /\ TryDeepLink)
    /\ WF_screensVars(OnlySite /\ CheckFocus)
-----------------------------------------------------------------------------
(* No screen waits for ever: a pass of the setup checks ends, a notice of  *)
(* the transfer panel goes away without a click, and a join page that      *)
(* stays open looks whether the application took over.                     *)
WaitsEnd == ChecksEnd /\ NoticesGo /\ JoinPageLooks
=============================================================================
