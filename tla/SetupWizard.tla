---------------------------- MODULE SetupWizard ----------------------------
(***************************************************************************)
(* The setup wizard of the desktop application: four steps, the second of  *)
(* which runs the platform's checks one after the other, each awaiting the *)
(* backend.  The wizard's state lives as long as it is on the screen.      *)
(*                                                                         *)
(* A check's guide offers its install command: a button that copies it,    *)
(* and Copy & Run, which also tries to open a terminal.  A command is      *)
(* named by its check.                                                     *)
(***************************************************************************)
EXTENDS Naturals, Sequences

CONSTANT DetectedPlatform   \* what detectPlatform() may say

VARIABLES
    wizard,     \* showSetupWizard: the wizard is on the screen
    platform,   \* detectPlatform()
    currentStep,
    checks,     \* statuses, in the order of the platform's checks
    pass,       \* the check that runSystemChecks is at, or 0
    isRunningChecks,
    allChecksPassed,
    expandedCheck,      \* the check whose details are shown, or 0
    copiedCommand,      \* the command with a tick, or 0
    copyTimeout,        \* copyTimeoutRef: the timer that clears the tick runs
    isAutoInstalling,   \* the check whose Copy & Run turns, or 0
    install,            \* where the Copy & Run of each check is
    clipboard,          \* history variable: the command copied last, or 0
    missed              \* history variable: the last Copy & Run could not copy

guideVars == <<expandedCheck, copiedCommand, copyTimeout, isAutoInstalling, install,
               clipboard, missed>>

checksVars == <<checks, pass, isRunningChecks, allChecksPassed>>

wizardVars == <<wizard, platform, currentStep, checksVars, guideVars>>

Platform == {"macos", "windows", "linux", "unknown"}
Status == {"pending", "checking", "passed", "failed", "warning"}

ASSUME PlatformAssumption == DetectedPlatform \subseteq Platform

steps == <<"welcome", "requirements", "security", "ready">>

(* initializeChecks: the checks of a platform.  performCheck answers those *)
(* without a probe itself.                                                 *)
PlatformChecks(p) ==
    LET network == [id |-> "network", required |-> TRUE, probe |-> "get_local_ip"]
        fuse(id) == [id |-> id, required |-> TRUE, probe |-> "check_fuse_installed"]
        assumed(id, r) == [id |-> id, required |-> r, probe |-> "none"]
    IN  CASE p = "macos"   -> <<network, fuse("fuse-macos"), fuse("kernel-extensions")>>
          [] p = "windows" -> <<network, fuse("winfsp"), assumed("windows-firewall", TRUE),
                                assumed("smartscreen", FALSE)>>
          [] p = "linux"   -> <<network, fuse("fuse-linux"), assumed("fuse-group", TRUE)>>
          [] OTHER         -> <<network>>

Pending(p) == [i \in DOMAIN PlatformChecks(p) |-> "pending"]

WizardTypeOK ==
    /\ wizard \in BOOLEAN
    /\ platform \in Platform
    /\ currentStep \in 0..3
    /\ checks \in [DOMAIN PlatformChecks(platform) -> Status]
    /\ pass \in 0..Len(PlatformChecks(platform))
    /\ isRunningChecks \in BOOLEAN /\ allChecksPassed \in BOOLEAN
    /\ {expandedCheck, copiedCommand, isAutoInstalling, clipboard} \subseteq {0} \cup DOMAIN checks
    /\ copyTimeout \in BOOLEAN
    /\ install \in [DOMAIN checks -> {"none", "copying", "opening"}]

(* The component's state when it is mounted, and while it is not. *)
FreshWizard(p) ==
    /\ currentStep' = 0
    /\ checks' = Pending(p)
    /\ pass' = 0
    /\ isRunningChecks' = FALSE /\ allChecksPassed' = FALSE
    /\ expandedCheck' = 0 /\ copiedCommand' = 0 /\ copyTimeout' = FALSE
    /\ isAutoInstalling' = 0 /\ install' = [i \in DOMAIN PlatformChecks(p) |-> "none"]
    /\ clipboard' = 0 /\ missed' = FALSE

WizardInit ==
    /\ wizard = TRUE
    /\ platform \in DetectedPlatform
    /\ currentStep = 0
    /\ checks = Pending(platform)
    /\ pass = 0
    /\ isRunningChecks = FALSE /\ allChecksPassed = FALSE
    /\ expandedCheck = 0 /\ copiedCommand = 0 /\ copyTimeout = FALSE
    /\ isAutoInstalling = 0 /\ install = [i \in DOMAIN checks |-> "none"]
    /\ clipboard = 0 /\ missed = FALSE

-----------------------------------------------------------------------------
At(id) == wizard /\ steps[currentStep + 1] = id

(* runSystemChecks up to its first wait. *)
RunSystemChecks ==
    /\ isRunningChecks' = TRUE
    /\ pass' = 1
    /\ checks' = [checks EXCEPT ![1] = "checking"]

(* A step forward; the effect runs the checks when the requirements are    *)
(* reached and none of them has been tried.                                *)
GoTo(step) ==
    /\ currentStep' = step
    /\ IF step = 1 /\ \A i \in DOMAIN checks : checks[i] = "pending"
         THEN RunSystemChecks
         ELSE UNCHANGED <<checks, pass, isRunningChecks>>
    /\ UNCHANGED <<wizard, platform, allChecksPassed, guideVars>>

(* The footer.  Continue is not held back by a failed check. *)
Continue ==
    /\ wizard /\ currentStep < 3
    /\ ~(At("requirements") /\ isRunningChecks)
    /\ GoTo(currentStep + 1)

SkipForNow ==
    /\ At("requirements") /\ ~allChecksPassed
    /\ GoTo(currentStep + 1)

Back ==
    /\ wizard /\ currentStep \in 1..2
    /\ GoTo(currentStep - 1)

OffersRecheck == At("requirements") /\ ~isRunningChecks

Recheck ==
    /\ OffersRecheck
    /\ RunSystemChecks
    /\ UNCHANGED <<wizard, platform, currentStep, allChecksPassed, guideVars>>

(* The outcomes of a check: a probe of the backend may say either. *)
performCheck(i) ==
    IF PlatformChecks(platform)[i].probe = "none" THEN {TRUE} ELSE BOOLEAN

Verdict(i, ok) ==
    IF ok THEN "passed"
    ELSE IF PlatformChecks(platform)[i].required THEN "failed" ELSE "warning"

(* The line below the checks. *)
ShowsSummary == wizard /\ ~isRunningChecks /\ \E i \in DOMAIN checks : checks[i] # "pending"

AllRequired(cs) ==
    \A i \in DOMAIN cs : PlatformChecks(platform)[i].required => cs[i] = "passed"

(* Seeded fault: a pass that fails does not withdraw the earlier verdict. *)
ChecksDone_Sticky(done) ==
    /\ isRunningChecks' = FALSE
    /\ allChecksPassed' = (allChecksPassed \/ AllRequired(done))

ChecksDone(done) ==
    /\ isRunningChecks' = FALSE
    /\ allChecksPassed' = AllRequired(done)

More == pass < Len(checks)

(* The check that is being made is answered; the next one, or the end. *)
CheckAnswered ==
    /\ pass # 0
    /\ \E ok \in performCheck(pass) :
          LET done == [checks EXCEPT ![pass] = Verdict(pass, ok)]
          IN  IF More
                THEN /\ pass' = pass + 1
                     /\ checks' = [done EXCEPT ![pass + 1] = "checking"]
                     /\ UNCHANGED <<isRunningChecks, allChecksPassed>>
                ELSE /\ pass' = 0 /\ checks' = done
                     /\ ChecksDone(done)
    /\ UNCHANGED <<wizard, platform, currentStep, guideVars>>

-----------------------------------------------------------------------------
(* Show details, Hide details. *)
ExpandCheck(i) ==
    /\ At("requirements") /\ checks[i] \notin {"pending", "checking"}
    /\ expandedCheck' = IF expandedCheck = i THEN 0 ELSE i
    /\ UNCHANGED <<wizard, platform, currentStep, checksVars, copiedCommand, copyTimeout,
                   isAutoInstalling, install, clipboard, missed>>

(* The guide of a check is shown, and has an install command. *)
OffersCommand(i) ==
    /\ At("requirements")
    /\ checks[i] # "passed" /\ (checks[i] = "failed" \/ expandedCheck = i)
    /\ PlatformChecks(platform)[i].id \in {"fuse-macos", "fuse-linux", "fuse-group"}

(* The clipboard takes the command; when it does not, nothing changes. *)
HandleCopyCommand(i) ==
    /\ OffersCommand(i)
    /\ copiedCommand' = i /\ copyTimeout' = TRUE
    /\ clipboard' = i /\ missed' = FALSE
    /\ UNCHANGED <<wizard, platform, currentStep, checksVars, expandedCheck, isAutoInstalling,
                   install>>

CopyTimeout ==
    /\ copyTimeout
    /\ copiedCommand' = 0 /\ copyTimeout' = FALSE
    /\ UNCHANGED <<wizard, platform, currentStep, checksVars, expandedCheck, isAutoInstalling,
                   install, clipboard, missed>>

(* handleAutoInstall, up to the clipboard.  (Bound: one per check, also    *)
(* when the end of another one has enabled the button early.)              *)
HandleAutoInstall(i) ==
    /\ OffersCommand(i) /\ isAutoInstalling # i /\ install[i] = "none"
    /\ isAutoInstalling' = i
    /\ install' = [install EXCEPT ![i] = "copying"]
    /\ UNCHANGED <<wizard, platform, currentStep, checksVars, expandedCheck, copiedCommand,
                   copyTimeout, clipboard, missed>>

(* The clipboard took the command or not: there is a tick, and no timer    *)
(* for it, in either case.  On macOS the terminal is still to be opened.   *)
InstallCopied(i) ==
    /\ install[i] = "copying"
    /\ copiedCommand' = i
    /\ \/ clipboard' = i /\ missed' = FALSE
       \/ UNCHANGED clipboard /\ missed' = TRUE
    /\ install' = [install EXCEPT ![i] = IF platform = "macos" THEN "opening" ELSE "none"]
    /\ isAutoInstalling' = IF platform = "macos" THEN isAutoInstalling ELSE 0
    /\ UNCHANGED <<wizard, platform, currentStep, checksVars, expandedCheck, copyTimeout>>

(* The terminal opened, or could not be opened. *)
InstallOpened(i) ==
    /\ install[i] = "opening"
    /\ install' = [install EXCEPT ![i] = "none"]
    /\ isAutoInstalling' = 0
    /\ UNCHANGED <<wizard, platform, currentStep, checksVars, expandedCheck, copiedCommand,
                   copyTimeout, clipboard, missed>>

GuideNext ==
    \/ CopyTimeout
    \/ \E i \in DOMAIN checks : \/ ExpandCheck(i) \/ HandleCopyCommand(i)
                                \/ HandleAutoInstall(i) \/ InstallCopied(i) \/ InstallOpened(i)

-----------------------------------------------------------------------------

(* onComplete: by Skip Setup at any step, or by Get Started at the last. *)
WizardComplete ==
    /\ wizard
    /\ wizard' = FALSE
    /\ FreshWizard(platform)
    /\ UNCHANGED platform

WizardOpens ==
    /\ wizard' = TRUE
    /\ FreshWizard(platform)
    /\ UNCHANGED platform

WizardNext ==
    \/ Continue \/ SkipForNow \/ Back \/ Recheck
    \/ CheckAnswered \/ GuideNext

-----------------------------------------------------------------------------
(* The summary tells the truth about the list above it: outside a pass no  *)
(* check is still turning, and "all checks passed" is shown exactly when   *)
(* every required check of the last pass did, although a pass goes on      *)
(* while the user walks through the steps and repeats it.                  *)
SummaryTruthful ==
    ShowsSummary
      => /\ \A i \in DOMAIN checks : checks[i] \in {"passed", "failed", "warning"}
         /\ allChecksPassed <=> AllRequired(checks)

(* A tick is on the command that was copied last, while copies, passes of  *)
(* the checks and timers overlap; only a Copy & Run that could not copy    *)
(* shows a tick for nothing.  And a button turns only while its Copy & Run *)
(* is at work.                                                             *)
GuideTruthful ==
    /\ copiedCommand # 0 /\ ~missed => copiedCommand = clipboard
    /\ isAutoInstalling # 0 => install[isAutoInstalling] # "none"

(* What the wizard shows is so: the summary is that of the checks, a tick  *)
(* that of the last copy, a turning button that of a command at work.      *)
WizardInv == WizardTypeOK /\ SummaryTruthful /\ GuideTruthful

(* A pass ends: Continue does not stay disabled. *)
ChecksEnd == isRunningChecks ~> ~isRunningChecks
=============================================================================
