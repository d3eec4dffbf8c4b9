--------------------------- MODULE InterfaceProofs ---------------------------
(***************************************************************************)
(* Theorems about what the user sees: the windows of the desktop           *)
(* application (settings, setup wizard, search index, transfers, recent    *)
(* files and projects, file browser and its frame) and the web site, for   *)
(* any files, folders, shares, codes and any number of clicks, answers and *)
(* events.  Each part has an inductive invariant of its own; what makes it *)
(* inductive is said where it is defined.                                  *)
(***************************************************************************)
EXTENDS Screens, DesktopShell, SequenceTheorems, FiniteSetTheorems,
        WellFoundedInduction, TLAPS

-----------------------------------------------------------------------------
(* Numbers and filtered lists.                                             *)

(* Induction over numbers, as the least element of a set of them. *)
LEMMA LeastElement ==
    ASSUME NEW T \in SUBSET Nat, T # {}
    PROVE  \E x \in T : \A y \in T : x <= y
  <1>1. PICK x \in T : \A y \in T : ~(<<y, x>> \in OpToRel(<, Nat))
    BY NatLessThanWellFounded, WFMin, Zenon
  <1>2. ASSUME NEW y \in T PROVE x <= y
    <2>1. ~(y < x)
      BY <1>1 DEF OpToRel
    <2> QED BY <2>1
  <1> QED BY <1>2

(* How many positions of K are not after k. *)
Rank(K, k) == Cardinality({j \in K : j <= k})

(* Ranks of positions are numbers from 1 to the size of K, and grow with   *)
(* the positions.                                                          *)
LEMMA RanksGrow ==
    ASSUME NEW m \in Nat, NEW K \in SUBSET (1 .. m)
    PROVE  /\ IsFiniteSet(K) /\ Cardinality(K) \in Nat
           /\ \A k \in K : Rank(K, k) \in 1 .. Cardinality(K)
           /\ \A k, l \in K : k < l => Rank(K, k) < Rank(K, l)
  <1>1. IsFiniteSet(K) /\ Cardinality(K) \in Nat
    <2>1. IsFiniteSet(1 .. m)
      BY FS_Interval
    <2> QED BY <2>1, FS_Subset, FS_CardinalityType
  <1>2. ASSUME NEW k \in K PROVE Rank(K, k) \in 1 .. Cardinality(K)
    <2>1. PICK T \in SUBSET K : T = {j \in K : j <= k}
      OBVIOUS
    <2>2. IsFiniteSet(T) /\ Cardinality(T) <= Cardinality(K) /\ Cardinality(T) \in Nat
      BY <1>1, FS_Subset, FS_CardinalityType
    <2>3. k \in T
      BY <2>1
    <2>4. Cardinality(T) # 0
      BY <2>2, <2>3, FS_EmptySet
    <2> QED BY <1>1, <2>1, <2>2, <2>4 DEF Rank
  <1>3. ASSUME NEW k \in K, NEW l \in K, k < l PROVE Rank(K, k) < Rank(K, l)
    <2>1. PICK T \in SUBSET K : T = {j \in K : j <= k}
      OBVIOUS
    <2>2. PICK U \in SUBSET K : U = {j \in K : j <= l}
      OBVIOUS
    <2>3. IsFiniteSet(U)
      BY <1>1, FS_Subset
    <2>4. T \in SUBSET U /\ T # U
      <3>1. \A j \in K : j \in Int
        OBVIOUS
      <3>2. \A j \in K : j <= k => j <= l
        BY <1>3, <3>1
      <3>3. l \in U /\ l \notin T
        BY <1>3, <2>1, <2>2, <3>1
      <3> QED BY <2>1, <2>2, <3>2, <3>3
    <2>5. Cardinality(T) <= Cardinality(U) /\ Cardinality(T) # Cardinality(U) /\ IsFiniteSet(T)
      BY <2>3, <2>4, FS_Subset
    <2>6. Cardinality(T) \in Nat /\ Cardinality(U) \in Nat
      BY <2>3, <2>5, FS_CardinalityType
    <2> QED BY <2>1, <2>2, <2>5, <2>6 DEF Rank
  <1> QED BY <1>1, <1>2, <1>3

(* Every number up to the size of K is the rank of a position: Nth finds   *)
(* it, and finds the position of every rank.                               *)
LEMMA NthFacts ==
    ASSUME NEW m \in Nat, NEW K \in SUBSET (1 .. m)
    PROVE  /\ Cardinality(K) \in Nat
           /\ \A n \in 1 .. Cardinality(K) : Nth(K, n) \in K /\ Rank(K, Nth(K, n)) = n
           /\ \A k \in K : Rank(K, k) \in 1 .. Cardinality(K) /\ Nth(K, Rank(K, k)) = k
           /\ \A n, p \in 1 .. Cardinality(K) : n < p => Nth(K, n) < Nth(K, p)
  <1>1. PICK c \in Nat : c = Cardinality(K)
    BY RanksGrow
  <1>2. IsFiniteSet(K) /\ IsFiniteSet(1 .. c) /\ Cardinality(1 .. c) = c
    <2>1. IsFiniteSet(1 .. c) /\ Cardinality(1 .. c) = IF 1 > c THEN 0 ELSE c - 1 + 1
      BY FS_Interval
    <2>2. IsFiniteSet(K)
      BY RanksGrow
    <2> QED BY <2>1, <2>2
  <1>3. PICK r : r = [k \in K |-> Rank(K, k)]
    OBVIOUS
  <1>4. r \in [K -> 1 .. c]
    BY <1>1, <1>3, RanksGrow
  <1>5. \A k, l \in K : Rank(K, k) = Rank(K, l) => k = l
    <2> SUFFICES ASSUME NEW k \in K, NEW l \in K, k # l PROVE Rank(K, k) # Rank(K, l)
      OBVIOUS
    <2>1. k < l \/ l < k
      <3>1. k \in Int /\ l \in Int
        OBVIOUS
      <3> QED BY <3>1
    <2>2. Rank(K, k) \in Nat /\ Rank(K, l) \in Nat
      <3>1. Rank(K, k) \in 1 .. c /\ Rank(K, l) \in 1 .. c
        BY <1>3, <1>4
      <3> QED BY <3>1
    <2>3. k < l => Rank(K, k) < Rank(K, l)
      BY RanksGrow
    <2>4. l < k => Rank(K, l) < Rank(K, k)
      BY RanksGrow
    <2> QED BY <2>1, <2>2, <2>3, <2>4
  <1>6. r \in Injection(K, 1 .. c)
    BY <1>3, <1>4, <1>5 DEF Injection, IsInjective
  <1>7. r \in Surjection(K, 1 .. c)
    BY <1>1, <1>2, <1>6, FS_Injection
  <1>8. \A n \in 1 .. c : \E k \in K : Rank(K, k) = n
    BY <1>3, <1>7 DEF Surjection
  <1>9. \A n \in 1 .. c : Nth(K, n) \in K /\ Rank(K, Nth(K, n)) = n
    BY <1>8 DEF Nth, Rank
  <1>10. \A k \in K : Rank(K, k) \in 1 .. c /\ Nth(K, Rank(K, k)) = k
    BY <1>1, <1>5, <1>9, RanksGrow
  <1>11. ASSUME NEW n \in 1 .. c, NEW p \in 1 .. c, n < p PROVE Nth(K, n) < Nth(K, p)
    <2>1. PICK a \in K : a = Nth(K, n)
      BY <1>9
    <2>2. PICK b \in K : b = Nth(K, p)
      BY <1>9
    <2>3. Rank(K, a) = n /\ Rank(K, b) = p
      BY <1>9, <2>1, <2>2
    <2>4. ~(b < a) /\ a # b
      <3>1. b < a => Rank(K, b) < Rank(K, a)
        BY RanksGrow
      <3> QED BY <1>11, <2>3, <3>1
    <2> QED BY <2>1, <2>2, <2>4
  <1> QED BY <1>1, <1>9, <1>10, <1>11

(* What a filtered list has, and in which order. *)
LEMMA PickedFacts ==
    ASSUME NEW S, NEW s \in Seq(S), NEW K \in SUBSET DOMAIN s
    PROVE  /\ Picked(s, K) \in Seq(S) /\ Len(Picked(s, K)) = Cardinality(K)
           /\ DOMAIN Picked(s, K) = 1 .. Cardinality(K) /\ Cardinality(K) \in Nat
           /\ \A n \in DOMAIN Picked(s, K) :
                 Nth(K, n) \in K /\ Nth(K, n) \in DOMAIN s /\ Picked(s, K)[n] = s[Nth(K, n)]
           /\ \A n, p \in DOMAIN Picked(s, K) : n < p => Nth(K, n) < Nth(K, p)
           /\ \A k \in K : \E n \in DOMAIN Picked(s, K) : Nth(K, n) = k
  <1>1. PICK m \in Nat : DOMAIN s = 1 .. m
    OBVIOUS
  <1>2. K \in SUBSET (1 .. m)
    BY <1>1
  <1>3. PICK c \in Nat : c = Cardinality(K)
    BY <1>2, NthFacts
  <1>4. PICK q : q = [n \in 1 .. c |-> s[Nth(K, n)]]
    OBVIOUS
  <1>5. q = Picked(s, K)
    BY <1>3, <1>4 DEF Picked
  <1>6. \A n \in 1 .. c : Nth(K, n) \in K /\ Nth(K, n) \in DOMAIN s
    BY <1>2, <1>3, NthFacts
  <1>7. q \in [1 .. c -> S]
    BY <1>4, <1>6
  <1>8. q \in Seq(S) /\ Len(q) = c /\ DOMAIN q = 1 .. c
    BY <1>4, <1>7
  <1>9. \A n \in 1 .. c : q[n] = s[Nth(K, n)]
    BY <1>4
  <1>10. \A n, p \in 1 .. c : n < p => Nth(K, n) < Nth(K, p)
    BY <1>2, <1>3, NthFacts
  <1>11. \A k \in K : \E n \in 1 .. c : Nth(K, n) = k
    BY <1>2, <1>3, NthFacts
  <1> QED BY <1>3, <1>5, <1>6, <1>8, <1>9, <1>10, <1>11

(* The elements at consecutive positions are a part of the list. *)
LEMMA PickedInterval ==
    ASSUME NEW S, NEW s \in Seq(S), NEW a \in 0 .. Len(s), NEW b \in a .. Len(s),
           NEW K, K = (a + 1) .. b
    PROVE  Picked(s, K) = SubSeq(s, a + 1, b)
  <1>1. PICK m \in Nat : m = Len(s) /\ DOMAIN s = 1 .. m
    OBVIOUS
  <1>2. K \in SUBSET (1 .. m)
    BY <1>1
  <1>3. Cardinality(K) = b - a
    <2>1. a + 1 \in Int /\ b \in Int /\ a <= b
      BY <1>1
    <2>2. Cardinality((a + 1) .. b) = IF a + 1 > b THEN 0 ELSE b - (a + 1) + 1
      BY <2>1, FS_Interval
    <2> QED BY <1>1, <2>1, <2>2
  <1>4. \A n \in 1 .. b - a : Nth(K, n) = a + n
    <2> SUFFICES ASSUME NEW n \in 1 .. b - a PROVE Nth(K, n) = a + n
      OBVIOUS
    <2>1. a + n \in K
      BY <1>1
    <2>2. {j \in K : j <= a + n} = (a + 1) .. (a + n)
      BY <1>1
    <2>3. Cardinality((a + 1) .. (a + n)) = n
      BY <1>1, FS_Interval
    <2>4. Rank(K, a + n) = n
      BY <2>2, <2>3 DEF Rank
    <2>5. Nth(K, Rank(K, a + n)) = a + n
      BY <1>2, <2>1, NthFacts
    <2> QED BY <2>4, <2>5
  <1>5. Picked(s, K) = [n \in 1 .. b - a |-> s[a + n]]
    BY <1>3, <1>4 DEF Picked
  <1>6. SubSeq(s, a + 1, b) = [n \in 1 .. b - a |-> s[a + n]]
    <2>1. SubSeq(s, a + 1, b) \in Seq(S) /\ Len(SubSeq(s, a + 1, b)) = b - a
      BY <1>1
    <2>2. \A n \in 1 .. b - a : SubSeq(s, a + 1, b)[n] = s[a + n]
      BY <1>1
    <2>3. DOMAIN SubSeq(s, a + 1, b) = 1 .. b - a
      BY <2>1
    <2>4. PICK q : q = SubSeq(s, a + 1, b)
      OBVIOUS
    <2>5. q \in Seq(S) /\ DOMAIN q = 1 .. b - a
      BY <2>1, <2>3, <2>4
    <2>6. q = [n \in DOMAIN q |-> q[n]]
      BY <2>5
    <2>7. q = [n \in 1 .. b - a |-> q[n]]
      BY <2>5, <2>6
    <2> QED BY <2>2, <2>4, <2>7
  <1> QED BY <1>5, <1>6

-----------------------------------------------------------------------------
(* The settings page.                                                      *)

(* Beside the announcement itself: a check that came back left an answer.  *)
SettingsIInv ==
    /\ SettingsInv
    /\ settingsOpen \in BOOLEAN
    /\ update \in [checking : BOOLEAN, info : BOOLEAN, error : BOOLEAN, lastChecked : BOOLEAN]
    /\ lastAnswer \in {"none", "available", "latest"}
    /\ update.lastChecked => lastAnswer # "none"

(* The page starts without an answer and with an empty queue. *)
LEMMA SettingsStarts == SettingsInit => SettingsIInv
  <1> SUFFICES ASSUME SettingsInit PROVE SettingsIInv
    OBVIOUS
  <1>1. ~update.info /\ ~update.lastChecked
    BY DEF SettingsInit, FreshUpdate
  <1>2. telemetry \in TelemetrySettings
    BY DEF SettingsInit, DEFAULT_TELEMETRY_SETTINGS, TelemetrySettings
  <1>3. update \in [checking : BOOLEAN, info : BOOLEAN, error : BOOLEAN, lastChecked : BOOLEAN]
    BY DEF SettingsInit, FreshUpdate
  <1> QED
    BY <1>1, <1>2, <1>3 DEF SettingsInit, SettingsIInv, SettingsInv, AnnouncesLastAnswer,
                            AnnouncesNew, AnnouncesLatest, NothingTracked

(* handleCheckForUpdates and its answer keep the announcement in step. *)
LEMMA UpdateChecks ==
    SettingsIInv /\ (CheckForUpdates \/ UpdateAnswered) => SettingsIInv'
  <1>1. ASSUME SettingsIInv, CheckForUpdates PROVE SettingsIInv'
    BY <1>1 DEF SettingsIInv, SettingsInv, CheckForUpdates, AnnouncesLastAnswer, AnnouncesNew,
                AnnouncesLatest, NothingTracked
  <1>2. ASSUME SettingsIInv, UpdateAnswered PROVE SettingsIInv'
    BY <1>2 DEF SettingsIInv, SettingsInv, UpdateAnswered, UpdateInfo, AnnouncesLastAnswer,
                AnnouncesNew, AnnouncesLatest, NothingTracked
  <1> QED BY <1>1, <1>2

(* The telemetry switches of useTelemetry queue nothing. *)
LEMMA TelemetrySwitches ==
    SettingsIInv /\ (EnableAll \/ DisableAll \/ ToggleUsageData \/ ToggleErrorReports)
      => SettingsIInv'
  <1> SUFFICES ASSUME SettingsIInv,
                      EnableAll \/ DisableAll \/ ToggleUsageData \/ ToggleErrorReports
               PROVE  SettingsIInv'
    OBVIOUS
  <1>1. telemetry' \in TelemetrySettings
    BY DEF SettingsIInv, SettingsInv, EnableAll, DisableAll, ToggleUsageData, ToggleErrorReports,
           UpdateSettings, TelemetrySettings
  <1>2. eventQueue' = 0
    <2>1. CASE EnableAll
      BY <2>1 DEF SettingsIInv, SettingsInv, NothingTracked, EnableAll, OffersOptIn, Track
    <2>2. CASE DisableAll
      BY <2>2 DEF DisableAll
    <2>3. CASE ToggleUsageData \/ ToggleErrorReports
      BY <2>3 DEF SettingsIInv, SettingsInv, NothingTracked, ToggleUsageData, ToggleErrorReports
    <2> QED BY <2>1, <2>2, <2>3
  <1>3. UNCHANGED <<settingsOpen, update, lastAnswer>>
    BY DEF EnableAll, DisableAll, ToggleUsageData, ToggleErrorReports
  <1> QED
    BY <1>1, <1>2, <1>3 DEF SettingsIInv, SettingsInv, AnnouncesLastAnswer, AnnouncesNew,
                            AnnouncesLatest, NothingTracked

(* The page comes and goes with its state. *)
LEMMA SettingsComesAndGoes ==
    SettingsIInv /\ (SettingsOpens \/ SettingsCloses) => SettingsIInv'
  <1>1. ASSUME SettingsIInv, SettingsOpens PROVE SettingsIInv'
    BY <1>1 DEF SettingsIInv, SettingsInv, SettingsOpens, AnnouncesLastAnswer, AnnouncesNew,
                AnnouncesLatest, NothingTracked
  <1>2. ASSUME SettingsIInv, SettingsCloses PROVE SettingsIInv'
    <2>1. ~update'.info /\ ~update'.lastChecked
      BY <1>2 DEF SettingsCloses, FreshUpdate
    <2>2. update' \in [checking : BOOLEAN, info : BOOLEAN, error : BOOLEAN, lastChecked : BOOLEAN]
      BY <1>2 DEF SettingsCloses, FreshUpdate
    <2> QED
      BY <1>2, <2>1, <2>2 DEF SettingsCloses, SettingsIInv, SettingsInv, AnnouncesLastAnswer,
                              AnnouncesNew, AnnouncesLatest, NothingTracked
  <1> QED BY <1>1, <1>2

(* What the settings page announces is what the last check for updates     *)
(* that returned said, a failed check or a page left in between included,  *)
(* and useTelemetry never queues an event, opted in or not.                *)
THEOREM SettingsTruthful == ScreensSpec => []SettingsInv
  <1>1. ScreensInit => SettingsIInv
    BY SettingsStarts DEF ScreensInit
  <1>2. SettingsIInv /\ [ScreensNext]_screensVars => SettingsIInv'
    <2> SUFFICES ASSUME SettingsIInv, [ScreensNext]_screensVars PROVE SettingsIInv'
      OBVIOUS
    <2>1. CASE UNCHANGED settingsVars
      BY <2>1 DEF settingsVars, SettingsIInv, SettingsInv, AnnouncesLastAnswer, AnnouncesNew,
                  AnnouncesLatest, NothingTracked
    <2>2. CASE SettingsStep
      BY <2>2, UpdateChecks, TelemetrySwitches, SettingsComesAndGoes DEF SettingsStep, SettingsNext
    <2>3. SettingsStep \/ UNCHANGED settingsVars
      BY DEF ScreensNext, screensVars, OnlyWizard, OnlySettings, OnlyIndex, OnlyLibrary,
             OnlyTransfers, OnlySite
    <2> QED BY <2>1, <2>2, <2>3
  <1>3. SettingsIInv => SettingsInv
    BY DEF SettingsIInv
  <1> QED BY <1>1, <1>2, <1>3, PTL DEF ScreensSpec

-----------------------------------------------------------------------------
(* The setup wizard.                                                       *)

Verdicts == {"passed", "failed", "warning"}

(* Where runSystemChecks is, and what it has left behind: before the first *)
(* pass every check is pending, after a pass every check has a verdict and *)
(* allChecksPassed is theirs, and during one the checks before the current *)
(* one have a verdict while none after it turns.                           *)
PassSound ==
    /\ pass # 0 <=> isRunningChecks
    /\ pass = 0 => \/ \A i \in DOMAIN checks : checks[i] = "pending"
                   \/ /\ \A i \in DOMAIN checks : checks[i] \in Verdicts
                      /\ allChecksPassed <=> AllRequired(checks)
    /\ pass # 0 => /\ checks[pass] = "checking"
                   /\ \A i \in DOMAIN checks : i < pass => checks[i] \in Verdicts
                   /\ \A i \in DOMAIN checks : i > pass => checks[i] # "checking"

WizardIInv == WizardTypeOK /\ PassSound /\ GuideTruthful

(* Every platform has checks, and each of them is required or not. *)
LEMMA ChecksOfPlatform ==
    ASSUME NEW p \in Platform
    PROVE  /\ Len(PlatformChecks(p)) \in 1 .. 4
           /\ DOMAIN PlatformChecks(p) = 1 .. Len(PlatformChecks(p))
           /\ \A i \in DOMAIN PlatformChecks(p) : PlatformChecks(p)[i].required \in BOOLEAN
  <1>1. CASE p = "macos"
    <2>1. Len(PlatformChecks(p)) = 3 /\ DOMAIN PlatformChecks(p) = 1 .. 3
      BY <1>1 DEF PlatformChecks
    <2>2. PlatformChecks(p)[1].required \in BOOLEAN
      BY <1>1 DEF PlatformChecks
    <2>3. PlatformChecks(p)[2].required \in BOOLEAN
      BY <1>1 DEF PlatformChecks
    <2>4. PlatformChecks(p)[3].required \in BOOLEAN
      BY <1>1 DEF PlatformChecks
    <2> QED BY <2>1, <2>2, <2>3, <2>4
  <1>2. CASE p = "windows"
    <2>1. Len(PlatformChecks(p)) = 4 /\ DOMAIN PlatformChecks(p) = 1 .. 4
      BY <1>2 DEF PlatformChecks
    <2>2. PlatformChecks(p)[1].required \in BOOLEAN
      BY <1>2 DEF PlatformChecks
    <2>3. PlatformChecks(p)[2].required \in BOOLEAN
      BY <1>2 DEF PlatformChecks
    <2>4. PlatformChecks(p)[3].required \in BOOLEAN
      BY <1>2 DEF PlatformChecks
    <2>5. PlatformChecks(p)[4].required \in BOOLEAN
      BY <1>2 DEF PlatformChecks
    <2> QED BY <2>1, <2>2, <2>3, <2>4, <2>5
  <1>3. CASE p = "linux"
    <2>1. Len(PlatformChecks(p)) = 3 /\ DOMAIN PlatformChecks(p) = 1 .. 3
      BY <1>3 DEF PlatformChecks
    <2>2. PlatformChecks(p)[1].required \in BOOLEAN
      BY <1>3 DEF PlatformChecks
    <2>3. PlatformChecks(p)[2].required \in BOOLEAN
      BY <1>3 DEF PlatformChecks
    <2>4. PlatformChecks(p)[3].required \in BOOLEAN
      BY <1>3 DEF PlatformChecks
    <2> QED BY <2>1, <2>2, <2>3, <2>4
  <1>4. CASE p = "unknown"
    <2>1. Len(PlatformChecks(p)) = 1 /\ DOMAIN PlatformChecks(p) = 1 .. 1
      BY <1>4 DEF PlatformChecks
    <2>2. PlatformChecks(p)[1].required \in BOOLEAN
      BY <1>4 DEF PlatformChecks
    <2> QED BY <2>1, <2>2
  <1> QED BY <1>1, <1>2, <1>3, <1>4 DEF Platform

(* The wizard's variables, typed, in the form the steps below use. *)
LEMMA WizardFacts ==
    ASSUME WizardTypeOK
    PROVE  /\ platform \in Platform
           /\ DOMAIN checks = 1 .. Len(checks) /\ Len(checks) \in 1 .. 4
           /\ DOMAIN checks = DOMAIN PlatformChecks(platform)
           /\ checks \in [1 .. Len(checks) -> Status]
           /\ pass \in 0 .. Len(checks)
           /\ install \in [1 .. Len(checks) -> {"none", "copying", "opening"}]
  <1>1. platform \in Platform
    BY DEF WizardTypeOK
  <1> DEFINE n == Len(PlatformChecks(platform))
  <1>2. n \in 1 .. 4 /\ DOMAIN PlatformChecks(platform) = 1 .. n
    BY <1>1, ChecksOfPlatform
  <1> HIDE DEF n
  <1>3. checks \in [1 .. n -> Status]
    BY <1>2 DEF WizardTypeOK
  <1>4. DOMAIN checks = 1 .. n /\ Len(checks) = n
    BY <1>2, <1>3
  <1>5. pass \in 0 .. n /\ install \in [DOMAIN checks -> {"none", "copying", "opening"}]
    BY DEF WizardTypeOK, n
  <1> QED BY <1>1, <1>2, <1>3, <1>4, <1>5

(* The component's state when it is mounted. *)
LEMMA FreshIsSound ==
    ASSUME NEW p \in Platform, platform' = p, wizard' \in BOOLEAN, FreshWizard(p)
    PROVE  WizardIInv'
  <1>1. checks' = Pending(p) /\ DOMAIN checks' = DOMAIN PlatformChecks(p)
    BY DEF FreshWizard, Pending
  <1>2. \A i \in DOMAIN checks' : checks'[i] = "pending"
    BY <1>1 DEF Pending
  <1>3. checks' \in [DOMAIN PlatformChecks(p) -> Status]
    BY <1>1, <1>2 DEF Pending, Status
  <1>4. 0 \in 0 .. Len(PlatformChecks(p))
    BY ChecksOfPlatform
  <1>5. install' \in [DOMAIN checks' -> {"none", "copying", "opening"}]
    BY <1>1 DEF FreshWizard
  <1>6. WizardTypeOK'
    <2>1. /\ currentStep' = 0 /\ pass' = 0
          /\ isRunningChecks' = FALSE /\ allChecksPassed' = FALSE /\ copyTimeout' = FALSE
          /\ expandedCheck' = 0 /\ copiedCommand' = 0 /\ isAutoInstalling' = 0 /\ clipboard' = 0
      BY DEF FreshWizard
    <2>2. {expandedCheck', copiedCommand', isAutoInstalling', clipboard'} \subseteq {0} \cup DOMAIN checks'
      BY <2>1
    <2>3. 0 \in 0 .. 3
      OBVIOUS
    <2>4. platform' = p /\ wizard' \in BOOLEAN
      OBVIOUS
    <2> QED BY <1>3, <1>4, <1>5, <2>1, <2>2, <2>3, <2>4 DEF WizardTypeOK
  <1>7. PassSound'
    <2>1. pass' = 0 /\ isRunningChecks' = FALSE
      BY DEF FreshWizard
    <2> QED BY <1>2, <2>1 DEF PassSound
  <1>8. GuideTruthful'
    BY DEF GuideTruthful, FreshWizard
  <1> QED BY <1>6, <1>7, <1>8 DEF WizardIInv

(* Typing of the four variables of the checks, the others left alone. *)
LEMMA ChecksStepTyped ==
    ASSUME WizardIInv, UNCHANGED <<wizard, platform, guideVars>>,
           currentStep' \in 0 .. 3,
           checks' \in [1 .. Len(checks) -> Status], pass' \in 0 .. Len(checks),
           isRunningChecks' \in BOOLEAN, allChecksPassed' \in BOOLEAN
    PROVE  WizardTypeOK' /\ GuideTruthful' /\ DOMAIN checks' = DOMAIN checks
  <1>1. WizardTypeOK /\ GuideTruthful
    BY DEF WizardIInv
  <1>2. /\ DOMAIN checks = 1 .. Len(checks) /\ DOMAIN checks' = DOMAIN checks
        /\ DOMAIN checks = DOMAIN PlatformChecks(platform)
        /\ Len(checks) = Len(PlatformChecks(platform))
    <2>1. platform \in Platform
      BY <1>1 DEF WizardTypeOK
    <2> QED BY <1>1, <2>1, WizardFacts, ChecksOfPlatform
  <1>3. UNCHANGED <<expandedCheck, copiedCommand, copyTimeout, isAutoInstalling, install,
                    clipboard, missed>>
    BY DEF guideVars
  <1>4. WizardTypeOK'
    BY <1>1, <1>2, <1>3 DEF WizardTypeOK
  <1>5. GuideTruthful'
    BY <1>1, <1>3 DEF GuideTruthful
  <1> QED BY <1>2, <1>4, <1>5

(* runSystemChecks begins, from a state in which no pass is under way. *)
LEMMA PassBegins ==
    ASSUME WizardIInv, pass = 0, RunSystemChecks, currentStep' \in 0 .. 3,
           UNCHANGED <<wizard, platform, allChecksPassed, guideVars>>
    PROVE  WizardIInv'
  <1>1. WizardTypeOK /\ PassSound
    BY DEF WizardIInv
  <1>2. DOMAIN checks = 1 .. Len(checks) /\ Len(checks) \in 1 .. 4
        /\ checks \in [1 .. Len(checks) -> Status]
    BY <1>1, WizardFacts
  <1>3. checks' \in [1 .. Len(checks) -> Status] /\ checks'[1] = "checking"
        /\ \A i \in DOMAIN checks : i # 1 => checks'[i] = checks[i]
    BY <1>2 DEF RunSystemChecks, Status
  <1>4. isRunningChecks' = TRUE /\ pass' = 1
    BY DEF RunSystemChecks
  <1>5. WizardTypeOK' /\ GuideTruthful' /\ DOMAIN checks' = DOMAIN checks
    <2>1. pass' \in 0 .. Len(checks) /\ isRunningChecks' \in BOOLEAN /\ allChecksPassed' \in BOOLEAN
      BY <1>1, <1>2, <1>4 DEF WizardTypeOK
    <2>2. UNCHANGED <<wizard, platform, guideVars>>
      OBVIOUS
    <2> QED BY <1>3, <2>1, <2>2, ChecksStepTyped
  <1>6. \A i \in DOMAIN checks : checks[i] # "checking"
    BY <1>1 DEF PassSound, Verdicts
  <1>7. /\ \A i \in DOMAIN checks' : i < pass' => checks'[i] \in Verdicts
        /\ \A i \in DOMAIN checks' : i > pass' => checks'[i] # "checking"
    BY <1>2, <1>3, <1>4, <1>5, <1>6
  <1>8. PassSound'
    BY <1>3, <1>4, <1>7 DEF PassSound
  <1> QED BY <1>5, <1>8 DEF WizardIInv

(* The footer: Continue, Skip for now and Back, and Recheck.  They start a *)
(* pass only when none is under way: in a pass the first check is not      *)
(* pending any more.                                                       *)
LEMMA FooterSteps ==
    WizardIInv /\ (Continue \/ SkipForNow \/ Back \/ Recheck) => WizardIInv'
  <1> SUFFICES ASSUME WizardIInv, Continue \/ SkipForNow \/ Back \/ Recheck PROVE WizardIInv'
    OBVIOUS
  <1>1. WizardTypeOK /\ PassSound
    BY DEF WizardIInv
  <1>2. DOMAIN checks = 1 .. Len(checks) /\ Len(checks) \in 1 .. 4 /\ pass \in 0 .. Len(checks)
        /\ checks \in [1 .. Len(checks) -> Status]
    BY <1>1, WizardFacts
  <1>3. ASSUME NEW step \in 0 .. 3, GoTo(step) PROVE WizardIInv'
    <2>1. UNCHANGED <<wizard, platform, allChecksPassed, guideVars>> /\ currentStep' \in 0 .. 3
      BY <1>3 DEF GoTo
    <2>2. CASE step = 1 /\ \A i \in DOMAIN checks : checks[i] = "pending"
      <3>1. RunSystemChecks
        BY <1>3, <2>2 DEF GoTo
      <3>2. checks[1] = "pending" /\ 1 \in DOMAIN checks
        BY <1>2, <2>2
      <3>3. pass = 0
        <4>1. ASSUME pass # 0 PROVE FALSE
          <5>1. checks[pass] = "checking" /\ pass \in DOMAIN checks
            BY <1>1, <1>2, <4>1 DEF PassSound
          <5> QED BY <2>2, <5>1
        <4> QED BY <4>1
      <3> QED BY <2>1, <3>1, <3>3, PassBegins
    <2>3. CASE ~(step = 1 /\ \A i \in DOMAIN checks : checks[i] = "pending")
      <3>1. UNCHANGED <<checks, pass, isRunningChecks>>
        BY <1>3, <2>3 DEF GoTo
      <3>2. UNCHANGED <<wizard, platform, guideVars>> /\ allChecksPassed' = allChecksPassed
        BY <2>1
      <3>3. isRunningChecks' \in BOOLEAN /\ allChecksPassed' \in BOOLEAN
        BY <1>1, <3>1, <3>2 DEF WizardTypeOK
      <3>4. WizardTypeOK' /\ GuideTruthful'
        BY <1>2, <2>1, <3>1, <3>2, <3>3, ChecksStepTyped
      <3>5. PassSound'
        BY <1>1, <3>1, <3>2 DEF PassSound, AllRequired
      <3> QED BY <3>4, <3>5 DEF WizardIInv
    <2> QED BY <2>2, <2>3
  <1>4. CASE Continue
    <2>1. currentStep + 1 \in 0 .. 3
      BY <1>1, <1>4 DEF Continue, WizardTypeOK
    <2> QED BY <1>3, <1>4, <2>1 DEF Continue
  <1>5. CASE SkipForNow
    <2>1. currentStep + 1 \in 0 .. 3
      BY <1>1, <1>5 DEF SkipForNow, At, steps, WizardTypeOK
    <2> QED BY <1>3, <1>5, <2>1 DEF SkipForNow
  <1>6. CASE Back
    <2>1. currentStep - 1 \in 0 .. 3
      BY <1>1, <1>6 DEF Back, WizardTypeOK
    <2> QED BY <1>3, <1>6, <2>1 DEF Back
  <1>7. CASE Recheck
    <2>1. pass = 0
      BY <1>1, <1>7 DEF Recheck, OffersRecheck, PassSound
    <2>2. RunSystemChecks /\ UNCHANGED <<wizard, platform, allChecksPassed, guideVars>>
      BY <1>7 DEF Recheck
    <2>3. currentStep' \in 0 .. 3
      BY <1>1, <1>7 DEF Recheck, WizardTypeOK
    <2> QED BY <2>1, <2>2, <2>3, PassBegins
  <1> QED BY <1>4, <1>5, <1>6, <1>7

(* A check is answered: the pass goes on to the next check, or ends with   *)
(* the verdict about all of them.                                          *)
LEMMA CheckStep == WizardIInv /\ CheckAnswered => WizardIInv'
  <1> SUFFICES ASSUME WizardIInv, CheckAnswered PROVE WizardIInv'
    OBVIOUS
  <1>1. WizardTypeOK /\ PassSound
    BY DEF WizardIInv
  <1>2. DOMAIN checks = 1 .. Len(checks) /\ Len(checks) \in 1 .. 4 /\ pass \in 0 .. Len(checks)
        /\ checks \in [1 .. Len(checks) -> Status]
    BY <1>1, WizardFacts
  <1>3. pass # 0 /\ pass \in 1 .. Len(checks)
    BY <1>2 DEF CheckAnswered
  <1>4. PICK ok \in performCheck(pass) :
           IF More
             THEN /\ pass' = pass + 1
                  /\ checks' = [[checks EXCEPT ![pass] = Verdict(pass, ok)]
                                   EXCEPT ![pass + 1] = "checking"]
                  /\ UNCHANGED <<isRunningChecks, allChecksPassed>>
             ELSE /\ pass' = 0 /\ checks' = [checks EXCEPT ![pass] = Verdict(pass, ok)]
                  /\ ChecksDone([checks EXCEPT ![pass] = Verdict(pass, ok)])
    BY DEF CheckAnswered
  <1>5. PICK v : v = Verdict(pass, ok)
    OBVIOUS
  <1>6. v \in Verdicts
    BY <1>5 DEF Verdict, Verdicts
  <1>7. PICK done : done = [checks EXCEPT ![pass] = v]
    OBVIOUS
  <1>8. /\ done \in [1 .. Len(checks) -> Status]
        /\ \A i \in DOMAIN checks : done[i] = IF i = pass THEN v ELSE checks[i]
    BY <1>2, <1>3, <1>6, <1>7 DEF Verdicts, Status
  <1>9. /\ \A i \in DOMAIN checks : i <= pass => done[i] \in Verdicts
        /\ \A i \in DOMAIN checks : i > pass => done[i] # "checking"
    BY <1>1, <1>2, <1>3, <1>6, <1>8 DEF PassSound, Verdicts
  <1>10. UNCHANGED <<wizard, platform, guideVars>> /\ currentStep' \in 0 .. 3
    BY <1>1 DEF CheckAnswered, WizardTypeOK
  <1>11. CASE More
    <2>1. /\ pass' = pass + 1 /\ checks' = [done EXCEPT ![pass + 1] = "checking"]
          /\ UNCHANGED <<isRunningChecks, allChecksPassed>>
      BY <1>4, <1>5, <1>7, <1>11
    <2>2. pass' \in 1 .. Len(checks)
      BY <1>2, <1>3, <1>11, <2>1 DEF More
    <2>3. /\ checks' \in [1 .. Len(checks) -> Status] /\ checks'[pass'] = "checking"
          /\ \A i \in DOMAIN checks : i # pass' => checks'[i] = done[i]
      BY <1>2, <1>8, <2>1, <2>2 DEF Status
    <2>4. isRunningChecks' \in BOOLEAN /\ allChecksPassed' \in BOOLEAN
      BY <1>1, <2>1 DEF WizardTypeOK
    <2>5. WizardTypeOK' /\ GuideTruthful' /\ DOMAIN checks' = DOMAIN checks
      BY <1>2, <1>10, <2>2, <2>3, <2>4, ChecksStepTyped
    <2>6. /\ \A i \in DOMAIN checks' : i < pass' => checks'[i] \in Verdicts
          /\ \A i \in DOMAIN checks' : i > pass' => checks'[i] # "checking"
      BY <1>2, <1>3, <1>9, <2>1, <2>3, <2>5
    <2>7. pass' # 0 /\ isRunningChecks' = TRUE
      BY <1>1, <1>3, <2>1, <2>2 DEF PassSound, WizardTypeOK
    <2>8. pass' # 0 <=> isRunningChecks'
      BY <2>7
    <2>9. checks'[pass'] = "checking"
      BY <2>3
    <2>10. PassSound'
      BY <1>2, <2>2, <2>5, <2>6, <2>7, <2>8, <2>9 DEF PassSound
    <2> QED BY <2>5, <2>10 DEF WizardIInv
  <1>12. CASE ~More
    <2>1. pass' = 0 /\ checks' = done /\ ChecksDone(done)
      BY <1>4, <1>5, <1>7, <1>12
    <2>2. isRunningChecks' = FALSE /\ allChecksPassed' = AllRequired(done)
      BY <2>1 DEF ChecksDone
    <2>3. AllRequired(done) <=> AllRequired(checks)'
      BY <1>10, <2>1 DEF AllRequired
    <2>4. allChecksPassed' \in BOOLEAN /\ isRunningChecks' \in BOOLEAN
      BY <2>2 DEF AllRequired
    <2>5. WizardTypeOK' /\ GuideTruthful' /\ DOMAIN checks' = DOMAIN checks
      <3>1. pass' \in 0 .. Len(checks)
        BY <1>2, <2>1
      <3> QED BY <1>8, <1>10, <2>1, <2>4, <3>1, ChecksStepTyped
    <2>6. \A i \in DOMAIN checks' : checks'[i] \in Verdicts
      <3>1. ~(pass < Len(checks))
        BY <1>12 DEF More
      <3>2. PICK n \in 1 .. 4 : n = Len(checks)
        BY <1>2
      <3>3. \A i \in 1 .. n : i <= pass
        BY <1>3, <3>1, <3>2
      <3>4. \A i \in DOMAIN checks : i <= pass
        BY <1>2, <3>2, <3>3
      <3>5. \A i \in DOMAIN checks : done[i] \in Verdicts
        BY <1>2, <1>3, <1>9, <3>4
      <3> QED BY <2>1, <2>5, <3>5
    <2>7. PassSound'
      BY <2>1, <2>2, <2>3, <2>6 DEF PassSound
    <2> QED BY <2>5, <2>7 DEF WizardIInv
  <1> QED BY <1>11, <1>12

(* The guides: a tick is on what was copied, and a button that turns has a *)
(* command at work.  No step of a guide touches the checks.                *)
LEMMA GuideSteps == WizardIInv /\ GuideNext => WizardIInv'
  <1> SUFFICES ASSUME WizardIInv, GuideNext PROVE WizardIInv'
    OBVIOUS
  <1>1. WizardTypeOK /\ PassSound /\ GuideTruthful
    BY DEF WizardIInv
  <1>2. UNCHANGED <<wizard, platform, currentStep, checks, pass, isRunningChecks, allChecksPassed>>
    BY DEF GuideNext, CopyTimeout, ExpandCheck, HandleCopyCommand, HandleAutoInstall, InstallCopied,
           InstallOpened, checksVars
  <1>3. PassSound'
    BY <1>1, <1>2 DEF PassSound, AllRequired
  <1>4. 0 \notin DOMAIN checks /\ install \in [DOMAIN checks -> {"none", "copying", "opening"}]
    BY <1>1, WizardFacts
  <1> DEFINE Guide == /\ {expandedCheck, copiedCommand, isAutoInstalling, clipboard}
                           \subseteq {0} \cup DOMAIN checks
                      /\ copyTimeout \in BOOLEAN
                      /\ install \in [DOMAIN checks -> {"none", "copying", "opening"}]
                      /\ GuideTruthful
  <1>5. Guide
    BY <1>1 DEF WizardTypeOK
  <1>6. Guide'
    <2>1. CASE CopyTimeout
      BY <1>2, <1>5, <2>1 DEF CopyTimeout, GuideTruthful
    <2>2. ASSUME NEW i \in DOMAIN checks, ExpandCheck(i) PROVE Guide'
      BY <1>2, <1>5, <2>2 DEF ExpandCheck, GuideTruthful
    <2>3. ASSUME NEW i \in DOMAIN checks, HandleCopyCommand(i) PROVE Guide'
      BY <1>2, <1>5, <2>3 DEF HandleCopyCommand, GuideTruthful
    <2>4. ASSUME NEW i \in DOMAIN checks, HandleAutoInstall(i) PROVE Guide'
      BY <1>2, <1>4, <1>5, <2>4 DEF HandleAutoInstall, GuideTruthful
    <2>5. ASSUME NEW i \in DOMAIN checks, InstallCopied(i) PROVE Guide'
      BY <1>2, <1>4, <1>5, <2>5 DEF InstallCopied, GuideTruthful
    <2>6. ASSUME NEW i \in DOMAIN checks, InstallOpened(i) PROVE Guide'
      BY <1>2, <1>4, <1>5, <2>6 DEF InstallOpened, GuideTruthful
    <2> QED BY <2>1, <2>2, <2>3, <2>4, <2>5, <2>6 DEF GuideNext
  <1>7. WizardTypeOK'
    BY <1>1, <1>2, <1>6 DEF WizardTypeOK
  <1> QED BY <1>3, <1>6, <1>7 DEF WizardIInv

(* The summary is what the pass left. *)
LEMMA WizardIInvImplies == WizardIInv => WizardInv
  <1> SUFFICES ASSUME WizardIInv, ShowsSummary
               PROVE  /\ \A i \in DOMAIN checks : checks[i] \in {"passed", "failed", "warning"}
                      /\ allChecksPassed <=> AllRequired(checks)
    BY DEF WizardIInv, WizardInv, SummaryTruthful
  <1>1. pass = 0 /\ ~(\A i \in DOMAIN checks : checks[i] = "pending")
    BY DEF ShowsSummary, WizardIInv, PassSound
  <1> QED BY <1>1 DEF WizardIInv, PassSound, Verdicts

(* The setup wizard's summary is that of the last pass of the checks,      *)
(* although a pass goes on while the user walks through the steps, skips   *)
(* it or repeats it; a tick is on the command copied last, and a Copy &    *)
(* Run button turns only while its command is at work.                     *)
THEOREM WizardTruthful == ScreensSpec => []WizardInv
  <1>1. ScreensInit => WizardIInv
    <2> SUFFICES ASSUME ScreensInit PROVE WizardIInv
      OBVIOUS
    <2>1. WizardInit /\ platform \in Platform
      BY PlatformAssumption DEF ScreensInit, WizardInit
    <2>2. DOMAIN checks = DOMAIN PlatformChecks(platform)
          /\ \A i \in DOMAIN checks : checks[i] = "pending"
      BY <2>1 DEF WizardInit, Pending
    <2>3. checks \in [DOMAIN PlatformChecks(platform) -> Status]
      BY <2>1, <2>2 DEF WizardInit, Pending, Status
    <2>4. 0 \in 0 .. Len(PlatformChecks(platform))
      BY <2>1, ChecksOfPlatform
    <2>5. /\ currentStep = 0 /\ pass = 0 /\ wizard = TRUE
          /\ isRunningChecks = FALSE /\ allChecksPassed = FALSE /\ copyTimeout = FALSE
          /\ expandedCheck = 0 /\ copiedCommand = 0 /\ isAutoInstalling = 0 /\ clipboard = 0
          /\ install \in [DOMAIN checks -> {"none", "copying", "opening"}]
      BY <2>1 DEF WizardInit
    <2>6. {expandedCheck, copiedCommand, isAutoInstalling, clipboard} \subseteq {0} \cup DOMAIN checks
      BY <2>5
    <2>7. 0 \in 0 .. 3
      OBVIOUS
    <2>8. WizardTypeOK
      BY <2>1, <2>3, <2>4, <2>5, <2>6, <2>7 DEF WizardTypeOK
    <2> QED BY <2>2, <2>5, <2>8 DEF WizardIInv, PassSound, GuideTruthful
  <1>2. WizardIInv /\ [ScreensNext]_screensVars => WizardIInv'
    <2> SUFFICES ASSUME WizardIInv, [ScreensNext]_screensVars PROVE WizardIInv'
      OBVIOUS
    <2>1. WizardTypeOK /\ platform \in Platform
      BY DEF WizardIInv, WizardTypeOK
    <2>2. CASE UNCHANGED wizardVars
      BY <2>2 DEF wizardVars, checksVars, guideVars, WizardIInv, WizardTypeOK, PassSound, AllRequired,
                  GuideTruthful
    <2>3. CASE WizardNext
      BY <2>3, FooterSteps, CheckStep, GuideSteps DEF WizardNext
    <2>4. CASE WizardComplete
      <3>1. platform' = platform /\ wizard' \in BOOLEAN /\ FreshWizard(platform)
        BY <2>4 DEF WizardComplete
      <3> QED BY <2>1, <3>1, FreshIsSound
    <2>5. CASE WizardOpens
      <3>1. platform' = platform /\ wizard' \in BOOLEAN /\ FreshWizard(platform)
        BY <2>5 DEF WizardOpens
      <3> QED BY <2>1, <3>1, FreshIsSound
    <2>6. WizardStep \/ UNCHANGED wizardVars
      BY DEF ScreensNext, screensVars, OnlyWizard, OnlySettings, OnlyIndex, OnlyLibrary,
             OnlyTransfers, OnlySite
    <2> QED BY <2>2, <2>3, <2>4, <2>5, <2>6 DEF WizardStep
  <1> QED BY <1>1, <1>2, WizardIInvImplies, PTL DEF ScreensSpec

-----------------------------------------------------------------------------
(* The search index.                                                       *)

(* A pass reads only sources that it is about, and awaits an answer. *)
SoundPass ==
    {p \in Pass : /\ p.todo # <<>>
                  /\ p.read \subseteq p.about
                  /\ \A i \in DOMAIN p.todo : p.todo[i] \in p.about}

(* The clean-up of the effect cancels what is not about the sources of     *)
(* now; so the index is about them already, or a pass of the effect that   *)
(* is about them will end, or a Refresh has ended late.                    *)
PassesSound ==
    /\ passes \in Seq(SoundPass)
    /\ \A i \in DOMAIN passes :
          ~passes[i].cancelled /\ ~passes[i].manual => passes[i].about = activePaths
    /\ \/ refreshedLate
       \/ indexedPathsRef = activePaths
       \/ \E i \in DOMAIN passes : ~passes[i].cancelled /\ ~passes[i].manual

IndexIInv ==
    /\ IndexTypeOK /\ PassesSound
    /\ refreshedLate \in BOOLEAN
    /\ debounce = {searchQuery} \/ (debounce = {} /\ debouncedSearchQuery = searchQuery)

(* The list of sources that a pass works through. *)
LEMMA SetToSeqOfPaths ==
    ASSUME NEW S \in SUBSET Path, S # {}
    PROVE  SetToSeq(S) \in Seq(S) /\ SetToSeq(S) # <<>>
  <1>1. IsFiniteSet(S)
    BY IndexAssumption, FS_Subset
  <1>2. Cardinality(S) \in Nat /\ Cardinality(S) # 0
    BY <1>1, FS_CardinalityType, FS_EmptySet
  <1>3. PICK f : f \in Bijection(1 .. Cardinality(S), S)
    BY <1>1, FS_CardinalityType DEF ExistsBijection
  <1>4. f \in [1 .. Cardinality(S) -> S] /\ IsInjective(f)
    BY <1>3 DEF Bijection, Injection, IsInjective
  <1>5. SetToSeq(S) \in [1 .. Cardinality(S) -> S]
    BY <1>4 DEF SetToSeq
  <1> QED BY <1>2, <1>5

(* A new pass is sound. *)
LEMMA NewPassSound ==
    ASSUME NEW S \in SUBSET Path, S # {}, NEW manual \in BOOLEAN
    PROVE  /\ NewPass(S, manual) \in SoundPass
           /\ NewPass(S, manual).about = S /\ NewPass(S, manual).manual = manual
           /\ NewPass(S, manual).cancelled = FALSE
  <1>1. PICK q : q = SetToSeq(S)
    OBVIOUS
  <1>2. q \in Seq(S) /\ q # <<>>
    BY <1>1, SetToSeqOfPaths
  <1>3. q \in Seq(Path) /\ \A i \in DOMAIN q : q[i] \in S
    BY <1>2
  <1>4. PICK p : p = [todo |-> q, about |-> S, read |-> {}, cancelled |-> FALSE, manual |-> manual]
    OBVIOUS
  <1>5. p \in Pass
    BY <1>3, <1>4 DEF Pass
  <1>6. p.todo = q /\ p.about = S /\ p.read = {} /\ p.cancelled = FALSE /\ p.manual = manual
    BY <1>4
  <1>7. p \in SoundPass
    BY <1>2, <1>3, <1>5, <1>6 DEF SoundPass
  <1>8. NewPass(S, manual) = p
    BY <1>1, <1>4 DEF NewPass
  <1> QED BY <1>6, <1>7, <1>8

(* needsReindex compares sizes and looks for new paths: together that says *)
(* whether the two sets differ.                                            *)
LEMMA NeedsReindexExact ==
    ASSUME NEW S \in SUBSET Path, indexedPathsRef \subseteq Path, ~NeedsReindex(S)
    PROVE  indexedPathsRef = S
  <1>1. IsFiniteSet(indexedPathsRef) /\ S \in SUBSET indexedPathsRef
    BY IndexAssumption, FS_Subset DEF NeedsReindex
  <1>2. Cardinality(indexedPathsRef) = Cardinality(S)
    BY DEF NeedsReindex
  <1> QED BY <1>1, <1>2, FS_Subset

(* The clean-up leaves no pass of the effect that is not cancelled. *)
LEMMA CancelledSound ==
    ASSUME passes \in Seq(SoundPass)
    PROVE  /\ Cancelled \in Seq(SoundPass)
           /\ \A i \in DOMAIN Cancelled : Cancelled[i].cancelled \/ Cancelled[i].manual
  <1>1. ASSUME NEW p \in SoundPass, NEW q, q = [p EXCEPT !.cancelled = @ \/ ~p.manual]
        PROVE  q \in SoundPass /\ (q.cancelled \/ q.manual)
    <2>1. p \in Pass /\ q \in Pass
      BY <1>1 DEF SoundPass, Pass
    <2>2. q.todo = p.todo /\ q.about = p.about /\ q.read = p.read /\ q.manual = p.manual
      BY <1>1, <2>1 DEF Pass
    <2>3. q.cancelled = (p.cancelled \/ ~p.manual)
      BY <1>1, <2>1 DEF Pass
    <2> QED BY <2>1, <2>2, <2>3 DEF SoundPass
  <1>2. \A i \in DOMAIN passes : passes[i] \in SoundPass
    OBVIOUS
  <1>3. DOMAIN Cancelled = DOMAIN passes
        /\ \A i \in DOMAIN passes : Cancelled[i] = [passes[i] EXCEPT !.cancelled = @ \/ ~passes[i].manual]
    BY DEF Cancelled
  <1>4. \A i \in DOMAIN passes : Cancelled[i] \in SoundPass /\ (Cancelled[i].cancelled \/ Cancelled[i].manual)
    BY <1>1, <1>2, <1>3
  <1>5. Cancelled \in Seq(SoundPass)
    <2>1. DOMAIN passes = 1 .. Len(passes) /\ Len(passes) \in Nat
      OBVIOUS
    <2>2. Cancelled \in [1 .. Len(passes) -> SoundPass]
      BY <1>3, <1>4, <2>1 DEF Cancelled
    <2> QED BY <2>1, <2>2
  <1> QED BY <1>3, <1>4, <1>5

(* The typing of what the effect and the passes change. *)
IndexTyped == /\ activePaths \subseteq Path
              /\ index \subseteq indexedPathsRef /\ indexedPathsRef \subseteq Path
              /\ isIndexing \in BOOLEAN /\ refreshedLate \in BOOLEAN

(* The effect, run for the sources of now or for new ones. *)
LEMMA EffectSound ==
    ASSUME IndexIInv, NEW S \in SUBSET Path, activePaths' = S, AutoIndex(S)
    PROVE  PassesSound' /\ IndexTyped'
  <1>1. passes \in Seq(SoundPass) /\ IndexTyped
    BY DEF IndexIInv, IndexTypeOK, PassesSound, IndexTyped
  <1>2. PICK cs : cs = Cancelled
    OBVIOUS
  <1>3. cs \in Seq(SoundPass) /\ \A i \in DOMAIN cs : cs[i].cancelled \/ cs[i].manual
    BY <1>1, <1>2, CancelledSound
  <1>4. CASE ~NeedsReindex(S)
    <2>1. passes' = cs /\ UNCHANGED <<index, indexedPathsRef, isIndexing, refreshedLate>>
      BY <1>2, <1>4 DEF AutoIndex
    <2>2. indexedPathsRef = S
      BY <1>1, <1>4, NeedsReindexExact DEF IndexTyped
    <2> QED BY <1>1, <1>3, <2>1, <2>2 DEF PassesSound, IndexTyped
  <1>5. CASE NeedsReindex(S) /\ S = {}
    <2>1. passes' = cs /\ index' = {} /\ indexedPathsRef' = {} /\ isIndexing' = FALSE
          /\ refreshedLate' = FALSE
      BY <1>2, <1>5 DEF AutoIndex
    <2> QED BY <1>1, <1>3, <1>5, <2>1 DEF PassesSound, IndexTyped
  <1>6. CASE NeedsReindex(S) /\ S # {}
    <2>1. PICK p : p = NewPass(S, FALSE)
      OBVIOUS
    <2>2. p \in SoundPass /\ p.about = S /\ p.manual = FALSE /\ p.cancelled = FALSE
      BY <1>6, <2>1, NewPassSound
    <2>3. passes' = Append(cs, p) /\ isIndexing' = TRUE
          /\ UNCHANGED <<index, indexedPathsRef, refreshedLate>>
      BY <1>2, <1>6, <2>1 DEF AutoIndex
    <2>4. passes' \in Seq(SoundPass) /\ DOMAIN passes' = 1 .. Len(cs) + 1
          /\ passes'[Len(cs) + 1] = p /\ \A i \in DOMAIN cs : passes'[i] = cs[i]
      BY <1>3, <2>2, <2>3
    <2>5. \A i \in DOMAIN passes' : i \in DOMAIN cs \/ i = Len(cs) + 1
      BY <1>3, <2>4
    <2>6. \A i \in DOMAIN passes' :
             ~passes'[i].cancelled /\ ~passes'[i].manual => passes'[i].about = activePaths'
      BY <1>3, <2>2, <2>4, <2>5
    <2>7. \E i \in DOMAIN passes' : ~passes'[i].cancelled /\ ~passes'[i].manual
      BY <1>3, <2>2, <2>4
    <2> QED BY <1>1, <2>3, <2>4, <2>6, <2>7 DEF PassesSound, IndexTyped
  <1> QED BY <1>4, <1>5, <1>6

(* A directory is answered: the pass goes on, stops or ends. *)
LEMMA PassStep ==
    ASSUME IndexIInv, DirectoryIndexed PROVE PassesSound' /\ IndexTyped'
  <1>1. passes \in Seq(SoundPass) /\ passes # <<>> /\ IndexTyped /\ PassesSound /\ activePaths' = activePaths
    BY DEF IndexIInv, IndexTypeOK, PassesSound, IndexTyped, DirectoryIndexed
  <1>2. PICK p \in SoundPass : p = Head(passes)
    BY <1>1
  <1>3. PICK ts : ts = Tail(passes)
    OBVIOUS
  <1>4. /\ ts \in Seq(SoundPass) /\ Len(ts) = Len(passes) - 1 /\ Len(ts) \in Nat
        /\ \A i \in DOMAIN ts : i + 1 \in DOMAIN passes /\ ts[i] = passes[i + 1]
        /\ \A i \in DOMAIN passes : i = 1 \/ (i - 1 \in DOMAIN ts /\ ts[i - 1] = passes[i])
        /\ 1 \in DOMAIN passes /\ passes[1] = p
    BY <1>1, <1>2, <1>3
  <1>5. p \in Pass /\ p.todo # <<>> /\ p.todo \in Seq(Path) /\ p.about \subseteq Path
        /\ p.read \subseteq p.about /\ \A i \in DOMAIN p.todo : p.todo[i] \in p.about
        /\ p.cancelled \in BOOLEAN /\ p.manual \in BOOLEAN
    BY DEF SoundPass, Pass
  <1>6. PICK read \in {p.read, p.read \cup {Head(p.todo)}} :
           LET q == [p EXCEPT !.todo = Tail(@), !.read = read]
           IN  IF q.cancelled
                 THEN /\ passes' = ts
                      /\ UNCHANGED <<index, indexedPathsRef, isIndexing, refreshedLate>>
               ELSE IF q.todo # <<>>
                 THEN /\ passes' = Append(ts, q)
                      /\ UNCHANGED <<index, indexedPathsRef, isIndexing, refreshedLate>>
                 ELSE passes' = ts /\ PassEnds(q)
    BY <1>2, <1>3 DEF DirectoryIndexed
  <1>7. PICK q : q = [p EXCEPT !.todo = Tail(@), !.read = read]
    OBVIOUS
  <1>8. /\ q.todo = Tail(p.todo) /\ q.read = read /\ q.about = p.about
        /\ q.cancelled = p.cancelled /\ q.manual = p.manual
    BY <1>5, <1>7 DEF Pass
  <1>9. read \subseteq p.about /\ read \subseteq Path
    BY <1>5
  <1>10. q \in Pass
    <2>1. PICK rest : rest = Tail(p.todo)
      OBVIOUS
    <2>2. rest \in Seq(Path)
      BY <1>5, <2>1
    <2>3. q = [p EXCEPT !.todo = rest, !.read = read]
      BY <1>7, <2>1
    <2> QED BY <1>5, <1>9, <2>2, <2>3 DEF Pass
  <1>11. \A i \in DOMAIN ts : ~ts[i].cancelled /\ ~ts[i].manual => ts[i].about = activePaths
    BY <1>1, <1>4 DEF PassesSound
  <1>12. ~p.cancelled /\ ~p.manual => p.about = activePaths
    BY <1>1, <1>4 DEF PassesSound
  <1>13. \/ refreshedLate \/ indexedPathsRef = activePaths
         \/ ~p.cancelled /\ ~p.manual
         \/ \E i \in DOMAIN ts : ~ts[i].cancelled /\ ~ts[i].manual
    BY <1>1, <1>4 DEF PassesSound
  <1>14. CASE q.cancelled
    <2>1. passes' = ts /\ UNCHANGED <<index, indexedPathsRef, isIndexing, refreshedLate>>
      BY <1>6, <1>7, <1>14
    <2> QED BY <1>1, <1>4, <1>8, <1>11, <1>13, <1>14, <2>1 DEF PassesSound, IndexTyped
  <1>15. CASE ~q.cancelled /\ q.todo # <<>>
    <2>1. passes' = Append(ts, q) /\ UNCHANGED <<index, indexedPathsRef, isIndexing, refreshedLate>>
      BY <1>6, <1>7, <1>15
    <2>2. \A i \in DOMAIN q.todo : q.todo[i] \in q.about
      BY <1>5, <1>8
    <2>3. q \in SoundPass
      BY <1>8, <1>9, <1>10, <1>15, <2>2 DEF SoundPass
    <2>4. passes' \in Seq(SoundPass) /\ DOMAIN passes' = 1 .. Len(ts) + 1
          /\ passes'[Len(ts) + 1] = q /\ \A i \in DOMAIN ts : i \in DOMAIN passes' /\ passes'[i] = ts[i]
      BY <1>4, <2>1, <2>3
    <2>5. \A i \in DOMAIN passes' : i \in DOMAIN ts \/ i = Len(ts) + 1
      BY <1>4, <2>4
    <2>6. \A i \in DOMAIN passes' :
             ~passes'[i].cancelled /\ ~passes'[i].manual => passes'[i].about = activePaths'
      BY <1>1, <1>8, <1>11, <1>12, <2>4, <2>5
    <2>7. Len(ts) + 1 \in DOMAIN passes'
      BY <1>4, <2>4
    <2>8. \/ refreshedLate' \/ indexedPathsRef' = activePaths'
          \/ \E i \in DOMAIN passes' : ~passes'[i].cancelled /\ ~passes'[i].manual
      BY <1>1, <1>8, <1>13, <2>1, <2>4, <2>7
    <2> QED BY <1>1, <2>1, <2>4, <2>6, <2>8 DEF PassesSound, IndexTyped
  <1>16. CASE ~q.cancelled /\ q.todo = <<>>
    <2>1. passes' = ts /\ PassEnds(q)
      BY <1>6, <1>7, <1>16
    <2>2. /\ index' = read /\ indexedPathsRef' = p.about /\ isIndexing' = FALSE
          /\ refreshedLate' = (p.about # activePaths)
      BY <1>8, <2>1 DEF PassEnds
    <2>3. refreshedLate' \/ indexedPathsRef' = activePaths'
      BY <1>1, <2>2
    <2>4. refreshedLate' \in BOOLEAN
      BY <2>2
    <2> QED BY <1>1, <1>4, <1>5, <1>9, <1>11, <2>1, <2>2, <2>3, <2>4 DEF PassesSound, IndexTyped
  <1> QED BY <1>14, <1>15, <1>16

(* The Refresh button. *)
LEMMA RefreshStep ==
    ASSUME IndexIInv, RefreshIndex PROVE PassesSound' /\ IndexTyped'
  <1>1. passes \in Seq(SoundPass) /\ IndexTyped /\ PassesSound /\ activePaths # {}
    BY DEF IndexIInv, IndexTypeOK, PassesSound, IndexTyped, RefreshIndex, OffersRefresh
  <1>2. PICK p : p = NewPass(activePaths, TRUE)
    OBVIOUS
  <1>3. p \in SoundPass /\ p.manual = TRUE
    BY <1>1, <1>2, NewPassSound DEF IndexTyped
  <1>4. passes' = Append(passes, p) /\ isIndexing' = TRUE
        /\ UNCHANGED <<activePaths, index, indexedPathsRef, refreshedLate>>
    BY <1>2 DEF RefreshIndex
  <1>5. passes' \in Seq(SoundPass) /\ DOMAIN passes' = 1 .. Len(passes) + 1
        /\ passes'[Len(passes) + 1] = p
        /\ \A i \in DOMAIN passes : i \in DOMAIN passes' /\ passes'[i] = passes[i]
    BY <1>1, <1>3, <1>4
  <1>6. \A i \in DOMAIN passes' : i \in DOMAIN passes \/ i = Len(passes) + 1
    BY <1>1, <1>5
  <1>7. \A i \in DOMAIN passes' :
           ~passes'[i].cancelled /\ ~passes'[i].manual => passes'[i].about = activePaths'
    BY <1>1, <1>3, <1>4, <1>5, <1>6 DEF PassesSound
  <1>8. \/ refreshedLate' \/ indexedPathsRef' = activePaths'
        \/ \E i \in DOMAIN passes' : ~passes'[i].cancelled /\ ~passes'[i].manual
    BY <1>1, <1>4, <1>5 DEF PassesSound
  <1> QED BY <1>1, <1>4, <1>5, <1>7, <1>8 DEF PassesSound, IndexTyped

(* Sound passes are passes. *)
LEMMA PassesTyped ==
    PassesSound => \A i \in DOMAIN passes : passes[i] \in Pass /\ passes[i].todo # <<>>
  <1> SUFFICES ASSUME PassesSound, NEW i \in DOMAIN passes
               PROVE  passes[i] \in Pass /\ passes[i].todo # <<>>
    OBVIOUS
  <1>1. passes[i] \in SoundPass
    BY DEF PassesSound
  <1> QED BY <1>1 DEF SoundPass

(* The typing that the run checks, put together again. *)
LEMMA IndexPutTogether ==
    ASSUME IndexTyped, PassesSound,
           searchQuery \in Query \cup {""}, debouncedSearchQuery \in Query \cup {""},
           debounce \subseteq Query \cup {""}, mediaFilter \in MediaFilter,
           debounce = {searchQuery} \/ (debounce = {} /\ debouncedSearchQuery = searchQuery)
    PROVE  IndexIInv
  <1>1. \A i \in DOMAIN passes : passes[i] \in Pass /\ passes[i].todo # <<>>
    BY PassesTyped
  <1> QED BY <1>1 DEF IndexIInv, IndexTypeOK, IndexTyped

(* When no pass waits the index is about the active sources, and a search  *)
(* lists only what is in it.                                               *)
LEMMA IndexIInvImplies == IndexIInv => IndexInv
  <1> SUFFICES ASSUME IndexIInv PROVE QuietIsCurrent /\ SearchesWhatIsTyped
    BY DEF IndexIInv, IndexInv
  <1>1. SearchesWhatIsTyped
    <2>1. {searchQuery} # {}
      OBVIOUS
    <2> QED BY <2>1 DEF IndexIInv, SearchesWhatIsTyped
  <1>2. ShownResults \subseteq index
    <2>1. ShownResults = {} \/ ShownResults = index
      BY DEF ShownResults, searchResults
    <2> QED BY <2>1
  <1>3. ASSUME passes = <<>>, ~refreshedLate PROVE indexedPathsRef = activePaths
    <2>1. DOMAIN passes = {}
      BY <1>3
    <2> QED BY <1>3, <2>1 DEF IndexIInv, PassesSound
  <1> QED BY <1>1, <1>2, <1>3 DEF QuietIsCurrent, IndexIInv, IndexTypeOK

(* The index of useFileIndex is about the active sources whenever no pass  *)
(* waits, however changes of the history, polls that cancel a pass, late   *)
(* answers and the Refresh button interleave, unless a Refresh ended late; *)
(* and what is searched for is what is in the box once useDebounce's timer *)
(* has fired.                                                              *)
THEOREM IndexCurrent == ScreensSpec => []IndexInv
  <1>1. ScreensInit => IndexIInv
    <2> SUFFICES ASSUME ScreensInit PROVE IndexIInv
      OBVIOUS
    <2>1. IndexInit
      BY DEF ScreensInit
    <2>2. passes \in Seq(SoundPass) /\ DOMAIN passes = {}
      <3>1. passes = <<>>
        BY <2>1 DEF IndexInit
      <3> QED BY <3>1
    <2>3. PassesSound
      <3>1. indexedPathsRef = activePaths
        BY <2>1 DEF IndexInit
      <3> QED BY <2>2, <3>1 DEF PassesSound
    <2>4. IndexTyped
      <3>1. activePaths = {} /\ index = {} /\ indexedPathsRef = {}
        BY <2>1 DEF IndexInit
      <3>2. isIndexing = FALSE /\ refreshedLate = FALSE
        BY <2>1 DEF IndexInit
      <3> QED BY <3>1, <3>2 DEF IndexTyped
    <2> QED BY <2>1, <2>3, <2>4, IndexPutTogether DEF IndexInit, MediaFilter
  <1>2. IndexIInv /\ [ScreensNext]_screensVars => IndexIInv'
    <2> SUFFICES ASSUME IndexIInv, [ScreensNext]_screensVars PROVE IndexIInv'
      OBVIOUS
    <2>1. /\ IndexTyped /\ PassesSound
          /\ searchQuery \in Query \cup {""} /\ debouncedSearchQuery \in Query \cup {""}
          /\ debounce \subseteq Query \cup {""} /\ mediaFilter \in MediaFilter
          /\ debounce = {searchQuery} \/ (debounce = {} /\ debouncedSearchQuery = searchQuery)
      BY DEF IndexIInv, IndexTypeOK, IndexTyped
    <2>2. CASE UNCHANGED indexVars
      <3>1. IndexTyped' /\ PassesSound'
        BY <2>1, <2>2 DEF indexVars, IndexTyped, PassesSound
      <3> QED BY <2>1, <2>2, <3>1 DEF indexVars, IndexIInv, IndexTypeOK
    <2>3. CASE HistoryChange \/ Poll \/ RefreshIndex \/ DirectoryIndexed
      <3>1. PassesSound' /\ IndexTyped'
        <4>1. CASE HistoryChange
          <5>1. PICK S \in SUBSET Path : activePaths' = S /\ AutoIndex(S)
            BY <4>1 DEF HistoryChange
          <5> QED BY <5>1, EffectSound
        <4>2. CASE Poll
          <5>1. activePaths \in SUBSET Path /\ activePaths' = activePaths /\ AutoIndex(activePaths)
            BY <2>1, <4>2 DEF Poll, IndexTyped
          <5> QED BY <5>1, EffectSound
        <4>3. CASE RefreshIndex
          BY <4>3, RefreshStep
        <4>4. CASE DirectoryIndexed
          BY <4>4, PassStep
        <4> QED BY <2>3, <4>1, <4>2, <4>3, <4>4
      <3>2. UNCHANGED <<searchQuery, debouncedSearchQuery, debounce, mediaFilter>>
        BY <2>3 DEF HistoryChange, Poll, RefreshIndex, DirectoryIndexed
      <3>3. \A i \in DOMAIN passes' : passes'[i] \in Pass /\ passes'[i].todo # <<>>
        BY <3>1 DEF PassesSound, SoundPass
      <3> QED BY <2>1, <3>1, <3>2, <3>3 DEF IndexIInv, IndexTypeOK, IndexTyped
    <2>4. CASE SetSearchQuery \/ DebounceFires \/ ToggleMediaFilter
      <3>1. UNCHANGED <<activePaths, index, indexedPathsRef, isIndexing, passes, refreshedLate>>
        BY <2>4 DEF SetSearchQuery, DebounceFires, ToggleMediaFilter
      <3>2. IndexTyped' /\ PassesSound'
        BY <2>1, <3>1 DEF IndexTyped, PassesSound
      <3>3. \A i \in DOMAIN passes' : passes'[i] \in Pass /\ passes'[i].todo # <<>>
        BY <3>2 DEF PassesSound, SoundPass
      <3>4. /\ searchQuery' \in Query \cup {""} /\ debouncedSearchQuery' \in Query \cup {""}
            /\ debounce' \subseteq Query \cup {""} /\ mediaFilter' \in MediaFilter
            /\ debounce' = {searchQuery'} \/ (debounce' = {} /\ debouncedSearchQuery' = searchQuery')
        <4>1. CASE SetSearchQuery
          BY <2>1, <4>1 DEF SetSearchQuery, Restarted
        <4>2. CASE DebounceFires
          <5>1. debouncedSearchQuery' \in debounce /\ debounce' = {}
                /\ UNCHANGED <<searchQuery, mediaFilter>>
            BY <4>2 DEF DebounceFires
          <5>2. debounce = {searchQuery} \/ debounce = {}
            BY <2>1
          <5>3. debouncedSearchQuery' = searchQuery
            BY <5>1, <5>2
          <5> QED BY <2>1, <5>1, <5>3
        <4>3. CASE ToggleMediaFilter
          BY <2>1, <4>3 DEF ToggleMediaFilter, MediaFilter
        <4> QED BY <2>4, <4>1, <4>2, <4>3
      <3> QED BY <3>2, <3>3, <3>4 DEF IndexIInv, IndexTypeOK, IndexTyped
    <2>5. IndexNext \/ UNCHANGED indexVars
      BY DEF ScreensNext, screensVars, OnlyWizard, OnlySettings, OnlyIndex, OnlyLibrary,
             OnlyTransfers, OnlySite
    <2> QED BY <2>2, <2>3, <2>4, <2>5 DEF IndexNext
  <1> QED BY <1>1, <1>2, IndexIInvImplies, PTL DEF ScreensSpec

-----------------------------------------------------------------------------
(* The panel of transfers.                                                 *)

Notice == [id : Transfer, success : BOOLEAN]
ExportState == [state : {"none", "copying", "ended"}, bytes : 0 .. MaxChunks]

Completes(e, t) == e.kind = "completed" /\ e.id = t

(* An event of progress is true of its export, and while the export has    *)
(* ended its end is still to come, after the progress.                     *)
ProgressBefore ==
    \A i \in DOMAIN events : events[i].kind = "progress" =>
       /\ events[i].bytes <= exports[events[i].id].bytes
       /\ \/ exports[events[i].id].state = "copying"
          \/ \E j \in DOMAIN events : i < j /\ Completes(events[j], events[i].id)

(* The end of an export is emitted once, and not noticed before it comes. *)
EndsOnce ==
    \A i \in DOMAIN events : events[i].kind = "completed" =>
       /\ exports[events[i].id].state = "ended"
       /\ \A j \in DOMAIN events : Completes(events[j], events[i].id) => i = j
       /\ \A n \in DOMAIN completedTransfers : completedTransfers[n].id # events[i].id

PanelTyped ==
    /\ exports \in [Transfer -> ExportState]
    /\ events \in Seq(Event)
    /\ listening \in {"none", "progress", "both"}
    /\ DOMAIN activeTransfers \subseteq Transfer
    /\ \A t \in DOMAIN activeTransfers : activeTransfers[t] \in 1 .. exports[t].bytes
    /\ listening = "none" => DOMAIN activeTransfers = {}
    /\ completedTransfers \in Seq(Notice)
    /\ lost \subseteq Transfer \X {"none", "progress"}

(* PanelTruthful, without the set of ends. *)
RowsStand ==
    \A t \in DOMAIN activeTransfers :
       \/ exports[t].state = "copying"
       \/ \E j \in DOMAIN events : Completes(events[j], t)
       \/ <<t, "progress">> \in lost

PanelIInv == PanelTyped /\ RowsStand /\ NoticeOnce /\ ProgressBefore /\ EndsOnce

(* The invariant that the run checks follows. *)
LEMMA PanelIInvImplies == PanelIInv => PanelInv
  <1> SUFFICES ASSUME PanelIInv PROVE PanelInv
    OBVIOUS
  <1>1. TransfersTypeOK
    <2>1. \A i \in DOMAIN events : events[i] \in Event
      BY DEF PanelIInv, PanelTyped
    <2>2. \A i \in DOMAIN completedTransfers : completedTransfers[i] \in Notice
      BY DEF PanelIInv, PanelTyped
    <2> QED BY <2>1, <2>2 DEF PanelIInv, PanelTyped, TransfersTypeOK, Notice, ExportState
  <1>2. ASSUME NEW t, NEW j \in DOMAIN events, Completes(events[j], t)
        PROVE  \E e \in Ends(events) : e.id = t
    BY <1>2 DEF Completes, Ends, ToSet
  <1>3. PanelTruthful
    BY <1>2 DEF PanelIInv, RowsStand, PanelTruthful
  <1> QED BY <1>1, <1>3 DEF PanelInv, PanelIInv

(* An event of each kind, typed. *)
LEMMA EventFields ==
    ASSUME NEW e \in Event
    PROVE  /\ e.id \in Transfer /\ e.kind \in {"progress", "completed"}
           /\ e.kind = "progress" => e.bytes \in 1 .. MaxChunks
           /\ e.kind = "completed" => e.success \in BOOLEAN
  BY DEF Event

LEMMA NoticesTyped ==
    ASSUME NEW s \in Seq(Notice)
    PROVE  \A i \in DOMAIN s : s[i] \in Notice /\ s[i].id \in Transfer
  <1>1. \A i \in DOMAIN s : s[i] \in Notice
    OBVIOUS
  <1> QED BY <1>1 DEF Notice

(* export_file and export_files_batch. *)
LEMMA ExportStarts == PanelIInv /\ ExportFiles => PanelIInv'
  <1> SUFFICES ASSUME PanelIInv, ExportFiles PROVE PanelIInv'
    OBVIOUS
  <1>1. PanelTyped /\ RowsStand /\ NoticeOnce /\ ProgressBefore /\ EndsOnce
    BY DEF PanelIInv
  <1>2. PICK batch \in SUBSET {t \in Transfer : exports[t].state = "none"} :
           exports' = [t \in Transfer |->
                         IF t \in batch THEN [exports[t] EXCEPT !.state = "copying"] ELSE exports[t]]
    BY DEF ExportFiles
  <1>3. UNCHANGED <<events, listening, activeTransfers, completedTransfers, lost>>
    BY DEF ExportFiles
  <1>4. \A t \in Transfer : /\ exports'[t] \in ExportState /\ exports'[t].bytes = exports[t].bytes
                            /\ exports[t].state # "none" => exports'[t].state = exports[t].state
    <2> SUFFICES ASSUME NEW t \in Transfer
                 PROVE  /\ exports'[t] \in ExportState /\ exports'[t].bytes = exports[t].bytes
                        /\ exports[t].state # "none" => exports'[t].state = exports[t].state
      OBVIOUS
    <2>1. exports[t] \in ExportState
      BY <1>1 DEF PanelTyped
    <2>2. exports'[t] = exports[t] \/ (t \in batch /\ exports'[t] = [exports[t] EXCEPT !.state = "copying"])
      BY <1>2
    <2> QED BY <2>1, <2>2 DEF ExportState
  <1>5. exports' \in [Transfer -> ExportState]
    BY <1>2, <1>4
  <1>6. \A i \in DOMAIN events : events[i].id \in Transfer
    BY <1>1, EventFields DEF PanelTyped
  <1>7. PanelTyped'
    BY <1>1, <1>3, <1>4, <1>5 DEF PanelTyped
  <1>8. RowsStand'
    <2>1. \A t \in DOMAIN activeTransfers : t \in Transfer
      BY <1>1 DEF PanelTyped
    <2> QED BY <1>1, <1>3, <1>4, <2>1 DEF RowsStand
  <1>9. NoticeOnce'
    <2>1. \A i \in DOMAIN completedTransfers : completedTransfers[i].id \in Transfer
      BY <1>1, NoticesTyped DEF PanelTyped
    <2> QED BY <1>1, <1>3, <1>4, <2>1 DEF NoticeOnce
  <1>10. ProgressBefore'
    BY <1>1, <1>3, <1>4, <1>6 DEF ProgressBefore
  <1>11. EndsOnce'
    BY <1>1, <1>3, <1>4, <1>6 DEF EndsOnce
  <1> QED BY <1>7, <1>8, <1>9, <1>10, <1>11 DEF PanelIInv

(* What an event that is emitted last does to the queue. *)
LEMMA EventAppended ==
    ASSUME events \in Seq(Event), NEW e \in Event, events' = Append(events, e)
    PROVE  /\ events' \in Seq(Event) /\ DOMAIN events' = DOMAIN events \cup {Len(events) + 1}
           /\ events'[Len(events) + 1] = e /\ Len(events) + 1 \notin DOMAIN events
           /\ \A i \in DOMAIN events : events'[i] = events[i] /\ i < Len(events) + 1
  OBVIOUS

(* A buffer is copied, and the event of it emitted or not. *)
LEMMA BufferCopied ==
    ASSUME PanelIInv, NEW t \in Transfer, CopyBuffer(t) PROVE PanelIInv'
  <1>1. PanelTyped /\ RowsStand /\ NoticeOnce /\ ProgressBefore /\ EndsOnce
    BY DEF PanelIInv
  <1>2. PICK n : n = exports[t].bytes + 1
    OBVIOUS
  <1>3. exports[t] \in ExportState /\ exports[t].bytes \in 0 .. MaxChunks /\ MaxChunks \in Nat
    BY <1>1, TransfersAssumption DEF PanelTyped, ExportState
  <1>4. n \in 1 .. MaxChunks /\ exports[t].bytes < n /\ exports[t].state = "copying"
    BY <1>2, <1>3 DEF CopyBuffer
  <1>5. exports' = [exports EXCEPT ![t].bytes = n]
    BY <1>2 DEF CopyBuffer
  <1>6. UNCHANGED <<listening, activeTransfers, completedTransfers, lost>>
    BY DEF CopyBuffer
  <1>7. PICK x : x = [exports[t] EXCEPT !.bytes = n]
    OBVIOUS
  <1>8. x \in ExportState /\ x.bytes = n /\ x.state = "copying"
    BY <1>3, <1>4, <1>7 DEF ExportState
  <1>9. /\ exports' \in [Transfer -> ExportState]
        /\ \A u \in Transfer : exports'[u] = IF u = t THEN x ELSE exports[u]
    BY <1>1, <1>5, <1>7, <1>8 DEF PanelTyped
  <1>10. \A u \in Transfer : exports'[u].state = exports[u].state
    BY <1>4, <1>8, <1>9
  <1>11. \A u \in Transfer : exports[u].bytes \in Nat /\ exports'[u].bytes \in Nat
                             /\ exports[u].bytes <= exports'[u].bytes
    <2> SUFFICES ASSUME NEW u \in Transfer
                 PROVE  exports[u].bytes \in Nat /\ exports'[u].bytes \in Nat
                        /\ exports[u].bytes <= exports'[u].bytes
      OBVIOUS
    <2>1. exports[u].bytes \in 0 .. MaxChunks
      BY <1>1 DEF PanelTyped, ExportState
    <2> QED BY <1>3, <1>4, <1>8, <1>9, <2>1
  <1>12. \A i \in DOMAIN events : events[i].id \in Transfer /\ events[i] \in Event
    BY <1>1, EventFields DEF PanelTyped
  <1>13. PICK e : e = [kind |-> "progress", id |-> t, bytes |-> n]
    OBVIOUS
  <1>14. e \in Event /\ e.kind = "progress" /\ e.id = t /\ e.bytes = n
    BY <1>4, <1>13 DEF Event
  <1>15. events' = Append(events, e) \/ events' = events
    BY <1>2, <1>13 DEF CopyBuffer
  <1>16. /\ events' \in Seq(Event) /\ DOMAIN events \subseteq DOMAIN events'
         /\ \A i \in DOMAIN events : events'[i] = events[i]
         /\ \A i \in DOMAIN events' : i \in DOMAIN events \/ events'[i] = e
    <2>1. CASE events' = events
      BY <1>1, <2>1 DEF PanelTyped
    <2>2. CASE events' = Append(events, e)
      BY <1>1, <1>14, <2>2, EventAppended DEF PanelTyped
    <2> QED BY <1>15, <2>1, <2>2
  <1>17. \A i \in DOMAIN events' : events'[i].kind = "completed" => i \in DOMAIN events
    BY <1>14, <1>16
  <1>18. PanelTyped'
    <2>1. \A u \in DOMAIN activeTransfers : activeTransfers[u] \in 1 .. exports'[u].bytes
      <3> SUFFICES ASSUME NEW u \in DOMAIN activeTransfers
                   PROVE  activeTransfers[u] \in 1 .. exports'[u].bytes
        OBVIOUS
      <3>1. u \in Transfer /\ activeTransfers[u] \in 1 .. exports[u].bytes
        BY <1>1 DEF PanelTyped
      <3> QED BY <1>11, <3>1
    <2> QED BY <1>1, <1>6, <1>9, <1>16, <2>1 DEF PanelTyped
  <1>19. RowsStand'
    <2>1. \A u \in DOMAIN activeTransfers : u \in Transfer
      BY <1>1 DEF PanelTyped
    <2> QED BY <1>1, <1>6, <1>10, <1>16, <2>1 DEF RowsStand
  <1>20. NoticeOnce'
    <2>1. \A i \in DOMAIN completedTransfers : completedTransfers[i].id \in Transfer
      BY <1>1, NoticesTyped DEF PanelTyped
    <2> QED BY <1>1, <1>6, <1>10, <2>1 DEF NoticeOnce
  <1>21. ProgressBefore'
    <2> SUFFICES ASSUME NEW i \in DOMAIN events', events'[i].kind = "progress"
                 PROVE  /\ events'[i].bytes <= exports'[events'[i].id].bytes
                        /\ \/ exports'[events'[i].id].state = "copying"
                           \/ \E j \in DOMAIN events' : i < j /\ Completes(events'[j], events'[i].id)
      BY DEF ProgressBefore
    <2>1. CASE i \in DOMAIN events
      <3>1. events'[i] = events[i] /\ events[i].bytes \in Nat /\ events[i].id \in Transfer
        BY <1>12, <1>16, <2>1, EventFields, TransfersAssumption
      <3>2. events[i].bytes <= exports[events[i].id].bytes
        BY <1>1, <2>1, <3>1 DEF ProgressBefore
      <3>3. events[i].bytes <= exports'[events[i].id].bytes
        BY <1>11, <3>1, <3>2
      <3>4. \/ exports[events[i].id].state = "copying"
            \/ \E j \in DOMAIN events : i < j /\ Completes(events[j], events[i].id)
        BY <1>1, <2>1, <3>1 DEF ProgressBefore
      <3> QED BY <1>10, <1>16, <3>1, <3>3, <3>4
    <2>2. CASE events'[i] = e
      BY <1>4, <1>8, <1>9, <1>14, <2>2
    <2> QED BY <1>16, <2>1, <2>2
  <1>22. EndsOnce'
    BY <1>1, <1>6, <1>10, <1>12, <1>16, <1>17 DEF EndsOnce, Completes
  <1> QED BY <1>18, <1>19, <1>20, <1>21, <1>22 DEF PanelIInv

(* The export ends, and the event of it is emitted. *)
LEMMA ExportEnded ==
    ASSUME PanelIInv, NEW t \in Transfer, ExportEnds(t) PROVE PanelIInv'
  <1>1. PanelTyped /\ RowsStand /\ NoticeOnce /\ ProgressBefore /\ EndsOnce
    BY DEF PanelIInv
  <1>2. exports[t].state = "copying" /\ exports' = [exports EXCEPT ![t].state = "ended"]
        /\ UNCHANGED <<listening, activeTransfers, completedTransfers, lost>>
    BY DEF ExportEnds
  <1>3. PICK x : x = [exports[t] EXCEPT !.state = "ended"]
    OBVIOUS
  <1>4. exports[t] \in ExportState
    BY <1>1 DEF PanelTyped
  <1>5. x \in ExportState /\ x.bytes = exports[t].bytes /\ x.state = "ended"
    BY <1>3, <1>4 DEF ExportState
  <1>6. /\ exports' \in [Transfer -> ExportState]
        /\ \A u \in Transfer : exports'[u] = IF u = t THEN x ELSE exports[u]
    BY <1>1, <1>2, <1>3, <1>5 DEF PanelTyped
  <1>7. \A u \in Transfer : exports'[u].bytes = exports[u].bytes
    BY <1>5, <1>6
  <1>8. PICK ok \in BOOLEAN : events' = Append(events, [kind |-> "completed", id |-> t, success |-> ok])
    BY DEF ExportEnds
  <1>9. PICK e : e = [kind |-> "completed", id |-> t, success |-> ok]
    OBVIOUS
  <1>10. e \in Event /\ e.kind = "completed" /\ e.id = t
    BY <1>9 DEF Event
  <1>11. PICK l : l = Len(events) + 1
    OBVIOUS
  <1>12. /\ events' \in Seq(Event) /\ DOMAIN events' = DOMAIN events \cup {l}
         /\ events'[l] = e /\ l \notin DOMAIN events
         /\ \A i \in DOMAIN events : events'[i] = events[i] /\ i < l
    BY <1>1, <1>8, <1>9, <1>10, <1>11, EventAppended DEF PanelTyped
  <1>13. \A i \in DOMAIN events : events[i].id \in Transfer
    BY <1>1, EventFields DEF PanelTyped
  <1>14. \A i \in DOMAIN events : ~Completes(events[i], t)
    BY <1>1, <1>2 DEF EndsOnce, Completes
  <1>15. \A i \in DOMAIN completedTransfers : completedTransfers[i].id # t
                                              /\ completedTransfers[i].id \in Transfer
    <2>1. \A i \in DOMAIN completedTransfers : completedTransfers[i].id \in Transfer
      BY <1>1, NoticesTyped DEF PanelTyped
    <2>2. \A i \in DOMAIN completedTransfers : exports[completedTransfers[i].id].state = "ended"
      BY <1>1 DEF NoticeOnce
    <2> QED BY <1>2, <2>1, <2>2
  <1>16. PanelTyped'
    BY <1>1, <1>2, <1>6, <1>7, <1>12 DEF PanelTyped
  <1>17. RowsStand'
    <2> SUFFICES ASSUME NEW u \in DOMAIN activeTransfers
                 PROVE  \/ exports'[u].state = "copying"
                        \/ \E j \in DOMAIN events' : Completes(events'[j], u)
                        \/ <<u, "progress">> \in lost
      BY <1>2 DEF RowsStand
    <2>1. u \in Transfer
      BY <1>1 DEF PanelTyped
    <2>2. CASE u = t
      BY <1>10, <1>12, <2>2 DEF Completes
    <2>3. CASE u # t
      BY <1>1, <1>6, <1>12, <2>1, <2>3 DEF RowsStand
    <2> QED BY <2>2, <2>3
  <1>18. NoticeOnce'
    BY <1>1, <1>2, <1>6, <1>15 DEF NoticeOnce
  <1>19. ProgressBefore'
    <2> SUFFICES ASSUME NEW i \in DOMAIN events', events'[i].kind = "progress"
                 PROVE  /\ events'[i].bytes <= exports'[events'[i].id].bytes
                        /\ \/ exports'[events'[i].id].state = "copying"
                           \/ \E j \in DOMAIN events' : i < j /\ Completes(events'[j], events'[i].id)
      BY DEF ProgressBefore
    <2>1. i \in DOMAIN events /\ events'[i] = events[i] /\ i < l /\ events[i].id \in Transfer
      BY <1>10, <1>12, <1>13
    <2>2. events[i].bytes <= exports'[events[i].id].bytes
      BY <1>1, <1>7, <2>1 DEF ProgressBefore
    <2>3. \/ exports[events[i].id].state = "copying"
          \/ \E j \in DOMAIN events : i < j /\ Completes(events[j], events[i].id)
      BY <1>1, <2>1 DEF ProgressBefore
    <2>4. CASE events[i].id = t
      BY <1>10, <1>12, <2>1, <2>2, <2>4 DEF Completes
    <2>5. CASE events[i].id # t
      BY <1>6, <1>12, <2>1, <2>2, <2>3, <2>5
    <2> QED BY <2>4, <2>5
  <1>20. EndsOnce'
    <2> SUFFICES ASSUME NEW i \in DOMAIN events', events'[i].kind = "completed"
                 PROVE  /\ exports'[events'[i].id].state = "ended"
                        /\ \A j \in DOMAIN events' : Completes(events'[j], events'[i].id) => i = j
                        /\ \A n \in DOMAIN completedTransfers : completedTransfers[n].id # events'[i].id
      BY <1>2 DEF EndsOnce
    <2>1. CASE i = l
      BY <1>5, <1>6, <1>10, <1>12, <1>14, <1>15, <2>1
    <2>2. CASE i \in DOMAIN events
      <3>1. events'[i] = events[i] /\ events[i].id # t /\ events[i].id \in Transfer
        BY <1>12, <1>13, <1>14, <2>2 DEF Completes
      <3>2. ~Completes(events'[l], events[i].id)
        BY <1>10, <1>12, <3>1 DEF Completes
      <3> QED BY <1>1, <1>6, <1>12, <2>2, <3>1, <3>2 DEF EndsOnce
    <2> QED BY <1>12, <2>1, <2>2
  <1> QED BY <1>16, <1>17, <1>18, <1>19, <1>20 DEF PanelIInv

(* The panel comes and goes: a listener more, or none and no state. *)
LEMMA PanelComesAndGoes == PanelIInv /\ (Listen \/ Unmount) => PanelIInv'
  <1>1. ASSUME PanelIInv, Listen PROVE PanelIInv'
    <2>1. listening' \in {"progress", "both"}
          /\ UNCHANGED <<exports, events, activeTransfers, completedTransfers, lost>>
      BY <1>1 DEF Listen
    <2> QED BY <1>1, <2>1 DEF PanelIInv, PanelTyped, RowsStand, NoticeOnce, ProgressBefore, EndsOnce
  <1>2. ASSUME PanelIInv, Unmount PROVE PanelIInv'
    <2>1. PanelTyped /\ ProgressBefore /\ EndsOnce
      BY <1>2 DEF PanelIInv
    <2>2. listening' = "none" /\ activeTransfers' = <<>> /\ completedTransfers' = <<>> /\ exports' = exports
      BY <1>2 DEF Unmount
    <2>3. DOMAIN activeTransfers' = {} /\ DOMAIN completedTransfers' = {}
          /\ completedTransfers' \in Seq(Notice)
      BY <2>2
    <2>4. RowsStand' /\ NoticeOnce'
      BY <2>3 DEF RowsStand, NoticeOnce
    <2>5. CASE UNCHANGED <<events, lost>>
      BY <2>1, <2>2, <2>3, <2>4, <2>5 DEF PanelIInv, PanelTyped, ProgressBefore, EndsOnce
    <2>6. CASE events' = <<>> /\ lost' = lost \cup {<<e.id, "none">> : e \in Ends(events)}
      <3>1. \A e \in Ends(events) : e.id \in Transfer
        BY <2>1, EventFields DEF Ends, ToSet, PanelTyped
      <3>2. lost' \subseteq Transfer \X {"none", "progress"}
        BY <2>1, <2>6, <3>1 DEF PanelTyped
      <3>3. events' \in Seq(Event) /\ DOMAIN events' = {}
        BY <2>6
      <3>4. PanelTyped'
        BY <2>1, <2>2, <2>3, <3>2, <3>3 DEF PanelTyped
      <3>5. ProgressBefore' /\ EndsOnce'
        BY <3>3 DEF ProgressBefore, EndsOnce
      <3> QED BY <2>4, <3>4, <3>5 DEF PanelIInv
    <2> QED BY <1>2, <2>5, <2>6 DEF Unmount
  <1> QED BY <1>1, <1>2

(* What taking the oldest event does to the queue. *)
LEMMA EventTaken ==
    ASSUME events \in Seq(Event), events # <<>>, events' = Tail(events)
    PROVE  /\ events' \in Seq(Event) /\ 1 \in DOMAIN events /\ Head(events) = events[1]
           /\ \A i \in DOMAIN events' : i + 1 \in DOMAIN events /\ events'[i] = events[i + 1] /\ i \in Nat
           /\ \A i \in DOMAIN events : i \in Nat /\ (i = 1 \/ (i - 1 \in DOMAIN events' /\ events'[i - 1] = events[i]))
  OBVIOUS

(* A notice more: the ones before are where they were. *)
LEMMA NoticeAppended ==
    ASSUME NEW s \in Seq(Notice), NEW n \in Notice
    PROVE  /\ Append(s, n) \in Seq(Notice) /\ DOMAIN Append(s, n) = DOMAIN s \cup {Len(s) + 1}
           /\ Append(s, n)[Len(s) + 1] = n /\ \A i \in DOMAIN s : Append(s, n)[i] = s[i]
  OBVIOUS

(* The oldest event reaches the window. *)
LEMMA EventDelivered == PanelIInv /\ Deliver => PanelIInv'
  <1> SUFFICES ASSUME PanelIInv, Deliver PROVE PanelIInv'
    OBVIOUS
  <1>1. PanelTyped /\ RowsStand /\ NoticeOnce /\ ProgressBefore /\ EndsOnce
    BY DEF PanelIInv
  <1>2. PICK e : e = Head(events)
    OBVIOUS
  <1>3. /\ events \in Seq(Event) /\ events # <<>> /\ events' = Tail(events)
        /\ exports' = exports /\ listening' = listening
    BY <1>1 DEF PanelTyped, Deliver
  <1>4. /\ events' \in Seq(Event) /\ 1 \in DOMAIN events /\ events[1] = e
        /\ \A i \in DOMAIN events' : i + 1 \in DOMAIN events /\ events'[i] = events[i + 1] /\ i \in Nat
        /\ \A i \in DOMAIN events : i \in Nat /\ (i = 1 \/ (i - 1 \in DOMAIN events' /\ events'[i - 1] = events[i]))
    BY <1>2, <1>3, EventTaken
  <1>5. e \in Event /\ e.id \in Transfer /\ e.kind \in {"progress", "completed"}
    BY <1>3, <1>4, EventFields
  <1>6. ProgressBefore'
    <2> SUFFICES ASSUME NEW i \in DOMAIN events', events'[i].kind = "progress"
                 PROVE  /\ events'[i].bytes <= exports[events'[i].id].bytes
                        /\ \/ exports[events'[i].id].state = "copying"
                           \/ \E j \in DOMAIN events' : i < j /\ Completes(events'[j], events'[i].id)
      BY <1>3 DEF ProgressBefore
    <2>1. PICK k \in DOMAIN events : k = i + 1
      BY <1>4
    <2>2. i \in Nat /\ k \in Nat /\ events'[i] = events[k]
      BY <1>4, <2>1
    <2>3. /\ events[k].bytes <= exports[events[k].id].bytes
          /\ \/ exports[events[k].id].state = "copying"
             \/ \E j \in DOMAIN events : k < j /\ Completes(events[j], events[k].id)
      BY <1>1, <2>2 DEF ProgressBefore
    <2>4. ASSUME NEW j \in DOMAIN events, k < j, Completes(events[j], events[k].id)
          PROVE  \E h \in DOMAIN events' : i < h /\ Completes(events'[h], events'[i].id)
      <3>1. j \in Nat /\ j # 1 /\ i < j - 1
        BY <1>4, <2>1, <2>2, <2>4
      <3>2. j - 1 \in DOMAIN events' /\ events'[j - 1] = events[j]
        BY <1>4, <3>1
      <3> QED BY <2>2, <2>4, <3>1, <3>2
    <2> QED BY <2>2, <2>3, <2>4
  <1>7. ASSUME NEW i \in DOMAIN events', events'[i].kind = "completed"
        PROVE  /\ exports[events'[i].id].state = "ended"
               /\ \A j \in DOMAIN events' : Completes(events'[j], events'[i].id) => i = j
               /\ \A n \in DOMAIN completedTransfers : completedTransfers[n].id # events'[i].id
               /\ e.kind = "completed" => e.id # events'[i].id
    <2>1. PICK k \in DOMAIN events : k = i + 1
      BY <1>4
    <2>2. i \in Nat /\ k \in Nat /\ events'[i] = events[k] /\ k # 1
      BY <1>4, <2>1
    <2>3. /\ exports[events[k].id].state = "ended"
          /\ \A j \in DOMAIN events : Completes(events[j], events[k].id) => k = j
          /\ \A n \in DOMAIN completedTransfers : completedTransfers[n].id # events[k].id
      BY <1>1, <1>7, <2>2 DEF EndsOnce
    <2>4. ASSUME NEW j \in DOMAIN events', Completes(events'[j], events'[i].id) PROVE i = j
      <3>1. PICK h \in DOMAIN events : h = j + 1 /\ events'[j] = events[h] /\ j \in Nat
        BY <1>4
      <3>2. k = h
        BY <2>2, <2>3, <2>4, <3>1
      <3> QED BY <2>1, <2>2, <3>1, <3>2
    <2>5. e.kind = "completed" => e.id # events'[i].id
      BY <1>4, <2>2, <2>3 DEF Completes
    <2> QED BY <2>2, <2>3, <2>4, <2>5
  <1>8. \A t : (\E j \in DOMAIN events : Completes(events[j], t))
                  => Completes(e, t) \/ \E j \in DOMAIN events' : Completes(events'[j], t)
    BY <1>4
  <1>9. \A i \in DOMAIN completedTransfers : completedTransfers[i].id \in Transfer
    BY <1>1, NoticesTyped DEF PanelTyped
  <1>10. CASE e.kind = "progress" /\ listening # "none"
    <2>1. /\ activeTransfers' = [t \in DOMAIN activeTransfers \cup {e.id} |->
                                   IF t = e.id THEN e.bytes ELSE activeTransfers[t]]
          /\ completedTransfers' = completedTransfers /\ lost' = lost
      BY <1>2, <1>10 DEF Deliver, OnProgress
    <2>2. /\ e.bytes <= exports[e.id].bytes
          /\ \/ exports[e.id].state = "copying"
             \/ \E j \in DOMAIN events : Completes(events[j], e.id)
      BY <1>1, <1>4, <1>10 DEF ProgressBefore
    <2>3. \A t : ~Completes(e, t)
      BY <1>10 DEF Completes
    <2>4. PanelTyped'
      <3>1. exports[e.id].bytes \in Nat /\ e.bytes \in Nat /\ 1 <= e.bytes
        <4>1. e.bytes \in 1 .. MaxChunks
          BY <1>5, <1>10, EventFields
        <4>2. exports[e.id].bytes \in 0 .. MaxChunks
          BY <1>1, <1>5 DEF PanelTyped, ExportState
        <4> QED BY <4>1, <4>2, TransfersAssumption
      <3>2. e.bytes \in 1 .. exports[e.id].bytes
        BY <2>2, <3>1
      <3>3. DOMAIN activeTransfers' \subseteq Transfer
        BY <1>1, <1>5, <2>1 DEF PanelTyped
      <3>4. \A t \in DOMAIN activeTransfers' : activeTransfers'[t] \in 1 .. exports[t].bytes
        BY <1>1, <2>1, <3>2 DEF PanelTyped
      <3> QED BY <1>1, <1>3, <1>4, <1>10, <2>1, <3>3, <3>4 DEF PanelTyped
    <2>5. RowsStand'
      BY <1>1, <1>3, <1>8, <2>1, <2>2, <2>3 DEF RowsStand
    <2>6. NoticeOnce'
      <3>1. \A i \in DOMAIN completedTransfers : completedTransfers[i].id # e.id
        BY <1>1, <2>2 DEF NoticeOnce, EndsOnce, Completes
      <3> QED BY <1>1, <1>3, <2>1, <3>1 DEF NoticeOnce
    <2>7. EndsOnce'
      BY <1>3, <1>7, <2>1 DEF EndsOnce
    <2> QED BY <1>6, <2>4, <2>5, <2>6, <2>7 DEF PanelIInv
  <1>11. CASE e.kind = "completed" /\ listening = "both"
    <2>1. PICK n : n = [id |-> e.id, success |-> e.success]
      OBVIOUS
    <2>2. /\ activeTransfers' = [t \in DOMAIN activeTransfers \ {e.id} |-> activeTransfers[t]]
          /\ completedTransfers' = Append(completedTransfers, n) /\ lost' = lost
      BY <1>2, <1>11, <2>1 DEF Deliver, OnCompleted
    <2>3. n \in Notice /\ n.id = e.id
      BY <1>5, <1>11, <2>1, EventFields DEF Notice
    <2>4. PICK l : l = Len(completedTransfers) + 1
      OBVIOUS
    <2>5. /\ completedTransfers' \in Seq(Notice) /\ DOMAIN completedTransfers' = DOMAIN completedTransfers \cup {l}
          /\ completedTransfers'[l] = n
          /\ \A i \in DOMAIN completedTransfers : completedTransfers'[i] = completedTransfers[i]
      BY <1>1, <2>2, <2>3, <2>4, NoticeAppended DEF PanelTyped
    <2>6. DOMAIN activeTransfers' = DOMAIN activeTransfers \ {e.id}
          /\ \A t \in DOMAIN activeTransfers' : activeTransfers'[t] = activeTransfers[t]
      BY <2>2
    <2>7. exports[e.id].state = "ended" /\ \A i \in DOMAIN completedTransfers : completedTransfers[i].id # e.id
      BY <1>1, <1>4, <1>11 DEF EndsOnce
    <2>8. PanelTyped'
      BY <1>1, <1>3, <1>4, <1>11, <2>2, <2>5, <2>6 DEF PanelTyped
    <2>9. RowsStand'
      <3>1. \A t \in DOMAIN activeTransfers' : t \in DOMAIN activeTransfers /\ ~Completes(e, t)
        BY <2>6 DEF Completes
      <3> QED BY <1>1, <1>3, <1>8, <2>2, <3>1 DEF RowsStand
    <2>10. NoticeOnce'
      <3> SUFFICES ASSUME NEW i \in DOMAIN completedTransfers'
                   PROVE  /\ exports[completedTransfers'[i].id].state = "ended"
                          /\ completedTransfers'[i].id \notin DOMAIN activeTransfers'
                          /\ \A j \in DOMAIN completedTransfers' :
                                completedTransfers'[j].id = completedTransfers'[i].id => i = j
        BY <1>3 DEF NoticeOnce
      <3>1. CASE i = l
        BY <2>3, <2>5, <2>6, <2>7, <3>1
      <3>2. CASE i \in DOMAIN completedTransfers
        <4>1. completedTransfers'[i] = completedTransfers[i] /\ completedTransfers'[l].id # completedTransfers[i].id
          BY <2>3, <2>5, <2>7, <3>2
        <4> QED BY <1>1, <2>5, <2>6, <3>2, <4>1 DEF NoticeOnce
      <3> QED BY <2>5, <3>1, <3>2
    <2>11. EndsOnce'
      BY <1>3, <1>7, <1>11, <2>3, <2>5 DEF EndsOnce
    <2> QED BY <1>6, <2>8, <2>9, <2>10, <2>11 DEF PanelIInv
  <1>12. CASE ~(e.kind = "progress" /\ listening # "none") /\ ~(e.kind = "completed" /\ listening = "both")
    <2>1. /\ lost' = lost \cup {<<d.id, listening>> : d \in Ends(<<e>>)}
          /\ activeTransfers' = activeTransfers /\ completedTransfers' = completedTransfers
      BY <1>2, <1>12 DEF Deliver, Dropped
    <2>2. Ends(<<e>>) = IF e.kind = "completed" THEN {e} ELSE {}
      BY DEF Ends, ToSet
    <2>3. /\ lost \subseteq lost'
          /\ \A x \in lost' : x \in lost \/ (x = <<e.id, listening>> /\ e.kind = "completed")
          /\ e.kind = "completed" => <<e.id, listening>> \in lost'
      BY <2>1, <2>2
    <2>4. listening \in {"none", "progress"} /\ (e.kind = "completed" \/ listening = "none")
      BY <1>1, <1>5, <1>12 DEF PanelTyped
    <2>5. lost' \subseteq Transfer \X {"none", "progress"}
      BY <1>1, <1>5, <2>3, <2>4 DEF PanelTyped
    <2>6. PanelTyped'
      BY <1>1, <1>3, <1>4, <2>1, <2>5 DEF PanelTyped
    <2>7. RowsStand'
      <3>1. CASE listening = "none"
        BY <1>1, <2>1, <3>1 DEF PanelTyped, RowsStand
      <3>2. CASE listening = "progress" /\ e.kind = "completed"
        <4>1. \A t : Completes(e, t) => <<t, "progress">> \in lost'
          BY <2>3, <3>2 DEF Completes
        <4> QED BY <1>1, <1>3, <1>8, <2>1, <2>3, <4>1 DEF RowsStand
      <3> QED BY <2>4, <3>1, <3>2
    <2>8. NoticeOnce'
      BY <1>1, <1>3, <2>1 DEF NoticeOnce
    <2>9. EndsOnce'
      BY <1>3, <1>7, <2>1 DEF EndsOnce
    <2> QED BY <1>6, <2>6, <2>7, <2>8, <2>9 DEF PanelIInv
  <1> QED BY <1>10, <1>11, <1>12

(* dismissCompleted: the notices that are left are some of the old ones,   *)
(* in their order.                                                         *)
LEMMA NoticeDismissed ==
    ASSUME PanelIInv, NEW id \in Transfer, DismissCompleted(id) PROVE PanelIInv'
  <1>1. PanelTyped /\ RowsStand /\ NoticeOnce /\ ProgressBefore /\ EndsOnce
    BY DEF PanelIInv
  <1>2. PICK s \in Seq(Notice) : s = completedTransfers
    BY <1>1 DEF PanelTyped
  <1>3. PICK K \in SUBSET DOMAIN s : K = {i \in DOMAIN s : s[i].id # id}
    OBVIOUS
  <1>4. completedTransfers' = Picked(s, K) /\ UNCHANGED <<exports, events, listening, activeTransfers, lost>>
    BY <1>2, <1>3 DEF DismissCompleted, Filter
  <1>5. /\ completedTransfers' \in Seq(Notice)
        /\ \A n \in DOMAIN completedTransfers' :
              Nth(K, n) \in DOMAIN s /\ completedTransfers'[n] = s[Nth(K, n)]
    BY <1>4, PickedFacts
  <1>6. \A n, p \in DOMAIN completedTransfers' : Nth(K, n) = Nth(K, p) => n = p
    <2> SUFFICES ASSUME NEW n \in DOMAIN completedTransfers', NEW p \in DOMAIN completedTransfers', n # p
                 PROVE  Nth(K, n) # Nth(K, p)
      OBVIOUS
    <2>1. n \in Nat /\ p \in Nat
      BY <1>5
    <2>2. \A k \in DOMAIN s : k \in Nat
      OBVIOUS
    <2>3. \A h, k \in DOMAIN completedTransfers' : h < k => Nth(K, h) < Nth(K, k)
      BY <1>4, PickedFacts
    <2>4. n < p \/ p < n
      BY <2>1
    <2>5. Nth(K, n) \in Nat /\ Nth(K, p) \in Nat
      BY <1>5, <2>2
    <2>6. Nth(K, n) < Nth(K, p) \/ Nth(K, p) < Nth(K, n)
      BY <2>3, <2>4
    <2> QED BY <2>5, <2>6
  <1>7. NoticeOnce'
    <2> SUFFICES ASSUME NEW i \in DOMAIN completedTransfers'
                 PROVE  /\ exports[completedTransfers'[i].id].state = "ended"
                        /\ completedTransfers'[i].id \notin DOMAIN activeTransfers
                        /\ \A j \in DOMAIN completedTransfers' :
                              completedTransfers'[j].id = completedTransfers'[i].id => i = j
      BY <1>4 DEF NoticeOnce
    <2>1. PICK k \in DOMAIN s : k = Nth(K, i) /\ completedTransfers'[i] = s[k]
      BY <1>5
    <2>2. /\ exports[s[k].id].state = "ended" /\ s[k].id \notin DOMAIN activeTransfers
          /\ \A h \in DOMAIN s : s[h].id = s[k].id => k = h
      BY <1>1, <1>2 DEF NoticeOnce
    <2>3. ASSUME NEW j \in DOMAIN completedTransfers', completedTransfers'[j].id = completedTransfers'[i].id
          PROVE  i = j
      <3>1. PICK h \in DOMAIN s : h = Nth(K, j) /\ completedTransfers'[j] = s[h]
        BY <1>5
      <3>2. h = k
        BY <2>1, <2>2, <2>3, <3>1
      <3> QED BY <1>6, <2>1, <3>1, <3>2
    <2> QED BY <2>1, <2>2, <2>3
  <1>8. EndsOnce'
    BY <1>1, <1>2, <1>4, <1>5 DEF EndsOnce
  <1>9. PanelTyped'
    BY <1>1, <1>4, <1>5 DEF PanelTyped
  <1>10. RowsStand' /\ ProgressBefore'
    BY <1>1, <1>4 DEF RowsStand, ProgressBefore
  <1> QED BY <1>7, <1>8, <1>9, <1>10 DEF PanelIInv

LEMMA PanelFresh == TransfersInit => PanelIInv
  <1> SUFFICES ASSUME TransfersInit PROVE PanelIInv
    OBVIOUS
  <1>1. exports = [t \in Transfer |-> [state |-> "none", bytes |-> 0]]
    BY DEF TransfersInit
  <1>2. events = <<>> /\ activeTransfers = <<>> /\ completedTransfers = <<>> /\ lost = {} /\ listening = "none"
    BY DEF TransfersInit
  <1>3. events \in Seq(Event) /\ DOMAIN events = {} /\ DOMAIN activeTransfers = {}
        /\ completedTransfers \in Seq(Notice) /\ DOMAIN completedTransfers = {}
    BY <1>2
  <1>4. [state |-> "none", bytes |-> 0] \in ExportState
    BY TransfersAssumption DEF ExportState
  <1>5. exports \in [Transfer -> ExportState]
    BY <1>1, <1>4
  <1>6. PanelTyped
    BY <1>2, <1>3, <1>5 DEF PanelTyped
  <1> QED BY <1>3, <1>6 DEF PanelIInv, RowsStand, NoticeOnce, ProgressBefore, EndsOnce

LEMMA PanelUnchanged == PanelIInv /\ UNCHANGED transfersVars => PanelIInv'
  BY DEF PanelIInv, PanelTyped, RowsStand, NoticeOnce, ProgressBefore, EndsOnce, transfersVars

LEMMA PanelSteps == PanelIInv /\ [ScreensNext]_screensVars => PanelIInv'
  <1> SUFFICES ASSUME PanelIInv, [ScreensNext]_screensVars PROVE PanelIInv'
    OBVIOUS
  <1>1. CASE UNCHANGED transfersVars
    BY <1>1, PanelUnchanged
  <1>2. CASE TransfersNext
    BY <1>2, ExportStarts, PanelComesAndGoes, EventDelivered, BufferCopied, ExportEnded, NoticeDismissed
       DEF TransfersNext
  <1> QED BY <1>1, <1>2
       DEF ScreensNext, screensVars, OnlyWizard, OnlySettings, OnlyIndex, OnlyLibrary, OnlySite

(* The panel of transfers tells the truth in every order of progress, ends *)
(* and new panels: a row stands for an export under way or whose end is    *)
(* about to be reported (or came before the listener for it), and a notice *)
(* for an export that ended, which is reported once and has no row.        *)
THEOREM PanelTellsTruth == ScreensSpec => []PanelInv
  <1>1. ScreensInit => PanelIInv
    BY PanelFresh DEF ScreensInit
  <1>2. PanelIInv /\ [ScreensNext]_screensVars => PanelIInv'
    BY PanelSteps
  <1> QED BY <1>1, <1>2, PanelIInvImplies, PTL DEF ScreensSpec

-----------------------------------------------------------------------------
(* The library: recent files and projects.                                 *)

(* Positions without gaps from the first one are an interval. *)
LEMMA Initial ==
    ASSUME NEW n \in Nat, NEW K \in SUBSET (1 .. n), \A i \in K : \A j \in 1 .. n : j < i => j \in K
    PROVE  \E a \in 0 .. n : K = 1 .. a
  <1>1. PICK m \in (1 .. n + 1) \ K : \A y \in (1 .. n + 1) \ K : m <= y
    <2>1. n + 1 \in (1 .. n + 1) \ K /\ (1 .. n + 1) \ K \in SUBSET Nat
      OBVIOUS
    <2> QED BY <2>1, LeastElement
  <1>2. PICK a \in 0 .. n : a = m - 1
    OBVIOUS
  <1>3. ASSUME NEW i \in K PROVE i \in 1 .. a
    <2>1. i # m /\ i \in 1 .. n
      BY <1>1
    <2>2. ~(m < i)
      <3> SUFFICES ASSUME m < i PROVE FALSE
        OBVIOUS
      <3>1. m \in 1 .. n
        BY <1>1, <2>1
      <3> QED BY <1>1, <3>1
    <2> QED BY <1>1, <1>2, <2>1, <2>2
  <1>4. ASSUME NEW i \in 1 .. a PROVE i \in K
    <2>1. i \in 1 .. n + 1 /\ ~(m <= i)
      BY <1>1, <1>2
    <2> QED BY <1>1, <2>1
  <1> QED BY <1>2, <1>3, <1>4

Recent == [path : File, sourceId : ShareId \cup ConnectionId, accessedAt : 0 .. MaxDay]

(* Newest first, none from a day to come, all from the given sources. *)
RecentOk(s, sources, day) ==
    /\ \A i \in DOMAIN s : s[i].accessedAt <= day /\ s[i].sourceId \in sources
    /\ \A i, j \in DOMAIN s : i < j => s[j].accessedAt <= s[i].accessedAt

LEMMA RecentTyped ==
    ASSUME NEW e \in Recent
    PROVE  /\ e.path \in File /\ e.sourceId \in ShareId \cup ConnectionId
           /\ e.accessedAt \in 0 .. MaxDay /\ e.accessedAt \in Nat /\ MaxDay \in Nat
  <1>1. e.path \in File /\ e.sourceId \in ShareId \cup ConnectionId /\ e.accessedAt \in 0 .. MaxDay
    BY DEF Recent
  <1> QED BY <1>1, RecentAssumption

(* Some of the entries, in their order. *)
LEMMA RecentPicked ==
    ASSUME NEW s \in Seq(Recent), NEW K \in SUBSET DOMAIN s, NEW sources, NEW day, RecentOk(s, sources, day)
    PROVE  Picked(s, K) \in Seq(Recent) /\ RecentOk(Picked(s, K), sources, day)
  <1>1. PICK t : t = Picked(s, K)
    OBVIOUS
  <1>2. /\ t \in Seq(Recent)
        /\ \A n \in DOMAIN t : Nth(K, n) \in DOMAIN s /\ t[n] = s[Nth(K, n)]
        /\ \A n, p \in DOMAIN t : n < p => Nth(K, n) < Nth(K, p)
    BY <1>1, PickedFacts
  <1>3. RecentOk(t, sources, day)
    BY <1>2 DEF RecentOk
  <1> QED BY <1>1, <1>2, <1>3

(* The first entries. *)
LEMMA RecentTrimmed ==
    ASSUME NEW s \in Seq(Recent), NEW sources, NEW day, RecentOk(s, sources, day)
    PROVE  Trimmed(s) \in Seq(Recent) /\ RecentOk(Trimmed(s), sources, day)
  <1>1. PICK m : m = IF Len(s) < MAX_RECENT_FILES THEN Len(s) ELSE MAX_RECENT_FILES
    OBVIOUS
  <1>2. m \in Nat /\ m <= Len(s) /\ Len(s) \in Nat
    BY <1>1, RecentAssumption
  <1>3. PICK t : t = SubSeq(s, 1, m)
    OBVIOUS
  <1>4. t \in Seq(Recent) /\ Len(t) = m /\ \A i \in 1 .. m : t[i] = s[i] /\ i \in DOMAIN s
    BY <1>2, <1>3
  <1>5. RecentOk(t, sources, day)
    BY <1>4 DEF RecentOk
  <1> QED BY <1>1, <1>3, <1>4, <1>5 DEF Trimmed

(* A new entry in front. *)
LEMMA RecentPut ==
    ASSUME NEW s \in Seq(Recent), NEW sources, NEW day, RecentOk(s, sources, day),
           NEW e \in Recent, e.accessedAt = day, e.sourceId \in sources
    PROVE  <<e>> \o s \in Seq(Recent) /\ RecentOk(<<e>> \o s, sources, day)
  <1>1. PICK t : t = <<e>> \o s
    OBVIOUS
  <1>2. /\ t \in Seq(Recent) /\ Len(t) = 1 + Len(s) /\ t[1] = e
        /\ \A i \in DOMAIN t : i = 1 \/ (i - 1 \in DOMAIN s /\ t[i] = s[i - 1])
        /\ \A i \in DOMAIN t : i \in Nat /\ 1 <= i
    <2>1. <<e>> \in Seq(Recent) /\ Len(<<e>>) = 1 /\ <<e>>[1] = e
      OBVIOUS
    <2>2. /\ t \in Seq(Recent) /\ Len(t) = 1 + Len(s)
          /\ \A n \in 1 .. 1 + Len(s) : t[n] = IF n <= 1 THEN <<e>>[n] ELSE s[n - 1]
      BY <1>1, <2>1, ConcatProperties
    <2>3. Len(s) \in Nat /\ DOMAIN s = 1 .. Len(s) /\ DOMAIN t = 1 .. 1 + Len(s)
      BY <2>2
    <2>4. t[1] = e
      BY <2>1, <2>2, <2>3
    <2>5. ASSUME NEW i \in DOMAIN t PROVE i = 1 \/ (i - 1 \in DOMAIN s /\ t[i] = s[i - 1])
      <3>1. i = 1 \/ (~(i <= 1) /\ i - 1 \in DOMAIN s)
        BY <2>3
      <3> QED BY <2>2, <2>3, <3>1
    <2> QED BY <2>2, <2>3, <2>4, <2>5
  <1>3. \A i \in DOMAIN t : t[i].accessedAt <= day /\ t[i].sourceId \in sources
    <2>1. day <= day
      BY RecentTyped
    <2> QED BY <1>2, <2>1 DEF RecentOk
  <1>4. ASSUME NEW i \in DOMAIN t, NEW j \in DOMAIN t, i < j PROVE t[j].accessedAt <= t[i].accessedAt
    <2>1. CASE i = 1
      BY <1>2, <1>3, <2>1
    <2>2. CASE i # 1
      <3>1. i - 1 \in DOMAIN s /\ j - 1 \in DOMAIN s /\ t[i] = s[i - 1] /\ t[j] = s[j - 1] /\ i - 1 < j - 1
        BY <1>2, <1>4, <2>2
      <3> QED BY <3>1 DEF RecentOk
    <2> QED BY <2>1, <2>2
  <1> QED BY <1>1, <1>2, <1>3, <1>4 DEF RecentOk

(* Removing an entry picks the others. *)
LEMMA OthersPicked ==
    ASSUME NEW S, NEW s \in Seq(S), NEW i \in DOMAIN s
    PROVE  /\ RemoveAt(s, i) \in Seq(S)
           /\ \A n \in DOMAIN RemoveAt(s, i) :
                 \/ n < i /\ n \in DOMAIN s /\ RemoveAt(s, i)[n] = s[n]
                 \/ n >= i /\ n + 1 \in DOMAIN s /\ RemoveAt(s, i)[n] = s[n + 1]
  <1>1. PICK a, b : a = SubSeq(s, 1, i - 1) /\ b = SubSeq(s, i + 1, Len(s))
    OBVIOUS
  <1>2. i \in 1 .. Len(s) /\ Len(s) \in Nat /\ DOMAIN s = 1 .. Len(s)
    OBVIOUS
  <1>3. a \in Seq(S) /\ Len(a) = i - 1 /\ \A n \in 1 .. i - 1 : n \in DOMAIN s /\ a[n] = s[n]
    <2>1. PICK m \in Nat : m = i - 1
      BY <1>2
    <2>2. /\ SubSeq(s, 1, m) \in Seq(S) /\ Len(SubSeq(s, 1, m)) = m
          /\ \A n \in 1 .. m : SubSeq(s, 1, m)[n] = s[n]
      BY <1>2, <2>1
    <2> QED BY <1>1, <1>2, <2>1, <2>2
  <1>4. b \in Seq(S) /\ Len(b) = Len(s) - i /\ \A n \in 1 .. Len(s) - i : i + n \in DOMAIN s /\ b[n] = s[i + n]
    <2>1. PICK m \in Nat : m = Len(s) - i
      BY <1>2
    <2>2. /\ SubSeq(s, i + 1, Len(s)) \in Seq(S) /\ Len(SubSeq(s, i + 1, Len(s))) = m
          /\ \A n \in 1 .. m : SubSeq(s, i + 1, Len(s))[n] = s[i + n]
      BY <1>2, <2>1
    <2> QED BY <1>1, <1>2, <2>1, <2>2
  <1>5. PICK t : t = a \o b
    OBVIOUS
  <1>6. /\ t \in Seq(S) /\ Len(t) = Len(s) - 1
        /\ \A n \in 1 .. Len(s) - 1 : t[n] = IF n <= i - 1 THEN a[n] ELSE b[n - (i - 1)]
    <2>1. Len(a) + Len(b) = Len(s) - 1
      BY <1>2, <1>3, <1>4
    <2>2. /\ a \o b \in Seq(S) /\ Len(a \o b) = Len(a) + Len(b)
          /\ \A n \in 1 .. Len(a) + Len(b) : (a \o b)[n] = IF n <= Len(a) THEN a[n] ELSE b[n - Len(a)]
      BY <1>3, <1>4, ConcatProperties
    <2> QED BY <1>3, <1>5, <2>1, <2>2
  <1>7. ASSUME NEW n \in DOMAIN t
        PROVE  \/ n < i /\ n \in DOMAIN s /\ t[n] = s[n]
               \/ n >= i /\ n + 1 \in DOMAIN s /\ t[n] = s[n + 1]
    <2>1. n \in 1 .. Len(s) - 1
      BY <1>6
    <2>2. CASE n <= i - 1
      <3>1. n \in 1 .. i - 1 /\ n < i
        BY <1>2, <2>1, <2>2
      <3> QED BY <1>3, <1>6, <2>1, <2>2, <3>1
    <2>3. CASE ~(n <= i - 1)
      <3>1. n - (i - 1) \in 1 .. Len(s) - i /\ i + (n - (i - 1)) = n + 1 /\ n >= i
        BY <1>2, <2>1, <2>3
      <3> QED BY <1>4, <1>6, <2>1, <2>3, <3>1
    <2> QED BY <2>2, <2>3
  <1> QED BY <1>1, <1>5, <1>6, <1>7 DEF RemoveAt

LEMMA RecentRemoved ==
    ASSUME NEW s \in Seq(Recent), NEW sources, NEW day, RecentOk(s, sources, day), NEW i \in DOMAIN s
    PROVE  RemoveAt(s, i) \in Seq(Recent) /\ RecentOk(RemoveAt(s, i), sources, day)
  <1>1. PICK t : t = RemoveAt(s, i)
    OBVIOUS
  <1>2. /\ t \in Seq(Recent)
        /\ \A n \in DOMAIN t : \/ n < i /\ n \in DOMAIN s /\ t[n] = s[n]
                               \/ n >= i /\ n + 1 \in DOMAIN s /\ t[n] = s[n + 1]
    BY <1>1, OthersPicked
  <1>3. \A n \in DOMAIN t : n \in Nat /\ i \in Nat
    BY <1>2
  <1>4. \A n \in DOMAIN t : t[n].accessedAt <= day /\ t[n].sourceId \in sources
    BY <1>2 DEF RecentOk
  <1>5. ASSUME NEW n \in DOMAIN t, NEW p \in DOMAIN t, n < p PROVE t[p].accessedAt <= t[n].accessedAt
    <2>1. CASE p < i
      BY <1>2, <1>3, <1>5, <2>1 DEF RecentOk
    <2>2. CASE n < i /\ p >= i
      <3>1. n \in DOMAIN s /\ p + 1 \in DOMAIN s /\ t[n] = s[n] /\ t[p] = s[p + 1] /\ n < p + 1
        BY <1>2, <1>3, <1>5, <2>2
      <3> QED BY <3>1 DEF RecentOk
    <2>3. CASE n >= i /\ p >= i
      <3>1. n + 1 \in DOMAIN s /\ p + 1 \in DOMAIN s /\ t[n] = s[n + 1] /\ t[p] = s[p + 1] /\ n + 1 < p + 1
        BY <1>2, <1>3, <1>5, <2>3
      <3> QED BY <3>1 DEF RecentOk
    <2> QED BY <1>3, <1>5, <2>1, <2>2, <2>3
  <1> QED BY <1>1, <1>2, <1>4, <1>5 DEF RecentOk

-----------------------------------------------------------------------------
(* groupRecentFilesByTime cuts a list that is sorted by days.              *)
GroupPositions(s, day, a, b) ==
    {i \in DOMAIN s : s[i].accessedAt + b >= day /\ s[i].accessedAt + a < day + 1}

LEMMA GroupsCut ==
    ASSUME NEW s \in Seq(Recent), NEW sources, NEW day \in 0 .. MaxDay, RecentOk(s, sources, day)
    PROVE  Picked(s, GroupPositions(s, day, 0, 0)) \o Picked(s, GroupPositions(s, day, 1, 1))
             \o Picked(s, GroupPositions(s, day, 2, Week)) \o Picked(s, GroupPositions(s, day, Week + 1, MaxDay)) = s
  <1>a. PICK K1, K2, K3, K4 :
           /\ K1 = GroupPositions(s, day, 0, 0) /\ K2 = GroupPositions(s, day, 1, 1)
           /\ K3 = GroupPositions(s, day, 2, Week) /\ K4 = GroupPositions(s, day, Week + 1, MaxDay)
    OBVIOUS
  <1>b. /\ K1 = {i \in DOMAIN s : s[i].accessedAt + 0 >= day /\ s[i].accessedAt + 0 < day + 1}
        /\ K2 = {i \in DOMAIN s : s[i].accessedAt + 1 >= day /\ s[i].accessedAt + 1 < day + 1}
        /\ K3 = {i \in DOMAIN s : s[i].accessedAt + Week >= day /\ s[i].accessedAt + 2 < day + 1}
        /\ K4 = {i \in DOMAIN s : s[i].accessedAt + MaxDay >= day /\ s[i].accessedAt + (Week + 1) < day + 1}
    BY <1>a DEF GroupPositions
  <1>1. PICK n \in Nat : n = Len(s) /\ DOMAIN s = 1 .. n
    OBVIOUS
  <1>2. Week \in Nat /\ 2 <= Week /\ MaxDay \in Nat /\ day \in Nat /\ day <= MaxDay
    BY RecentAssumption
  <1>3. \A i \in 1 .. n : s[i].accessedAt \in Nat /\ s[i].accessedAt <= day
    <2>1. \A i \in 1 .. n : s[i] \in Recent
      BY <1>1
    <2>2. \A i \in 1 .. n : s[i].accessedAt <= day
      BY <1>1 DEF RecentOk
    <2> QED BY <2>1, <2>2, RecentTyped
  <1>4. \A i, j \in 1 .. n : i < j => s[j].accessedAt <= s[i].accessedAt
    BY <1>1 DEF RecentOk
(* The positions with a day of at least d are the first ones. *)
  <1>5. ASSUME NEW d \in Int PROVE \E a \in 0 .. n : {i \in 1 .. n : s[i].accessedAt >= d} = 1 .. a
    <2>1. PICK K \in SUBSET (1 .. n) : K = {i \in 1 .. n : s[i].accessedAt >= d}
      OBVIOUS
    <2>2. \A i \in K : \A j \in 1 .. n : j < i => j \in K
      BY <1>3, <1>4, <2>1
    <2> QED BY <2>1, <2>2, Initial
  <1>6. PICK a \in 0 .. n : {i \in 1 .. n : s[i].accessedAt >= day} = 1 .. a
    BY <1>2, <1>5
  <1>7. PICK b \in 0 .. n : {i \in 1 .. n : s[i].accessedAt >= day - 1} = 1 .. b
    <2>1. PICK d \in Int : d = day - 1
      BY <1>2
    <2> QED BY <1>5, <2>1
  <1>8. PICK c \in 0 .. n : {i \in 1 .. n : s[i].accessedAt >= day - Week} = 1 .. c
    <2>1. PICK d \in Int : d = day - Week
      BY <1>2
    <2> QED BY <1>5, <2>1
  <1>9. \A i \in 1 .. n : /\ (s[i].accessedAt >= day) <=> i <= a
                          /\ (s[i].accessedAt >= day - 1) <=> i <= b
                          /\ (s[i].accessedAt >= day - Week) <=> i <= c
    <2>1. \A i \in 1 .. n : (s[i].accessedAt >= day) <=> i <= a
      BY <1>6
    <2>2. \A i \in 1 .. n : (s[i].accessedAt >= day - 1) <=> i <= b
      BY <1>7
    <2>3. \A i \in 1 .. n : (s[i].accessedAt >= day - Week) <=> i <= c
      BY <1>8
    <2> QED BY <2>1, <2>2, <2>3
  <1>10. a <= b
    <2> SUFFICES ASSUME ~(a <= b) PROVE FALSE
      OBVIOUS
    <2>1. a \in 1 .. n /\ s[a].accessedAt \in Nat
      BY <1>3
    <2>2. s[a].accessedAt >= day
      BY <1>9, <2>1
    <2>3. s[a].accessedAt >= day - 1
      BY <1>2, <2>1, <2>2
    <2> QED BY <1>9, <2>1, <2>3
  <1>11. b <= c
    <2> SUFFICES ASSUME ~(b <= c) PROVE FALSE
      OBVIOUS
    <2>1. b \in 1 .. n /\ s[b].accessedAt \in Nat
      BY <1>3
    <2>2. s[b].accessedAt >= day - 1
      BY <1>9, <2>1
    <2>3. s[b].accessedAt >= day - Week
      BY <1>2, <2>1, <2>2
    <2> QED BY <1>9, <2>1, <2>3
  <1>12. K1 = (0 + 1) .. a
    <2>1. \A i \in 1 .. n : i \in K1 <=> i <= a
      BY <1>b, <1>1, <1>2, <1>3, <1>9
    <2> QED BY <1>b, <1>1, <2>1
  <1>13. K2 = (a + 1) .. b
    <2>1. ASSUME NEW i \in 1 .. n PROVE i \in K2 <=> (a < i /\ i <= b)
      <3>1. PICK x \in Nat : x = s[i].accessedAt
        BY <1>3
      <3>2. i \in K2 <=> (x + 1 >= day /\ x + 1 < day + 1)
        BY <1>b, <1>1, <3>1
      <3>3. ((x >= day) <=> i <= a) /\ ((x >= day - 1) <=> i <= b)
        BY <1>9, <3>1
      <3>4. (x + 1 >= day) <=> (x >= day - 1)
        BY <1>2
      <3>5. (x + 1 < day + 1) <=> ~(x >= day)
        BY <1>2
      <3>6. (a < i) <=> ~(i <= a)
        OBVIOUS
      <3> QED BY <3>2, <3>3, <3>4, <3>5, <3>6
    <2> QED BY <1>b, <1>1, <2>1
  <1>14. K3 = (b + 1) .. c
    <2>1. ASSUME NEW i \in 1 .. n PROVE i \in K3 <=> (b < i /\ i <= c)
      <3>1. PICK x \in Nat : x = s[i].accessedAt
        BY <1>3
      <3>2. i \in K3 <=> (x + Week >= day /\ x + 2 < day + 1)
        BY <1>b, <1>1, <3>1
      <3>3. ((x >= day - 1) <=> i <= b) /\ ((x >= day - Week) <=> i <= c)
        BY <1>9, <3>1
      <3>4. (x + Week >= day) <=> (x >= day - Week)
        BY <1>2
      <3>5. (x + 2 < day + 1) <=> ~(x >= day - 1)
        BY <1>2
      <3>6. (b < i) <=> ~(i <= b)
        OBVIOUS
      <3> QED BY <3>2, <3>3, <3>4, <3>5, <3>6
    <2> QED BY <1>b, <1>1, <2>1
  <1>15. K4 = (c + 1) .. n
    <2>1. ASSUME NEW i \in 1 .. n PROVE i \in K4 <=> c < i
      <3>1. PICK x \in Nat : x = s[i].accessedAt
        BY <1>3
      <3>2. i \in K4 <=> (x + MaxDay >= day /\ x + (Week + 1) < day + 1)
        BY <1>b, <1>1, <3>1
      <3>3. (x >= day - Week) <=> i <= c
        BY <1>9, <3>1
      <3>4. x + MaxDay >= day
        BY <1>2
      <3>5. (x + (Week + 1) < day + 1) <=> ~(x >= day - Week)
        BY <1>2
      <3>6. (c < i) <=> ~(i <= c)
        OBVIOUS
      <3> QED BY <3>2, <3>3, <3>4, <3>5, <3>6
    <2> QED BY <1>b, <1>1, <2>1
  <1>16. Picked(s, K1) = SubSeq(s, 0 + 1, a)
    <2>1. 0 \in 0 .. Len(s) /\ a \in 0 .. Len(s)
      BY <1>1
    <2> QED BY <1>12, <2>1, PickedInterval
  <1>17. Picked(s, K2) = SubSeq(s, a + 1, b)
    <2>1. a \in 0 .. Len(s) /\ b \in a .. Len(s)
      BY <1>1, <1>10
    <2> QED BY <1>13, <2>1, PickedInterval
  <1>18. Picked(s, K3) = SubSeq(s, b + 1, c)
    <2>1. b \in 0 .. Len(s) /\ c \in b .. Len(s)
      BY <1>1, <1>11
    <2> QED BY <1>14, <2>1, PickedInterval
  <1>19. Picked(s, K4) = SubSeq(s, c + 1, n)
    <2>1. c \in 0 .. Len(s) /\ n \in c .. Len(s)
      BY <1>1
    <2> QED BY <1>15, <2>1, PickedInterval
  <1>20. SubSeq(s, 1, a) \o SubSeq(s, a + 1, b) = SubSeq(s, 1, b)
    <2>1. 1 \in 1 .. Len(s) + 1 /\ a \in 1 - 1 .. Len(s) /\ b \in a .. Len(s)
      BY <1>1, <1>10, <1>11
    <2> QED BY <2>1, ConcatAdjacentSubSeq
  <1>21. SubSeq(s, 1, b) \o SubSeq(s, b + 1, c) = SubSeq(s, 1, c)
    <2>1. 1 \in 1 .. Len(s) + 1 /\ b \in 1 - 1 .. Len(s) /\ c \in b .. Len(s)
      BY <1>1, <1>10, <1>11
    <2> QED BY <2>1, ConcatAdjacentSubSeq
  <1>22. SubSeq(s, 1, c) \o SubSeq(s, c + 1, n) = SubSeq(s, 1, n)
    <2>1. 1 \in 1 .. Len(s) + 1 /\ c \in 1 - 1 .. Len(s) /\ n \in c .. Len(s)
      BY <1>1, <1>10, <1>11
    <2> QED BY <2>1, ConcatAdjacentSubSeq
  <1>23. SubSeq(s, 1, n) = s
    BY <1>1, SubSeqFull
  <1>24. 0 + 1 = 1
    OBVIOUS
  <1> QED BY <1>a, <1>16, <1>17, <1>18, <1>19, <1>20, <1>21, <1>22, <1>23, <1>24

(* The members of a project: each once, and from the given sources. *)
MembersOk(ids, sources) == IsInjective(ids) /\ \A i \in DOMAIN ids : ids[i] \in sources

ProjectRec == [shareIds : Seq(ShareId), connectionIds : Seq(ConnectionId)]

ProjectOk(project, sources) == MembersOk(project.shareIds, sources) /\ MembersOk(project.connectionIds, sources)

(* Some of the members. *)
LEMMA MembersPicked ==
    ASSUME NEW S, NEW ids \in Seq(S), NEW K \in SUBSET DOMAIN ids, IsInjective(ids)
    PROVE  /\ Picked(ids, K) \in Seq(S) /\ IsInjective(Picked(ids, K))
           /\ \A n \in DOMAIN Picked(ids, K) : \E k \in K : Picked(ids, K)[n] = ids[k]
  <1>1. PICK t : t = Picked(ids, K)
    OBVIOUS
  <1>2. /\ t \in Seq(S)
        /\ \A n \in DOMAIN t : Nth(K, n) \in K /\ Nth(K, n) \in DOMAIN ids /\ t[n] = ids[Nth(K, n)]
        /\ \A n, p \in DOMAIN t : n < p => Nth(K, n) < Nth(K, p)
    BY <1>1, PickedFacts
  <1>3. ASSUME NEW n \in DOMAIN t, NEW p \in DOMAIN t, t[n] = t[p], n # p PROVE FALSE
    <2>1. Nth(K, n) = Nth(K, p)
      BY <1>2, <1>3 DEF IsInjective
    <2>2. n \in Nat /\ p \in Nat /\ Nth(K, n) \in Nat /\ Nth(K, p) \in Nat
      <3>1. \A i \in DOMAIN ids : i \in Nat
        OBVIOUS
      <3>2. n \in Nat /\ p \in Nat
        BY <1>2
      <3> QED BY <1>2, <3>1, <3>2
    <2>3. n < p \/ p < n
      BY <1>3, <2>2
    <2>4. Nth(K, n) < Nth(K, p) \/ Nth(K, p) < Nth(K, n)
      BY <1>2, <2>3
    <2> QED BY <2>1, <2>2, <2>4
  <1>4. IsInjective(t)
    BY <1>3 DEF IsInjective
  <1> QED BY <1>1, <1>2, <1>4

(* A member more, unless it is one. *)
LEMMA MemberAdded ==
    ASSUME NEW S, NEW ids \in Seq(S), NEW sources, MembersOk(ids, sources), NEW id \in S, id \in sources
    PROVE  AddMember(ids, id) \in Seq(S) /\ MembersOk(AddMember(ids, id), sources)
  <1>1. CASE Contains(ids, id)
    BY <1>1 DEF AddMember
  <1>2. CASE ~Contains(ids, id)
    <2>1. PICK t : t = Append(ids, id)
      OBVIOUS
    <2>2. /\ t \in Seq(S) /\ DOMAIN t = DOMAIN ids \cup {Len(ids) + 1}
          /\ t[Len(ids) + 1] = id /\ \A i \in DOMAIN ids : t[i] = ids[i]
      BY <2>1
    <2>3. \A i \in DOMAIN ids : ids[i] # id
      BY <1>2 DEF Contains
    <2>4. MembersOk(t, sources)
      BY <2>2, <2>3 DEF MembersOk, IsInjective
    <2> QED BY <1>2, <2>1, <2>2, <2>4 DEF AddMember
  <1> QED BY <1>1, <1>2

LibraryTyped ==
    /\ present \subseteq ShareId \cup ConnectionId
    /\ recentFiles \in Seq(Recent)
    /\ DOMAIN projects \subseteq Project
    /\ \A p \in DOMAIN projects : projects[p] \in ProjectRec
    /\ today \in 0 .. MaxDay

RecentKept == RecentOk(recentFiles, present, today)

ProjectsKept == \A p \in DOMAIN projects : ProjectOk(projects[p], present)

LibraryIInv == LibraryTyped /\ RecentKept /\ ProjectsKept

(* The invariant that the run checks follows. *)
LEMMA LibraryIInvImplies == LibraryIInv => LibraryInv
  <1> SUFFICES ASSUME LibraryIInv PROVE LibraryInv
    OBVIOUS
  <1>1. LibraryTyped /\ RecentKept /\ ProjectsKept
    BY DEF LibraryIInv
  <1>2. LibraryTypeOK
    <2>1. \A i \in DOMAIN recentFiles : recentFiles[i] \in Recent
      BY <1>1 DEF LibraryTyped
    <2>2. \A p \in DOMAIN projects : projects[p].shareIds \in Seq(ShareId) /\ projects[p].connectionIds \in Seq(ConnectionId)
      BY <1>1 DEF LibraryTyped, ProjectRec
    <2> QED BY <1>1, <2>1, <2>2 DEF LibraryTyped, LibraryTypeOK, Recent
  <1>3. GroupsAreTheList
    <2>1. RecentView = Picked(recentFiles, GroupPositions(recentFiles, today, 0, 0))
                         \o Picked(recentFiles, GroupPositions(recentFiles, today, 1, 1))
                         \o Picked(recentFiles, GroupPositions(recentFiles, today, 2, Week))
                         \o Picked(recentFiles, GroupPositions(recentFiles, today, Week + 1, MaxDay))
      BY DEF RecentView, groupRecentFilesByTime, Filter, GroupPositions
    <2>2. recentFiles \in Seq(Recent) /\ today \in 0 .. MaxDay /\ RecentOk(recentFiles, present, today)
      BY <1>1 DEF LibraryTyped, RecentKept
    <2> QED BY <2>1, <2>2, GroupsCut DEF GroupsAreTheList
  <1>4. LibraryTidy
    <2>1. \A i \in DOMAIN recentFiles : recentFiles[i].sourceId \in present
      BY <1>1 DEF RecentKept, RecentOk
    <2>2. \A p \in DOMAIN projects : \A ids \in {projects[p].shareIds, projects[p].connectionIds} :
             MembersOk(ids, present)
      BY <1>1 DEF ProjectsKept, ProjectOk
    <2>3. \A ids : MembersOk(ids, present) => ToSet(ids) \subseteq present /\ IsInjective(ids)
      BY DEF MembersOk, ToSet
    <2> QED BY <2>1, <2>2, <2>3 DEF LibraryTidy
  <1> QED BY <1>2, <1>3, <1>4 DEF LibraryInv

(* A step that changes the recent files only. *)
LEMMA RecentStep ==
    ASSUME LibraryIInv, recentFiles' \in Seq(Recent), RecentOk(recentFiles', present, today),
           UNCHANGED <<present, projects, today>>
    PROVE  LibraryIInv'
  BY DEF LibraryIInv, LibraryTyped, RecentKept, ProjectsKept

LEMMA FileOpened == LibraryIInv /\ OpenRecent => LibraryIInv'
  <1> SUFFICES ASSUME LibraryIInv, OpenRecent PROVE LibraryIInv'
    OBVIOUS
  <1>1. LibraryTyped /\ RecentKept
    BY DEF LibraryIInv
  <1>2. PICK f \in File, src \in present : addRecentFile(f, src)
    BY DEF OpenRecent
  <1>3. PICK s \in Seq(Recent) : s = recentFiles
    BY <1>1 DEF LibraryTyped
  <1>4. PICK K \in SUBSET DOMAIN s : K = {i \in DOMAIN s : s[i].path = f}
    OBVIOUS
  <1>5. PICK M \in SUBSET DOMAIN s : M = {i \in DOMAIN s : s[i].path # f}
    OBVIOUS
  <1>6. PICK e : e = IF Picked(s, K) # <<>> THEN [Picked(s, K)[1] EXCEPT !.accessedAt = today]
                     ELSE [path |-> f, sourceId |-> src, accessedAt |-> today]
    OBVIOUS
  <1>7. recentFiles' = Trimmed(<<e>> \o Picked(s, M))
    BY <1>2, <1>3, <1>4, <1>5, <1>6 DEF addRecentFile, Filter
  <1>8. today \in 0 .. MaxDay /\ present \subseteq ShareId \cup ConnectionId
    BY <1>1 DEF LibraryTyped
  <1>9. RecentOk(s, present, today)
    BY <1>1, <1>3 DEF RecentKept
  <1>10. e \in Recent /\ e.accessedAt = today /\ e.sourceId \in present
    <2>1. CASE Picked(s, K) # <<>>
      <3>1. PICK x : x = Picked(s, K)[1]
        OBVIOUS
      <3>2. Picked(s, K) \in Seq(Recent) /\ RecentOk(Picked(s, K), present, today)
        BY <1>9, RecentPicked
      <3>3. PICK t \in Seq(Recent) : t = Picked(s, K)
        BY <3>2
      <3>4. 1 \in DOMAIN t
        BY <2>1, <3>3
      <3>5. x \in Recent /\ x.sourceId \in present
        BY <3>1, <3>2, <3>3, <3>4 DEF RecentOk
      <3>6. e = [x EXCEPT !.accessedAt = today]
        BY <1>6, <2>1, <3>1
      <3> QED BY <1>8, <3>5, <3>6 DEF Recent
    <2>2. CASE Picked(s, K) = <<>>
      BY <1>6, <1>8, <2>2 DEF Recent
    <2> QED BY <2>1, <2>2
  <1>11. PICK t : t = Picked(s, M)
    OBVIOUS
  <1>12. t \in Seq(Recent) /\ RecentOk(t, present, today)
    BY <1>9, <1>11, RecentPicked
  <1>13. PICK u : u = <<e>> \o t
    OBVIOUS
  <1>14. u \in Seq(Recent) /\ RecentOk(u, present, today)
    BY <1>10, <1>12, <1>13, RecentPut
  <1>15. recentFiles' = Trimmed(u)
    BY <1>7, <1>11, <1>13
  <1>16. recentFiles' \in Seq(Recent) /\ RecentOk(recentFiles', present, today)
    BY <1>14, <1>15, RecentTrimmed
  <1> QED BY <1>16, RecentStep DEF OpenRecent

LEMMA FileRemoved == LibraryIInv /\ (removeRecentFile \/ clearRecentFiles) => LibraryIInv'
  <1> SUFFICES ASSUME LibraryIInv, removeRecentFile \/ clearRecentFiles PROVE LibraryIInv'
    OBVIOUS
  <1>1. recentFiles \in Seq(Recent) /\ RecentOk(recentFiles, present, today)
    BY DEF LibraryIInv, LibraryTyped, RecentKept
  <1>2. CASE removeRecentFile
    <2>1. PICK i \in DOMAIN recentFiles : recentFiles' = RemoveAt(recentFiles, i)
      BY <1>2 DEF removeRecentFile
    <2>2. recentFiles' \in Seq(Recent) /\ RecentOk(recentFiles', present, today)
      BY <1>1, <2>1, RecentRemoved
    <2> QED BY <1>2, <2>2, RecentStep DEF removeRecentFile
  <1>3. CASE clearRecentFiles
    <2>1. recentFiles' = <<>>
      BY <1>3 DEF clearRecentFiles
    <2>2. recentFiles' \in Seq(Recent) /\ DOMAIN recentFiles' = {}
      BY <2>1
    <2>3. RecentOk(recentFiles', present, today)
      BY <2>2 DEF RecentOk
    <2> QED BY <1>3, <2>2, <2>3, RecentStep DEF clearRecentFiles
  <1> QED BY <1>2, <1>3

LEMMA DayPassed == LibraryIInv /\ DayPasses => LibraryIInv'
  <1> SUFFICES ASSUME LibraryIInv, DayPasses PROVE LibraryIInv'
    OBVIOUS
  <1>1. LibraryTyped /\ RecentKept /\ ProjectsKept
    BY DEF LibraryIInv
  <1>2. today' = today + 1 /\ today < MaxDay /\ UNCHANGED <<present, recentFiles, projects>>
    BY DEF DayPasses
  <1>3. today \in 0 .. MaxDay /\ MaxDay \in Nat
    BY <1>1, RecentAssumption DEF LibraryTyped
  <1>4. today' \in 0 .. MaxDay
    BY <1>2, <1>3
  <1>5. \A i \in DOMAIN recentFiles : recentFiles[i].accessedAt <= today'
    <2> SUFFICES ASSUME NEW i \in DOMAIN recentFiles PROVE recentFiles[i].accessedAt <= today'
      OBVIOUS
    <2>1. recentFiles[i] \in Recent
      BY <1>1 DEF LibraryTyped
    <2>2. recentFiles[i].accessedAt \in Nat
      BY <2>1, RecentTyped
    <2>3. recentFiles[i].accessedAt <= today
      BY <1>1 DEF RecentKept, RecentOk
    <2> QED BY <1>2, <1>3, <2>2, <2>3
  <1>6. LibraryTyped' /\ ProjectsKept'
    BY <1>1, <1>2, <1>4 DEF LibraryTyped, ProjectsKept
  <1>7. RecentKept'
    BY <1>1, <1>2, <1>5 DEF RecentKept, RecentOk
  <1> QED BY <1>6, <1>7 DEF LibraryIInv

(* A step that changes the projects only. *)
LEMMA ProjectStep ==
    ASSUME LibraryIInv, DOMAIN projects' \subseteq Project,
           \A p \in DOMAIN projects' : projects'[p] \in ProjectRec /\ ProjectOk(projects'[p], present),
           UNCHANGED <<present, recentFiles, today>>
    PROVE  LibraryIInv'
  BY DEF LibraryIInv, LibraryTyped, RecentKept, ProjectsKept

LEMMA ProjectsMadeAndGone == LibraryIInv /\ (createProject \/ deleteProject) => LibraryIInv'
  <1> SUFFICES ASSUME LibraryIInv, createProject \/ deleteProject PROVE LibraryIInv'
    OBVIOUS
  <1>1. DOMAIN projects \subseteq Project /\ \A p \in DOMAIN projects : projects[p] \in ProjectRec /\ ProjectOk(projects[p], present)
    BY DEF LibraryIInv, LibraryTyped, ProjectsKept
  <1>2. CASE createProject
    <2>1. PICK x : x = [shareIds |-> <<>>, connectionIds |-> <<>>]
      OBVIOUS
    <2>2. PICK p \in Project : projects' = [q \in DOMAIN projects \cup {p} |-> IF q = p THEN x ELSE projects[q]]
      BY <1>2, <2>1 DEF createProject, With
    <2>3. x \in ProjectRec /\ x.shareIds = <<>> /\ x.connectionIds = <<>>
      BY <2>1 DEF ProjectRec
    <2>4. DOMAIN <<>> = {}
      OBVIOUS
    <2>5. ProjectOk(x, present)
      BY <2>3, <2>4 DEF ProjectOk, MembersOk, IsInjective
    <2>6. DOMAIN projects' \subseteq Project
      BY <1>1, <2>2
    <2>7. \A q \in DOMAIN projects' : projects'[q] \in ProjectRec /\ ProjectOk(projects'[q], present)
      BY <1>1, <2>2, <2>3, <2>5
    <2> QED BY <1>2, <2>6, <2>7, ProjectStep DEF createProject
  <1>3. CASE deleteProject
    <2>1. PICK p \in DOMAIN projects : projects' = [q \in DOMAIN projects \ {p} |-> projects[q]]
      BY <1>3 DEF deleteProject
    <2>2. DOMAIN projects' \subseteq Project
      BY <1>1, <2>1
    <2>3. \A q \in DOMAIN projects' : projects'[q] \in ProjectRec /\ ProjectOk(projects'[q], present)
      BY <1>1, <2>1
    <2> QED BY <1>3, <2>2, <2>3, ProjectStep DEF deleteProject
  <1> QED BY <1>2, <1>3

LEMMA ProjectFields ==
    ASSUME NEW x \in ProjectRec
    PROVE  /\ x.shareIds \in Seq(ShareId) /\ x.connectionIds \in Seq(ConnectionId)
           /\ \A ids \in Seq(ShareId) : /\ [x EXCEPT !.shareIds = ids] \in ProjectRec
                                        /\ [x EXCEPT !.shareIds = ids].shareIds = ids
                                        /\ [x EXCEPT !.shareIds = ids].connectionIds = x.connectionIds
           /\ \A ids \in Seq(ConnectionId) : /\ [x EXCEPT !.connectionIds = ids] \in ProjectRec
                                             /\ [x EXCEPT !.connectionIds = ids].shareIds = x.shareIds
                                             /\ [x EXCEPT !.connectionIds = ids].connectionIds = ids
  BY DEF ProjectRec

LEMMA AddedToProject == LibraryIInv /\ AddToProject => LibraryIInv'
  <1> SUFFICES ASSUME LibraryIInv, AddToProject PROVE LibraryIInv'
    OBVIOUS
  <1>1. /\ DOMAIN projects \subseteq Project /\ present \subseteq ShareId \cup ConnectionId
        /\ \A p \in DOMAIN projects : projects[p] \in ProjectRec /\ ProjectOk(projects[p], present)
    BY DEF LibraryIInv, LibraryTyped, ProjectsKept
  <1>2. PICK p \in DOMAIN projects, id \in present :
           projects' = IF id \in ShareId THEN [projects EXCEPT ![p].shareIds = AddMember(@, id)]
                       ELSE [projects EXCEPT ![p].connectionIds = AddMember(@, id)]
    BY DEF AddToProject
  <1>3. PICK x \in ProjectRec : x = projects[p]
    BY <1>1
  <1>4. x.shareIds \in Seq(ShareId) /\ x.connectionIds \in Seq(ConnectionId) /\ ProjectOk(x, present)
    BY <1>1, <1>3, ProjectFields
  <1>5. CASE id \in ShareId
    <2>1. PICK ids : ids = AddMember(x.shareIds, id)
      OBVIOUS
    <2>2. ids \in Seq(ShareId) /\ MembersOk(ids, present)
      BY <1>4, <1>5, <2>1, MemberAdded DEF ProjectOk
    <2>3. PICK y : y = [x EXCEPT !.shareIds = ids]
      OBVIOUS
    <2>4. y \in ProjectRec /\ y.shareIds = ids /\ y.connectionIds = x.connectionIds
      BY <2>2, <2>3, ProjectFields
    <2>5. ProjectOk(y, present)
      BY <1>4, <2>2, <2>4 DEF ProjectOk
    <2>6. projects' = [projects EXCEPT ![p] = y]
      BY <1>2, <1>3, <1>5, <2>1, <2>3
    <2>7. DOMAIN projects' = DOMAIN projects /\ \A q \in DOMAIN projects : projects'[q] = IF q = p THEN y ELSE projects[q]
      BY <2>6
    <2> QED BY <1>1, <2>4, <2>5, <2>7, ProjectStep DEF AddToProject
  <1>6. CASE id \notin ShareId
    <2>1. PICK ids : ids = AddMember(x.connectionIds, id)
      OBVIOUS
    <2>2. ids \in Seq(ConnectionId) /\ MembersOk(ids, present)
      BY <1>1, <1>4, <1>6, <2>1, MemberAdded DEF ProjectOk
    <2>3. PICK y : y = [x EXCEPT !.connectionIds = ids]
      OBVIOUS
    <2>4. y \in ProjectRec /\ y.shareIds = x.shareIds /\ y.connectionIds = ids
      BY <2>2, <2>3, ProjectFields
    <2>5. ProjectOk(y, present)
      BY <1>4, <2>2, <2>4 DEF ProjectOk
    <2>6. projects' = [projects EXCEPT ![p] = y]
      BY <1>2, <1>3, <1>6, <2>1, <2>3
    <2>7. DOMAIN projects' = DOMAIN projects /\ \A q \in DOMAIN projects : projects'[q] = IF q = p THEN y ELSE projects[q]
      BY <2>6
    <2> QED BY <1>1, <2>4, <2>5, <2>7, ProjectStep DEF AddToProject
  <1> QED BY <1>5, <1>6

LEMMA RemovedFromProject == LibraryIInv /\ RemoveFromProject => LibraryIInv'
  <1> SUFFICES ASSUME LibraryIInv, RemoveFromProject PROVE LibraryIInv'
    OBVIOUS
  <1>1. /\ DOMAIN projects \subseteq Project
        /\ \A p \in DOMAIN projects : projects[p] \in ProjectRec /\ ProjectOk(projects[p], present)
    BY DEF LibraryIInv, LibraryTyped, ProjectsKept
  <1>2. PICK p \in DOMAIN projects, id \in ShareId \cup ConnectionId :
           projects' = [projects EXCEPT ![p].shareIds = Filter(@, LAMBDA m : m # id),
                                        ![p].connectionIds = Filter(@, LAMBDA m : m # id)]
    BY DEF RemoveFromProject
  <1>3. PICK x \in ProjectRec : x = projects[p]
    BY <1>1
  <1>4. x.shareIds \in Seq(ShareId) /\ x.connectionIds \in Seq(ConnectionId)
        /\ MembersOk(x.shareIds, present) /\ MembersOk(x.connectionIds, present)
    BY <1>1, <1>3, ProjectFields DEF ProjectOk
  <1>5. PICK a \in Seq(ShareId), b \in Seq(ConnectionId) : a = x.shareIds /\ b = x.connectionIds
    BY <1>4
  <1>6. PICK A \in SUBSET DOMAIN a, B \in SUBSET DOMAIN b :
           A = {i \in DOMAIN a : a[i] # id} /\ B = {i \in DOMAIN b : b[i] # id}
    OBVIOUS
  <1>7. /\ Picked(a, A) \in Seq(ShareId) /\ MembersOk(Picked(a, A), present)
        /\ Picked(b, B) \in Seq(ConnectionId) /\ MembersOk(Picked(b, B), present)
    BY <1>4, <1>5, MembersPicked DEF MembersOk
  <1>8. PICK y : y = [[x EXCEPT !.shareIds = Picked(a, A)] EXCEPT !.connectionIds = Picked(b, B)]
    OBVIOUS
  <1>9. y \in ProjectRec /\ y.shareIds = Picked(a, A) /\ y.connectionIds = Picked(b, B)
    <2>1. PICK u \in Seq(ShareId), v \in Seq(ConnectionId) : u = Picked(a, A) /\ v = Picked(b, B)
      BY <1>7
    <2>2. PICK z : z = [x EXCEPT !.shareIds = u]
      OBVIOUS
    <2>3. z \in ProjectRec /\ z.shareIds = u
      BY <2>2, ProjectFields
    <2>4. y = [z EXCEPT !.connectionIds = v]
      BY <1>8, <2>1, <2>2
    <2> QED BY <2>1, <2>3, <2>4, ProjectFields
  <1>10. ProjectOk(y, present)
    BY <1>7, <1>9 DEF ProjectOk
  <1>11. projects' = [projects EXCEPT ![p] = y]
    BY <1>2, <1>3, <1>5, <1>6, <1>8 DEF Filter, ProjectRec
  <1>12. DOMAIN projects' = DOMAIN projects /\ \A q \in DOMAIN projects : projects'[q] = IF q = p THEN y ELSE projects[q]
    BY <1>11
  <1> QED BY <1>1, <1>9, <1>10, <1>12, ProjectStep DEF RemoveFromProject

(* The history changes, and the effects of both hooks run. *)
LEMMA SourcesChanged == LibraryIInv /\ SourcesChange => LibraryIInv'
  <1> SUFFICES ASSUME LibraryIInv, SourcesChange PROVE LibraryIInv'
    OBVIOUS
  <1>1. LibraryTyped /\ RecentKept /\ ProjectsKept
    BY DEF LibraryIInv
  <1>2. present' \subseteq ShareId \cup ConnectionId
    BY <1>1 DEF SourcesChange, LibraryTyped
  <1>3. PICK valid : valid = present'
    OBVIOUS
  <1>4. PICK s \in Seq(Recent) : s = recentFiles
    BY <1>1 DEF LibraryTyped
  <1>5. PICK K \in SUBSET DOMAIN s : K = {i \in DOMAIN s : s[i].sourceId \in valid}
    OBVIOUS
  <1>6. recentFiles' = Picked(s, K) /\ today' = today
    BY <1>3, <1>4, <1>5 DEF SourcesChange, Filter
  <1>7. recentFiles' \in Seq(Recent) /\ RecentOk(recentFiles', valid, today)
    <2>1. PICK t : t = Picked(s, K)
      OBVIOUS
    <2>2. RecentOk(s, present, today)
      BY <1>1, <1>4 DEF RecentKept
    <2>3. t \in Seq(Recent) /\ RecentOk(t, present, today)
      BY <2>1, <2>2, RecentPicked
    <2>4. \A n \in DOMAIN t : Nth(K, n) \in K /\ t[n] = s[Nth(K, n)]
      BY <2>1, PickedFacts
    <2>5. \A n \in DOMAIN t : t[n].sourceId \in valid
      BY <1>5, <2>4
    <2> QED BY <1>6, <2>1, <2>3, <2>5 DEF RecentOk
  <1>8. DOMAIN projects' = DOMAIN projects /\ \A p \in DOMAIN projects : projects'[p] = Kept(projects[p], valid)
    BY <1>3 DEF SourcesChange
  <1>9. ASSUME NEW p \in DOMAIN projects PROVE projects'[p] \in ProjectRec /\ ProjectOk(projects'[p], valid)
    <2>1. PICK x \in ProjectRec : x = projects[p]
      BY <1>1 DEF LibraryTyped
    <2>2. x.shareIds \in Seq(ShareId) /\ x.connectionIds \in Seq(ConnectionId)
          /\ IsInjective(x.shareIds) /\ IsInjective(x.connectionIds)
      BY <1>1, <2>1, ProjectFields DEF ProjectsKept, ProjectOk, MembersOk
    <2>3. PICK a \in Seq(ShareId), b \in Seq(ConnectionId) : a = x.shareIds /\ b = x.connectionIds
      BY <2>2
    <2>4. PICK A \in SUBSET DOMAIN a, B \in SUBSET DOMAIN b :
             A = {i \in DOMAIN a : a[i] \in valid} /\ B = {i \in DOMAIN b : b[i] \in valid}
      OBVIOUS
    <2>5. projects'[p] = [shareIds |-> Picked(a, A), connectionIds |-> Picked(b, B)]
      BY <1>8, <2>1, <2>3, <2>4 DEF Kept, Filter
    <2>6. /\ Picked(a, A) \in Seq(ShareId) /\ IsInjective(Picked(a, A))
          /\ \A n \in DOMAIN Picked(a, A) : \E k \in A : Picked(a, A)[n] = a[k]
      BY <2>2, <2>3, MembersPicked
    <2>7. /\ Picked(b, B) \in Seq(ConnectionId) /\ IsInjective(Picked(b, B))
          /\ \A n \in DOMAIN Picked(b, B) : \E k \in B : Picked(b, B)[n] = b[k]
      BY <2>2, <2>3, MembersPicked
    <2>8. MembersOk(Picked(a, A), valid) /\ MembersOk(Picked(b, B), valid)
      BY <2>4, <2>6, <2>7 DEF MembersOk
    <2> QED BY <2>5, <2>6, <2>7, <2>8 DEF ProjectRec, ProjectOk
  <1>10. LibraryTyped'
    BY <1>1, <1>2, <1>6, <1>7, <1>8, <1>9 DEF LibraryTyped
  <1>11. RecentKept' /\ ProjectsKept'
    BY <1>3, <1>6, <1>7, <1>8, <1>9 DEF RecentKept, ProjectsKept
  <1> QED BY <1>10, <1>11 DEF LibraryIInv

LEMMA LibraryFresh == LibraryInit => LibraryIInv
  <1> SUFFICES ASSUME LibraryInit PROVE LibraryIInv
    OBVIOUS
  <1>1. present \in SUBSET (ShareId \cup ConnectionId) /\ recentFiles = <<>> /\ projects = <<>> /\ today = 0
    BY DEF LibraryInit
  <1>2. recentFiles \in Seq(Recent) /\ DOMAIN recentFiles = {} /\ DOMAIN projects = {}
    BY <1>1
  <1>3. today \in 0 .. MaxDay
    BY <1>1, RecentAssumption
  <1> QED BY <1>1, <1>2, <1>3 DEF LibraryIInv, LibraryTyped, RecentKept, RecentOk, ProjectsKept

LEMMA LibrarySteps == LibraryIInv /\ [ScreensNext]_screensVars => LibraryIInv'
  <1> SUFFICES ASSUME LibraryIInv, [ScreensNext]_screensVars PROVE LibraryIInv'
    OBVIOUS
  <1>1. CASE UNCHANGED libraryVars
    BY <1>1 DEF libraryVars, LibraryIInv, LibraryTyped, RecentKept, ProjectsKept
  <1>2. CASE LibraryNext
    BY <1>2, FileOpened, FileRemoved, DayPassed, ProjectsMadeAndGone, AddedToProject, RemovedFromProject,
       SourcesChanged DEF LibraryNext
  <1> QED BY <1>1, <1>2
       DEF ScreensNext, screensVars, OnlyWizard, OnlySettings, OnlyIndex, OnlyTransfers, OnlySite

(* The library is consistent: the four parts of the Recent view put        *)
(* together are the list of recent files, and recent files and projects    *)
(* refer to sources in the history, a project to none twice.               *)
THEOREM LibraryConsistent == ScreensSpec => []LibraryInv
  <1>1. ScreensInit => LibraryIInv
    BY LibraryFresh DEF ScreensInit
  <1> QED BY <1>1, LibrarySteps, LibraryIInvImplies, PTL DEF ScreensSpec

-----------------------------------------------------------------------------
(* Paths.                                                                  *)

(* A prefix, position by position. *)
LEMMA PrefixMeans ==
    ASSUME NEW S, NEW s \in Seq(S), NEW t \in Seq(S)
    PROVE  IsPrefix(s, t) <=> (Len(s) <= Len(t) /\ \A i \in 1 .. Len(s) : s[i] = t[i])
  <1>1. Len(s) \in Nat /\ Len(t) \in Nat
    OBVIOUS
  <1>2. SubSeq(s, 1, Len(s)) = s
    BY SubSeqFull
  <1>3. CASE Len(s) <= Len(t)
    <2>1. PICK u : u = SubSeq(t, 1, Len(s))
      OBVIOUS
    <2>2. u \in Seq(S) /\ Len(u) = Len(s) /\ \A i \in 1 .. Len(s) : u[i] = t[i]
      BY <1>1, <1>3, <2>1
    <2>3. s = u <=> \A i \in 1 .. Len(s) : s[i] = u[i]
      BY <2>2, SeqEqual
    <2> QED BY <1>2, <1>3, <2>1, <2>2, <2>3 DEF IsPrefix
  <1>4. CASE ~(Len(s) <= Len(t))
    BY <1>4 DEF IsPrefix
  <1> QED BY <1>3, <1>4

LEMMA PrefixOfItself ==
    ASSUME NEW S, NEW s \in Seq(S)
    PROVE  IsPrefix(s, s)
  BY PrefixMeans

LEMMA PrefixTransitive ==
    ASSUME NEW S, NEW s \in Seq(S), NEW t \in Seq(S), NEW u \in Seq(S), IsPrefix(s, t), IsPrefix(t, u)
    PROVE  IsPrefix(s, u)
  BY PrefixMeans

(* Nothing but the empty path lies above the empty path. *)
LEMMA PrefixOfNothing ==
    ASSUME NEW S, NEW s \in Seq(S), IsPrefix(s, <<>>)
    PROVE  s = <<>>
  <1>1. <<>> \in Seq(S) /\ Len(<<>>) = 0
    OBVIOUS
  <1>2. Len(s) <= 0
    BY <1>1, PrefixMeans
  <1> QED BY <1>2, EmptySeq

(* A breadcrumb below the root. *)
LEMMA PrefixOfJoined ==
    ASSUME NEW S, NEW s \in Seq(S), NEW t \in Seq(S)
    PROVE  s \o t \in Seq(S) /\ IsPrefix(s, s \o t)
  <1>1. s \o t \in Seq(S) /\ Len(s) <= Len(s \o t) /\ \A i \in 1 .. Len(s) : (s \o t)[i] = s[i]
    OBVIOUS
  <1> QED BY <1>1, PrefixMeans

(* The way up, to a path that is not shorter than the root. *)
LEMMA PrefixOfFront ==
    ASSUME NEW S, NEW s \in Seq(S), NEW t \in Seq(S), t # <<>>
    PROVE  /\ Front(t) \in Seq(S) /\ Len(Front(t)) = Len(t) - 1 /\ Len(t) > 0
           /\ \A i \in 1 .. Len(t) - 1 : Front(t)[i] = t[i]
           /\ IsPrefix(s, t) /\ Len(s) <= Len(t) - 1 => IsPrefix(s, Front(t))
  <1>1. Len(t) \in Nat /\ Len(t) > 0
    BY EmptySeq
  <1>2. Front(t) \in Seq(S) /\ Len(Front(t)) = Len(t) - 1 /\ \A i \in 1 .. Len(t) - 1 : Front(t)[i] = t[i]
    <2>1. \A i \in 1 .. Len(t) - 1 : t[i] \in S
      BY <1>1
    <2>2. PICK n \in Nat : n = Len(t) - 1
      BY <1>1
    <2>3. /\ SubSeq(t, 1, n) \in Seq(S) /\ Len(SubSeq(t, 1, n)) = n
          /\ \A i \in 1 .. n : SubSeq(t, 1, n)[i] = t[i]
      BY <2>1, <2>2
    <2> QED BY <2>2, <2>3 DEF Front
  <1>3. ASSUME IsPrefix(s, t), Len(s) <= Len(t) - 1 PROVE IsPrefix(s, Front(t))
    <2>1. \A i \in 1 .. Len(s) : s[i] = t[i] /\ i \in 1 .. Len(t) - 1
      BY <1>1, <1>3, PrefixMeans
    <2>2. \A i \in 1 .. Len(s) : s[i] = Front(t)[i]
      BY <1>2, <2>1
    <2> QED BY <1>2, <1>3, <2>2, PrefixMeans
  <1> QED BY <1>1, <1>2, <1>3

(* An entry of a folder. *)
LEMMA PrefixByOne ==
    ASSUME NEW S, NEW s \in Seq(S), NEW t \in Seq(S), Len(t) = Len(s) + 1, IsPrefix(s, t)
    PROVE  Front(t) = s
  <1>1. t # <<>> /\ Len(s) \in Nat
    <2>1. Len(s) \in Nat
      OBVIOUS
    <2>2. Len(t) # 0
      BY <2>1
    <2>3. Len(<<>>) = 0
      OBVIOUS
    <2> QED BY <2>1, <2>2, <2>3
  <1>2. Front(t) \in Seq(S) /\ Len(Front(t)) = Len(s) /\ \A i \in 1 .. Len(s) : Front(t)[i] = t[i]
    <2>1. /\ Front(t) \in Seq(S) /\ Len(Front(t)) = Len(t) - 1
          /\ \A i \in 1 .. Len(t) - 1 : Front(t)[i] = t[i]
      BY <1>1, PrefixOfFront
    <2>2. Len(t) - 1 = Len(s)
      BY <1>1
    <2> QED BY <2>1, <2>2
  <1>3. \A i \in 1 .. Len(s) : s[i] = t[i]
    BY PrefixMeans
  <1> QED BY <1>2, <1>3, SeqEqual

LEMMA FrontIsPrefix ==
    ASSUME NEW S, NEW t \in Seq(S), t # <<>>
    PROVE  IsPrefix(Front(t), t)
  <1>1. Front(t) \in Seq(S) /\ Len(Front(t)) = Len(t) - 1 /\ \A i \in 1 .. Len(t) - 1 : Front(t)[i] = t[i]
    BY PrefixOfFront
  <1> QED BY <1>1, PrefixMeans

-----------------------------------------------------------------------------
(* The commands that have not been answered.                               *)

Call == [cmd : {"list", "delete"}, path : Seq(Name), back : Seq(Name), live : BOOLEAN]

LiveList(c) == c.cmd = "list" /\ c.live

HasList(cs) == \E i \in DOMAIN cs : LiveList(cs[i])

(* The listing that is answered last is the one of p. *)
Aim(cs, p) ==
    \A i \in DOMAIN cs :
       LiveList(cs[i]) /\ (\A j \in DOMAIN cs : i < j => ~LiveList(cs[j])) => cs[i].path = p

(* A command of a browser that is gone is answered before a listing that  *)
(* is waited for.                                                          *)
Settling(cs) ==
    \A i \in DOMAIN cs : ~cs[i].live => \E j \in DOMAIN cs : i < j /\ LiveList(cs[j])

(* The folders that are listed, now or after a deletion, are under root. *)
Under(cs, root) ==
    \A i \in DOMAIN cs : cs[i].live =>
       IsPrefix(root, IF cs[i].cmd = "list" THEN cs[i].path ELSE cs[i].back)

LEMMA CallTyped ==
    ASSUME NEW c \in Call
    PROVE  /\ c.cmd \in {"list", "delete"} /\ c.live \in BOOLEAN
           /\ c.path \in Seq(Name) /\ c.back \in Seq(Name)
  BY DEF Call

LEMMA CallPut ==
    ASSUME NEW cs \in Seq(Call), NEW c \in Call
    PROVE  /\ Append(cs, c) \in Seq(Call) /\ DOMAIN Append(cs, c) = DOMAIN cs \cup {Len(cs) + 1}
           /\ Append(cs, c)[Len(cs) + 1] = c /\ Len(cs) + 1 \notin DOMAIN cs
           /\ \A i \in DOMAIN cs : Append(cs, c)[i] = cs[i] /\ i < Len(cs) + 1 /\ ~(Len(cs) + 1 < i)
           /\ ~(Len(cs) + 1 < Len(cs) + 1)
  OBVIOUS

LEMMA ListPut ==
    ASSUME NEW cs \in Seq(Call), NEW c \in Call, LiveList(c)
    PROVE  /\ HasList(Append(cs, c)) /\ Aim(Append(cs, c), c.path) /\ Settling(Append(cs, c))
           /\ \A root : Under(cs, root) /\ IsPrefix(root, c.path) => Under(Append(cs, c), root)
  <1>1. PICK l, ds : l = Len(cs) + 1 /\ ds = Append(cs, c)
    OBVIOUS
  <1>2. /\ DOMAIN ds = DOMAIN cs \cup {l} /\ ds[l] = c /\ l \notin DOMAIN cs /\ ~(l < l)
        /\ \A i \in DOMAIN cs : ds[i] = cs[i] /\ i < l
    BY <1>1, CallPut
  <1>3. HasList(ds)
    BY <1>2 DEF HasList
  <1>4. Aim(ds, c.path)
    BY <1>2 DEF Aim
  <1>5. Settling(ds)
    BY <1>2 DEF Settling, LiveList
  <1>6. \A root : Under(cs, root) /\ IsPrefix(root, c.path) => Under(ds, root)
    BY <1>2 DEF Under, LiveList
  <1> QED BY <1>1, <1>3, <1>4, <1>5, <1>6

LEMMA DeletePut ==
    ASSUME NEW cs \in Seq(Call), NEW c \in Call, c.cmd = "delete", c.live
    PROVE  /\ HasList(Append(cs, c)) <=> HasList(cs)
           /\ \A p : Aim(cs, p) => Aim(Append(cs, c), p)
           /\ Settling(cs) => Settling(Append(cs, c))
           /\ \A root : Under(cs, root) /\ IsPrefix(root, c.back) => Under(Append(cs, c), root)
  <1>1. PICK l, ds : l = Len(cs) + 1 /\ ds = Append(cs, c)
    OBVIOUS
  <1>2. /\ DOMAIN ds = DOMAIN cs \cup {l} /\ ds[l] = c /\ l \notin DOMAIN cs
        /\ \A i \in DOMAIN cs : ds[i] = cs[i] /\ i < l
    BY <1>1, CallPut
  <1>3. ~LiveList(c)
    BY DEF LiveList
  <1>4. HasList(ds) <=> HasList(cs)
    BY <1>2, <1>3 DEF HasList
  <1>5. \A p : Aim(cs, p) => Aim(ds, p)
    BY <1>2, <1>3 DEF Aim
  <1>6. Settling(cs) => Settling(ds)
    BY <1>2 DEF Settling
  <1>7. \A root : Under(cs, root) /\ IsPrefix(root, c.back) => Under(ds, root)
    BY <1>2 DEF Under
  <1> QED BY <1>1, <1>4, <1>5, <1>6, <1>7

LEMMA CallTaken ==
    ASSUME NEW cs \in Seq(Call), cs # <<>>
    PROVE  /\ Tail(cs) \in Seq(Call) /\ 1 \in DOMAIN cs /\ Head(cs) = cs[1] /\ Head(cs) \in Call
           /\ Len(Tail(cs)) < Len(cs)
           /\ \A i \in DOMAIN Tail(cs) : i \in Nat /\ i + 1 \in DOMAIN cs /\ Tail(cs)[i] = cs[i + 1]
           /\ \A i \in DOMAIN cs : i \in Nat
           /\ \A i \in DOMAIN cs : i = 1 \/ (i - 1 \in DOMAIN Tail(cs) /\ Tail(cs)[i - 1] = cs[i])
  OBVIOUS

LEMMA QueueMoves ==
    ASSUME NEW cs \in Seq(Call), cs # <<>>
    PROVE  /\ LiveList(Head(cs)) \/ (HasList(cs) <=> HasList(Tail(cs)))
           /\ HasList(Tail(cs)) => HasList(cs)
           /\ \A p : Aim(cs, p) => /\ Aim(Tail(cs), p)
                                   /\ LiveList(Head(cs)) /\ ~HasList(Tail(cs)) => Head(cs).path = p
           /\ Settling(cs) => Settling(Tail(cs)) /\ (Head(cs).live \/ HasList(Tail(cs)))
           /\ \A root : Under(cs, root) => Under(Tail(cs), root)
  <1>1. PICK ds, c : ds = Tail(cs) /\ c = Head(cs)
    OBVIOUS
  <1>2. /\ 1 \in DOMAIN cs /\ c = cs[1]
        /\ \A i \in DOMAIN ds : i \in Nat /\ i + 1 \in DOMAIN cs /\ ds[i] = cs[i + 1]
        /\ \A i \in DOMAIN cs : i \in Nat
        /\ \A i \in DOMAIN cs : i = 1 \/ (i - 1 \in DOMAIN ds /\ ds[i - 1] = cs[i])
    BY <1>1, CallTaken
  <1>3. /\ HasList(ds) => HasList(cs)
        /\ LiveList(c) \/ (HasList(cs) <=> HasList(ds))
    BY <1>2 DEF HasList
  <1>4. ASSUME NEW p, Aim(cs, p) PROVE Aim(ds, p)
    <2> SUFFICES ASSUME NEW i \in DOMAIN ds, LiveList(ds[i]), \A j \in DOMAIN ds : i < j => ~LiveList(ds[j])
                 PROVE  ds[i].path = p
      BY DEF Aim
    <2>1. PICK k \in DOMAIN cs : k = i + 1 /\ ds[i] = cs[k] /\ i \in Nat
      BY <1>2
    <2>2. ASSUME NEW j \in DOMAIN cs, k < j PROVE ~LiveList(cs[j])
      <3>1. j \in Nat /\ j # 1 /\ i < j - 1
        BY <1>2, <2>1, <2>2
      <3> QED BY <1>2, <3>1
    <2> QED BY <1>4, <2>1, <2>2 DEF Aim
  <1>5. ASSUME NEW p, Aim(cs, p), LiveList(c), ~HasList(ds) PROVE c.path = p
    <2>1. ASSUME NEW j \in DOMAIN cs, 1 < j PROVE ~LiveList(cs[j])
      <3>1. j # 1
        BY <1>2, <2>1
      <3> QED BY <1>2, <1>5, <3>1 DEF HasList
    <2> QED BY <1>2, <1>5, <2>1 DEF Aim
  <1>6. ASSUME Settling(cs) PROVE Settling(ds) /\ (c.live \/ HasList(ds))
    <2>1. ASSUME NEW i \in DOMAIN ds, ~ds[i].live PROVE \E j \in DOMAIN ds : i < j /\ LiveList(ds[j])
      <3>1. PICK k \in DOMAIN cs : k = i + 1 /\ ds[i] = cs[k] /\ i \in Nat
        BY <1>2
      <3>2. PICK h \in DOMAIN cs : k < h /\ LiveList(cs[h])
        BY <1>6, <2>1, <3>1 DEF Settling
      <3>3. h \in Nat /\ h # 1 /\ i < h - 1
        BY <1>2, <3>1, <3>2
      <3> QED BY <1>2, <3>2, <3>3
    <2>2. ASSUME ~c.live PROVE HasList(ds)
      <3>1. PICK h \in DOMAIN cs : 1 < h /\ LiveList(cs[h])
        BY <1>2, <1>6, <2>2 DEF Settling
      <3>2. h # 1
        BY <3>1
      <3> QED BY <1>2, <3>1, <3>2 DEF HasList
    <2> QED BY <2>1, <2>2 DEF Settling
  <1>7. ASSUME NEW root, Under(cs, root) PROVE Under(ds, root)
    BY <1>2, <1>7 DEF Under
  <1> QED BY <1>1, <1>3, <1>4, <1>5, <1>6, <1>7

(* The browser goes, and its calls are nobody's. *)
LEMMA Orphaned ==
    ASSUME NEW cs \in Seq(Call)
    PROVE  /\ [i \in DOMAIN cs |-> [cs[i] EXCEPT !.live = FALSE]] \in Seq(Call)
           /\ \A i \in DOMAIN [k \in DOMAIN cs |-> [cs[k] EXCEPT !.live = FALSE]] :
                 ~[k \in DOMAIN cs |-> [cs[k] EXCEPT !.live = FALSE]][i].live
  <1>1. \A i \in DOMAIN cs : [cs[i] EXCEPT !.live = FALSE] \in Call /\ ~[cs[i] EXCEPT !.live = FALSE].live
    <2> SUFFICES ASSUME NEW i \in DOMAIN cs
                 PROVE  [cs[i] EXCEPT !.live = FALSE] \in Call /\ ~[cs[i] EXCEPT !.live = FALSE].live
      OBVIOUS
    <2>1. PICK c \in Call : c = cs[i]
      OBVIOUS
    <2>2. PICK d : d = [c EXCEPT !.live = FALSE]
      OBVIOUS
    <2>3. d \in Call /\ d.live = FALSE
      BY <2>2 DEF Call
    <2> QED BY <2>1, <2>2, <2>3
  <1>2. PICK ds : ds = [k \in DOMAIN cs |-> [cs[k] EXCEPT !.live = FALSE]]
    OBVIOUS
  <1>3. PICK n \in Nat : DOMAIN cs = 1 .. n
    OBVIOUS
  <1>4. ds \in [1 .. n -> Call] /\ \A i \in DOMAIN ds : ~ds[i].live
    BY <1>1, <1>2, <1>3
  <1>5. ds \in Seq(Call)
    BY <1>4, SeqDef
  <1> QED BY <1>2, <1>4, <1>5

-----------------------------------------------------------------------------
(* The file browser.                                                       *)

BrowserTyped ==
    /\ rootPath \in Folder \cup {NoPath} /\ currentPath \in Folder \cup {NoPath}
    /\ files \subseteq Tree /\ selectedFiles \subseteq Tree
    /\ loading \in BOOLEAN /\ error \in BOOLEAN /\ rerooted \in BOOLEAN
    /\ deleteConfirm \in Tree \cup {NoPath}
    /\ disk \subseteq Tree
    /\ calls \in Seq(Call)
    /\ lastAsked \in Seq(Name)

(* The spinner turns for a listing that is waited for. *)
SpinnerTurns == loading => HasList(calls)

(* Away from the screen nothing is waited for. *)
Away ==
    rootPath = NoPath => ~loading /\ deleteConfirm = NoPath /\ \A i \in DOMAIN calls : ~calls[i].live

(* The answer that comes last is for the last click, and comes after those *)
(* of browsers that are gone.                                              *)
LastClick ==
    rootPath # NoPath =>
       /\ Aim(calls, lastAsked) /\ Settling(calls)
       /\ ~HasList(calls) /\ ~error => currentPath = lastAsked /\ files = Children(currentPath)

(* What keeps the browser in its root. *)
StaysInside ==
    rootPath # NoPath /\ ~rerooted =>
       /\ Under(calls, rootPath)
       /\ loading \/ error \/ IsPrefix(rootPath, currentPath)
       /\ deleteConfirm # NoPath => IsPrefix(rootPath, currentPath)

BrowserIInv ==
    BrowserTyped /\ RowsBelong /\ SpinnerTurns /\ Away /\ LastClick /\ StaysInside

LEMMA Paths ==
    /\ Folder \subseteq Tree /\ Tree \subseteq Seq(Name) /\ Folder \subseteq Seq(Name)
    /\ NoPath \in Seq(Name) /\ NoPath \notin Tree /\ NoPath \notin Folder
  <1>1. <<>> \in Seq(Name)
    OBVIOUS
  <1> QED BY <1>1, TreeAssumption DEF NoPath

LEMMA WaitingList == Waiting("list") <=> HasList(calls)
  BY DEF Waiting, HasList, LiveList

(* The rows of a folder. *)
LEMMA RowsOf ==
    ASSUME disk \subseteq Tree, NEW p \in Seq(Name)
    PROVE  Children(p) \subseteq Tree /\ \A f \in Children(p) : Front(f) = p
  <1>1. ASSUME NEW f \in Children(p) PROVE f \in Tree /\ Front(f) = p
    <2>1. f \in Tree /\ Len(f) = Len(p) + 1 /\ IsPrefix(p, f)
      BY DEF Children
    <2>2. f \in Seq(Name)
      BY <2>1, Paths
    <2> QED BY <2>1, <2>2, PrefixByOne
  <1> QED BY <1>1

(* The two invariants that the run checks follow. *)
LEMMA BrowserIInvImplies == BrowserIInv => BrowserInv /\ ShowsLastAsked
  <1> SUFFICES ASSUME BrowserIInv PROVE BrowserInv /\ ShowsLastAsked
    OBVIOUS
  <1>1. BrowserTyped /\ RowsBelong /\ SpinnerTurns /\ LastClick /\ StaysInside
    BY DEF BrowserIInv
  <1>2. BrowserTypeOK
    <2>1. \A i \in DOMAIN calls : calls[i] \in Call
      BY <1>1 DEF BrowserTyped
    <2> QED BY <1>1, <2>1, CallTyped DEF BrowserTyped, BrowserTypeOK
  <1>3. InsideRoot
    BY <1>1, WaitingList DEF InsideRoot, StaysInside, SpinnerTurns
  <1>4. ShowsLastAsked
    BY <1>1, WaitingList DEF ShowsLastAsked, LastClick
  <1> QED BY <1>1, <1>2, <1>3, <1>4 DEF BrowserInv

(* Nothing is loading and there is no error, where rows are offered: the   *)
(* browser is in its root, if that did not change under it.                *)
LEMMA RowsInside ==
    ASSUME BrowserIInv, OffersRows
    PROVE  /\ rootPath \in Folder /\ rootPath \in Seq(Name)
           /\ ~rerooted => IsPrefix(rootPath, currentPath)
  BY Paths DEF BrowserIInv, BrowserTyped, OffersRows, OffersPage, StaysInside

(* A row lies under the folder it is shown in. *)
LEMMA RowUnder ==
    ASSUME BrowserIInv, NEW f \in files
    PROVE  /\ f \in Tree /\ f \in Seq(Name) /\ currentPath \in Seq(Name) /\ IsPrefix(currentPath, f)
           /\ \A r \in Seq(Name) : IsPrefix(r, currentPath) => IsPrefix(r, f)
  <1>1. f \in Tree /\ f \in Seq(Name) /\ f # <<>> /\ currentPath \in Seq(Name) /\ Front(f) = currentPath
    BY Paths DEF BrowserIInv, BrowserTyped, RowsBelong, NoPath
  <1>2. IsPrefix(currentPath, f)
    BY <1>1, FrontIsPrefix
  <1> QED BY <1>1, <1>2, PrefixTransitive

LEMMA ListCall ==
    ASSUME NEW path \in Seq(Name), NEW c, c = [cmd |-> "list", path |-> path, back |-> NoPath, live |-> TRUE]
    PROVE  c \in Call /\ LiveList(c) /\ c.path = path
  BY Paths DEF Call, LiveList

(* A click that loads a folder. *)
LEMMA FolderLoads ==
    ASSUME BrowserIInv, rootPath # NoPath, NEW path \in Seq(Name), LoadDirectory(path, calls),
           ~rerooted => IsPrefix(rootPath, path),
           UNCHANGED <<rootPath, currentPath, files, selectedFiles, deleteConfirm, disk, rerooted>>
    PROVE  BrowserIInv'
  <1>1. PICK c : c = [cmd |-> "list", path |-> path, back |-> NoPath, live |-> TRUE]
    OBVIOUS
  <1>2. c \in Call /\ LiveList(c) /\ c.path = path
    BY <1>1, ListCall
  <1>3. calls' = Append(calls, c) /\ loading' = TRUE /\ error' = FALSE /\ lastAsked' = path
    BY <1>1 DEF LoadDirectory
  <1>4. BrowserTyped /\ RowsBelong /\ StaysInside
    BY DEF BrowserIInv
  <1>5. calls \in Seq(Call)
    BY <1>4 DEF BrowserTyped
  <1>6. calls' \in Seq(Call)
    BY <1>2, <1>3, <1>5, CallPut
  <1>7. HasList(calls') /\ Aim(calls', path) /\ Settling(calls')
    BY <1>2, <1>3, <1>5, ListPut
  <1>8. BrowserTyped'
    BY <1>3, <1>4, <1>6 DEF BrowserTyped
  <1>9. RowsBelong'
    BY <1>4 DEF RowsBelong
  <1>10. SpinnerTurns' /\ Away' /\ LastClick'
    BY <1>3, <1>7 DEF SpinnerTurns, Away, LastClick
  <1>11. StaysInside'
    <2>1. ~rerooted => Under(calls', rootPath)
      BY <1>2, <1>3, <1>4, <1>5, ListPut DEF StaysInside
    <2> QED BY <1>3, <1>4, <2>1 DEF StaysInside
  <1> QED BY <1>8, <1>9, <1>10, <1>11 DEF BrowserIInv

LEMMA FolderOpens == BrowserIInv /\ OpenFolder => BrowserIInv'
  <1> SUFFICES ASSUME BrowserIInv, OpenFolder PROVE BrowserIInv'
    OBVIOUS
  <1>1. OffersRows /\ rootPath # NoPath
    BY DEF OpenFolder, OffersRows, OffersPage
  <1>2. PICK f \in files : LoadDirectory(f, calls)
    BY DEF OpenFolder
  <1>3. f \in Seq(Name) /\ (~rerooted => IsPrefix(rootPath, f))
    BY <1>1, RowUnder, RowsInside
  <1> QED BY <1>1, <1>2, <1>3, FolderLoads DEF OpenFolder

LEMMA GoesUp == BrowserIInv /\ goUp => BrowserIInv'
  <1> SUFFICES ASSUME BrowserIInv, goUp PROVE BrowserIInv'
    OBVIOUS
  <1>1. OffersRows /\ rootPath # NoPath
    BY DEF goUp, OffersRows, OffersPage
  <1>2. rootPath \in Seq(Name) /\ (~rerooted => IsPrefix(rootPath, currentPath))
    BY <1>1, RowsInside
  <1>3. currentPath \in Seq(Name)
    BY Paths DEF BrowserIInv, BrowserTyped
  <1>4. PICK p : p = getParentPath(currentPath)
    OBVIOUS
  <1>5. p \in Seq(Name) /\ (~rerooted => IsPrefix(rootPath, p))
    <2>1. CASE Len(currentPath) <= 1 \/ Len(currentPath) - 1 < Len(rootPath)
      BY <1>2, <1>4, <2>1, PrefixOfItself DEF getParentPath
    <2>2. CASE ~(Len(currentPath) <= 1 \/ Len(currentPath) - 1 < Len(rootPath))
      <3>1. p = Front(currentPath)
        BY <1>4, <2>2 DEF getParentPath
      <3>2. Len(currentPath) \in Nat /\ Len(rootPath) \in Nat /\ Len(<<>>) = 0
        BY <1>2, <1>3
      <3>3. currentPath # <<>> /\ Len(rootPath) <= Len(currentPath) - 1
        BY <2>2, <3>2
      <3> QED BY <1>2, <1>3, <3>1, <3>3, PrefixOfFront
    <2> QED BY <2>1, <2>2
  <1>6. LoadDirectory(p, calls)
    BY <1>4 DEF goUp
  <1> QED BY <1>1, <1>5, <1>6, FolderLoads DEF goUp

LEMMA BreadcrumbClicked == BrowserIInv /\ Breadcrumb => BrowserIInv'
  <1> SUFFICES ASSUME BrowserIInv, Breadcrumb PROVE BrowserIInv'
    OBVIOUS
  <1>1. rootPath # NoPath /\ rootPath \in Seq(Name) /\ currentPath \in Seq(Name)
    BY Paths DEF BrowserIInv, BrowserTyped, Breadcrumb, OffersPage
  <1>2. PICK parts : parts = getRelativePath(currentPath)
    OBVIOUS
  <1>3. parts \in Seq(Name)
    <2>1. CASE ~IsPrefix(rootPath, currentPath)
      BY <1>1, <1>2, <2>1 DEF getRelativePath
    <2>2. CASE IsPrefix(rootPath, currentPath)
      <3>1. parts = SubSeq(currentPath, Len(rootPath) + 1, Len(currentPath))
        BY <1>2, <2>2 DEF getRelativePath
      <3>2. PICK k \in Nat, n \in Nat : k = Len(rootPath) + 1 /\ n = Len(currentPath)
        BY <1>1
      <3>3. \A i \in k .. n : currentPath[i] \in Name
        BY <1>1, <3>2
      <3> QED BY <3>1, <3>2, <3>3, SubSeqProperties
    <2> QED BY <2>1, <2>2
  <1>4. PICK i \in 0 .. Len(parts) : LoadDirectory(joinPath(rootPath, SubSeq(parts, 1, i)), calls)
    BY <1>2 DEF Breadcrumb
  <1>5. SubSeq(parts, 1, i) \in Seq(Name)
    <2>1. \A j \in 1 .. i : parts[j] \in Name
      BY <1>3
    <2> QED BY <2>1, SubSeqProperties
  <1>6. PICK p : p = joinPath(rootPath, SubSeq(parts, 1, i))
    OBVIOUS
  <1>7. p \in Seq(Name) /\ IsPrefix(rootPath, p)
    BY <1>1, <1>5, <1>6, PrefixOfJoined DEF joinPath
  <1>8. LoadDirectory(p, calls)
    BY <1>4, <1>6
  <1> QED BY <1>1, <1>7, <1>8, FolderLoads DEF Breadcrumb

(* Selection and confirmation. *)
LEMMA RowClicked == BrowserIInv /\ (SelectFile \/ ConfirmDelete \/ CancelDelete) => BrowserIInv'
  <1> SUFFICES ASSUME BrowserIInv, SelectFile \/ ConfirmDelete \/ CancelDelete PROVE BrowserIInv'
    OBVIOUS
  <1>1. BrowserTyped /\ RowsBelong /\ SpinnerTurns /\ Away /\ LastClick /\ StaysInside
    BY DEF BrowserIInv
  <1>2. UNCHANGED <<rootPath, currentPath, files, loading, error, calls, disk, lastAsked, rerooted>>
    BY DEF SelectFile, ConfirmDelete, CancelDelete
  <1>3. SpinnerTurns' /\ LastClick'
    BY <1>1, <1>2 DEF SpinnerTurns, LastClick, Children
  <1>4. CASE SelectFile
    <2>1. deleteConfirm' = deleteConfirm
      BY <1>4 DEF SelectFile
    <2>2. PICK f \in files : selectedFiles' = IF f \in selectedFiles THEN selectedFiles \ {f} ELSE selectedFiles \cup {f}
      BY <1>4 DEF SelectFile
    <2>3. BrowserTyped' /\ RowsBelong'
      BY <1>1, <1>2, <2>1, <2>2 DEF BrowserTyped, RowsBelong
    <2> QED BY <1>1, <1>2, <1>3, <2>1, <2>3 DEF BrowserIInv, Away, StaysInside
  <1>5. CASE ConfirmDelete
    <2>1. OffersRows /\ rootPath # NoPath /\ selectedFiles' = selectedFiles /\ deleteConfirm' \in files
      BY <1>5 DEF ConfirmDelete, OffersRows, OffersPage
    <2>2. ~rerooted => IsPrefix(rootPath, currentPath)
      BY <2>1, RowsInside
    <2>3. BrowserTyped' /\ RowsBelong'
      BY <1>1, <1>2, <2>1 DEF BrowserTyped, RowsBelong
    <2>4. Away' /\ StaysInside'
      BY <1>1, <1>2, <2>1, <2>2 DEF Away, StaysInside
    <2> QED BY <1>3, <2>3, <2>4 DEF BrowserIInv
  <1>6. CASE CancelDelete
    <2>1. selectedFiles' = selectedFiles /\ deleteConfirm' = NoPath
      BY <1>6 DEF CancelDelete
    <2> QED BY <1>1, <1>2, <1>3, <2>1 DEF BrowserIInv, BrowserTyped, RowsBelong, Away, StaysInside
  <1> QED BY <1>4, <1>5, <1>6

LEMMA DeleteAsked == BrowserIInv /\ HandleDeleteFile => BrowserIInv'
  <1> SUFFICES ASSUME BrowserIInv, HandleDeleteFile PROVE BrowserIInv'
    OBVIOUS
  <1>1. BrowserTyped /\ RowsBelong /\ SpinnerTurns /\ Away /\ LastClick /\ StaysInside
    BY DEF BrowserIInv
  <1>2. deleteConfirm # NoPath
        /\ UNCHANGED <<rootPath, currentPath, files, loading, error, selectedFiles, deleteConfirm, disk,
                       lastAsked, rerooted>>
    BY DEF HandleDeleteFile
  <1>3. PICK c : c = [cmd |-> "delete", path |-> deleteConfirm, back |-> currentPath, live |-> TRUE]
    OBVIOUS
  <1>4. calls' = Append(calls, c)
    BY <1>3 DEF HandleDeleteFile
  <1>5. deleteConfirm \in Seq(Name) /\ currentPath \in Seq(Name) /\ calls \in Seq(Call)
    BY <1>1, Paths DEF BrowserTyped
  <1>6. c \in Call /\ c.cmd = "delete" /\ c.live /\ c.back = currentPath
    BY <1>3, <1>5 DEF Call
  <1>7. calls' \in Seq(Call)
    BY <1>4, <1>5, <1>6, CallPut
  <1>8. /\ HasList(calls') <=> HasList(calls)
        /\ \A p : Aim(calls, p) => Aim(calls', p)
        /\ Settling(calls) => Settling(calls')
        /\ \A root : Under(calls, root) /\ IsPrefix(root, currentPath) => Under(calls', root)
    BY <1>4, <1>5, <1>6, DeletePut
  <1>9. BrowserTyped' /\ RowsBelong'
    BY <1>1, <1>2, <1>7 DEF BrowserTyped, RowsBelong
  <1>10. SpinnerTurns' /\ Away' /\ StaysInside'
    BY <1>1, <1>2, <1>8 DEF SpinnerTurns, Away, StaysInside
  <1>11. LastClick'
    BY <1>1, <1>2, <1>8 DEF LastClick, Children
  <1> QED BY <1>9, <1>10, <1>11 DEF BrowserIInv

(* The oldest call is answered. *)
LEMMA Answered == BrowserIInv /\ CallAnswered => BrowserIInv'
  <1> SUFFICES ASSUME BrowserIInv, CallAnswered PROVE BrowserIInv'
    OBVIOUS
  <1>1. BrowserTyped /\ RowsBelong /\ SpinnerTurns /\ Away /\ LastClick /\ StaysInside
    BY DEF BrowserIInv
  <1>2. PICK c : c = Head(calls)
    OBVIOUS
  <1>3. PICK cs : cs = Tail(calls)
    OBVIOUS
  <1>4. calls \in Seq(Call) /\ calls # <<>>
    BY <1>1 DEF BrowserTyped, CallAnswered
  <1>5. cs \in Seq(Call) /\ c \in Call /\ 1 \in DOMAIN calls /\ c = calls[1]
        /\ \A i \in DOMAIN cs : i + 1 \in DOMAIN calls /\ cs[i] = calls[i + 1]
    BY <1>2, <1>3, <1>4, CallTaken
  <1>6. /\ LiveList(c) \/ (HasList(calls) <=> HasList(cs))
        /\ \A p : Aim(calls, p) => Aim(cs, p) /\ (LiveList(c) /\ ~HasList(cs) => c.path = p)
        /\ Settling(calls) => Settling(cs) /\ (c.live \/ HasList(cs))
        /\ \A root : Under(calls, root) => Under(cs, root)
    BY <1>2, <1>3, <1>4, QueueMoves
  <1>7. c.path \in Seq(Name) /\ c.back \in Seq(Name) /\ c.live \in BOOLEAN
    BY <1>5, CallTyped
  <1>8. c.live => rootPath # NoPath
    BY <1>1, <1>5 DEF Away
  <1>9. rootPath = NoPath => \A i \in DOMAIN cs : ~cs[i].live
    BY <1>1, <1>5 DEF Away
  <1>10. CASE LiveList(c) /\ Listed(c) /\ calls' = cs
    <2>1. rootPath # NoPath /\ UNCHANGED <<rootPath, deleteConfirm, disk, lastAsked, rerooted>> /\ loading' = FALSE
          /\ calls' = cs
      BY <1>8, <1>10 DEF Listed, LiveList
    <2>2. SpinnerTurns' /\ Away'
      BY <2>1 DEF SpinnerTurns, Away
    <2>3. CASE /\ c.path \in disk \cap Folder
               /\ files' = Children(c.path) /\ currentPath' = c.path /\ selectedFiles' = {} /\ error' = error
      <3>1. files' \subseteq Tree /\ \A f \in files' : Front(f) = currentPath'
        BY <1>1, <1>7, <2>3, RowsOf DEF BrowserTyped
      <3>2. BrowserTyped' /\ RowsBelong'
        BY <1>1, <1>5, <2>1, <2>3, <3>1 DEF BrowserTyped, RowsBelong
      <3>3. LastClick'
        <4>1. Aim(cs, lastAsked) /\ Settling(cs) /\ (~HasList(cs) => c.path = lastAsked)
          BY <1>1, <1>6, <1>10, <2>1 DEF LastClick
        <4>2. files' = Children(currentPath)'
          BY <2>1, <2>3 DEF Children
        <4> QED BY <2>1, <2>3, <4>1, <4>2 DEF LastClick
      <3>4. StaysInside'
        <4>1. ~rerooted => Under(cs, rootPath) /\ IsPrefix(rootPath, c.path)
          BY <1>1, <1>5, <1>6, <1>10, <2>1 DEF StaysInside, Under, LiveList
        <4> QED BY <2>1, <2>3, <4>1 DEF StaysInside
      <3> QED BY <2>2, <3>2, <3>3, <3>4 DEF BrowserIInv
    <2>4. CASE files' = {} /\ error' = TRUE /\ UNCHANGED <<currentPath, selectedFiles>>
      <3>1. BrowserTyped' /\ RowsBelong'
        BY <1>1, <1>5, <2>1, <2>4 DEF BrowserTyped, RowsBelong
      <3>2. LastClick' /\ StaysInside'
        BY <1>1, <1>6, <2>1, <2>4 DEF LastClick, StaysInside
      <3> QED BY <2>2, <3>1, <3>2 DEF BrowserIInv
    <2> QED BY <1>10, <2>3, <2>4 DEF Listed
  <1>11. CASE /\ c.cmd = "list" /\ ~c.live /\ calls' = cs
              /\ UNCHANGED <<rootPath, currentPath, files, loading, error, selectedFiles, deleteConfirm, disk,
                             lastAsked, rerooted>>
    <2>1. BrowserTyped' /\ RowsBelong'
      BY <1>1, <1>5, <1>11 DEF BrowserTyped, RowsBelong
    <2>2. HasList(calls) <=> HasList(cs)
      BY <1>6, <1>11 DEF LiveList
    <2>3. SpinnerTurns' /\ Away' /\ StaysInside'
      BY <1>1, <1>6, <1>9, <1>11, <2>2 DEF SpinnerTurns, Away, StaysInside
    <2>4. LastClick'
      BY <1>1, <1>6, <1>11, <2>2 DEF LastClick, Children
    <2> QED BY <2>1, <2>3, <2>4 DEF BrowserIInv
  <1>12. CASE c.cmd = "delete" /\ Deleted(c)
    <2>1. HasList(calls) <=> HasList(cs)
      BY <1>6, <1>12 DEF LiveList
    <2>2. CASE /\ disk' = {e \in disk : ~IsPrefix(c.path, e)} /\ c.live
               /\ LoadDirectory(c.back, cs) /\ deleteConfirm' = NoPath
               /\ UNCHANGED <<rootPath, currentPath, files, selectedFiles, rerooted>>
      <3>1. PICK d : d = [cmd |-> "list", path |-> c.back, back |-> NoPath, live |-> TRUE]
        OBVIOUS
      <3>2. d \in Call /\ LiveList(d) /\ d.path = c.back
        BY <1>7, <3>1, ListCall
      <3>3. calls' = Append(cs, d) /\ loading' = TRUE /\ error' = FALSE /\ lastAsked' = c.back
        BY <2>2, <3>1 DEF LoadDirectory
      <3>4. calls' \in Seq(Call)
        BY <1>5, <3>2, <3>3, CallPut
      <3>5. HasList(calls') /\ Aim(calls', c.back) /\ Settling(calls')
        BY <1>5, <3>2, <3>3, ListPut
      <3>6. BrowserTyped' /\ RowsBelong'
        BY <1>1, <1>7, <2>2, <3>3, <3>4 DEF BrowserTyped, RowsBelong
      <3>7. SpinnerTurns' /\ Away' /\ LastClick'
        BY <1>8, <2>2, <3>3, <3>5 DEF SpinnerTurns, Away, LastClick
      <3>8. StaysInside'
        <4>1. ~rerooted => Under(cs, rootPath) /\ IsPrefix(rootPath, c.back)
          BY <1>1, <1>5, <1>6, <1>8, <1>12, <2>2 DEF StaysInside, Under
        <4>2. ~rerooted => Under(calls', rootPath)
          BY <1>5, <3>2, <3>3, <4>1, ListPut
        <4> QED BY <2>2, <3>3, <4>2 DEF StaysInside
      <3> QED BY <3>6, <3>7, <3>8 DEF BrowserIInv
    <2>3. CASE /\ disk' = {e \in disk : ~IsPrefix(c.path, e)} /\ ~c.live /\ calls' = cs
               /\ UNCHANGED <<rootPath, currentPath, files, loading, error, selectedFiles, deleteConfirm,
                              lastAsked, rerooted>>
      <3>1. BrowserTyped' /\ RowsBelong'
        BY <1>1, <1>5, <2>3 DEF BrowserTyped, RowsBelong
      <3>2. SpinnerTurns' /\ Away' /\ StaysInside'
        BY <1>1, <1>6, <1>9, <2>1, <2>3 DEF SpinnerTurns, Away, StaysInside
      <3>3. LastClick'
        BY <1>1, <1>6, <2>3 DEF LastClick
      <3> QED BY <3>1, <3>2, <3>3 DEF BrowserIInv
    <2>4. CASE /\ calls' = cs /\ error' = (error \/ c.live)
               /\ UNCHANGED <<rootPath, currentPath, files, loading, selectedFiles, deleteConfirm, disk,
                              lastAsked, rerooted>>
      <3>1. error' \in BOOLEAN /\ (error => error')
        BY <2>4
      <3>2. BrowserTyped' /\ RowsBelong'
        BY <1>1, <1>5, <2>4, <3>1 DEF BrowserTyped, RowsBelong
      <3>3. SpinnerTurns' /\ Away' /\ StaysInside'
        BY <1>1, <1>6, <1>9, <2>1, <2>4, <3>1 DEF SpinnerTurns, Away, StaysInside
      <3>4. LastClick'
        BY <1>1, <1>6, <2>1, <2>4, <3>1 DEF LastClick, Children
      <3> QED BY <3>2, <3>3, <3>4 DEF BrowserIInv
    <2> QED BY <1>3, <1>12, <2>2, <2>3, <2>4 DEF Deleted
  <1> QED BY <1>2, <1>3, <1>10, <1>11, <1>12 DEF CallAnswered, LiveList

LEMMA BrowserClicked == BrowserIInv /\ BrowserClicks => BrowserIInv'
  BY FolderOpens, GoesUp, BreadcrumbClicked, RowClicked, DeleteAsked DEF BrowserClicks

(* The frame shows a browser with this root, or none. *)
LEMMA BrowserRendered ==
    ASSUME BrowserIInv, NEW root \in Folder \cup {NoPath}, BrowserRenders(root)
    PROVE  BrowserIInv' /\ rootPath' = root
  <1>1. BrowserTyped /\ RowsBelong /\ SpinnerTurns /\ Away /\ LastClick /\ StaysInside
    BY DEF BrowserIInv
  <1>2. rootPath' = root /\ disk' = disk
    BY DEF BrowserRenders
  <1>3. rerooted' = (rootPath # NoPath /\ root # NoPath /\ (rerooted \/ (root # rootPath /\ Busy)))
    BY DEF BrowserRenders
  <1>4. rerooted' \in BOOLEAN
    BY <1>3
  <1>5. root \in Seq(Name) /\ calls \in Seq(Call)
    BY <1>1, Paths DEF BrowserTyped
  <1>6. CASE root = rootPath
    <2>1. UNCHANGED <<rootPath, currentPath, files, loading, error, selectedFiles, deleteConfirm, calls, disk,
                      lastAsked>>
      BY <1>2, <1>6 DEF BrowserRenders
    <2>2. rootPath # NoPath => (rerooted' <=> rerooted)
      BY <1>3, <1>6
    <2>3. BrowserTyped' /\ RowsBelong'
      BY <1>1, <1>4, <2>1 DEF BrowserTyped, RowsBelong
    <2>4. SpinnerTurns' /\ Away' /\ StaysInside'
      BY <1>1, <2>1, <2>2 DEF SpinnerTurns, Away, StaysInside
    <2>5. LastClick'
      BY <1>1, <2>1 DEF LastClick, Children
    <2> QED BY <1>2, <2>3, <2>4, <2>5 DEF BrowserIInv
  <1>7. CASE root = NoPath /\ rootPath # NoPath
    <2>1. /\ currentPath' = NoPath /\ files' = {} /\ selectedFiles' = {}
          /\ loading' = FALSE /\ error' = FALSE /\ deleteConfirm' = NoPath
          /\ calls' = [i \in DOMAIN calls |-> [calls[i] EXCEPT !.live = FALSE]]
          /\ lastAsked' = NoPath
      BY <1>7 DEF BrowserRenders
    <2>2. calls' \in Seq(Call) /\ \A i \in DOMAIN calls' : ~calls'[i].live
      BY <1>5, <2>1, Orphaned
    <2>3. BrowserTyped' /\ RowsBelong'
      BY <1>1, <1>2, <1>4, <1>7, <2>1, <2>2, Paths DEF BrowserTyped, RowsBelong
    <2>4. SpinnerTurns' /\ Away' /\ StaysInside' /\ LastClick'
      BY <1>2, <1>7, <2>1, <2>2 DEF SpinnerTurns, Away, StaysInside, LastClick
    <2> QED BY <1>2, <2>3, <2>4 DEF BrowserIInv
  <1>8. CASE root # NoPath /\ root # rootPath
    <2>1. LoadDirectory(root, calls)
      BY <1>8 DEF BrowserRenders, RootChanges
    <2>2. PICK c : c = [cmd |-> "list", path |-> root, back |-> NoPath, live |-> TRUE]
      OBVIOUS
    <2>3. c \in Call /\ LiveList(c) /\ c.path = root
      BY <1>5, <2>2, ListCall
    <2>4. calls' = Append(calls, c) /\ loading' = TRUE /\ error' = FALSE /\ lastAsked' = root
      BY <2>1, <2>2 DEF LoadDirectory
    <2>5. calls' \in Seq(Call)
      BY <1>5, <2>3, <2>4, CallPut
    <2>6. HasList(calls') /\ Aim(calls', root) /\ Settling(calls')
      BY <1>5, <2>3, <2>4, ListPut
    <2>7. \/ rootPath # NoPath /\ UNCHANGED <<currentPath, files, selectedFiles, deleteConfirm>>
          \/ rootPath = NoPath /\ currentPath' = root /\ files' = {} /\ selectedFiles' = {} /\ deleteConfirm' = NoPath
      BY <1>8 DEF BrowserRenders, RootChanges
    <2>8. BrowserTyped' /\ RowsBelong'
      BY <1>1, <1>2, <1>4, <1>5, <2>4, <2>5, <2>7 DEF BrowserTyped, RowsBelong
    <2>9. SpinnerTurns' /\ Away' /\ LastClick'
      BY <1>2, <1>8, <2>4, <2>6 DEF SpinnerTurns, Away, LastClick
    <2>10. StaysInside'
      <3>1. ASSUME ~rerooted' PROVE deleteConfirm' = NoPath /\ \A i \in DOMAIN calls : ~calls[i].live
        <4>1. CASE rootPath = NoPath
          BY <1>1, <2>7, <4>1 DEF Away
        <4>2. CASE rootPath # NoPath
          <5>1. ~Busy
            BY <1>3, <1>8, <3>1, <4>2
          <5>2. \A i \in DOMAIN calls : calls[i].cmd \in {"list", "delete"}
            BY <1>5, CallTyped
          <5> QED BY <2>7, <4>2, <5>1, <5>2 DEF Busy, Waiting
        <4> QED BY <4>1, <4>2
      <3>2. IsPrefix(root, root)
        BY <1>5, PrefixOfItself
      <3>3. ~rerooted' => Under(calls', root)
        BY <1>5, <2>3, <2>4, <3>1, <3>2, ListPut DEF Under
      <3> QED BY <1>2, <2>4, <3>1, <3>3 DEF StaysInside
    <2> QED BY <1>2, <2>8, <2>9, <2>10 DEF BrowserIInv
  <1> QED BY <1>6, <1>7, <1>8

LEMMA BrowserFresh == BrowserInit => BrowserIInv
  <1> SUFFICES ASSUME BrowserInit PROVE BrowserIInv
    OBVIOUS
  <1>1. /\ rootPath = NoPath /\ currentPath = NoPath /\ files = {} /\ selectedFiles = {}
        /\ loading = FALSE /\ error = FALSE /\ deleteConfirm = NoPath /\ calls = <<>> /\ disk = Tree
        /\ lastAsked = NoPath /\ rerooted = FALSE
    BY DEF BrowserInit
  <1>2. calls \in Seq(Call) /\ DOMAIN calls = {}
    BY <1>1
  <1>3. BrowserTyped /\ RowsBelong
    BY <1>1, <1>2, Paths DEF BrowserTyped, RowsBelong
  <1> QED BY <1>1, <1>2, <1>3 DEF BrowserIInv, SpinnerTurns, Away, LastClick, StaysInside

LEMMA BrowserRests == BrowserIInv /\ UNCHANGED browserVars => BrowserIInv'
  <1> SUFFICES ASSUME BrowserIInv, UNCHANGED browserVars PROVE BrowserIInv'
    OBVIOUS
  <1>1. UNCHANGED <<rootPath, currentPath, files, loading, error, selectedFiles, deleteConfirm, calls, disk,
                    lastAsked, rerooted>>
    BY DEF browserVars
  <1> QED BY <1>1 DEF BrowserIInv, BrowserTyped, RowsBelong, SpinnerTurns, Away, LastClick, StaysInside, Children

-----------------------------------------------------------------------------
(* The frame and the stars.                                                *)

Star == [path : Tree, source : Source \cup {NoSource}]

ShellTyped ==
    /\ ShellTypeOK
    /\ favorites \in Seq(Star) /\ strays \in BOOLEAN

(* The browser is on the screen when the frame shows it, with the folder   *)
(* of the frame as its root.                                               *)
Framed == rootPath = IF ~showSetupWizard /\ activeView = "all-files" THEN currentFolder ELSE NoPath

ShellIInv == BrowserIInv /\ ShellTyped /\ Framed /\ FavoritesSourced /\ SourceNeverWrong

LEMMA SourceFolders ==
    ASSUME NEW s \in Source
    PROVE  RootOf[s] \in Folder /\ RootOf[s] \in Seq(Name) /\ RootOf[s] # NoPath /\ s # NoSource
  BY Paths, ShareAssumption, SourceAssumption

(* What is left of the stars: each was there. *)
LEMMA StarsLeft ==
    ASSUME NEW s \in Seq(Star), NEW K \in SUBSET DOMAIN s
    PROVE  Picked(s, K) \in Seq(Star) /\ \A n \in DOMAIN Picked(s, K) : \E k \in K : Picked(s, K)[n] = s[k]
  BY PickedFacts

LEMMA StarLess ==
    ASSUME NEW s \in Seq(Star), NEW i \in DOMAIN s
    PROVE  RemoveAt(s, i) \in Seq(Star) /\ \A n \in DOMAIN RemoveAt(s, i) : \E k \in DOMAIN s : RemoveAt(s, i)[n] = s[k]
  <1>1. PICK a, b : a = SubSeq(s, 1, i - 1) /\ b = SubSeq(s, i + 1, Len(s))
    OBVIOUS
  <1>2. i \in 1 .. Len(s) /\ Len(s) \in Nat /\ DOMAIN s = 1 .. Len(s)
    OBVIOUS
  <1>3. a \in Seq(Star) /\ DOMAIN a = 1 .. i - 1 /\ Len(a) = i - 1 /\ \A n \in DOMAIN a : n \in DOMAIN s /\ a[n] = s[n]
    <2>1. \A n \in 1 .. i - 1 : s[n] \in Star
      BY <1>2
    <2>2. PICK m \in Nat : m = i - 1
      BY <1>2
    <2>3. /\ SubSeq(s, 1, m) \in Seq(Star) /\ Len(SubSeq(s, 1, m)) = m
          /\ \A n \in 1 .. m : SubSeq(s, 1, m)[n] = s[n]
      BY <1>2, <2>2
    <2> QED BY <1>1, <1>2, <2>2, <2>3
  <1>4. b \in Seq(Star) /\ Len(b) = Len(s) - i /\ \A n \in 1 .. Len(b) : i + n \in DOMAIN s /\ b[n] = s[i + n]
    <2>1. PICK m \in Nat : m = Len(s) - i
      BY <1>2
    <2>2. /\ SubSeq(s, i + 1, Len(s)) \in Seq(Star) /\ Len(SubSeq(s, i + 1, Len(s))) = m
          /\ \A n \in 1 .. m : SubSeq(s, i + 1, Len(s))[n] = s[i + n]
      BY <1>2, <2>1
    <2> QED BY <1>1, <1>2, <2>1, <2>2
  <1>5. /\ a \o b \in Seq(Star) /\ DOMAIN (a \o b) = 1 .. Len(a) + Len(b)
        /\ \A n \in DOMAIN (a \o b) : IF n <= Len(a) THEN (a \o b)[n] = a[n] /\ n \in DOMAIN a
                                      ELSE (a \o b)[n] = b[n - Len(a)] /\ n - Len(a) \in 1 .. Len(b)
    <2>1. /\ a \o b \in Seq(Star) /\ Len(a \o b) = Len(a) + Len(b)
          /\ \A n \in 1 .. Len(a) + Len(b) : (a \o b)[n] = IF n <= Len(a) THEN a[n] ELSE b[n - Len(a)]
      BY <1>3, <1>4, ConcatProperties
    <2>2. Len(a) \in Nat /\ Len(b) \in Nat /\ DOMAIN a = 1 .. Len(a) /\ DOMAIN (a \o b) = 1 .. Len(a \o b)
      BY <1>3, <1>4, <2>1
    <2> QED BY <2>1, <2>2
  <1>6. \A n \in DOMAIN (a \o b) : \E k \in DOMAIN s : (a \o b)[n] = s[k]
    BY <1>3, <1>4, <1>5
  <1> QED BY <1>1, <1>5, <1>6 DEF RemoveAt

(* The stars may go, and are otherwise as they were. *)
LEMMA FewerStars ==
    ASSUME FavoritesSourced, strays' = strays,
           \A n \in DOMAIN favorites' : \E k \in DOMAIN favorites : favorites'[n] = favorites[k]
    PROVE  FavoritesSourced'
  BY DEF FavoritesSourced

(* The effect on the stars when the history changes. *)
LEMMA StarsCleaned ==
    ASSUME ShellIInv, NEW valid, strays' = strays,
           favorites' = Picked(favorites, {i \in DOMAIN favorites : favorites[i].source \in valid})
    PROVE  /\ favorites' \in Seq(Star) /\ strays' \in BOOLEAN /\ FavoritesSourced'
           /\ \A n \in DOMAIN favorites' : favorites'[n].source \in valid
  <1>1. favorites \in Seq(Star) /\ strays \in BOOLEAN /\ FavoritesSourced
    BY DEF ShellIInv, ShellTyped
  <1>2. PICK s \in Seq(Star) : s = favorites
    BY <1>1
  <1>3. PICK K \in SUBSET DOMAIN s : K = {i \in DOMAIN s : s[i].source \in valid}
    OBVIOUS
  <1>4. favorites' = Picked(s, K)
    BY <1>2, <1>3
  <1>5. favorites' \in Seq(Star) /\ \A n \in DOMAIN favorites' : \E k \in K : favorites'[n] = s[k]
    <2>1. Picked(s, K) \in Seq(Star) /\ \A n \in DOMAIN Picked(s, K) : \E k \in K : Picked(s, K)[n] = s[k]
      BY StarsLeft
    <2> QED BY <1>4, <2>1
  <1>6. FavoritesSourced'
    BY <1>1, <1>2, <1>5, FewerStars
  <1> QED BY <1>1, <1>3, <1>5, <1>6

(* The frame renders what it has become. *)
LEMMA Rendered ==
    ASSUME BrowserIInv, Render, currentFolder' \in Folder \cup {NoPath}
    PROVE  BrowserIInv' /\ Framed'
  <1>1. PICK root : root = IF ~showSetupWizard' /\ activeView' = "all-files" THEN currentFolder' ELSE NoPath
    OBVIOUS
  <1>2. root \in Folder \cup {NoPath} /\ BrowserRenders(root)
    BY <1>1 DEF Render
  <1>3. BrowserIInv' /\ rootPath' = root
    BY <1>2, BrowserRendered
  <1> QED BY <1>1, <1>3 DEF Framed

(* Another view, another folder. *)
LEMMA Shown ==
    ASSUME ShellIInv, NEW v \in View, NEW p \in Folder \cup {NoPath}, NEW s \in Source \cup {NoSource},
           Show(v, p, s), ~strays /\ s # NoSource => IsPrefix(RootOf[s], p)
    PROVE  ShellIInv'
  <1>1. /\ activeView' = v /\ currentFolder' = p /\ currentFolderSource' = s /\ Render
        /\ UNCHANGED <<favorites, strays, showSetupWizard, setupComplete, activeDialog, listed, starting>>
    BY DEF Show, favoritesVars
  <1>2. BrowserIInv /\ ShellTypeOK /\ favorites \in Seq(Star) /\ strays \in BOOLEAN /\ FavoritesSourced
    BY DEF ShellIInv, ShellTyped
  <1>3. BrowserIInv' /\ Framed'
    BY <1>1, <1>2, Rendered
  <1>4. ShellTypeOK'
    BY <1>1, <1>2 DEF ShellTypeOK
  <1>5. FavoritesSourced'
    BY <1>1, <1>2 DEF FavoritesSourced
  <1>6. SourceNeverWrong'
    BY <1>1 DEF SourceNeverWrong
  <1> QED BY <1>1, <1>2, <1>3, <1>4, <1>5, <1>6 DEF ShellIInv, ShellTyped

(* The clicks that change the view. *)
LEMMA ViewClicked ==
    ShellIInv /\ (ChangeView \/ BrowseAllFiles \/ BackToAllFiles \/ BrowseCard \/ BrowseFound \/ OpenFavorite)
      => ShellIInv'
  <1> SUFFICES ASSUME ShellIInv PROVE ChangeView \/ BrowseAllFiles \/ BackToAllFiles \/ BrowseCard \/ BrowseFound
                                        \/ OpenFavorite => ShellIInv'
    OBVIOUS
  <1>1. /\ currentFolder \in Folder \cup {NoPath} /\ currentFolderSource \in Source \cup {NoSource}
        /\ listed \subseteq Source /\ activeView \in View
        /\ favorites \in Seq(Star)
        /\ ~strays /\ currentFolderSource # NoSource => IsPrefix(RootOf[currentFolderSource], currentFolder)
    BY DEF ShellIInv, ShellTyped, ShellTypeOK, SourceNeverWrong
  <1>2. "all-files" \in View /\ NoPath \in Folder \cup {NoPath} /\ NoSource \in Source \cup {NoSource}
    BY DEF View
  <1>3. ASSUME ChangeView PROVE ShellIInv'
    BY <1>1, <1>2, <1>3, Shown DEF ChangeView
  <1>4. ASSUME BrowseAllFiles PROVE ShellIInv'
    BY <1>1, <1>2, <1>4, Shown DEF BrowseAllFiles
  <1>5. ASSUME BackToAllFiles PROVE ShellIInv'
    BY <1>1, <1>2, <1>5, Shown DEF BackToAllFiles
  <1>6. ASSUME BrowseCard PROVE ShellIInv'
    <2>1. PICK s \in listed : Show("all-files", RootOf[s], s)
      BY <1>6 DEF BrowseCard
    <2>2. s \in Source /\ RootOf[s] \in Folder /\ IsPrefix(RootOf[s], RootOf[s])
      BY <1>1, SourceFolders, PrefixOfItself
    <2> QED BY <1>2, <2>1, <2>2, Shown
  <1>7. ASSUME BrowseFound PROVE ShellIInv'
    <2>1. PICK s \in listed, p \in Folder :
             \/ Show("all-files", p, currentFolderSource)
             \/ \E t \in SourcesAt(s, p) : Show("all-files", p, t)
      BY <1>7 DEF BrowseFound
    <2>2. CASE Show("all-files", p, currentFolderSource)
      <3>1. currentFolder = <<>>
        BY <1>7 DEF BrowseFound, NoPath
      <3>2. ~strays => currentFolderSource = NoSource
        <4> SUFFICES ASSUME ~strays, currentFolderSource # NoSource PROVE FALSE
          OBVIOUS
        <4>1. currentFolderSource \in Source /\ IsPrefix(RootOf[currentFolderSource], <<>>)
          BY <1>1, <3>1
        <4>2. RootOf[currentFolderSource] = <<>>
          BY <4>1, SourceFolders, PrefixOfNothing
        <4> QED BY <4>1, <4>2, SourceFolders DEF NoPath
      <3> QED BY <1>1, <1>2, <2>2, <3>2, Shown
    <2>3. ASSUME NEW t \in SourcesAt(s, p), Show("all-files", p, t) PROVE ShellIInv'
      <3>1. t \in Source /\ RootOf[t] = p
        BY <1>1 DEF SourcesAt
      <3>2. IsPrefix(RootOf[t], p)
        BY <3>1, SourceFolders, PrefixOfItself
      <3> QED BY <1>2, <2>3, <3>1, <3>2, Shown
    <2> QED BY <2>1, <2>2, <2>3
  <1>8. ASSUME OpenFavorite PROVE ShellIInv'
    <2>1. PICK i \in DOMAIN favorites : /\ favorites[i].path \in Folder
                                        /\ Show("all-files", favorites[i].path, favorites[i].source)
      BY <1>8 DEF OpenFavorite
    <2>2. favorites[i] \in Star
      BY <1>1
    <2>3. favorites[i].source \in Source \cup {NoSource}
      BY <2>2 DEF Star
    <2>4. ~strays /\ favorites[i].source # NoSource => IsPrefix(RootOf[favorites[i].source], favorites[i].path)
      BY DEF ShellIInv, FavoritesSourced
    <2> QED BY <1>2, <2>1, <2>3, <2>4, Shown
  <1> QED BY <1>3, <1>4, <1>5, <1>6, <1>7, <1>8

(* A step that leaves the screen alone, but for dialogs and the source     *)
(* that is being started.                                                  *)
LEMMA DialogClicked ==
    ASSUME ShellIInv, UNCHANGED browserVars, UNCHANGED favoritesVars,
           UNCHANGED <<showSetupWizard, setupComplete, activeView, currentFolder, currentFolderSource, listed>>,
           activeDialog' \in {"none", "share", "connect"}, starting' \in Source \cup {NoSource}
    PROVE  ShellIInv'
  <1>1. BrowserIInv'
    BY BrowserRests DEF ShellIInv
  <1>2. rootPath' = rootPath /\ favorites' = favorites /\ strays' = strays
    BY DEF browserVars, favoritesVars
  <1>3. ShellTyped'
    BY <1>2 DEF ShellIInv, ShellTyped, ShellTypeOK
  <1>4. Framed' /\ FavoritesSourced' /\ SourceNeverWrong'
    BY <1>2 DEF ShellIInv, Framed, FavoritesSourced, SourceNeverWrong
  <1> QED BY <1>1, <1>3, <1>4 DEF ShellIInv

LEMMA DialogsKeep ==
    ShellIInv /\ (OpenDialog \/ DeepLink \/ CloseDialog \/ Start \/ StartFails) => ShellIInv'
  <1> SUFFICES ASSUME ShellIInv, OpenDialog \/ DeepLink \/ CloseDialog \/ Start \/ StartFails PROVE ShellIInv'
    OBVIOUS
  <1>1. activeDialog \in {"none", "share", "connect"} /\ starting \in Source \cup {NoSource} /\ listed \subseteq Source
    BY DEF ShellIInv, ShellTyped, ShellTypeOK
  <1>2. /\ UNCHANGED browserVars /\ UNCHANGED favoritesVars
        /\ UNCHANGED <<showSetupWizard, setupComplete, activeView, currentFolder, currentFolderSource, listed>>
    BY DEF OpenDialog, DeepLink, CloseDialog, Start, StartFails
  <1>3. activeDialog' \in {"none", "share", "connect"} /\ starting' \in Source \cup {NoSource}
    BY <1>1, ShareAssumption DEF OpenDialog, DeepLink, CloseDialog, Start, StartFails
  <1> QED BY <1>2, <1>3, DialogClicked

(* The browser alone moves, with its root. *)
LEMMA BrowserMoves ==
    ShellIInv /\ (BrowserClicks \/ CallAnswered) /\ UNCHANGED <<favoritesVars, shellVars>> => ShellIInv'
  <1> SUFFICES ASSUME ShellIInv, BrowserClicks \/ CallAnswered, UNCHANGED <<favoritesVars, shellVars>>
               PROVE  ShellIInv'
    OBVIOUS
  <1>1. BrowserIInv'
    BY BrowserClicked, Answered DEF ShellIInv
  <1>2. rootPath' = rootPath
    BY DEF BrowserClicks, OpenFolder, SelectFile, goUp, Breadcrumb, ConfirmDelete, CancelDelete,
           HandleDeleteFile, CallAnswered, Listed, Deleted
  <1>3. UNCHANGED <<favorites, strays, showSetupWizard, setupComplete, activeView, activeDialog, currentFolder,
                    currentFolderSource, listed, starting>>
    BY DEF favoritesVars, shellVars
  <1>4. ShellTyped'
    BY <1>3 DEF ShellIInv, ShellTyped, ShellTypeOK
  <1>5. Framed' /\ FavoritesSourced' /\ SourceNeverWrong'
    BY <1>2, <1>3 DEF ShellIInv, Framed, FavoritesSourced, SourceNeverWrong
  <1> QED BY <1>1, <1>4, <1>5 DEF ShellIInv

(* Stars come and go while the screen stays. *)
LEMMA StarsOnly ==
    ASSUME ShellIInv, UNCHANGED browserVars, UNCHANGED shellVars,
           favorites' \in Seq(Star), strays' \in BOOLEAN, strays => strays', FavoritesSourced'
    PROVE  ShellIInv'
  <1>1. BrowserIInv'
    BY BrowserRests DEF ShellIInv
  <1>2. UNCHANGED <<rootPath, showSetupWizard, setupComplete, activeView, activeDialog, currentFolder,
                    currentFolderSource, listed, starting>>
    BY DEF browserVars, shellVars
  <1>3. ShellTyped'
    BY <1>2 DEF ShellIInv, ShellTyped, ShellTypeOK
  <1>4. Framed' /\ SourceNeverWrong'
    BY <1>2 DEF ShellIInv, Framed, SourceNeverWrong
  <1> QED BY <1>1, <1>3, <1>4 DEF ShellIInv

LEMMA StarRemoved == ShellIInv /\ RemoveFavorite => ShellIInv'
  <1> SUFFICES ASSUME ShellIInv, RemoveFavorite PROVE ShellIInv'
    OBVIOUS
  <1>1. favorites \in Seq(Star) /\ strays \in BOOLEAN /\ FavoritesSourced
    BY DEF ShellIInv, ShellTyped
  <1>2. PICK i \in DOMAIN favorites : favorites' = RemoveAt(favorites, i) /\ strays' = strays
    BY DEF RemoveFavorite, removeFavorite
  <1>3. PICK s \in Seq(Star) : s = favorites
    BY <1>1
  <1>4. favorites' = RemoveAt(s, i) /\ i \in DOMAIN s
    BY <1>2, <1>3
  <1>5. RemoveAt(s, i) \in Seq(Star) /\ \A n \in DOMAIN RemoveAt(s, i) : \E k \in DOMAIN s : RemoveAt(s, i)[n] = s[k]
    BY <1>4, StarLess
  <1>6. FavoritesSourced'
    BY <1>1, <1>2, <1>3, <1>4, <1>5, FewerStars
  <1> QED BY <1>1, <1>2, <1>4, <1>5, <1>6, StarsOnly DEF RemoveFavorite

(* A star is given to a row, or taken from it.  Given with no listing      *)
(* outstanding, it lies in the source that the folder is labelled with.    *)
LEMMA StarToggled == ShellIInv /\ ToggleFavorite => ShellIInv'
  <1> SUFFICES ASSUME ShellIInv, ToggleFavorite PROVE ShellIInv'
    OBVIOUS
  <1>1. favorites \in Seq(Star) /\ strays \in BOOLEAN /\ FavoritesSourced /\ BrowserIInv /\ ShellTypeOK
    BY DEF ShellIInv, ShellTyped
  <1>2. PICK f \in files : toggleFavorite(f, currentFolderSource, ~Waiting("list") /\ ~rerooted)
    BY DEF ToggleFavorite
  <1>3. OffersRows /\ UNCHANGED browserVars /\ UNCHANGED shellVars
    BY DEF ToggleFavorite
  <1>4. PICK s \in Seq(Star) : s = favorites
    BY <1>1
  <1>5. CASE favorites' = Filter(favorites, LAMBDA g : g.path # f) /\ strays' = strays
    <2>1. PICK K \in SUBSET DOMAIN s : K = {i \in DOMAIN s : s[i].path # f}
      OBVIOUS
    <2>2. favorites' = Picked(s, K)
      BY <1>4, <1>5, <2>1 DEF Filter
    <2>3. Picked(s, K) \in Seq(Star) /\ \A n \in DOMAIN Picked(s, K) : \E k \in K : Picked(s, K)[n] = s[k]
      BY StarsLeft
    <2>4. \A n \in DOMAIN favorites' : \E k \in DOMAIN favorites : favorites'[n] = favorites[k]
      BY <1>4, <2>1, <2>2, <2>3
    <2>5. FavoritesSourced'
      BY <1>1, <1>5, <2>4, FewerStars
    <2> QED BY <1>1, <1>3, <1>5, <2>2, <2>3, <2>5, StarsOnly
  <1>6. CASE /\ favorites' = <<FavoriteEntry(f, currentFolderSource)>> \o favorites
             /\ strays' = (strays \/ ~(~Waiting("list") /\ ~rerooted))
    <2>1. PICK e : e = FavoriteEntry(f, currentFolderSource)
      OBVIOUS
    <2>2. f \in Tree /\ f \in Seq(Name)
      BY <1>1, RowUnder
    <2>3. e \in Star /\ e.path = f /\ e.source = currentFolderSource
      BY <1>1, <2>1, <2>2 DEF FavoriteEntry, Star, ShellTypeOK
    <2>4. strays' \in BOOLEAN /\ (strays => strays') /\ (~strays' => ~strays /\ ~Waiting("list") /\ ~rerooted)
      BY <1>6
    <2>5. /\ <<e>> \o s \in Seq(Star)
          /\ \A n \in DOMAIN (<<e>> \o s) : (<<e>> \o s)[n] = e \/ \E k \in DOMAIN s : (<<e>> \o s)[n] = s[k]
      <3>1. <<e>> \in Seq(Star) /\ Len(<<e>>) = 1 /\ <<e>>[1] = e
        BY <2>3
      <3>2. /\ <<e>> \o s \in Seq(Star) /\ Len(<<e>> \o s) = 1 + Len(s)
            /\ \A n \in 1 .. 1 + Len(s) : (<<e>> \o s)[n] = IF n <= 1 THEN <<e>>[n] ELSE s[n - 1]
        BY <3>1, ConcatProperties
      <3>3. ASSUME NEW n \in DOMAIN (<<e>> \o s)
            PROVE  (<<e>> \o s)[n] = e \/ \E k \in DOMAIN s : (<<e>> \o s)[n] = s[k]
        <4>1. n \in 1 .. 1 + Len(s) /\ Len(s) \in Nat /\ DOMAIN s = 1 .. Len(s)
          BY <3>2
        <4>2. CASE n = 1
          BY <3>1, <3>2, <4>1, <4>2
        <4>3. CASE n # 1
          <5>1. n - 1 \in DOMAIN s /\ ~(n <= 1)
            BY <4>1, <4>3
          <5> QED BY <3>2, <4>1, <5>1
        <4> QED BY <4>2, <4>3
      <3> QED BY <3>2, <3>3
    <2>6. favorites' = <<e>> \o s
      BY <1>4, <1>6, <2>1
    <2>7. ASSUME ~strays', currentFolderSource # NoSource PROVE IsPrefix(RootOf[currentFolderSource], f)
      <3>1. PICK src \in Source : src = currentFolderSource
        BY <1>1, <2>7 DEF ShellTypeOK
      <3>2. ~rerooted /\ ~strays
        BY <2>4, <2>7
      <3>3. rootPath \in Seq(Name) /\ IsPrefix(rootPath, currentPath) /\ rootPath # NoPath
        BY <1>1, <1>3, <3>2, RowsInside DEF OffersRows, OffersPage
      <3>4. IsPrefix(rootPath, f)
        BY <1>1, <3>3, RowUnder
      <3>5. rootPath = currentFolder
        BY <3>3 DEF ShellIInv, Framed
      <3>6. IsPrefix(RootOf[src], rootPath)
        BY <2>7, <3>1, <3>2, <3>5 DEF ShellIInv, SourceNeverWrong
      <3> QED BY <2>2, <3>1, <3>3, <3>4, <3>6, SourceFolders, PrefixTransitive
    <2>8. FavoritesSourced'
      <3> SUFFICES ASSUME ~strays', NEW n \in DOMAIN favorites', favorites'[n].source # NoSource
                   PROVE  IsPrefix(RootOf[favorites'[n].source], favorites'[n].path)
        BY DEF FavoritesSourced
      <3>1. CASE favorites'[n] = e
        BY <2>3, <2>7, <3>1
      <3>2. ASSUME NEW k \in DOMAIN s, favorites'[n] = s[k]
            PROVE  IsPrefix(RootOf[favorites'[n].source], favorites'[n].path)
        BY <1>1, <1>4, <2>4, <3>2 DEF FavoritesSourced
      <3> QED BY <2>5, <2>6, <3>1, <3>2
    <2> QED BY <1>3, <2>4, <2>5, <2>6, <2>8, StarsOnly
  <1> QED BY <1>2, <1>5, <1>6 DEF toggleFavorite

(* A source is removed from the history, or the history is rebuilt. *)
LEMMA HistoryChanged == ShellIInv /\ HistoryChanges => ShellIInv'
  <1> SUFFICES ASSUME ShellIInv, HistoryChanges PROVE ShellIInv'
    OBVIOUS
  <1>1. favorites' = Picked(favorites, {i \in DOMAIN favorites : favorites[i].source \in listed'}) /\ strays' = strays
    BY DEF HistoryChanges, CleanFavorites, Filter
  <1>2. favorites' \in Seq(Star) /\ strays' \in BOOLEAN /\ FavoritesSourced'
    BY <1>1, StarsCleaned
  <1>3. UNCHANGED browserVars /\ UNCHANGED <<showSetupWizard, setupComplete, activeView, activeDialog, currentFolder,
                                             currentFolderSource, starting>>
    BY DEF HistoryChanges
  <1>4. BrowserIInv' /\ rootPath' = rootPath
    BY <1>3, BrowserRests DEF ShellIInv, browserVars
  <1>5. listed' \subseteq Source
    BY DEF HistoryChanges, ShellIInv, ShellTyped, ShellTypeOK
  <1>6. ShellTyped'
    BY <1>2, <1>3, <1>5 DEF ShellIInv, ShellTyped, ShellTypeOK
  <1>7. Framed' /\ SourceNeverWrong'
    BY <1>1, <1>3, <1>4 DEF ShellIInv, Framed, SourceNeverWrong
  <1> QED BY <1>2, <1>4, <1>6, <1>7 DEF ShellIInv

(* A source was started, and its folder is shown. *)
LEMMA SourceStarted == ShellIInv /\ Started => ShellIInv'
  <1> SUFFICES ASSUME ShellIInv, Started PROVE ShellIInv'
    OBVIOUS
  <1>1. ShellTypeOK /\ BrowserIInv
    BY DEF ShellIInv, ShellTyped
  <1>2. PICK s \in Source : s = starting
    BY <1>1 DEF Started, ShellTypeOK
  <1>3. /\ listed' = (listed \ SourcesAt(s, RootOf[s])) \cup {s}
        /\ activeDialog' = IF s \in listed THEN activeDialog ELSE "none"
        /\ currentFolder' = RootOf[s] /\ currentFolderSource' = s
        /\ favorites' = Picked(favorites, {i \in DOMAIN favorites : favorites[i].source \in listed'}) /\ strays' = strays
        /\ starting' = NoSource /\ UNCHANGED <<showSetupWizard, setupComplete, activeView>> /\ Render
    BY <1>2 DEF Started, CleanFavorites, Filter
  <1>4. favorites' \in Seq(Star) /\ strays' \in BOOLEAN /\ FavoritesSourced'
    BY <1>3, StarsCleaned
  <1>5. RootOf[s] \in Folder /\ IsPrefix(RootOf[s], RootOf[s])
    BY SourceFolders, PrefixOfItself
  <1>6. BrowserIInv' /\ Framed'
    BY <1>1, <1>3, <1>5, Rendered
  <1>7. ShellTypeOK'
    BY <1>1, <1>3, <1>5 DEF ShellTypeOK
  <1>8. SourceNeverWrong'
    BY <1>3, <1>5 DEF SourceNeverWrong
  <1> QED BY <1>4, <1>6, <1>7, <1>8 DEF ShellIInv, ShellTyped

(* The wizard comes and goes in front of the frame. *)
LEMMA WizardShown == ShellIInv /\ (HandleSetupComplete \/ RunSetupWizard) => ShellIInv'
  <1> SUFFICES ASSUME ShellIInv, HandleSetupComplete \/ RunSetupWizard PROVE ShellIInv'
    OBVIOUS
  <1>1. ShellTyped /\ BrowserIInv /\ FavoritesSourced /\ SourceNeverWrong
    BY DEF ShellIInv
  <1>2. /\ showSetupWizard' \in BOOLEAN /\ setupComplete' \in BOOLEAN /\ Render
        /\ UNCHANGED <<favorites, strays, activeView, activeDialog, currentFolder, currentFolderSource, listed, starting>>
    BY <1>1 DEF HandleSetupComplete, RunSetupWizard, favoritesVars, ShellTyped, ShellTypeOK
  <1>3. ShellTyped'
    BY <1>1, <1>2 DEF ShellTyped, ShellTypeOK
  <1>4. BrowserIInv' /\ Framed'
    BY <1>1, <1>2, Rendered DEF ShellTyped, ShellTypeOK
  <1>5. FavoritesSourced' /\ SourceNeverWrong'
    BY <1>1, <1>2 DEF FavoritesSourced, SourceNeverWrong
  <1> QED BY <1>3, <1>4, <1>5 DEF ShellIInv

(* The application starts again. *)
LEMMA ShellRestarts == ShellIInv /\ Restart => ShellIInv'
  <1> SUFFICES ASSUME ShellIInv, Restart PROVE ShellIInv'
    OBVIOUS
  <1>1. ShellTypeOK /\ BrowserIInv
    BY DEF ShellIInv, ShellTyped
  <1>2. /\ showSetupWizard' = ~setupComplete /\ activeView' = "all-files" /\ activeDialog' = "none"
        /\ currentFolder' = NoPath /\ currentFolderSource' = NoSource /\ starting' = NoSource
        /\ favorites' = Picked(favorites, {i \in DOMAIN favorites : favorites[i].source \in listed}) /\ strays' = strays
        /\ UNCHANGED <<setupComplete, listed>> /\ Render
    BY DEF Restart, CleanFavorites, Filter
  <1>3. favorites' \in Seq(Star) /\ strays' \in BOOLEAN /\ FavoritesSourced'
    BY <1>2, StarsCleaned
  <1>4. BrowserIInv' /\ Framed'
    BY <1>1, <1>2, Rendered
  <1>5. showSetupWizard' \in BOOLEAN
    BY <1>2
  <1>6. ShellTypeOK'
    BY <1>1, <1>2, <1>5 DEF ShellTypeOK, View
  <1>7. SourceNeverWrong'
    BY <1>2 DEF SourceNeverWrong
  <1> QED BY <1>3, <1>4, <1>6, <1>7 DEF ShellIInv, ShellTyped

LEMMA ShellFresh == ShellInit => ShellIInv
  <1> SUFFICES ASSUME ShellInit PROVE ShellIInv
    OBVIOUS
  <1>1. BrowserIInv /\ rootPath = NoPath
    BY BrowserFresh DEF ShellInit, BrowserInit
  <1>2. /\ favorites = <<>> /\ strays = FALSE /\ setupComplete \in BOOLEAN /\ showSetupWizard = ~setupComplete
        /\ activeView = "all-files" /\ activeDialog = "none" /\ currentFolder = NoPath
        /\ currentFolderSource = NoSource /\ listed = {} /\ starting = NoSource
    BY DEF ShellInit, FavoritesInit
  <1>3. favorites \in Seq(Star) /\ DOMAIN favorites = {} /\ strays \in BOOLEAN /\ showSetupWizard \in BOOLEAN
    <2>1. showSetupWizard \in BOOLEAN /\ strays \in BOOLEAN
      BY <1>2
    <2>2. favorites \in Seq(Star) /\ DOMAIN favorites = {}
      BY <1>2
    <2> QED BY <2>1, <2>2
  <1>4. ShellTyped
    BY <1>2, <1>3 DEF ShellTyped, ShellTypeOK, View
  <1>5. Framed /\ FavoritesSourced /\ SourceNeverWrong
    BY <1>1, <1>2, <1>3 DEF Framed, FavoritesSourced, SourceNeverWrong
  <1> QED BY <1>1, <1>4, <1>5 DEF ShellIInv

LEMMA ShellSteps == ShellIInv /\ [ShellNext]_vars => ShellIInv'
  <1> SUFFICES ASSUME ShellIInv, [ShellNext]_vars PROVE ShellIInv'
    OBVIOUS
  <1>1. CASE UNCHANGED vars
    <2>1. /\ UNCHANGED browserVars /\ UNCHANGED shellVars /\ favorites' = favorites /\ strays' = strays
      BY <1>1 DEF vars, favoritesVars
    <2>2. favorites' \in Seq(Star) /\ strays' \in BOOLEAN /\ FavoritesSourced'
      BY <2>1 DEF ShellIInv, ShellTyped, FavoritesSourced
    <2> QED BY <2>1, <2>2, StarsOnly
  <1>2. CASE ShellClicks
    BY <1>2, ViewClicked, StarToggled, StarRemoved, DialogsKeep, WizardShown DEF ShellClicks
  <1>3. CASE ShellNext /\ ~ShellClicks
    BY <1>3, BrowserMoves, DialogsKeep, SourceStarted, HistoryChanged, WizardShown, ShellRestarts DEF ShellNext
  <1> QED BY <1>1, <1>2, <1>3

LEMMA ShellAlways == ShellSpec => []ShellIInv
  BY ShellFresh, ShellSteps, PTL DEF ShellSpec

(* The file browser is consistent, whatever is clicked while listings and  *)
(* deletions are under way and the frame changes its root: the rows and    *)
(* the selection belong to the folder it names, and that folder lies under *)
(* the root, unless the root changed while something was outstanding.      *)
THEOREM BrowserConsistent == ShellSpec => []BrowserInv
  <1>1. ShellIInv => BrowserInv
    BY BrowserIInvImplies DEF ShellIInv
  <1> QED BY <1>1, ShellAlways, PTL

(* The screen belongs to the last click: once no listing is outstanding    *)
(* the browser shows the folder asked for last with exactly what is in it, *)
(* deletions of a browser that is gone included, or an error.              *)
THEOREM LastClickWins == ShellSpec => []ShowsLastAsked
  <1>1. ShellIInv => ShowsLastAsked
    BY BrowserIInvImplies DEF ShellIInv
  <1> QED BY <1>1, ShellAlways, PTL

(* The folder on the screen and every star belong to the share or          *)
(* connection they are labelled with, as long as no star is given while a  *)
(* listing is outstanding.                                                 *)
THEOREM SourcesRight == ShellSpec => []SourcesInv
  <1>1. ShellIInv => SourcesInv
    BY DEF ShellIInv, ShellTyped, SourcesInv
  <1> QED BY <1>1, ShellAlways, PTL

(* After a change of the history no star refers to a source that left it:  *)
(* the effect runs in the step that changes the list, with the new list.   *)
THEOREM StarsAreTidied == ShellSpec => StarsTidied
  <1>1. ShellIInv /\ [ShellNext]_vars
          => [listed' # listed => \A i \in DOMAIN favorites' : favorites'[i].source \in listed']_vars
    <2> SUFFICES ASSUME ShellIInv, ShellNext, listed' # listed
                 PROVE  \A i \in DOMAIN favorites' : favorites'[i].source \in listed'
      OBVIOUS
    <2>1. Started \/ HistoryChanges
      BY DEF ShellNext, ShellClicks, ChangeView, BrowseAllFiles, BackToAllFiles, BrowseCard, BrowseFound,
             ToggleFavorite, OpenFavorite, RemoveFavorite, OpenDialog, CloseDialog, RunSetupWizard, Show,
             DeepLink, Start, StartFails, HandleSetupComplete, Restart, shellVars
    <2>2. favorites' = Picked(favorites, {i \in DOMAIN favorites : favorites[i].source \in listed'}) /\ strays' = strays
      BY <2>1 DEF Started, HistoryChanges, CleanFavorites, Filter
    <2> QED BY <2>2, StarsCleaned
  <1> QED BY <1>1, ShellAlways, PTL DEF ShellSpec, StarsTidied

-----------------------------------------------------------------------------
(* The join page of the web site.                                          *)

JoinScreen ==
    [code : Code, mounted : BOOLEAN, platform : Device,
     release : Releases \cup {NotLoaded}, timer : BOOLEAN, launches : 0 .. 1,
     check : {"no", "set", "done"}, failed : BOOLEAN,
     copied : BOOLEAN, timers : 0 .. MaxCopies]

(* The effect's timer runs once: it is set when the page mounts, and it    *)
(* has not opened the application while it still runs.                     *)
JoinIInv ==
    url = "/j" => /\ screen \in JoinScreen
                  /\ screen.timer \/ ~screen.mounted => screen.launches = 0
                  /\ screen.timer => screen.mounted

(* A code of the host's length survives the page, in each of the texts. *)
LEMMA HostCodeReadBack ==
    ASSUME NEW code \in Code, code.len = 6, NEW s \in {"wormhole", "https", "none"},
           NEW r, s = "https" => r = "j"
    PROVE  extractJoinCode(Text(s, r, normalizeJoinCode(code))) = HostCode
  <1>1. PICK n : n = normalizeJoinCode(code)
    OBVIOUS
  <1>2. n.len = 6 /\ n.dashed = TRUE /\ n.upper = TRUE /\ n = [len |-> 6, upper |-> TRUE, dashed |-> TRUE]
    BY <1>1 DEF normalizeJoinCode, Stripped, Code
  <1>3. formatJoinCode(Stripped(n)) = HostCode
    BY <1>2 DEF formatJoinCode, Stripped, HostCode
  <1>4. PICK t : t = Text(s, r, n)
    OBVIOUS
  <1>5. t.scheme = s /\ t.route = r /\ t.code = n
    BY <1>4 DEF Text
  <1>6. extractJoinCode(t) = formatJoinCode(Stripped(n))
    <2>1. CASE s = "wormhole"
      BY <1>2, <1>5, <2>1 DEF extractJoinCode
    <2>2. CASE s = "https"
      BY <1>2, <1>5, <2>2 DEF extractJoinCode
    <2>3. CASE s = "none"
      BY <1>2, <1>5, <2>3 DEF extractJoinCode
    <2> QED BY <2>1, <2>2, <2>3
  <1> QED BY <1>1, <1>3, <1>4, <1>6

(* A text that is too short is not read as a code. *)
LEMMA ShortCodeRefused ==
    ASSUME NEW code \in Code, code.len < 6, NEW r
    PROVE  extractJoinCode(Text("wormhole", r, normalizeJoinCode(code))) = NoCode
  <1>1. PICK n : n = normalizeJoinCode(code)
    OBVIOUS
  <1>2. code.len \in Nat
    BY CodeAssumption DEF Code
  <1>3. n.len = code.len /\ n.dashed = FALSE
    <2>1. n.len = code.len /\ n.dashed = (code.len = 6)
      BY <1>1 DEF normalizeJoinCode, Stripped, Code
    <2>2. (code.len = 6) = FALSE
      BY <1>2
    <2> QED BY <2>1, <2>2
  <1>4. PICK t : t = Text("wormhole", r, n)
    OBVIOUS
  <1>5. t.scheme = "wormhole" /\ t.code = n
    BY <1>4 DEF Text
  <1>6. ~(n.len + 0 >= 6)
    BY <1>2, <1>3
  <1>7. extractJoinCode(t) = NoCode
    BY <1>3, <1>5, <1>6 DEF extractJoinCode
  <1> QED BY <1>1, <1>4, <1>7

(* What the page gives away is read back: isValidJoinCode lets it offer    *)
(* its buttons for codes of six letters and more only, and the deep link   *)
(* that it tries by itself is too short when the code is.                  *)
LEMMA JoinIInvImplies == JoinIInv => JoinInv
  <1> SUFFICES ASSUME JoinIInv, url = "/j" PROVE JoinInv
    BY DEF JoinInv, CodeSurvives, LaunchedOnce
  <1>1. screen.launches <= 1
    BY DEF JoinIInv, JoinScreen
  <1>2. PICK code \in Code : code = screen.code
    BY DEF JoinIInv, JoinScreen
  <1>3. code.len \in Nat
    BY CodeAssumption DEF Code
  <1>4. PICK joinCode : joinCode = normalizeJoinCode(code)
    OBVIOUS
  <1>5. joinCode.len = code.len
    BY <1>4 DEF normalizeJoinCode, Stripped, Code
  <1>6. ASSUME NEW text \in HandsOut
        PROVE  /\ code.len = 6 => extractJoinCode(text) = HostCode
               /\ code.len < 6 => extractJoinCode(text) = NoCode
    <2>1. \/ text = Text("wormhole", "join", joinCode)
          \/ isValidJoinCode(joinCode) /\ text = Text("none", "none", joinCode)
          \/ isValidJoinCode(joinCode) /\ text = Text("https", "j", joinCode)
      BY <1>2, <1>4, <1>6 DEF HandsOut, makeShareLink
    <2>2. code.len = 6 => extractJoinCode(text) = HostCode
      BY <1>4, <2>1, HostCodeReadBack
    <2>3. ASSUME code.len < 6 PROVE extractJoinCode(text) = NoCode
      <3>1. ~isValidJoinCode(joinCode)
        BY <1>3, <1>5, <2>3 DEF isValidJoinCode
      <3> QED BY <1>4, <2>1, <2>3, <3>1, ShortCodeRefused
    <2> QED BY <2>2, <2>3
  <1> QED BY <1>1, <1>2, <1>6 DEF JoinInv, CodeSurvives, LaunchedOnce, HostCode

(* A visitor arrives at the join page: its component starts afresh. *)
LEMMA JoinFresh ==
    ASSUME NEW p, url' = p, screen' \in FreshScreens(p)
    PROVE  JoinIInv'
  <1> SUFFICES ASSUME p = "/j" PROVE JoinIInv'
    BY DEF JoinIInv
  <1>1. PICK c \in Code : screen' = FreshJoin(c)
    BY DEF FreshScreens, DownloadPages
  <1>2. PICK s : s = FreshJoin(c)
    OBVIOUS
  <1>3. s \in JoinScreen
    BY <1>2, SiteAssumption DEF FreshJoin, JoinScreen, Device
  <1>4. s.timer = FALSE /\ s.mounted = FALSE /\ s.launches = 0
    BY <1>2 DEF FreshJoin
  <1> QED BY <1>1, <1>2, <1>3, <1>4 DEF JoinIInv

(* The steps of the join page. *)
LEMMA JoinSteps ==
    ASSUME JoinIInv, url = "/j", url' = url,
           \/ ReleaseArrives \/ HandleCopy \/ CopyTimer
           \/ JoinMounts \/ TryDeepLink \/ CheckFocus
    PROVE  JoinIInv'
  <1>1. /\ screen \in JoinScreen
        /\ screen.timer \/ ~screen.mounted => screen.launches = 0
        /\ screen.timer => screen.mounted
    BY DEF JoinIInv
  <1>2. CASE ReleaseArrives
    <2>1. PICK assets \in Releases : screen' = [screen EXCEPT !.release = assets]
      BY <1>2 DEF ReleaseArrives
    <2> QED BY <1>1, <2>1 DEF JoinIInv, JoinScreen
  <1>3. CASE HandleCopy
    <2>1. PICK t : t = screen.timers + 1
      OBVIOUS
    <2>2. screen' = [screen EXCEPT !.copied = TRUE, !.timers = t]
      BY <1>3, <2>1 DEF HandleCopy
    <2>3. t \in 0 .. MaxCopies
      BY <1>1, <1>3, <2>1, SiteAssumption DEF HandleCopy, JoinScreen
    <2> QED BY <1>1, <2>2, <2>3 DEF JoinIInv, JoinScreen
  <1>4. CASE CopyTimer
    <2>1. PICK t : t = screen.timers - 1
      OBVIOUS
    <2>2. screen' = [screen EXCEPT !.copied = FALSE, !.timers = t]
      BY <1>4, <2>1 DEF CopyTimer
    <2>3. t \in 0 .. MaxCopies
      BY <1>1, <1>4, <2>1, SiteAssumption DEF CopyTimer, JoinScreen
    <2> QED BY <1>1, <2>2, <2>3 DEF JoinIInv, JoinScreen
  <1>5. CASE JoinMounts
    <2>1. PICK agent \in Agent : 
            screen' = [screen EXCEPT !.mounted = TRUE, !.platform = detectPlatform(agent),
                                     !.timer = TRUE]
      BY <1>5 DEF JoinMounts
    <2>2. detectPlatform(agent) \in Device
      BY DEF detectPlatform, Device
    <2>3. screen.launches = 0
      BY <1>1, <1>5 DEF JoinMounts
    <2> QED BY <1>1, <2>1, <2>2, <2>3 DEF JoinIInv, JoinScreen
  <1>6. CASE TryDeepLink
    <2>1. screen.launches = 0 /\ screen.mounted
      BY <1>1, <1>6 DEF TryDeepLink
    <2>2. PICK n : n = screen.launches + 1
      OBVIOUS
    <2>3. screen' = [screen EXCEPT !.timer = FALSE, !.launches = n, !.check = "set"]
      BY <1>6, <2>2 DEF TryDeepLink
    <2>4. n \in 0 .. 1
      BY <2>1, <2>2
    <2>5. screen'.timer = FALSE /\ screen'.mounted = screen.mounted /\ screen' \in JoinScreen
      BY <1>1, <2>3, <2>4 DEF JoinScreen
    <2> QED BY <2>1, <2>5 DEF JoinIInv
  <1>7. CASE CheckFocus
    <2>1. PICK focused \in BOOLEAN, inTime \in BOOLEAN :
             screen' = [screen EXCEPT !.check = "done", !.failed = focused /\ inTime]
      BY <1>7 DEF CheckFocus
    <2> QED BY <1>1, <2>1 DEF JoinIInv, JoinScreen
  <1> QED BY <1>2, <1>3, <1>4, <1>5, <1>6, <1>7

(* No step of the site spoils the join page. *)
LEMMA JoinStep == ASSUME JoinIInv, [ScreensNext]_screensVars PROVE JoinIInv'
  <1>1. CASE UNCHANGED siteVars
    BY <1>1 DEF siteVars, JoinIInv
  <1>2. CASE SiteNext
    <2>1. ASSUME NEW p, Arrive(p) \/ LoadAddress(p) PROVE JoinIInv'
      <3>1. url' = p /\ screen' \in FreshScreens(p)
        BY <2>1 DEF Arrive, LoadAddress
      <3> QED BY <3>1, JoinFresh
    <2>2. CASE \E p \in Offered : Follow(p)
      BY <2>1, <2>2 DEF Follow
    <2>3. CASE \E p \in Page : HistoryMove(p) \/ LoadAddress(p)
      BY <2>1, <2>3 DEF HistoryMove
    <2>4. CASE \/ \E s \in Section : ToggleSection(s) \/ ToggleSheetSection(s)
               \/ OpenSheet \/ CloseSheet \/ Resize
      <3>1. UNCHANGED <<url, screen>>
        BY <2>4 DEF ToggleSection, ToggleSheetSection, OpenSheet, CloseSheet, Resize
      <3> QED BY <3>1 DEF JoinIInv
    <2>5. CASE HomeMounts \/ HomeRelease \/ (\E i \in Faq : ToggleFaq(i)) \/ FetchReleases
      <3>1. url' = url /\ url # "/j"
        BY <2>5 DEF HomeMounts, HomeRelease, ToggleFaq, FetchReleases
      <3> QED BY <3>1 DEF JoinIInv
    <2>6. CASE ReleaseArrives \/ HandleCopy \/ CopyTimer \/ JoinMounts \/ TryDeepLink \/ CheckFocus
      <3>1. url' = url
        BY <2>6 DEF ReleaseArrives, HandleCopy, CopyTimer, JoinMounts, TryDeepLink, CheckFocus
      <3>2. CASE url = "/j"
        BY <2>6, <3>1, <3>2, JoinSteps
      <3>3. CASE url # "/j"
        BY <3>1, <3>3 DEF JoinIInv
      <3> QED BY <3>2, <3>3
    <2> QED BY <1>2, <2>2, <2>3, <2>4, <2>5, <2>6 DEF SiteNext
  <1>3. SiteNext \/ UNCHANGED siteVars
    BY DEF ScreensNext, screensVars, OnlyWizard, OnlySettings, OnlyIndex, OnlyLibrary,
           OnlyTransfers, OnlySite
  <1> QED BY <1>1, <1>2, <1>3

(* A join link works, however the host's code was typed into the address:  *)
(* the page normalizes it, and whatever it opens or copies is read by      *)
(* extractJoinCode of the desktop application as the host's code, a text   *)
(* too short as none; and the page opens the application once, although    *)
(* its effect runs again when mounted and attemptedDeepLink are set.       *)
THEOREM JoinLinksWork == ScreensSpec => []JoinInv
  <1>1. ScreensInit => JoinIInv
    BY DEF ScreensInit, SiteInit, JoinIInv
  <1>2. JoinIInv /\ [ScreensNext]_screensVars => JoinIInv'
    BY JoinStep
  <1> QED BY <1>1, <1>2, JoinIInvImplies, PTL DEF ScreensSpec

-----------------------------------------------------------------------------
(* The web site.                                                           *)

(* The links of the site: all lead to pages but those of the API page. *)
LEMMA LinksStay ==
    ASSUME NEW p \in Page \ {"/"}
    PROVE  PageLinks[p] \subseteq Page \cup PageLinks["/docs/api"]
  <1>1. PageLinks["/docs/api"] = ApiPage
    BY DEF PageLinks, Page
  <1>2. CASE p \in {"/about", "/changelog", "/docs", "/docs/api",
                    "/docs/api/building-clients", "/docs/api/errors",
                    "/docs/api/messages", "/docs/architecture",
                    "/docs/architecture/caching", "/docs/architecture/fuse",
                    "/docs/architecture/protocol", "/docs/architecture/quic",
                    "/docs/architecture/signal-server", "/docs/cli"}
    <2>1. PageLinks[p] \in {AboutPage, ChangelogPage, DocsPage, ApiPage,
                            BuildingClientsPage, ErrorsPage, MessagesPage,
                            ArchitecturePage, CachingArchitecturePage,
                            FuseArchitecturePage, ProtocolArchitecturePage,
                            QuicArchitecturePage, SignalServerPage, CLIPage}
      BY <1>2 DEF PageLinks, Page
    <2>2. \A links \in {AboutPage, ChangelogPage, DocsPage, ApiPage, BuildingClientsPage,
                         ErrorsPage, MessagesPage, ArchitecturePage,
                         CachingArchitecturePage, FuseArchitecturePage,
                         ProtocolArchitecturePage, QuicArchitecturePage, SignalServerPage,
                         CLIPage} :
             links \subseteq Page \cup ApiPage
      BY DEF Page, QuickLinks, CommandGroups, AboutPage, ChangelogPage, DocsPage, ApiPage,
             BuildingClientsPage, ErrorsPage, MessagesPage, ArchitecturePage,
             CachingArchitecturePage, FuseArchitecturePage, ProtocolArchitecturePage,
             QuicArchitecturePage, SignalServerPage, CLIPage
    <2> QED BY <1>1, <2>1, <2>2
  <1>3. CASE p \in {"/docs/cli/all-commands", "/docs/cli/cache", "/docs/cli/config",
                    "/docs/cli/host", "/docs/cli/mount", "/docs/cli/peers",
                    "/docs/cli/signal", "/docs/cli/status", "/docs/cli/sync",
                    "/docs/configuration", "/docs/configuration/cache",
                    "/docs/configuration/env", "/docs/configuration/examples",
                    "/docs/configuration/network"}
    <2>1. PageLinks[p] \in {AllCommandsPage, CacheCommandPage, ConfigCommandPage,
                            HostCommandPage, MountCommandPage, PeersCommandPage,
                            SignalCommandPage, StatusCommandPage, SyncCommandPage,
                            ConfigurationPage, ConfigurationCachePage, EnvPage,
                            ExamplesPage, ConfigurationNetworkPage}
      BY <1>3 DEF PageLinks, Page
    <2>2. \A links \in {AllCommandsPage, CacheCommandPage, ConfigCommandPage,
                         HostCommandPage, MountCommandPage, PeersCommandPage,
                         SignalCommandPage, StatusCommandPage, SyncCommandPage,
                         ConfigurationPage, ConfigurationCachePage, EnvPage, ExamplesPage,
                         ConfigurationNetworkPage} :
             links \subseteq Page \cup ApiPage
      BY DEF Page, ApiPage, AllCommandsPage, CacheCommandPage, ConfigCommandPage,
             HostCommandPage, MountCommandPage, PeersCommandPage, SignalCommandPage,
             StatusCommandPage, SyncCommandPage, ConfigurationPage,
             ConfigurationCachePage, EnvPage, ExamplesPage, ConfigurationNetworkPage
    <2> QED BY <1>1, <2>1, <2>2
  <1>4. CASE p \in {"/docs/installation", "/docs/performance", "/docs/performance/cache",
                    "/docs/performance/network", "/docs/performance/run-benchmarks",
                    "/docs/performance/tuning", "/docs/quickstart", "/docs/requirements",
                    "/docs/security", "/docs/security/access-control",
                    "/docs/security/audit", "/docs/security/encryption",
                    "/docs/security/pake", "/docs/security/threat-model"}
    <2>1. PageLinks[p] \in {InstallationPage, PerformancePage, PerformanceCachePage,
                            PerformanceNetworkPage, RunBenchmarksPage, TuningPage,
                            QuickStartPage, RequirementsPage, SecurityPage,
                            AccessControlPage, AuditPage, EncryptionPage, PakePage,
                            ThreatModelPage}
      BY <1>4 DEF PageLinks, Page
    <2>2. \A links \in {InstallationPage, PerformancePage, PerformanceCachePage,
                         PerformanceNetworkPage, RunBenchmarksPage, TuningPage,
                         QuickStartPage, RequirementsPage, SecurityPage,
                         AccessControlPage, AuditPage, EncryptionPage, PakePage,
                         ThreatModelPage} :
             links \subseteq Page \cup ApiPage
      BY DEF Page, ApiPage, InstallationPage, PerformancePage, PerformanceCachePage,
             PerformanceNetworkPage, RunBenchmarksPage, TuningPage, QuickStartPage,
             RequirementsPage, SecurityPage, AccessControlPage, AuditPage, EncryptionPage,
             PakePage, ThreatModelPage
    <2> QED BY <1>1, <2>1, <2>2
  <1>5. CASE p \in {"/docs/self-hosting", "/docs/self-hosting/docker",
                    "/docs/self-hosting/monitoring", "/docs/self-hosting/production",
                    "/docs/troubleshooting", "/docs/troubleshooting/fuse",
                    "/docs/troubleshooting/help", "/docs/troubleshooting/network",
                    "/docs/troubleshooting/performance", "/download/linux",
                    "/download/macos", "/download/windows", "/pricing", "/j"}
    <2>1. PageLinks[p] \in {SelfHostingPage, DockerPage, MonitoringPage, ProductionPage,
                            TroubleshootingPage, FusePage, HelpPage,
                            TroubleshootingNetworkPage, TroubleshootingPerformancePage,
                            LinuxDownloadPage, MacOSDownloadPage, WindowsDownloadPage,
                            PricingPage, JoinPageLinks}
      BY <1>5 DEF PageLinks, Page
    <2>2. \A links \in {SelfHostingPage, DockerPage, MonitoringPage, ProductionPage,
                         TroubleshootingPage, FusePage, HelpPage,
                         TroubleshootingNetworkPage, TroubleshootingPerformancePage,
                         LinuxDownloadPage, MacOSDownloadPage, WindowsDownloadPage,
                         PricingPage, JoinPageLinks} :
             links \subseteq Page \cup ApiPage
      BY DEF Page, ApiPage, SelfHostingPage, DockerPage, MonitoringPage, ProductionPage,
             TroubleshootingPage, FusePage, HelpPage, TroubleshootingNetworkPage,
             TroubleshootingPerformancePage, LinuxDownloadPage, MacOSDownloadPage,
             WindowsDownloadPage, PricingPage, JoinPageLinks
    <2> QED BY <1>1, <2>1, <2>2
  <1>. QED
    BY <1>2, <1>3, <1>4, <1>5 DEF Page

LEMMA NavigationStays ==
    /\ \A open \in SUBSET Section : Entries(open) \subseteq Page
    /\ Section \subseteq Page
  <1>1. \A s \in Section : navigation[s] \subseteq Page
    BY DEF navigation, Section, Page, ApiReference
  <1>2. Section \subseteq Page
    BY DEF Section, Page
  <1>. QED
    BY <1>1, <1>2 DEF Entries

(* Whatever a page offers leads to a page or to what the API page promises. *)
LEMMA OfferedStays ==
    ASSUME SiteTypeOK, NEW p \in Offered
    PROVE  p \in Page \cup PageLinks["/docs/api"]
  <1>1. CASE url = "/"
    <2>1. p \in HomeLinks
      BY <1>1 DEF Offered, DocsPages
    <2>2. HomeDownloadButton \subseteq Page
      BY DEF HomeDownloadButton, getPlatformDownloadUrl, Page
    <2>3. HomeHeader \cup HomeAllDownloads \cup HomeFooter \subseteq Page
      BY DEF HomeHeader, HomeAllDownloads, HomeFooter, Page
    <2>. QED
      BY <2>1, <2>2, <2>3 DEF HomeLinks
  <1>2. CASE url \in DocsPages
    <2>1. url # "/" /\ url \in Page \ {"/"}
      BY <1>2 DEF DocsPages
    <2>2. p \in DocsLinks
      BY <1>2, <2>1 DEF Offered
    <2>3. layout.open \in SUBSET Section /\ layout.sheetOpen \in SUBSET Section
      BY <1>2 DEF SiteTypeOK
    <2>4. Entries(layout.open) \subseteq Page /\ Entries(layout.sheetOpen) \subseteq Page
      BY <2>3, NavigationStays
    <2>5. {"/", "/docs"} \subseteq Page
      BY DEF Page
    <2>6. PageLinks[url] \subseteq Page \cup PageLinks["/docs/api"]
      BY <2>1, LinksStay
    <2>. QED
      BY <2>2, <2>4, <2>5, <2>6 DEF DocsLinks, DocsHeader
  <1>3. CASE url # "/" /\ url \notin DocsPages /\ url \in Page
    <2>1. p \in PageLinks[url]
      BY <1>3 DEF Offered
    <2>. QED
      BY <1>3, <2>1, LinksStay
  <1>4. CASE url # "/" /\ url \notin DocsPages /\ url \notin Page
    BY <1>4 DEF Offered
  <1>. QED
    BY <1>1, <1>2, <1>3, <1>4

(* Every page is linked to from the home page or the navigation. *)
LEMMA PagesListed ==
    \A p \in (Page \ {"/j"}) \cup Sitemap :
        p \in {"/"} \cup HomeHeader \cup HomeAllDownloads \cup HomeFooter \cup Entries(Section)
  <1>1. Sitemap \subseteq Page \ {"/j"}
    BY DEF Sitemap, Page
  <1>2. \A p \in Page \ {"/j"} :
           p \in {"/"} \cup HomeHeader \cup HomeAllDownloads \cup HomeFooter \cup Entries(Section)
    BY DEF Page, HomeHeader, HomeAllDownloads, HomeFooter, Entries, navigation, Section,
           ApiReference
  <1>. QED
    BY <1>1, <1>2

(* Every page leads to the home page, which leads to the documentation:    *)
(* three clicks are enough for whatever is listed.                         *)
LEMMA ThreeClicks ==
    ASSUME NEW p \in Page
    PROVE  (Page \ {"/j"}) \cup Sitemap \subseteq WithinThree[p]
  <1>1. "/" \in Page /\ "/docs" \in Page /\ "/docs" \in DocsPages /\ "/docs" # "/"
    BY DEF Page, DocsPages, DownloadPages
  <1>2. "/" \in WithinOne[p]
    <2>1. CASE p = "/"
      BY <2>1 DEF WithinOne
    <2>2. CASE p \in DocsPages
      <3>1. p # "/" /\ "/" \in AllLinks[p]
        BY <2>2 DEF AllLinks, DocsPages, DocsHeader
      <3>. QED
        BY <1>1, <3>1 DEF WithinOne
    <2>3. CASE p # "/" /\ p \notin DocsPages
      <3>1. "/" \in PageLinks[p]
        BY <2>3 DEF Page, DocsPages, DownloadPages, PageLinks, AboutPage, PricingPage,
                    ChangelogPage, MacOSDownloadPage, WindowsDownloadPage, LinuxDownloadPage,
                    JoinPageLinks
      <3>2. "/" \in AllLinks[p]
        BY <2>3, <3>1 DEF AllLinks
      <3>. QED
        BY <1>1, <3>2 DEF WithinOne
    <2>. QED
      BY <2>1, <2>2, <2>3
  <1>3. /\ {"/"} \cup HomeHeader \cup HomeAllDownloads \cup HomeFooter \subseteq WithinOne["/"]
        /\ "/docs" \in WithinOne["/"]
    BY <1>1 DEF WithinOne, AllLinks, HomeHeader, HomeAllDownloads, HomeFooter, Page
  <1>4. Entries(Section) \subseteq WithinOne["/docs"]
    <2>1. Entries(Section) \subseteq AllLinks["/docs"]
      BY <1>1 DEF AllLinks
    <2>. QED
      BY <1>1, <2>1, NavigationStays DEF WithinOne
  <1>5. \A r \in Page : r \in WithinOne[r]
    BY DEF WithinOne
  <1>6. WithinThree[p] = UNION {UNION {WithinOne[r] : r \in WithinOne[q]} : q \in WithinOne[p]}
    BY DEF WithinThree
  <1>7. UNION {WithinOne[r] : r \in WithinOne["/"]} \subseteq WithinThree[p]
    BY <1>2, <1>6
  <1>8. WithinOne["/"] \subseteq WithinThree[p] /\ WithinOne["/docs"] \subseteq WithinThree[p]
    BY <1>1, <1>3, <1>5, <1>7
  <1>. QED
    BY <1>3, <1>4, <1>8, PagesListed

(* Downloads.  find answers with a file that has one of the pieces. *)
LEMMA FindFacts ==
    ASSUME NEW assets \in Seq(AssetTable), NEW pieces
    PROVE  \/ Find(assets, pieces) = NoAsset
           \/ /\ Find(assets, pieces) \in AssetTable
              /\ Find(assets, pieces).has \cap pieces # {}
  <1>1. PICK hits : hits = {i \in DOMAIN assets : assets[i].has \cap pieces # {}}
    OBVIOUS
  <1>2. CASE hits = {}
    BY <1>1, <1>2 DEF Find
  <1>3. CASE hits # {}
    <2>1. hits \in SUBSET Nat
      BY <1>1
    <2>2. \E i \in hits : \A j \in hits : i <= j
      BY <1>3, <2>1, LeastElement
    <2>3. PICK i : i = CHOOSE k \in hits : \A j \in hits : k <= j
      OBVIOUS
    <2>4. i \in hits
      BY <2>2, <2>3
    <2>5. Find(assets, pieces) = assets[i]
      BY <1>1, <1>3, <2>3 DEF Find
    <2>. QED
      BY <1>1, <2>4, <2>5
  <1>. QED
    BY <1>2, <1>3

LEMMA ReleaseIsSeq ==
    ASSUME NEW assets \in Releases
    PROVE  assets \in Seq(AssetTable)
  <1>1. PICK n \in 0 .. MaxAssets : assets \in [1 .. n -> AssetTable]
    BY DEF Releases
  <1>. QED
    BY <1>1

(* The pieces of a name tell the system. *)
LEMMA PiecesTell ==
    ASSUME NEW a \in AssetTable
    PROVE  /\ a.has \cap {".dmg"} # {} => a.os = "mac"
           /\ a.has \cap {"-setup.exe"} # {} => a.os = "windows"
           /\ a.has \cap {".msi"} # {} => a.os = "windows"
           /\ a.has \cap {".exe"} # {} => a.os = "windows"
           /\ a.has \cap {"-setup.exe", ".msi"} # {} => a.os = "windows"
           /\ a.has \cap {".appimage"} # {} => a.os = "linux"
           /\ a.has \cap {".deb"} # {} => a.os = "linux"
           /\ a.has \cap {".rpm"} = {}
  BY DEF AssetTable

LEMMA FoundFits ==
    ASSUME NEW assets \in Seq(AssetTable)
    PROVE  /\ ForSystem(Find(assets, {".dmg"}), "mac")
           /\ ForSystem(Find(assets, {"-setup.exe"}), "windows")
           /\ ForSystem(Find(assets, {".msi"}), "windows")
           /\ ForSystem(Find(assets, {".exe"}), "windows")
           /\ ForSystem(Find(assets, {"-setup.exe", ".msi"}), "windows")
           /\ ForSystem(Find(assets, {".appimage"}), "linux")
           /\ ForSystem(Find(assets, {".deb"}), "linux")
           /\ ForSystem(Find(assets, {".rpm"}), "linux")
  <1>1. ForSystem(Find(assets, {".dmg"}), "mac")
    BY FindFacts, PiecesTell DEF ForSystem
  <1>2. ForSystem(Find(assets, {"-setup.exe"}), "windows")
    BY FindFacts, PiecesTell DEF ForSystem
  <1>3. ForSystem(Find(assets, {".msi"}), "windows")
    BY FindFacts, PiecesTell DEF ForSystem
  <1>4. ForSystem(Find(assets, {".exe"}), "windows")
    BY FindFacts, PiecesTell DEF ForSystem
  <1>5. ForSystem(Find(assets, {"-setup.exe", ".msi"}), "windows")
    BY FindFacts, PiecesTell DEF ForSystem
  <1>6. ForSystem(Find(assets, {".appimage"}), "linux")
    BY FindFacts, PiecesTell DEF ForSystem
  <1>7. ForSystem(Find(assets, {".deb"}), "linux")
    BY FindFacts, PiecesTell DEF ForSystem
  <1>8. ForSystem(Find(assets, {".rpm"}), "linux")
    BY FindFacts, PiecesTell DEF ForSystem
  <1>. QED
    BY <1>1, <1>2, <1>3, <1>4, <1>5, <1>6, <1>7, <1>8

LEMMA ElseFits ==
    ASSUME NEW a, NEW b, NEW os, ForSystem(a, os), ForSystem(b, os)
    PROVE  ForSystem(Else(a, b), os)
  BY DEF ForSystem, Else

(* The files that the download pages and the join page lead to. *)
LEMMA PagesFit ==
    ASSUME NEW assets \in Releases
    PROVE  /\ ForSystem(dmgAsset(assets), "mac")
           /\ ForSystem(installerAsset(assets), "windows")
           /\ ForSystem(appImageAsset(assets), "linux")
           /\ ForSystem(debAsset(assets), "linux")
           /\ Find(assets, {".dmg"}) # NoAsset => ForSystem(getAssetForPlatform(assets, "mac"), "mac")
           /\ ForSystem(getAssetForPlatform(assets, "windows"), "windows")
           /\ ForSystem(getAssetForPlatform(assets, "linux"), "linux")
  <1>1. assets \in Seq(AssetTable)
    BY ReleaseIsSeq
  <1>2. ForSystem(dmgAsset(assets), "mac")
    <2>1. PICK K : K = {i \in DOMAIN assets : ".dmg" \in assets[i].has
                              /\ {"universal", "aarch64", "arm64"} \cap assets[i].has # {}}
      OBVIOUS
    <2>2. K \in SUBSET DOMAIN assets
      BY <2>1
    <2>3. Picked(assets, K) \in Seq(AssetTable)
      BY <1>1, <2>2, PickedFacts
    <2>4. dmgAsset(assets) = Else(Find(Picked(assets, K), {".dmg"}), Find(assets, {".dmg"}))
      BY <2>1 DEF dmgAsset, Filter
    <2>5. ForSystem(Find(Picked(assets, K), {".dmg"}), "mac")
      BY <2>3, FoundFits
    <2>. QED
      BY <1>1, <2>4, <2>5, FoundFits, ElseFits
  <1>3. ForSystem(installerAsset(assets), "windows")
    <2>1. ForSystem(Else(Find(assets, {".msi"}), Find(assets, {".exe"})), "windows")
      BY <1>1, FoundFits, ElseFits
    <2>. QED
      BY <1>1, <2>1, FoundFits, ElseFits DEF installerAsset
  <1>4. ForSystem(appImageAsset(assets), "linux") /\ ForSystem(debAsset(assets), "linux")
    BY <1>1, FoundFits DEF appImageAsset, debAsset
  <1>5. ASSUME Find(assets, {".dmg"}) # NoAsset
        PROVE  ForSystem(getAssetForPlatform(assets, "mac"), "mac")
    <2>1. getAssetForPlatform(assets, "mac") = Find(assets, {".dmg"})
      BY <1>5 DEF getAssetForPlatform, Else
    <2>. QED
      BY <1>1, <2>1, FoundFits
  <1>6. ForSystem(getAssetForPlatform(assets, "windows"), "windows")
    <2>1. getAssetForPlatform(assets, "windows") =
             Else(Find(assets, {"-setup.exe", ".msi"}), Find(assets, {".exe"}))
      BY DEF getAssetForPlatform
    <2>. QED
      BY <1>1, <2>1, FoundFits, ElseFits
  <1>7. ForSystem(getAssetForPlatform(assets, "linux"), "linux")
    <2>1. getAssetForPlatform(assets, "linux") =
             Else(Find(assets, {".appimage"}), Else(Find(assets, {".deb"}), Find(assets, {".rpm"})))
      BY DEF getAssetForPlatform
    <2>2. ForSystem(Else(Find(assets, {".deb"}), Find(assets, {".rpm"})), "linux")
      BY <1>1, FoundFits, ElseFits
    <2>. QED
      BY <1>1, <2>1, <2>2, FoundFits, ElseFits
  <1>. QED
    BY <1>2, <1>3, <1>4, <1>5, <1>6, <1>7

(* What each page keeps. *)
HomeOK ==
    url = "/" =>
        screen \in [mounted : BOOLEAN, platform : Device, release : BOOLEAN, openFaq : {0} \cup Faq]

DownloadOK ==
    url \in DownloadPages =>
        /\ screen \in [release : Releases \cup {NotLoaded}, copied : BOOLEAN, timers : 0 .. MaxCopies]
        /\ screen.copied => screen.timers > 0

ChangelogOK ==
    url = "/changelog" =>
        /\ screen \in [loading : BOOLEAN, error : BOOLEAN, releases : SUBSET GitHubRelease]
        /\ screen.loading => ~screen.error
        /\ screen.loading \/ screen.error => screen.releases = {}
        /\ \A r \in screen.releases : ~r.draft

JoinOK == JoinIInv /\ (url = "/j" /\ screen.copied => screen.timers > 0)

Plain(p) == p \notin DownloadPages \cup {"/", "/changelog", "/j"}

PlainOK == Plain(url) => screen = NoState

LayoutOK ==
    /\ url \in DocsPages =>
          layout \in [wide : BOOLEAN, open : SUBSET Section, sheet : BOOLEAN,
                      sheetOpen : SUBSET Section]
    /\ url \notin DocsPages => layout = NoState

SiteIInv ==
    /\ OnlyApiPageBreaks
    /\ HomeOK /\ DownloadOK /\ ChangelogOK /\ JoinOK /\ PlainOK
    /\ LayoutOK

LEMMA SiteTypes == SiteIInv => SiteTypeOK
  <1>. SUFFICES ASSUME SiteIInv PROVE SiteTypeOK
    OBVIOUS
  <1>0. PICK T : T =
          CASE url = "/" ->
                  [mounted : BOOLEAN, platform : Device, release : BOOLEAN, openFaq : {0} \cup Faq]
            [] url \in DownloadPages ->
                  [release : Releases \cup {NotLoaded}, copied : BOOLEAN, timers : 0 .. MaxCopies]
            [] url = "/changelog" ->
                  [loading : BOOLEAN, error : BOOLEAN, releases : SUBSET GitHubRelease]
            [] url = "/j" ->
                  [code : Code, mounted : BOOLEAN, platform : Device,
                   release : Releases \cup {NotLoaded}, timer : BOOLEAN, launches : 0 .. 2,
                   check : {"no", "set", "done"}, failed : BOOLEAN,
                   copied : BOOLEAN, timers : 0 .. MaxCopies]
            [] OTHER -> {NoState}
    OBVIOUS
  <1>1. CASE url = "/"
    <2>1. T = [mounted : BOOLEAN, platform : Device, release : BOOLEAN, openFaq : {0} \cup Faq]
      BY <1>0, <1>1 DEF DownloadPages
    <2>. QED
      BY <1>0, <1>1, <2>1 DEF SiteIInv, HomeOK, LayoutOK, SiteTypeOK
  <1>2. CASE url \in DownloadPages
    <2>1. T = [release : Releases \cup {NotLoaded}, copied : BOOLEAN, timers : 0 .. MaxCopies]
      BY <1>0, <1>2 DEF DownloadPages
    <2>. QED
      BY <1>0, <1>2, <2>1 DEF SiteIInv, DownloadOK, LayoutOK, SiteTypeOK
  <1>3. CASE url = "/changelog"
    <2>1. T = [loading : BOOLEAN, error : BOOLEAN, releases : SUBSET GitHubRelease]
      BY <1>0, <1>3 DEF DownloadPages
    <2>. QED
      BY <1>0, <1>3, <2>1 DEF SiteIInv, ChangelogOK, LayoutOK, SiteTypeOK
  <1>4. CASE url = "/j"
    <2>1. T = [code : Code, mounted : BOOLEAN, platform : Device,
               release : Releases \cup {NotLoaded}, timer : BOOLEAN, launches : 0 .. 2,
               check : {"no", "set", "done"}, failed : BOOLEAN,
               copied : BOOLEAN, timers : 0 .. MaxCopies]
      BY <1>0, <1>4 DEF DownloadPages
    <2>2. screen \in JoinScreen
      BY <1>4 DEF SiteIInv, JoinOK, JoinIInv
    <2>3. screen \in T
      BY <2>1, <2>2 DEF JoinScreen
    <2>. QED
      BY <1>0, <1>4, <2>3 DEF SiteIInv, LayoutOK, SiteTypeOK
  <1>5. CASE Plain(url)
    <2>1. T = {NoState}
      BY <1>0, <1>5 DEF Plain
    <2>. QED
      BY <1>0, <1>5, <2>1 DEF SiteIInv, PlainOK, LayoutOK, SiteTypeOK
  <1>. QED
    BY <1>1, <1>2, <1>3, <1>4, <1>5 DEF Plain

LEMMA SiteImplies == SiteIInv => SiteInv
  <1>. SUFFICES ASSUME SiteIInv PROVE SiteInv
    OBVIOUS
  <1>1. EverythingNear
    BY ThreeClicks DEF EverythingNear
  <1>2. DownloadFits
    <2>1. ASSUME url \in DownloadPages, screen.release # NotLoaded
          PROVE  CASE url = "/download/macos" -> ForSystem(dmgAsset(screen.release), "mac")
                   [] url = "/download/windows" -> ForSystem(installerAsset(screen.release), "windows")
                   [] OTHER -> /\ ForSystem(appImageAsset(screen.release), "linux")
                               /\ ForSystem(debAsset(screen.release), "linux")
      <3>1. PICK assets \in Releases : assets = screen.release
        BY <2>1 DEF SiteIInv, DownloadOK
      <3>2. /\ ForSystem(dmgAsset(assets), "mac")
            /\ ForSystem(installerAsset(assets), "windows")
            /\ ForSystem(appImageAsset(assets), "linux")
            /\ ForSystem(debAsset(assets), "linux")
        BY PagesFit
      <3>. QED
        BY <3>1, <3>2
    <2>2. ASSUME url = "/j", screen.release # NotLoaded, NEW os \in {"mac", "windows", "linux"}
          PROVE  \/ ForSystem(JoinDownloads[os], os)
                 \/ os = "mac" /\ Find(screen.release, {".dmg"}) = NoAsset
      <3>1. PICK assets \in Releases : assets = screen.release
        BY <2>2 DEF SiteIInv, JoinOK, JoinIInv, JoinScreen
      <3>2. JoinDownloads[os] = getAssetForPlatform(assets, os)
        BY <2>2, <3>1 DEF JoinDownloads, getDownloadUrl
      <3>. QED
        BY <3>1, <3>2, PagesFit
    <2>. QED
      BY <2>1, <2>2 DEF DownloadFits
  <1>3. CopiedWillClear
    BY DEF CopiedWillClear, OffersCopy, SiteIInv, DownloadOK, JoinOK, DownloadPages
  <1>4. ChangelogShowsOne
    BY DEF ChangelogShowsOne, SiteIInv, ChangelogOK
  <1>. QED
    BY <1>1, <1>2, <1>3, <1>4, SiteTypes DEF SiteInv, SiteIInv

(* A component starts afresh. *)
LEMMA SiteFresh ==
    ASSUME NEW p \in Page \cup PageLinks["/docs/api"], url' = p, screen' \in FreshScreens(p),
           JoinIInv', LayoutOK'
    PROVE  SiteIInv'
  <1>1. OnlyApiPageBreaks'
    BY DEF OnlyApiPageBreaks
  <1>2. HomeOK'
    <2>. SUFFICES ASSUME p = "/" PROVE HomeOK'
      BY DEF HomeOK
    <2>1. screen' = FreshHome
      BY DEF FreshScreens, DownloadPages
    <2>. QED
      BY <2>1 DEF HomeOK, FreshHome, Device
  <1>3. DownloadOK'
    <2>. SUFFICES ASSUME p \in DownloadPages PROVE DownloadOK'
      BY DEF DownloadOK
    <2>1. screen' = FreshDownload
      BY DEF FreshScreens, DownloadPages
    <2>2. FreshDownload \in [release : Releases \cup {NotLoaded}, copied : BOOLEAN, timers : 0 .. MaxCopies]
      BY SiteAssumption DEF FreshDownload
    <2>3. FreshDownload.copied = FALSE
      BY DEF FreshDownload
    <2>. QED
      BY <2>1, <2>2, <2>3 DEF DownloadOK
  <1>4. ChangelogOK'
    <2>. SUFFICES ASSUME p = "/changelog" PROVE ChangelogOK'
      BY DEF ChangelogOK
    <2>1. screen' = FreshChangelog
      BY DEF FreshScreens, DownloadPages
    <2>2. /\ FreshChangelog \in [loading : BOOLEAN, error : BOOLEAN, releases : SUBSET GitHubRelease]
          /\ FreshChangelog.error = FALSE /\ FreshChangelog.releases = {}
      BY DEF FreshChangelog
    <2>. QED
      BY <2>1, <2>2 DEF ChangelogOK
  <1>5. JoinOK'
    <2>. SUFFICES ASSUME p = "/j" PROVE screen'.copied = FALSE
      BY DEF JoinOK
    <2>1. PICK c \in Code : screen' = FreshJoin(c)
      BY DEF FreshScreens, DownloadPages
    <2>. QED
      BY <2>1 DEF FreshJoin
  <1>6. PlainOK'
    BY DEF PlainOK, Plain, FreshScreens
  <1>. QED
    BY <1>1, <1>2, <1>3, <1>4, <1>5, <1>6 DEF SiteIInv

(* The visitor goes from page to page. *)
LEMMA SiteMoves ==
    ASSUME SiteIInv, JoinIInv', NEW p \in Page \cup PageLinks["/docs/api"],
           Arrive(p) \/ LoadAddress(p)
    PROVE  SiteIInv'
  <1>1. url' = p /\ screen' \in FreshScreens(p)
    BY DEF Arrive, LoadAddress
  <1>2. \A wide \in BOOLEAN :
           FreshLayout(p, wide) \in [wide : BOOLEAN, open : SUBSET Section, sheet : BOOLEAN,
                                    sheetOpen : SUBSET Section]
    BY DEF FreshLayout, FreshSections
  <1>3. LayoutOK'
    <2>1. CASE p \in DocsPages
      <3>1. \/ url \in DocsPages /\ layout' = layout
            \/ \E wide \in BOOLEAN : layout' = FreshLayout(p, wide)
        BY <2>1 DEF Arrive, LoadAddress
      <3>. QED
        BY <1>1, <1>2, <2>1, <3>1 DEF SiteIInv, LayoutOK
    <2>2. CASE p \notin DocsPages
      <3>1. layout' = NoState
        BY <2>2 DEF Arrive, LoadAddress
      <3>. QED
        BY <1>1, <2>2, <3>1 DEF LayoutOK
    <2>. QED
      BY <2>1, <2>2
  <1>. QED
    BY <1>1, <1>3, SiteFresh

(* The visitor unfolds the navigation. *)
LEMMA SiteUnfolds ==
    ASSUME SiteIInv, JoinIInv',
           \/ \E s \in Section : ToggleSection(s) \/ ToggleSheetSection(s)
           \/ OpenSheet \/ CloseSheet \/ Resize
    PROVE  SiteIInv'
  <1>. DEFINE L == [wide : BOOLEAN, open : SUBSET Section, sheet : BOOLEAN,
                    sheetOpen : SUBSET Section]
  <1>1. url' = url /\ screen' = screen /\ url \in DocsPages
    BY DEF ToggleSection, ToggleSheetSection, OpenSheet, CloseSheet, Resize
  <1>2. layout \in L
    BY <1>1 DEF SiteIInv, LayoutOK
  <1>3. layout' \in L
    <2>1. ASSUME NEW s \in Section, ToggleSection(s) PROVE layout' \in L
      <3>1. PICK o : o = Toggled(layout.open, s)
        OBVIOUS
      <3>2. o \in SUBSET Section
        BY <1>2, <3>1 DEF Toggled
      <3>3. layout' = [layout EXCEPT !.open = o]
        BY <2>1, <3>1 DEF ToggleSection
      <3>. QED
        BY <1>2, <3>2, <3>3
    <2>2. ASSUME NEW s \in Section, ToggleSheetSection(s) PROVE layout' \in L
      <3>1. PICK o : o = Toggled(layout.sheetOpen, s)
        OBVIOUS
      <3>2. o \in SUBSET Section
        BY <1>2, <3>1 DEF Toggled
      <3>3. layout' = [layout EXCEPT !.sheetOpen = o]
        BY <2>2, <3>1 DEF ToggleSheetSection
      <3>. QED
        BY <1>2, <3>2, <3>3
    <2>3. CASE OpenSheet
      <3>1. PICK o : o = FreshSections(url)
        OBVIOUS
      <3>2. o \in SUBSET Section
        BY <3>1 DEF FreshSections
      <3>3. layout' = [layout EXCEPT !.sheet = TRUE, !.sheetOpen = o]
        BY <2>3, <3>1 DEF OpenSheet
      <3>. QED
        BY <1>2, <3>2, <3>3
    <2>4. CASE CloseSheet
      <3>1. layout' = [layout EXCEPT !.sheet = FALSE, !.sheetOpen = {}]
        BY <2>4 DEF CloseSheet
      <3>. QED
        BY <1>2, <3>1
    <2>5. CASE Resize
      <3>1. layout' = [layout EXCEPT !.wide = ~@]
        BY <2>5 DEF Resize
      <3>. QED
        BY <1>2, <3>1
    <2>. QED
      BY <2>1, <2>2, <2>3, <2>4, <2>5
  <1>4. LayoutOK'
    BY <1>1, <1>3 DEF LayoutOK
  <1>5. url # "/" /\ url \notin DownloadPages /\ url # "/changelog" /\ url # "/j"
    BY <1>1 DEF DocsPages
  <1>. QED
    BY <1>1, <1>4, <1>5
       DEF SiteIInv, OnlyApiPageBreaks, HomeOK, DownloadOK, ChangelogOK, JoinOK, PlainOK, Plain

(* A step of one page: the visitor stays where he is. *)
LEMMA SiteStays ==
    ASSUME SiteIInv, url' = url, layout' = layout, ~Plain(url),
           HomeOK', DownloadOK', ChangelogOK', JoinOK'
    PROVE  SiteIInv'
  BY DEF SiteIInv, OnlyApiPageBreaks, PlainOK, Plain, LayoutOK

LEMMA SiteHome ==
    ASSUME SiteIInv, JoinIInv', HomeMounts \/ HomeRelease \/ (\E i \in Faq : ToggleFaq(i))
    PROVE  SiteIInv'
  <1>1. url = "/" /\ url' = url /\ layout' = layout
    BY DEF HomeMounts, HomeRelease, ToggleFaq
  <1>2. screen \in [mounted : BOOLEAN, platform : Device, release : BOOLEAN, openFaq : {0} \cup Faq]
    BY <1>1 DEF SiteIInv, HomeOK
  <1>3. HomeOK'
    <2>1. CASE HomeMounts
      <3>1. PICK agent \in Agent :
               screen' = [screen EXCEPT !.mounted = TRUE, !.platform = detectPlatform(agent)]
        BY <2>1 DEF HomeMounts
      <3>2. detectPlatform(agent) \in Device
        BY DEF detectPlatform, Device
      <3>. QED
        BY <1>2, <3>1, <3>2 DEF HomeOK
    <2>2. CASE HomeRelease
      BY <1>2, <2>2 DEF HomeOK, HomeRelease
    <2>3. ASSUME NEW i \in Faq, ToggleFaq(i) PROVE HomeOK'
      <3>1. PICK o : o = IF screen.openFaq = i THEN 0 ELSE i
        OBVIOUS
      <3>2. o \in {0} \cup Faq
        BY <3>1
      <3>3. screen' = [screen EXCEPT !.openFaq = o]
        BY <2>3, <3>1 DEF ToggleFaq
      <3>. QED
        BY <1>2, <3>2, <3>3 DEF HomeOK
    <2>. QED
      BY <2>1, <2>2, <2>3
  <1>4. DownloadOK' /\ ChangelogOK' /\ JoinOK' /\ ~Plain(url)
    BY <1>1 DEF DownloadOK, ChangelogOK, JoinOK, DownloadPages, Plain
  <1>. QED
    BY <1>1, <1>3, <1>4, SiteStays

LEMMA SiteChangelog ==
    ASSUME SiteIInv, JoinIInv', FetchReleases
    PROVE  SiteIInv'
  <1>1. url = "/changelog" /\ url' = url /\ layout' = layout /\ screen.loading
    BY DEF FetchReleases
  <1>2. /\ screen \in [loading : BOOLEAN, error : BOOLEAN, releases : SUBSET GitHubRelease]
        /\ ~screen.error /\ screen.releases = {}
    BY <1>1 DEF SiteIInv, ChangelogOK
  <1>3. ChangelogOK'
    <2>1. ASSUME NEW data \in SUBSET GitHubRelease,
                 screen' = [screen EXCEPT !.loading = FALSE, !.releases = {r \in data : ~r.draft}]
          PROVE  ChangelogOK'
      <3>1. PICK shown : shown = {r \in data : ~r.draft}
        OBVIOUS
      <3>2. screen' = [screen EXCEPT !.loading = FALSE, !.releases = shown]
        BY <2>1, <3>1
      <3>3. shown \in SUBSET GitHubRelease /\ \A r \in shown : ~r.draft
        BY <3>1
      <3>4. screen'.loading = FALSE /\ screen'.error = screen.error /\ screen'.releases = shown
            /\ screen' \in [loading : BOOLEAN, error : BOOLEAN, releases : SUBSET GitHubRelease]
        BY <1>2, <3>2, <3>3
      <3>. QED
        BY <1>2, <3>3, <3>4 DEF ChangelogOK
    <2>2. ASSUME screen' = [screen EXCEPT !.loading = FALSE, !.error = TRUE]
          PROVE  ChangelogOK'
      <3>1. screen'.loading = FALSE /\ screen'.releases = screen.releases
            /\ screen' \in [loading : BOOLEAN, error : BOOLEAN, releases : SUBSET GitHubRelease]
        BY <1>2, <2>2
      <3>. QED
        BY <1>2, <3>1 DEF ChangelogOK
    <2>. QED
      BY <2>1, <2>2 DEF FetchReleases
  <1>4. HomeOK' /\ DownloadOK' /\ JoinOK' /\ ~Plain(url)
    BY <1>1 DEF HomeOK, DownloadOK, JoinOK, DownloadPages, Plain
  <1>. QED
    BY <1>1, <1>3, <1>4, SiteStays

(* The download pages, and what the join page shares with them. *)
LEMMA SiteCopies ==
    ASSUME SiteIInv, JoinIInv',
           \/ ReleaseArrives \/ HandleCopy \/ CopyTimer
           \/ JoinMounts \/ TryDeepLink \/ CheckFocus
    PROVE  SiteIInv'
  <1>1. url' = url /\ layout' = layout
    BY DEF ReleaseArrives, HandleCopy, CopyTimer, JoinMounts, TryDeepLink, CheckFocus
  <1>2. url \in DownloadPages \/ url = "/j"
    BY DEF ReleaseArrives, HandleCopy, CopyTimer, OffersCopy, DownloadPages,
           JoinMounts, TryDeepLink, CheckFocus
  <1>3. HomeOK' /\ ChangelogOK' /\ ~Plain(url)
    BY <1>1, <1>2 DEF HomeOK, ChangelogOK, DownloadPages, Plain
  <1>4. CASE url \in DownloadPages
    <2>1. /\ screen \in [release : Releases \cup {NotLoaded}, copied : BOOLEAN, timers : 0 .. MaxCopies]
          /\ screen.copied => screen.timers > 0
      BY <1>4 DEF SiteIInv, DownloadOK
    <2>2. ReleaseArrives \/ HandleCopy \/ CopyTimer
      BY <1>4 DEF DownloadPages, JoinMounts, TryDeepLink, CheckFocus
    <2>3. ASSUME ReleaseArrives PROVE DownloadOK'
      <3>1. PICK assets \in Releases : screen' = [screen EXCEPT !.release = assets]
        BY <2>3 DEF ReleaseArrives
      <3>. QED
        BY <2>1, <3>1 DEF DownloadOK
    <2>4. ASSUME HandleCopy PROVE DownloadOK'
      <3>1. PICK t : t = screen.timers + 1
        OBVIOUS
      <3>2. screen' = [screen EXCEPT !.copied = TRUE, !.timers = t]
        BY <2>4, <3>1 DEF HandleCopy
      <3>3. t \in 0 .. MaxCopies /\ t > 0
        BY <2>1, <2>4, <3>1, SiteAssumption DEF HandleCopy
      <3>. QED
        BY <2>1, <3>2, <3>3 DEF DownloadOK
    <2>5. ASSUME CopyTimer PROVE DownloadOK'
      <3>1. PICK t : t = screen.timers - 1
        OBVIOUS
      <3>2. screen' = [screen EXCEPT !.copied = FALSE, !.timers = t]
        BY <2>5, <3>1 DEF CopyTimer
      <3>3. t \in 0 .. MaxCopies
        BY <2>1, <2>5, <3>1, SiteAssumption DEF CopyTimer
      <3>. QED
        BY <2>1, <3>2, <3>3 DEF DownloadOK
    <2>6. DownloadOK'
      BY <2>2, <2>3, <2>4, <2>5
    <2>7. JoinOK'
      BY <1>1, <1>4 DEF JoinOK, DownloadPages
    <2>. QED
      BY <1>1, <1>3, <2>6, <2>7, SiteStays
  <1>5. CASE url = "/j"
    <2>1. screen \in JoinScreen /\ (screen.copied => screen.timers > 0)
      BY <1>5 DEF SiteIInv, JoinOK, JoinIInv
    <2>2. screen'.copied => screen'.timers > 0
      <3>1. CASE ReleaseArrives
        <4>1. PICK assets \in Releases : screen' = [screen EXCEPT !.release = assets]
          BY <3>1 DEF ReleaseArrives
        <4>. QED
          BY <2>1, <4>1 DEF JoinScreen
      <3>2. CASE HandleCopy
        <4>1. PICK t : t = screen.timers + 1
          OBVIOUS
        <4>2. screen' = [screen EXCEPT !.copied = TRUE, !.timers = t]
          BY <3>2, <4>1 DEF HandleCopy
        <4>3. t > 0
          BY <2>1, <4>1, SiteAssumption DEF JoinScreen
        <4>. QED
          BY <2>1, <4>2, <4>3 DEF JoinScreen
      <3>3. CASE CopyTimer
        BY <2>1, <3>3 DEF CopyTimer, JoinScreen
      <3>4. CASE JoinMounts \/ TryDeepLink \/ CheckFocus
        <4>1. screen'.copied = screen.copied /\ screen'.timers = screen.timers
          BY <2>1, <3>4 DEF JoinMounts, TryDeepLink, CheckFocus, JoinScreen
        <4>. QED
          BY <2>1, <4>1
      <3>. QED
        BY <3>1, <3>2, <3>3, <3>4
    <2>3. DownloadOK' /\ JoinOK'
      BY <1>1, <1>5, <2>2 DEF DownloadOK, JoinOK, DownloadPages
    <2>. QED
      BY <1>1, <1>3, <2>3, SiteStays
  <1>. QED
    BY <1>2, <1>4, <1>5

(* Wherever the visitor of the web site goes, by links, the history, the   *)
(* address bar or a reload: every page and all that sitemap.ts announces   *)
(* is at most three clicks away; an address without a page was one of the  *)
(* two that the API page links to; a download button leads to a file for   *)
(* the system it names, whatever part of the release is uploaded, but for  *)
(* "Download for macOS" of the join page without a .dmg; a "Copied!" has a *)
(* timer left to clear it; and the changelog shows one thing.              *)
THEOREM SiteHoldsTogether == ScreensSpec => []SiteInv
  <1>1. ScreensInit => SiteIInv
    <2>. SUFFICES ASSUME ScreensInit PROVE SiteIInv
      OBVIOUS
    <2>1. url = "/" /\ screen = FreshHome /\ layout = NoState
      BY DEF ScreensInit, SiteInit, FreshScreens, DownloadPages
    <2>2. OnlyApiPageBreaks /\ HomeOK
      BY <2>1 DEF OnlyApiPageBreaks, HomeOK, FreshHome, Device, Page
    <2>3. LayoutOK
      BY <2>1 DEF LayoutOK, DocsPages
    <2>. QED
      BY <2>1, <2>2, <2>3
         DEF SiteIInv, DownloadOK, ChangelogOK, JoinOK, JoinIInv, PlainOK, Plain, DownloadPages
  <1>2. SiteIInv /\ [ScreensNext]_screensVars => SiteIInv'
    <2>. SUFFICES ASSUME SiteIInv, [ScreensNext]_screensVars PROVE SiteIInv'
      OBVIOUS
    <2>1. JoinIInv'
      BY JoinStep DEF SiteIInv, JoinOK
    <2>2. CASE UNCHANGED siteVars
      BY <2>2 DEF siteVars, SiteIInv, OnlyApiPageBreaks, HomeOK, DownloadOK, ChangelogOK, JoinOK,
                  JoinIInv, PlainOK, Plain, LayoutOK
    <2>3. CASE SiteNext
      <3>1. CASE \E p \in Offered : Follow(p)
        <4>1. PICK p \in Offered : Arrive(p)
          BY <3>1 DEF Follow
        <4>2. p \in Page \cup PageLinks["/docs/api"]
          BY OfferedStays, SiteTypes
        <4>. QED
          BY <2>1, <4>1, <4>2, SiteMoves
      <3>2. CASE \E p \in Page : HistoryMove(p) \/ LoadAddress(p)
        <4>1. PICK p \in Page : Arrive(p) \/ LoadAddress(p)
          BY <3>2 DEF HistoryMove
        <4>. QED
          BY <2>1, <4>1, SiteMoves
      <3>3. CASE \/ \E s \in Section : ToggleSection(s) \/ ToggleSheetSection(s)
                 \/ OpenSheet \/ CloseSheet \/ Resize
        BY <2>1, <3>3, SiteUnfolds
      <3>4. CASE HomeMounts \/ HomeRelease \/ \E i \in Faq : ToggleFaq(i)
        BY <2>1, <3>4, SiteHome
      <3>5. CASE FetchReleases
        BY <2>1, <3>5, SiteChangelog
      <3>6. CASE \/ ReleaseArrives \/ HandleCopy \/ CopyTimer
                 \/ JoinMounts \/ TryDeepLink \/ CheckFocus
        BY <2>1, <3>6, SiteCopies
      <3>. QED
        BY <2>3, <3>1, <3>2, <3>3, <3>4, <3>5, <3>6 DEF SiteNext
    <2>4. SiteNext \/ UNCHANGED siteVars
      BY DEF ScreensNext, screensVars, OnlyWizard, OnlySettings, OnlyIndex, OnlyLibrary,
             OnlyTransfers, OnlySite
    <2>. QED
      BY <2>2, <2>3, <2>4
  <1>. QED
    BY <1>1, <1>2, SiteImplies, PTL DEF ScreensSpec
=============================================================================
