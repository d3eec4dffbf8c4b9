----------------------------- MODULE SitePages -----------------------------
(***************************************************************************)
(* The pages of the web site (apps/web/src/app) as far as a visitor can    *)
(* get from one to the next: each definition is the set of pages one page  *)
(* component links to, its prose left out.  A link to an anchor of another *)
(* page ("/#download") is a link to that page, a link to an anchor of the  *)
(* same page and a link that leaves the site are left out.                 *)
(***************************************************************************)
EXTENDS Sequences, FiniteSets

(* app/docs/page.tsx: the cards, and the buttons around them. *)
QuickLinks ==
    {"/docs/quickstart", "/docs/installation", "/docs/cli",
     "/docs/architecture", "/docs/security", "/docs/performance"}
DocsPage == QuickLinks \cup {"/docs/quickstart", "/docs/installation"}

(* app/docs/cli/page.tsx: the groups of commands, and the page around them. *)
CommandGroups ==
    {"/docs/cli/host", "/docs/cli/mount", "/docs/cli/all-commands",
     "/docs/cli/status", "/docs/cli/cache", "/docs/cli/config",
     "/docs/cli/peers", "/docs/cli/sync", "/docs/cli/signal"}
CLIPage == CommandGroups \cup {"/docs/cli/all-commands", "/docs/configuration"}

(* The other pages of the documentation that are written. *)
ApiPage ==
    {"/docs", "/docs/cli", "/docs/architecture/protocol", "/docs/api/signal",
     "/docs/api/rust", "/docs/cli/all-commands", "/docs/self-hosting",
     "/docs/troubleshooting"}
ArchitecturePage ==
    {"/docs/architecture/fuse", "/docs/architecture/quic",
     "/docs/architecture/protocol", "/docs/architecture/caching",
     "/docs/architecture/signal-server", "/docs/security"}
CachingArchitecturePage ==
    {"/docs/architecture", "/docs/cli/cache", "/docs/performance/cache",
     "/docs/configuration"}
FuseArchitecturePage ==
    {"/docs/architecture", "/docs/architecture/quic",
     "/docs/architecture/caching", "/docs/troubleshooting/fuse"}
ProtocolArchitecturePage ==
    {"/docs/architecture", "/docs/architecture/quic",
     "/docs/architecture/caching", "/docs/security/encryption"}
QuicArchitecturePage ==
    {"/docs/architecture", "/docs/architecture/protocol",
     "/docs/security/encryption", "/docs/performance/network"}
SignalServerPage ==
    {"/docs/architecture", "/docs/self-hosting", "/docs/security/pake",
     "/docs/architecture/quic"}
AllCommandsPage == {"/docs/cli"}
CacheCommandPage ==
    {"/docs/cli", "/docs/cli/mount", "/docs/performance/cache",
     "/docs/configuration"}
ConfigCommandPage ==
    {"/docs/cli", "/docs/configuration", "/docs/cli/cache",
     "/docs/self-hosting"}
HostCommandPage ==
    {"/docs/cli", "/docs/cli/mount", "/docs/cli/status", "/docs/security",
     "/docs/cli/signal"}
MountCommandPage ==
    {"/docs/cli", "/docs/cli/host", "/docs/cli/cache", "/docs/performance",
     "/docs/troubleshooting/fuse"}
PeersCommandPage ==
    {"/docs/cli", "/docs/cli/host", "/docs/security",
     "/docs/security/access-control"}
SignalCommandPage ==
    {"/docs/cli", "/docs/self-hosting", "/docs/architecture/signal-server",
     "/docs/security"}
StatusCommandPage ==
    {"/docs/cli", "/docs/cli/host", "/docs/cli/mount",
     "/docs/cli/all-commands"}
SyncCommandPage ==
    {"/docs/cli", "/docs/cli/host", "/docs/cli/mount", "/docs/architecture"}
ConfigurationPage ==
    {"/docs/configuration/cache", "/docs/configuration/network",
     "/docs/configuration/env", "/docs/configuration/examples",
     "/docs/cli/config", "/docs/self-hosting"}
InstallationPage == {"/docs/quickstart", "/docs/requirements"}
PerformancePage == {"/docs/performance/tuning"}
RunBenchmarksPage == {"/docs/performance", "/docs/performance/tuning"}
QuickStartPage ==
    {"/docs/cli", "/docs/performance", "/docs/security",
     "/docs/self-hosting"}
RequirementsPage == {}
SecurityPage ==
    {"/docs/security/encryption", "/docs/security/pake",
     "/docs/security/threat-model", "/docs/security/audit"}
EncryptionPage ==
    {"/docs/security", "/docs/security/pake", "/docs/architecture/quic"}
PakePage ==
    {"/docs/security", "/docs/security/encryption",
     "/docs/architecture/signal-server"}
SelfHostingPage ==
    {"/docs/self-hosting/monitoring", "/docs/self-hosting/docker",
     "/docs/self-hosting/production"}
TroubleshootingPage ==
    {"/docs/troubleshooting/fuse", "/docs/troubleshooting/network",
     "/docs/troubleshooting/performance"}

(* Pages that say "Coming Soon": the way back is all they have. *)
BuildingClientsPage == {"/docs/api"}
ErrorsPage == {"/docs/api"}
MessagesPage == {"/docs/api"}
ConfigurationCachePage == {"/docs/configuration"}
EnvPage == {"/docs/configuration"}
ExamplesPage == {"/docs/configuration"}
ConfigurationNetworkPage == {"/docs/configuration"}
PerformanceCachePage == {"/docs/performance"}
PerformanceNetworkPage == {"/docs/performance"}
TuningPage == {"/docs/performance"}
AccessControlPage == {"/docs/security"}
AuditPage == {"/docs/security"}
ThreatModelPage == {"/docs/security"}
DockerPage == {"/docs/self-hosting"}
MonitoringPage == {"/docs/self-hosting"}
ProductionPage == {"/docs/self-hosting"}
FusePage == {"/docs/troubleshooting"}

HelpPage == {"/docs/troubleshooting"}
TroubleshootingNetworkPage == {"/docs/troubleshooting"}
TroubleshootingPerformancePage == {"/docs/troubleshooting"}

(* Pages outside the documentation. *)
AboutPage == {"/", "/docs"}
PricingPage == {"/", "/docs"}
ChangelogPage == {"/", "/docs"}
MacOSDownloadPage == {"/", "/download/windows", "/download/linux"}
WindowsDownloadPage == {"/", "/download/macos", "/download/linux"}
LinuxDownloadPage == {"/", "/download/macos", "/download/windows"}

(* app/page.tsx, section by section.  The buttons that depend on the       *)
(* visitor's platform are in module Site.  A narrow window hides the       *)
(* middle of the header; the footer has its link as well.                  *)
HomeHeader == {"/", "/docs"}
HomeAllDownloads == {"/download/macos", "/download/windows", "/download/linux"}
HomeFooter == {"/pricing", "/docs", "/docs/quickstart", "/docs/cli", "/changelog", "/about"}

(* app/j/[code]/page.tsx: the logo, or the button of the invalid page. *)
JoinPageLinks == {"/"}

-----------------------------------------------------------------------------
(* The pages, as the router finds them below app. *)
Page ==
    {"/", "/about", "/changelog", "/docs", "/docs/api",
     "/docs/api/building-clients", "/docs/api/errors", "/docs/api/messages",
     "/docs/architecture", "/docs/architecture/caching",
     "/docs/architecture/fuse", "/docs/architecture/protocol",
     "/docs/architecture/quic", "/docs/architecture/signal-server",
     "/docs/cli", "/docs/cli/all-commands", "/docs/cli/cache",
     "/docs/cli/config", "/docs/cli/host", "/docs/cli/mount",
     "/docs/cli/peers", "/docs/cli/signal", "/docs/cli/status",
     "/docs/cli/sync", "/docs/configuration", "/docs/configuration/cache",
     "/docs/configuration/env", "/docs/configuration/examples",
     "/docs/configuration/network", "/docs/installation", "/docs/performance",
     "/docs/performance/cache", "/docs/performance/network",
     "/docs/performance/run-benchmarks", "/docs/performance/tuning",
     "/docs/quickstart", "/docs/requirements", "/docs/security",
     "/docs/security/access-control", "/docs/security/audit",
     "/docs/security/encryption", "/docs/security/pake",
     "/docs/security/threat-model", "/docs/self-hosting",
     "/docs/self-hosting/docker", "/docs/self-hosting/monitoring",
     "/docs/self-hosting/production", "/docs/troubleshooting",
     "/docs/troubleshooting/fuse", "/docs/troubleshooting/help",
     "/docs/troubleshooting/network", "/docs/troubleshooting/performance",
     "/download/linux", "/download/macos", "/download/windows", "/pricing",
     "/j"}

(* The links of every page but the home page. *)
PageLinks ==
    [p \in Page \ {"/"} |->
        CASE p = "/about" -> AboutPage
          [] p = "/changelog" -> ChangelogPage
          [] p = "/docs" -> DocsPage
          [] p = "/docs/api" -> ApiPage
          [] p = "/docs/api/building-clients" -> BuildingClientsPage
          [] p = "/docs/api/errors" -> ErrorsPage
          [] p = "/docs/api/messages" -> MessagesPage
          [] p = "/docs/architecture" -> ArchitecturePage
          [] p = "/docs/architecture/caching" -> CachingArchitecturePage
          [] p = "/docs/architecture/fuse" -> FuseArchitecturePage
          [] p = "/docs/architecture/protocol" -> ProtocolArchitecturePage
          [] p = "/docs/architecture/quic" -> QuicArchitecturePage
          [] p = "/docs/architecture/signal-server" -> SignalServerPage
          [] p = "/docs/cli" -> CLIPage
          [] p = "/docs/cli/all-commands" -> AllCommandsPage
          [] p = "/docs/cli/cache" -> CacheCommandPage
          [] p = "/docs/cli/config" -> ConfigCommandPage
          [] p = "/docs/cli/host" -> HostCommandPage
          [] p = "/docs/cli/mount" -> MountCommandPage
          [] p = "/docs/cli/peers" -> PeersCommandPage
          [] p = "/docs/cli/signal" -> SignalCommandPage
          [] p = "/docs/cli/status" -> StatusCommandPage
          [] p = "/docs/cli/sync" -> SyncCommandPage
          [] p = "/docs/configuration" -> ConfigurationPage
          [] p = "/docs/configuration/cache" -> ConfigurationCachePage
          [] p = "/docs/configuration/env" -> EnvPage
          [] p = "/docs/configuration/examples" -> ExamplesPage
          [] p = "/docs/configuration/network" -> ConfigurationNetworkPage
          [] p = "/docs/installation" -> InstallationPage
          [] p = "/docs/performance" -> PerformancePage
          [] p = "/docs/performance/cache" -> PerformanceCachePage
          [] p = "/docs/performance/network" -> PerformanceNetworkPage
          [] p = "/docs/performance/run-benchmarks" -> RunBenchmarksPage
          [] p = "/docs/performance/tuning" -> TuningPage
          [] p = "/docs/quickstart" -> QuickStartPage
          [] p = "/docs/requirements" -> RequirementsPage
          [] p = "/docs/security" -> SecurityPage
          [] p = "/docs/security/access-control" -> AccessControlPage
          [] p = "/docs/security/audit" -> AuditPage
          [] p = "/docs/security/encryption" -> EncryptionPage
          [] p = "/docs/security/pake" -> PakePage
          [] p = "/docs/security/threat-model" -> ThreatModelPage
          [] p = "/docs/self-hosting" -> SelfHostingPage
          [] p = "/docs/self-hosting/docker" -> DockerPage
          [] p = "/docs/self-hosting/monitoring" -> MonitoringPage
          [] p = "/docs/self-hosting/production" -> ProductionPage
          [] p = "/docs/troubleshooting" -> TroubleshootingPage
          [] p = "/docs/troubleshooting/fuse" -> FusePage
          [] p = "/docs/troubleshooting/help" -> HelpPage
          [] p = "/docs/troubleshooting/network" -> TroubleshootingNetworkPage
          [] p = "/docs/troubleshooting/performance" -> TroubleshootingPerformancePage
          [] p = "/download/linux" -> LinuxDownloadPage
          [] p = "/download/macos" -> MacOSDownloadPage
          [] p = "/download/windows" -> WindowsDownloadPage
          [] p = "/pricing" -> PricingPage
          [] p = "/j" -> JoinPageLinks]

DownloadPages == {"/download/macos", "/download/windows", "/download/linux"}

(* Pages below app/docs are drawn inside app/docs/layout.tsx. *)
DocsPages ==
    Page \ (DownloadPages \cup {"/", "/about", "/pricing", "/changelog", "/j"})

(* Seeded fault: the entry of a page that nothing else links to is lost. *)
ApiReference_Forgets ==
    {"/docs/api", "/docs/api/messages", "/docs/api/building-clients"}

(* navigation of app/docs/layout.tsx: the entries of each section. *)
ApiReference ==
    {"/docs/api", "/docs/api/messages", "/docs/api/errors",
     "/docs/api/building-clients"}

Section ==
    {"/docs", "/docs/cli", "/docs/architecture", "/docs/security",
     "/docs/performance", "/docs/configuration", "/docs/self-hosting",
     "/docs/api", "/docs/troubleshooting"}

navigation ==
    [s \in Section |->
        CASE s = "/docs" ->
                {"/docs", "/docs/quickstart", "/docs/installation",
                 "/docs/requirements"}
          [] s = "/docs/cli" ->
                {"/docs/cli", "/docs/cli/host", "/docs/cli/mount",
                 "/docs/cli/status", "/docs/cli/cache", "/docs/cli/config",
                 "/docs/cli/peers", "/docs/cli/sync", "/docs/cli/signal",
                 "/docs/cli/all-commands"}
          [] s = "/docs/architecture" ->
                {"/docs/architecture", "/docs/architecture/fuse",
                 "/docs/architecture/quic", "/docs/architecture/protocol",
                 "/docs/architecture/caching",
                 "/docs/architecture/signal-server"}
          [] s = "/docs/security" ->
                {"/docs/security", "/docs/security/encryption",
                 "/docs/security/pake", "/docs/security/access-control",
                 "/docs/security/threat-model", "/docs/security/audit"}
          [] s = "/docs/performance" ->
                {"/docs/performance", "/docs/performance/tuning",
                 "/docs/performance/cache", "/docs/performance/network",
                 "/docs/performance/run-benchmarks"}
          [] s = "/docs/configuration" ->
                {"/docs/configuration", "/docs/configuration/env",
                 "/docs/configuration/cache", "/docs/configuration/network",
                 "/docs/configuration/examples"}
          [] s = "/docs/self-hosting" ->
                {"/docs/self-hosting", "/docs/self-hosting/docker",
                 "/docs/self-hosting/production",
                 "/docs/self-hosting/monitoring"}
          [] s = "/docs/api" -> ApiReference
          [] s = "/docs/troubleshooting" ->
                {"/docs/troubleshooting", "/docs/troubleshooting/fuse",
                 "/docs/troubleshooting/network",
                 "/docs/troubleshooting/performance",
                 "/docs/troubleshooting/help"}]

(* sitemap.ts *)
Sitemap ==
    {"/", "/about", "/pricing", "/changelog", "/download/macos",
     "/download/windows", "/download/linux", "/docs", "/docs/quickstart",
     "/docs/installation", "/docs/requirements", "/docs/cli", "/docs/cli/host",
     "/docs/cli/mount", "/docs/cli/status", "/docs/cli/cache",
     "/docs/cli/config", "/docs/cli/peers", "/docs/cli/sync",
     "/docs/cli/signal", "/docs/cli/all-commands", "/docs/architecture",
     "/docs/architecture/fuse", "/docs/architecture/quic",
     "/docs/architecture/protocol", "/docs/architecture/caching",
     "/docs/security", "/docs/security/encryption", "/docs/security/pake",
     "/docs/performance", "/docs/performance/run-benchmarks",
     "/docs/configuration", "/docs/self-hosting", "/docs/troubleshooting",
     "/docs/api"}
=============================================================================
