-------------------------------- MODULE Site --------------------------------
(***************************************************************************)
(* A visitor of the web site: the page on the screen, the state its        *)
(* component keeps while it is mounted, and the documentation's layout     *)
(* around it.                                                              *)
(*                                                                         *)
(* A client-side transition mounts the new page and keeps the layout when  *)
(* both pages are documentation; loading an address mounts everything      *)
(* anew.  Timers and answers of a page that is gone change nothing.        *)
(***************************************************************************)
EXTENDS SitePages, Releases, JoinCode, Integers

CONSTANTS MaxOpen,      \* sections of a navigation the visitor has open at once
          MaxCopies,    \* timers of the copy buttons that run at once
          NotLoaded     \* the release before the answer, or after a failed one

ASSUME SiteAssumption == MaxCopies \in Nat

VARIABLES
    url,        \* the page shown; not in Page: the page that says 404
    screen,     \* React state of the page component
    layout      \* React state of DocsLayout

siteVars == <<url, screen, layout>>

NoState == [state |-> "none"]

Faq == 1 .. 6
-----------------------------------------------------------------------------
(* What the components start from. *)
FreshHome == [mounted |-> FALSE, platform |-> "unknown", release |-> FALSE, openFaq |-> 0]

FreshDownload == [release |-> NotLoaded, copied |-> FALSE, timers |-> 0]

FreshChangelog == [loading |-> TRUE, error |-> FALSE, releases |-> {}]

(* code is what the address says, joinCode is derived from it. *)
FreshJoin(code) ==
    [code |-> code, mounted |-> FALSE, platform |-> "unknown", release |-> NotLoaded,
     timer |-> FALSE, launches |-> 0, check |-> "no", failed |-> FALSE,
     copied |-> FALSE, timers |-> 0]

FreshScreens(p) ==
    CASE p = "/" -> {FreshHome}
      [] p \in DownloadPages -> {FreshDownload}
      [] p = "/changelog" -> {FreshChangelog}
      [] p = "/j" -> {FreshJoin(c) : c \in Code}
      [] OTHER -> {NoState}

(* NavSection: open when it has the page's entry, at the time it is mounted. *)
FreshSections(p) == {s \in Section : p \in navigation[s]}

FreshLayout(p, wide) ==
    [wide |-> wide, open |-> FreshSections(p), sheet |-> FALSE, sheetOpen |-> {}]

SiteInit ==
    /\ url = "/"
    /\ screen \in FreshScreens("/")
    /\ layout = NoState

Arrive(p) ==
    /\ url' = p
    /\ screen' \in FreshScreens(p)
    /\ \/ p \in DocsPages /\ url \in DocsPages /\ UNCHANGED layout
       \/ p \in DocsPages /\ url \notin DocsPages
            /\ \E wide \in BOOLEAN : layout' = FreshLayout(p, wide)
       \/ p \notin DocsPages /\ layout' = NoState
-----------------------------------------------------------------------------
(* getPlatformDownloadUrl; "#download" stays on the page. *)
getPlatformDownloadUrl(platform) ==
    CASE platform = "mac" -> {"/download/macos"}
      [] platform = "windows" -> {"/download/windows"}
      [] platform = "linux" -> {"/download/linux"}
      [] OTHER -> {}

HomeDownloadButton == IF screen.mounted THEN getPlatformDownloadUrl(screen.platform) ELSE {}

HomeLinks == HomeHeader \cup HomeDownloadButton \cup HomeAllDownloads \cup HomeFooter

DocsHeader == {"/", "/docs"}

Entries(open) == UNION {navigation[s] : s \in open}

(* The sheet is modal: while it is up, its own links are all there is. *)
DocsLinks ==
    IF layout.sheet THEN {"/"} \cup Entries(layout.sheetOpen)
    ELSE DocsHeader \cup PageLinks[url]
             \cup (IF layout.wide THEN Entries(layout.open) ELSE {})

Offered ==
    CASE url = "/" -> HomeLinks
      [] url \in DocsPages -> DocsLinks
      [] url \in Page \ (DocsPages \cup {"/"}) -> PageLinks[url]
      [] OTHER -> {}

Follow(p) == p # url /\ Arrive(p)

(* The browser's back and forward buttons within the documentation: any    *)
(* page seen before.  Elsewhere they do what LoadAddress does.             *)
HistoryMove(p) ==
    /\ url \in DocsPages /\ p \in DocsPages \ {url}
    /\ Arrive(p)

(* A reload, or an address from elsewhere: that is a new visit, which the  *)
(* model starts from the home page or the page that says 404.              *)
LoadAddress(p) ==
    /\ p = url \/ url = "/" \/ url \notin Page
    /\ url' = p
    /\ screen' \in FreshScreens(p)
    /\ IF p \in DocsPages THEN \E wide \in BOOLEAN : layout' = FreshLayout(p, wide)
                          ELSE layout' = NoState
-----------------------------------------------------------------------------
(* The documentation's layout. *)
Toggled(open, s) == IF s \in open THEN open \ {s} ELSE open \cup {s}

ToggleSection(s) ==
    /\ url \in DocsPages /\ layout.wide /\ ~layout.sheet
    /\ Cardinality(Toggled(layout.open, s)) <= MaxOpen
    /\ layout' = [layout EXCEPT !.open = Toggled(@, s)]
    /\ UNCHANGED <<url, screen>>

(* The sheet's sections are mounted each time it is pulled out. *)
OpenSheet ==
    /\ url \in DocsPages /\ ~layout.wide /\ ~layout.sheet
    /\ layout' = [layout EXCEPT !.sheet = TRUE, !.sheetOpen = FreshSections(url)]
    /\ UNCHANGED <<url, screen>>

ToggleSheetSection(s) ==
    /\ url \in DocsPages /\ layout.sheet
    /\ Cardinality(Toggled(layout.sheetOpen, s)) <= MaxOpen
    /\ layout' = [layout EXCEPT !.sheetOpen = Toggled(@, s)]
    /\ UNCHANGED <<url, screen>>

CloseSheet ==
    /\ url \in DocsPages /\ layout.sheet
    /\ layout' = [layout EXCEPT !.sheet = FALSE, !.sheetOpen = {}]
    /\ UNCHANGED <<url, screen>>

Resize ==
    /\ url \in DocsPages
    /\ layout' = [layout EXCEPT !.wide = ~@]
    /\ UNCHANGED <<url, screen>>

-----------------------------------------------------------------------------
(* The home page. *)
HomeMounts ==
    /\ url = "/" /\ ~screen.mounted
    /\ \E agent \in Agent :
          screen' = [screen EXCEPT !.mounted = TRUE, !.platform = detectPlatform(agent)]
    /\ UNCHANGED <<url, layout>>

(* A refused or failed request leaves the page without a version number. *)
HomeRelease ==
    /\ url = "/" /\ screen.mounted /\ ~screen.release
    /\ screen' = [screen EXCEPT !.release = TRUE]
    /\ UNCHANGED <<url, layout>>

ToggleFaq(i) ==
    /\ url = "/"
    /\ screen' = [screen EXCEPT !.openFaq = IF @ = i THEN 0 ELSE i]
    /\ UNCHANGED <<url, layout>>

-----------------------------------------------------------------------------
(* The download pages, and the release on the join page. *)
ReleaseArrives ==
    /\ url \in DownloadPages \/ (url = "/j" /\ screen.mounted)
    /\ screen.release = NotLoaded
    /\ \E assets \in Releases : screen' = [screen EXCEPT !.release = assets]
    /\ UNCHANGED <<url, layout>>

(* Pages with copy buttons.  The join page offers them for a valid code. *)
OffersCopy ==
    \/ url \in {"/download/macos", "/download/linux"}
    \/ url = "/j" /\ isValidJoinCode(normalizeJoinCode(screen.code))

(* handleCopy after the clipboard took the text, handleCopyCode and        *)
(* handleCopyLink: one flag, and a timer for each click.                   *)
HandleCopy ==
    /\ OffersCopy
    /\ screen.timers < MaxCopies
    /\ screen' = [screen EXCEPT !.copied = TRUE, !.timers = @ + 1]
    /\ UNCHANGED <<url, layout>>

CopyTimer ==
    /\ OffersCopy /\ screen.timers > 0
    /\ screen' = [screen EXCEPT !.copied = FALSE, !.timers = @ - 1]
    /\ UNCHANGED <<url, layout>>
-----------------------------------------------------------------------------
(* The changelog: the releases, or a message, and loading is over. *)
GitHubRelease == [id : 1 .. 2, draft : BOOLEAN]

FetchReleases ==
    /\ url = "/changelog" /\ screen.loading
    /\ \/ \E data \in SUBSET GitHubRelease :
             screen' = [screen EXCEPT !.loading = FALSE,
                                      !.releases = {r \in data : ~r.draft}]
       \/ screen' = [screen EXCEPT !.loading = FALSE, !.error = TRUE]
    /\ UNCHANGED <<url, layout>>

-----------------------------------------------------------------------------
(* The join page.  Its second effect runs again once the first has set     *)
(* mounted: it waits half a second before it tries the deep link.          *)
JoinMounts ==
    /\ url = "/j" /\ ~screen.mounted
    /\ \E agent \in Agent :
          screen' = [screen EXCEPT !.mounted = TRUE, !.platform = detectPlatform(agent),
                                   !.timer = TRUE]
    /\ UNCHANGED <<url, layout>>

(* Seeded fault: the effect's clean-up clears the second timer as well. *)
TryDeepLink_Cleared ==
    /\ url = "/j" /\ screen.timer
    /\ screen' = [screen EXCEPT !.timer = FALSE, !.launches = @ + 1]
    /\ UNCHANGED <<url, layout>>

(* tryDeepLink.  Setting attemptedDeepLink runs the effect once more: it   *)
(* clears the timer that has fired and returns.                            *)
TryDeepLink ==
    /\ url = "/j" /\ screen.timer
    /\ screen' = [screen EXCEPT !.timer = FALSE, !.launches = @ + 1, !.check = "set"]
    /\ UNCHANGED <<url, layout>>

(* A second and a half later: the page has the focus or not, and the timer *)
(* was in time or not.                                                     *)
CheckFocus ==
    /\ url = "/j" /\ screen.check = "set"
    /\ \E focused, inTime \in BOOLEAN :
          screen' = [screen EXCEPT !.check = "done", !.failed = focused /\ inTime]
    /\ UNCHANGED <<url, layout>>

(* What the page gives away: the deep link once it was tried, and for a    *)
(* valid code what its buttons open or copy.                               *)
HandsOut ==
    LET joinCode == normalizeJoinCode(screen.code)
        deepLink == Text("wormhole", "join", joinCode)
    IN  (IF screen.launches > 0 THEN {deepLink} ELSE {})
            \cup (IF isValidJoinCode(joinCode)
                  THEN {deepLink, Text("none", "none", joinCode), makeShareLink(joinCode)}
                  ELSE {})

(* getDownloadUrl: NoAsset stands for the list of releases. *)
getDownloadUrl(platform) ==
    IF screen.release # NotLoaded THEN getAssetForPlatform(screen.release, platform) ELSE NoAsset

(* The download buttons; the one for the visitor's platform comes twice. *)
JoinDownloads == [os \in {"mac", "windows", "linux"} |-> getDownloadUrl(os)]
-----------------------------------------------------------------------------
SiteNext ==
    \/ \E p \in Offered : Follow(p)
    \/ \E p \in Page : HistoryMove(p) \/ LoadAddress(p)
    \/ \E s \in Section : ToggleSection(s) \/ ToggleSheetSection(s)
    \/ OpenSheet \/ CloseSheet \/ Resize
    \/ HomeMounts \/ HomeRelease \/ \E i \in Faq : ToggleFaq(i)
    \/ ReleaseArrives \/ HandleCopy \/ CopyTimer
    \/ FetchReleases
    \/ JoinMounts \/ TryDeepLink \/ CheckFocus
-----------------------------------------------------------------------------
SiteTypeOK ==
    /\ url \in Page => screen \in
          CASE url = "/" ->
                  [mounted : BOOLEAN, platform : Device, release : BOOLEAN, openFaq : {0} \cup Faq]
            [] url \in DownloadPages ->
                  [release : Releases \cup {NotLoaded}, copied : BOOLEAN, timers : 0 .. MaxCopies]
            [] url = "/changelog" ->
                  [loading : BOOLEAN, error : BOOLEAN, releases : SUBSET GitHubRelease]
            [] url = "/j" ->
                  [code : Code, mounted : BOOLEAN, platform : Device,
                   release : Releases \cup {NotLoaded}, timer : BOOLEAN, launches : 0 .. 2,
                   check : {"no", "set", "done"}, failed : BOOLEAN,
                   copied : BOOLEAN, timers : 0 .. MaxCopies]
            [] OTHER -> {NoState}
    /\ url \in DocsPages =>
          layout \in [wide : BOOLEAN, open : SUBSET Section, sheet : BOOLEAN,
                      sheetOpen : SUBSET Section]
    /\ url \notin DocsPages => layout = NoState

(* Everything a page links to, once its navigation is unfolded. *)
AllLinks ==
    [p \in Page |->
        IF p = "/" THEN HomeHeader \cup HomeAllDownloads \cup HomeFooter
        ELSE PageLinks[p] \cup (IF p \in DocsPages THEN DocsHeader \cup Entries(Section) ELSE {})]

WithinOne == [p \in Page |-> {p} \cup (AllLinks[p] \cap Page)]
WithinThree == [p \in Page |-> UNION {UNION {WithinOne[r] : r \in WithinOne[q]} : q \in WithinOne[p]}]

(* From wherever the visitor is, every page of the site, and so everything *)
(* sitemap.ts announces, is at most three clicks away; a join page has no  *)
(* links to it.  Five of the pages are linked to by the documentation's    *)
(* navigation alone.                                                       *)
EverythingNear == url \in Page => (Page \ {"/j"}) \cup Sitemap \subseteq WithinThree[url]

(* The only links of the site that lead nowhere are on the API page        *)
(* (/docs/api/signal and /docs/api/rust, which were never written).        *)
OnlyApiPageBreaks == url \in Page \cup PageLinks["/docs/api"]

ForSystem(asset, os) == asset = NoAsset \/ asset.os = os

(* A download button leads to a file for the system it names, or to the    *)
(* list of releases, whatever part of the release has been uploaded: on    *)
(* the download pages always, on the join page unless the release has no   *)
(* .dmg yet, when "Download for macOS" may lead to a Linux archive.        *)
DownloadFits ==
    /\ url \in DownloadPages /\ screen.release # NotLoaded =>
          LET assets == screen.release
          IN  CASE url = "/download/macos" -> ForSystem(dmgAsset(assets), "mac")
                [] url = "/download/windows" -> ForSystem(installerAsset(assets), "windows")
                [] OTHER -> /\ ForSystem(appImageAsset(assets), "linux")
                            /\ ForSystem(debAsset(assets), "linux")
    /\ url = "/j" /\ screen.release # NotLoaded =>
          \A os \in {"mac", "windows", "linux"} :
             \/ ForSystem(JoinDownloads[os], os)
             \/ os = "mac" /\ Find(screen.release, {".dmg"}) = NoAsset

(* However the host's code was typed into the address, whatever the page   *)
(* opens or copies is read by the desktop application as the host's code;  *)
(* and a text too short to be a code is read as none.                      *)
CodeSurvives ==
    url = "/j" =>
        \A text \in HandsOut :
            /\ screen.code.len = HostCode.len => extractJoinCode(text) = HostCode
            /\ screen.code.len < HostCode.len => extractJoinCode(text) = NoCode

(* By itself the join page opens the application once, however often its   *)
(* effect runs.                                                            *)
LaunchedOnce == url = "/j" => screen.launches <= 1

(* A join link works: the code survives the page, and the application is   *)
(* opened once.                                                            *)
JoinInv == CodeSurvives /\ LaunchedOnce

(* A tick that says "Copied!" goes away: some timer is left to clear it,   *)
(* however the clicks and the timers of earlier clicks overlap.            *)
CopiedWillClear == OffersCopy /\ screen.copied => screen.timers > 0

(* The changelog shows one thing: that it loads, an error, that there are  *)
(* no releases, or the releases; and no draft among these.                 *)
ChangelogShowsOne ==
    url = "/changelog" =>
        /\ ~(screen.loading /\ screen.error)
        /\ screen.loading \/ screen.error => screen.releases = {}
        /\ \A r \in screen.releases : ~r.draft

(* Wherever the visitor is: every page is near, a dead link was one of the *)
(* API page's, a download is for the system it names, a tick will clear,   *)
(* and the changelog shows one thing.                                      *)
SiteInv ==
    /\ SiteTypeOK /\ EverythingNear /\ OnlyApiPageBreaks
    /\ DownloadFits /\ CopiedWillClear /\ ChangelogShowsOne

(* A join page that stays open looks whether the application took over:    *)
(* "Opening Wormhole app..." is not the last word to a visitor without it. *)
JoinPageLooks ==
    (url = "/j" /\ screen.mounted)
        ~> (url # "/j" \/ (url = "/j" /\ (~screen.mounted \/ screen.check = "done")))
=============================================================================
