---------------------------- MODULE DesktopShell ----------------------------
(***************************************************************************)
(* The frame of the desktop application: the view that is shown, the       *)
(* folder that is browsed and the source it is said to belong to, the      *)
(* dialogs, the first-run wizard, and what a restart keeps.  It composes   *)
(* the file browser and the favourites: the browser is on the screen, and  *)
(* has a state, only while the frame shows it.  What happens inside the    *)
(* wizard and on the settings page is in SetupWizard and SettingsPage.     *)
(*                                                                         *)
(* The history of shares and connections is seen from here as the set of   *)
(* its ids, any of which a poll may show as active or not at any time;     *)
(* DesktopShares and DesktopMounts say how the history changes.            *)
(***************************************************************************)
EXTENDS FileBrowser, Favorites

CONSTANT Share      \* the sources that are shares, the others being connections

ASSUME ShareAssumption == Share \subseteq Source /\ RootOf \in [Source -> Folder]

VARIABLES
    showSetupWizard,
    setupComplete,          \* localStorage: the wizard was finished once
    activeView, activeDialog,
    currentFolder, currentFolderSource,
    listed,                 \* the ids in the history
    starting                \* a share or connection being started, or NoSource

shellVars == <<showSetupWizard, setupComplete, activeView, activeDialog, currentFolder,
               currentFolderSource, listed, starting>>

vars == <<browserVars, favoritesVars, shellVars>>

View == {"all-files", "my-shares", "shared-with-me", "recent", "favorites", "settings"}

ShellTypeOK ==
    /\ showSetupWizard \in BOOLEAN /\ setupComplete \in BOOLEAN
    /\ activeView \in View
    /\ activeDialog \in {"none", "share", "connect"}
    /\ currentFolder \in Folder \cup {NoPath}
    /\ currentFolderSource \in Source \cup {NoSource}
    /\ listed \subseteq Source
    /\ starting \in Source \cup {NoSource}

ShellInit ==
    /\ BrowserInit /\ FavoritesInit
    /\ setupComplete \in BOOLEAN /\ showSetupWizard = ~setupComplete
    /\ activeView = "all-files" /\ activeDialog = "none"
    /\ currentFolder = NoPath /\ currentFolderSource = NoSource
    /\ listed = {}
    /\ starting = NoSource

-----------------------------------------------------------------------------
(* What the frame shows once its new state is rendered. *)
Render ==
    BrowserRenders(IF ~showSetupWizard' /\ activeView' = "all-files"
                     THEN currentFolder' ELSE NoPath)

Show(view, folder, source) ==
    /\ activeView' = view
    /\ currentFolder' = folder /\ currentFolderSource' = source
    /\ UNCHANGED <<favoritesVars, showSetupWizard, setupComplete, activeDialog, listed,
                   starting>>
    /\ Render

(* Nothing modal is in front of the frame. *)
Free == ~showSetupWizard /\ activeDialog = "none" /\ deleteConfirm = NoPath

(* The side bar. *)
ChangeView ==
    /\ Free
    /\ \E v \in View : IF v = "all-files" THEN Show(v, NoPath, NoSource)
                       ELSE Show(v, currentFolder, currentFolderSource)

(* The button of an empty list: the folder is kept. *)
BrowseAllFiles ==
    /\ Free
    /\ activeView = "recent" \/ (activeView = "favorites" /\ favorites = <<>>)
    /\ Show("all-files", currentFolder, currentFolderSource)

(* Seeded fault: only the folder is cleared. *)
BackToAllFiles_KeepsSource ==
    /\ Free /\ rootPath # NoPath
    /\ Show(activeView, NoPath, currentFolderSource)

BackToAllFiles ==
    /\ Free /\ rootPath # NoPath
    /\ Show(activeView, NoPath, NoSource)

CardsView(s) == IF s \in Share THEN "my-shares" ELSE "shared-with-me"

(* A card's Browse, offered while the source is shown as active. *)
BrowseCard ==
    /\ Free
    /\ \E s \in listed : /\ activeView = CardsView(s)
                         /\ Show("all-files", RootOf[s], s)

(* onBrowseShare and onBrowseConnection: the sources of a kind with this   *)
(* root folder.                                                            *)
SourcesAt(s, p) == {t \in listed : (t \in Share <=> s \in Share) /\ RootOf[t] = p}

(* A root folder is clicked, or a folder that the search found under a     *)
(* source.  Only a folder that is itself the root of a source of that kind *)
(* sets the source.                                                        *)
BrowseFound ==
    /\ Free /\ activeView = "all-files" /\ currentFolder = NoPath
    /\ \E s \in listed, p \in Folder :
          /\ IsPrefix(RootOf[s], p)
          /\ \/ SourcesAt(s, p) = {} /\ Show("all-files", p, currentFolderSource)
             \/ \E t \in SourcesAt(s, p) : Show("all-files", p, t)

-----------------------------------------------------------------------------
ToggleFavorite ==
    /\ Free /\ OffersRows
    /\ \E f \in files : toggleFavorite(f, currentFolderSource, ~Waiting("list") /\ ~rerooted)
    /\ UNCHANGED <<browserVars, shellVars>>

OpenFavorite ==
    /\ Free /\ activeView = "favorites"
    /\ \E i \in DOMAIN favorites : /\ favorites[i].path \in Folder
                                   /\ Show("all-files", favorites[i].path, favorites[i].source)

RemoveFavorite ==
    /\ Free /\ activeView = "favorites"
    /\ \E i \in DOMAIN favorites : removeFavorite(i)
    /\ UNCHANGED <<browserVars, shellVars>>

-----------------------------------------------------------------------------
(* The header of the other views and the home page offer both dialogs. *)
OffersDialogs == activeView # "all-files" \/ currentFolder = NoPath

OpenDialog ==
    /\ Free /\ OffersDialogs
    /\ activeDialog' \in {"share", "connect"}
    /\ UNCHANGED <<browserVars, favoritesVars, showSetupWizard, setupComplete, activeView,
                   currentFolder, currentFolderSource, listed, starting>>

(* A deep link opens the connect dialog, behind the wizard too. *)
DeepLink ==
    /\ activeDialog' = "connect"
    /\ UNCHANGED <<browserVars, favoritesVars, showSetupWizard, setupComplete, activeView,
                   currentFolder, currentFolderSource, listed, starting>>

CloseDialog ==
    /\ ~showSetupWizard /\ activeDialog # "none"
    /\ activeDialog' = "none"
    /\ UNCHANGED <<browserVars, favoritesVars, showSetupWizard, setupComplete, activeView,
                   currentFolder, currentFolderSource, listed, starting>>

(* A dialog's command, or Resume on a card: the answer may come when the   *)
(* dialog is closed and the view is another.                               *)
Start ==
    /\ ~showSetupWizard /\ starting = NoSource
    /\ \/ activeDialog = "share" /\ starting' \in Share \ listed
       \/ activeDialog = "connect" /\ starting' \in Source \ (Share \cup listed)
       \/ Free /\ activeView = "my-shares" /\ starting' \in listed \cap Share
    /\ UNCHANGED <<browserVars, favoritesVars, showSetupWizard, setupComplete, activeView,
                   activeDialog, currentFolder, currentFolderSource, listed>>

(* handleShareCreated, handleConnectionCreated, and the end of             *)
(* handleResumeShare: the history entry, which replaces one of that        *)
(* folder, and the folder to browse.                                       *)
Started ==
    /\ starting # NoSource
    /\ LET s == starting
       IN  /\ listed' = (listed \ SourcesAt(s, RootOf[s])) \cup {s}
           /\ activeDialog' = IF s \in listed THEN activeDialog ELSE "none"
           /\ currentFolder' = RootOf[s] /\ currentFolderSource' = s
           /\ CleanFavorites(listed, listed')
    /\ starting' = NoSource
    /\ UNCHANGED <<showSetupWizard, setupComplete, activeView>>
    /\ Render

StartFails ==
    /\ starting # NoSource
    /\ starting' = NoSource
    /\ UNCHANGED <<browserVars, favoritesVars, showSetupWizard, setupComplete, activeView,
                   activeDialog, currentFolder, currentFolderSource, listed>>

(* A source is removed from the history, or a poll rebuilds it. *)
HistoryChanges ==
    /\ \/ /\ Free
          /\ \E s \in listed : activeView = CardsView(s) /\ listed' = listed \ {s}
       \/ listed' = listed
    /\ CleanFavorites(listed, listed')
    /\ UNCHANGED <<browserVars, showSetupWizard, setupComplete, activeView, activeDialog,
                   currentFolder, currentFolderSource, starting>>

-----------------------------------------------------------------------------
HandleSetupComplete ==
    /\ showSetupWizard
    /\ showSetupWizard' = FALSE /\ setupComplete' = TRUE
    /\ UNCHANGED <<favoritesVars, activeView, activeDialog, currentFolder, currentFolderSource,
                   listed, starting>>
    /\ Render

RunSetupWizard ==
    /\ Free /\ activeView = "settings"
    /\ showSetupWizard' = TRUE
    /\ UNCHANGED <<favoritesVars, setupComplete, activeView, activeDialog, currentFolder,
                   currentFolderSource, listed, starting>>
    /\ Render

(* The application ends, or reloads after an error: what is not in         *)
(* localStorage starts afresh.                                             *)
Restart ==
    /\ showSetupWizard' = ~setupComplete
    /\ activeView' = "all-files" /\ activeDialog' = "none"
    /\ currentFolder' = NoPath /\ currentFolderSource' = NoSource
    /\ starting' = NoSource
    /\ CleanFavorites(listed, listed)
    /\ UNCHANGED <<setupComplete, listed>>
    /\ Render

-----------------------------------------------------------------------------
ShellClicks ==
    \/ ChangeView \/ BrowseAllFiles \/ BackToAllFiles \/ BrowseCard \/ BrowseFound
    \/ ToggleFavorite \/ OpenFavorite \/ RemoveFavorite
    \/ OpenDialog \/ CloseDialog \/ RunSetupWizard

ShellNext ==
    \/ BrowserClicks /\ activeDialog = "none" /\ UNCHANGED <<favoritesVars, shellVars>>
    \/ CallAnswered /\ UNCHANGED <<favoritesVars, shellVars>>
    \/ ShellClicks
    \/ DeepLink \/ Start \/ Started \/ StartFails \/ HistoryChanges
    \/ HandleSetupComplete \/ Restart

ShellSpec == ShellInit /\ [][ShellNext]_vars

(* The commands of the file browser return. *)
ShellFairSpec == ShellSpec /\ WF_vars(CallAnswered /\ UNCHANGED <<favoritesVars, shellVars>>)

-----------------------------------------------------------------------------
(* The folder on the screen belongs to the source it is labelled with, or  *)
(* to none, through every way of getting there: the cards, the search, the *)
(* favourites, the dialogs answered late, the side bar and the wizard.     *)
(* The label decides where a star is filed.  (A star given while a listing *)
(* is outstanding can be filed wrongly, and lead back to its folder.)      *)
SourceNeverWrong ==
    ~strays /\ currentFolderSource # NoSource => IsPrefix(RootOf[currentFolderSource], currentFolder)

(* Sources are consistent: the folder on the screen and every star belong  *)
(* to the share or connection they are labelled with.                      *)
SourcesInv == ShellTypeOK /\ FavoritesSourced /\ SourceNeverWrong

(* After a change of the history no star refers to a source that left it,  *)
(* a folder that was shared again under a new id included.                 *)
StarsTidied ==
    [][listed' # listed => \A i \in DOMAIN favorites' : favorites'[i].source \in listed']_vars
=============================================================================
