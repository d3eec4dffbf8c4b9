---------------------------- MODULE FileBrowser ----------------------------
(***************************************************************************)
(* The file browser of the desktop application: one folder's listing, its  *)
(* selection, the way up and down, and the deletion of a row.  Every click *)
(* awaits list_directory or delete_path; both are synchronous commands,    *)
(* which the backend runs one at a time in the order of the calls.         *)
(*                                                                         *)
(* A path is the sequence of its parts.  Left out: the filter box, which   *)
(* only hides rows; opening a file in another program; dragging; files     *)
(* that other programs add or remove.                                      *)
(***************************************************************************)
EXTENDS Naturals, Sequences, SequencesExt

CONSTANTS Name,      \* names of files and folders
          Tree,      \* the paths on the disk at the start
          Folder,    \* those of them that are folders
          MaxCalls   \* bound: calls that may be outstanding

ASSUME TreeAssumption ==
    Folder \subseteq Tree /\ Tree \subseteq Seq(Name) /\ <<>> \notin Tree /\ MaxCalls \in Nat

VARIABLES
    rootPath,       \* <<>> while the browser is not on the screen
    currentPath, files, loading, error, selectedFiles, deleteConfirm,
    calls,          \* the commands that have not been answered
    disk,           \* the paths that exist
    lastAsked,      \* history variable: the folder asked for last
    rerooted        \* history variable: the root changed while Busy

browserVars == <<rootPath, currentPath, files, loading, error, selectedFiles,
                 deleteConfirm, calls, disk, lastAsked, rerooted>>

NoPath == <<>>

BrowserTypeOK ==
    /\ rootPath \in Folder \cup {NoPath}
    /\ currentPath \in Folder \cup {NoPath}
    /\ files \subseteq Tree /\ selectedFiles \subseteq Tree
    /\ loading \in BOOLEAN /\ error \in BOOLEAN
    /\ deleteConfirm \in Tree \cup {NoPath}
    /\ disk \subseteq Tree
    /\ \A i \in DOMAIN calls : calls[i].cmd \in {"list", "delete"} /\ calls[i].live \in BOOLEAN

BrowserInit ==
    /\ rootPath = NoPath /\ currentPath = NoPath
    /\ files = {} /\ selectedFiles = {}
    /\ loading = FALSE /\ error = FALSE
    /\ deleteConfirm = NoPath
    /\ calls = <<>>
    /\ disk = Tree
    /\ lastAsked = NoPath
    /\ rerooted = FALSE

-----------------------------------------------------------------------------
Children(path) == {e \in disk : Len(e) = Len(path) + 1 /\ IsPrefix(path, e)}

getParentPath(path) ==
    IF Len(path) <= 1 \/ Len(path) - 1 < Len(rootPath) THEN rootPath ELSE Front(path)

getRelativePath(path) ==
    IF IsPrefix(rootPath, path) THEN SubSeq(path, Len(rootPath) + 1, Len(path)) ELSE path

joinPath(root, parts) == root \o parts

Waiting(cmd) == \E i \in DOMAIN calls : calls[i].cmd = cmd /\ calls[i].live

Busy == Waiting("list") \/ Waiting("delete") \/ deleteConfirm # NoPath

(* loadDirectory up to its wait, in a browser whose outstanding calls are cs. *)
LoadDirectory(path, cs) ==
    /\ Len(cs) < MaxCalls
    /\ calls' = Append(cs, [cmd |-> "list", path |-> path, back |-> NoPath, live |-> TRUE])
    /\ loading' = TRUE /\ error' = FALSE
    /\ lastAsked' = path

(* Seeded fault: the effect runs once and not for every root. *)
RootChanges_Ignored(root) ==
    UNCHANGED <<currentPath, files, loading, error, selectedFiles, deleteConfirm, calls, lastAsked>>

(* The root changes under the browser, which keeps all it has. *)
RootChanges(root) ==
    /\ LoadDirectory(root, calls)
    /\ UNCHANGED <<currentPath, files, selectedFiles, deleteConfirm>>

(* The screen now shows a browser with this root, or none.  A new browser  *)
(* starts empty, and one that is gone ignores its answers.                 *)
BrowserRenders(root) ==
    LET orphaned == [i \in DOMAIN calls |-> [calls[i] EXCEPT !.live = FALSE]]
    IN  /\ rootPath' = root
        /\ CASE root = rootPath ->
                  UNCHANGED <<currentPath, files, loading, error, selectedFiles,
                              deleteConfirm, calls, lastAsked>>
             [] root = NoPath /\ rootPath # NoPath ->
                  /\ currentPath' = NoPath /\ files' = {} /\ selectedFiles' = {}
                  /\ loading' = FALSE /\ error' = FALSE
                  /\ deleteConfirm' = NoPath
                  /\ calls' = orphaned
                  /\ lastAsked' = NoPath
             [] root # NoPath /\ rootPath = NoPath ->
                  /\ currentPath' = root /\ files' = {} /\ selectedFiles' = {}
                  /\ deleteConfirm' = NoPath
                  /\ LoadDirectory(root, calls)
             [] OTHER -> RootChanges(root)
        /\ rerooted' = (rootPath # NoPath /\ root # NoPath
                          /\ (rerooted \/ (root # rootPath /\ Busy)))
        /\ UNCHANGED disk

-----------------------------------------------------------------------------
(* What the user can click: the rows only while they are shown, the        *)
(* breadcrumbs always, nothing of both under the confirmation.             *)
OffersPage == rootPath # NoPath /\ deleteConfirm = NoPath
OffersRows == OffersPage /\ ~loading /\ ~error /\ files # {}

OpenFolder ==
    /\ OffersRows
    /\ \E f \in files \cap Folder : LoadDirectory(f, calls)
    /\ UNCHANGED <<rootPath, currentPath, files, selectedFiles, deleteConfirm, disk, rerooted>>

SelectFile ==
    /\ OffersRows
    /\ \E f \in files :
          selectedFiles' = IF f \in selectedFiles THEN selectedFiles \ {f}
                           ELSE selectedFiles \cup {f}
    /\ UNCHANGED <<rootPath, currentPath, files, loading, error, deleteConfirm,
                   calls, disk, lastAsked, rerooted>>

goUp ==
    /\ OffersRows /\ currentPath # rootPath
    /\ LoadDirectory(getParentPath(currentPath), calls)
    /\ UNCHANGED <<rootPath, currentPath, files, selectedFiles, deleteConfirm, disk, rerooted>>

Breadcrumb ==
    /\ OffersPage
    /\ LET parts == getRelativePath(currentPath)
       IN  \E i \in 0..Len(parts) :
              LoadDirectory(joinPath(rootPath, SubSeq(parts, 1, i)), calls)
    /\ UNCHANGED <<rootPath, currentPath, files, selectedFiles, deleteConfirm, disk, rerooted>>

ConfirmDelete ==
    /\ OffersRows
    /\ \E f \in files : deleteConfirm' = f
    /\ UNCHANGED <<rootPath, currentPath, files, loading, error, selectedFiles,
                   calls, disk, lastAsked, rerooted>>

CancelDelete ==
    /\ deleteConfirm # NoPath
    /\ deleteConfirm' = NoPath
    /\ UNCHANGED <<rootPath, currentPath, files, loading, error, selectedFiles,
                   calls, disk, lastAsked, rerooted>>

(* The dialog stays until the answer, and can be dismissed before it. *)
HandleDeleteFile ==
    /\ deleteConfirm # NoPath
    /\ Len(calls) < MaxCalls
    /\ calls' = Append(calls, [cmd |-> "delete", path |-> deleteConfirm,
                               back |-> currentPath, live |-> TRUE])
    /\ UNCHANGED <<rootPath, currentPath, files, loading, error, selectedFiles,
                   deleteConfirm, disk, lastAsked, rerooted>>

BrowserClicks ==
    \/ OpenFolder \/ SelectFile \/ goUp \/ Breadcrumb
    \/ ConfirmDelete \/ CancelDelete \/ HandleDeleteFile

-----------------------------------------------------------------------------
(* Seeded fault: the spinner is only removed when the listing succeeds. *)
Listed_NoFinally(c) ==
    /\ \/ /\ c.path \in disk \cap Folder
          /\ files' = Children(c.path) /\ currentPath' = c.path /\ selectedFiles' = {}
          /\ loading' = FALSE
          /\ UNCHANGED error
       \/ /\ files' = {} /\ error' = TRUE
          /\ UNCHANGED <<currentPath, selectedFiles, loading>>
    /\ UNCHANGED <<rootPath, deleteConfirm, disk, lastAsked, rerooted>>

(* The answer of list_directory: the entries, or an error, because the     *)
(* folder is gone or cannot be read.  An error leaves the path as it was,  *)
(* and an error of an earlier call is not withdrawn by a later success.    *)
Listed(c) ==
    /\ \/ /\ c.path \in disk \cap Folder
          /\ files' = Children(c.path) /\ currentPath' = c.path /\ selectedFiles' = {}
          /\ UNCHANGED error
       \/ /\ files' = {} /\ error' = TRUE
          /\ UNCHANGED <<currentPath, selectedFiles>>
    /\ loading' = FALSE
    /\ UNCHANGED <<rootPath, deleteConfirm, disk, lastAsked, rerooted>>

(* The answer of delete_path: the folder that was shown at the click is    *)
(* loaded again, whatever is shown by now.                                 *)
Deleted(c) ==
    \/ /\ c.path \in disk
       /\ disk' = {e \in disk : ~IsPrefix(c.path, e)}
       /\ IF c.live
            THEN /\ LoadDirectory(c.back, Tail(calls))
                 /\ deleteConfirm' = NoPath
            ELSE /\ calls' = Tail(calls)
                 /\ UNCHANGED <<loading, error, lastAsked, deleteConfirm>>
       /\ UNCHANGED <<rootPath, currentPath, files, selectedFiles, rerooted>>
    \/ /\ calls' = Tail(calls)
       /\ error' = (error \/ c.live)
       /\ UNCHANGED <<rootPath, currentPath, files, loading, selectedFiles,
                      deleteConfirm, disk, lastAsked, rerooted>>

(* Seeded fault: the newest call is answered first. *)
CallAnswered_Newest ==
    /\ calls # <<>>
    /\ LET c == Last(calls)
       IN  /\ c.cmd = "list" /\ c.live /\ Listed(c)
           /\ calls' = Front(calls)

(* The oldest call is answered. *)
CallAnswered ==
    /\ calls # <<>>
    /\ LET c == Head(calls)
       IN  \/ c.cmd = "delete" /\ Deleted(c)
           \/ c.cmd = "list" /\ c.live /\ Listed(c) /\ calls' = Tail(calls)
           \/ /\ c.cmd = "list" /\ ~c.live
              /\ calls' = Tail(calls)
              /\ UNCHANGED <<rootPath, currentPath, files, loading, error, selectedFiles,
                             deleteConfirm, disk, lastAsked, rerooted>>

-----------------------------------------------------------------------------
(* The rows are the contents of the folder that the breadcrumbs name, and  *)
(* no row is selected that is not there, whatever was clicked while a      *)
(* listing was under way (after a failed listing there are no rows).       *)
RowsBelong ==
    /\ \A f \in files : Front(f) = currentPath
    /\ selectedFiles \subseteq files \/ files = {}

(* Once nothing is outstanding the browser shows the folder asked for last *)
(* and exactly what is in it, deleted rows gone, unless it shows an error. *)
(* The screen belongs to the last click, never to a slower earlier one.    *)
ShowsLastAsked ==
    rootPath # NoPath /\ ~Waiting("list") /\ ~error
      => /\ currentPath = lastAsked
         /\ ~Waiting("delete") => files = Children(currentPath)

(* The browser does not leave its root, however the ways up and down and   *)
(* the answers interleave, also after the root changed under it: only when *)
(* a listing or a deletion was under way, or about to be confirmed, at     *)
(* that moment may the old folder come back.                               *)
InsideRoot ==
    rootPath # NoPath /\ ~Waiting("list") /\ ~error
      => IsPrefix(rootPath, currentPath) \/ rerooted

(* The browser is consistent: its rows and its selection belong to the     *)
(* folder it names, and that folder lies under its root.                   *)
BrowserInv == BrowserTypeOK /\ RowsBelong /\ InsideRoot

(* The spinner goes away: every listing is answered, and an error counts. *)
SpinnerEnds == loading ~> ~loading
=============================================================================
