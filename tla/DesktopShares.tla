--------------------------- MODULE DesktopShares ---------------------------
(***************************************************************************)
(* My Shares: the desktop application's list of shared folders.            *)
(*                                                                         *)
(* The list is React state copied to localStorage; the hosts themselves    *)
(* are tokio tasks of the Tauri backend.  The two are joined by commands   *)
(* that a handler awaits and by a poll every five seconds, so that an      *)
(* answer is applied to a list that has changed since the question.        *)
(*                                                                         *)
(* An id is drawn for every click on Start Sharing and a join code for     *)
(* every host that is started: both are counters here.  A share link is    *)
(* the join code it was made from.  Names, ports and timestamps are left   *)
(* out; a host task may end at any time, as it does when its port is in    *)
(* use.                                                                    *)
(***************************************************************************)
EXTENDS Naturals, FiniteSets

CONSTANTS
    Path,        \* canonical folders
    None,        \* no folder, no host
    MaxShares,   \* bound: clicks on Start Sharing
    MaxStarts,   \* bound: hosts started, so join codes
    MaxCalls,    \* bound: handlers awaiting the backend
    MaxClicks    \* bound: clicks that reach the backend, and restarts

ASSUME NoneIsNoPath == None \notin Path
ASSUME NoneIsNoHost == None \notin [path : Path, code : 1..MaxStarts]
ASSUME BoundsAreNat ==
    /\ MaxShares \in Nat /\ MaxStarts \in Nat
    /\ MaxCalls \in Nat /\ MaxClicks \in Nat

VARIABLES
    shares,         \* history.shares of useWormholeHistory
    dialog,         \* state of ShareDialog
    deleteConfirm,  \* id of the share whose removal is being confirmed, or 0
    calls,          \* handlers that are awaiting the backend
    host_handles,   \* AppState.host_handles
    tasks,          \* host tasks that are running
    timers,         \* ids with a sleeping expiration task
    ids, codes,     \* ids and join codes drawn so far
    clicks,
    overlapped      \* history variable: ids started twice at the same time

ui == <<shares, dialog, deleteConfirm>>
backend == <<host_handles, tasks, timers, codes, overlapped>>
vars == <<shares, dialog, deleteConfirm, calls, host_handles, tasks, timers,
          ids, codes, clicks, overlapped>>

Id == 1..MaxShares
Code == 1..MaxStarts

ShareHistoryItem ==
    [id : Id, path : Path, joinCode : Code, shareLink : Code,
     status : {"active", "inactive"}, expires : BOOLEAN]

HostInfo == [path : Path, code : Code]

(* A handler that is awaiting: what it will do with the answer (op), where *)
(* its command is (at) and what it captured or was told.  The number of    *)
(* the click tells two calls of one handler apart.                         *)
Op == {"create", "resume", "stop", "delete", "dialogStop", "sync", "lost"}
Stage == {"check", "insert", "stop", "read", "answer", "failed"}
Call ==
    [op : Op, at : Stage,
     id : Id \cup {0}, path : Path \cup {None}, expires : BOOLEAN,
     code : Code \cup {0}, hosts : SUBSET HostInfo, n : 0..MaxClicks]

NewCall(op, at, id) ==
    [op |-> op, at |-> at, id |-> id, path |-> None, expires |-> FALSE,
     code |-> 0, hosts |-> {}, n |-> 0]

SyncCall == NewCall("sync", "read", 0)

SharesTypeOK ==
    /\ shares \subseteq ShareHistoryItem
    /\ dialog \in [open : BOOLEAN, path : Path \cup {None}, hosting : BOOLEAN,
                   shareId : Id \cup {0}]
    /\ deleteConfirm \in Id \cup {0}
    /\ calls \subseteq Call
    /\ host_handles \in [Id -> HostInfo \cup {None}]
    /\ tasks \subseteq [id : Id, code : Code]
    /\ timers \subseteq Id
    /\ ids \in 0..MaxShares
    /\ codes \in 0..MaxStarts
    /\ clicks \in 0..MaxClicks
    /\ overlapped \subseteq Id

-----------------------------------------------------------------------------
(* The history: types/history.ts *)

EmptyDialog == [open |-> FALSE, path |-> None, hosting |-> FALSE, shareId |-> 0]

LoadHistory(stored) == {[s EXCEPT !.status = "inactive"] : s \in stored}

UpdateShareStatus(id, status) ==
    {IF s.id = id THEN [s EXCEPT !.status = status] ELSE s : s \in shares}

AddShareToHistory(share) == {s \in shares : s.path # share.path} \cup {share}

RemoveShareFromHistory(id) == {s \in shares : s.id # id}

(* Seeded fault: the poll only ever finds shares active. *)
SyncedSharesActive(hosts, found) ==
    {IF \E h \in hosts : h.path = s.path
       THEN [s EXCEPT !.status = "active", !.joinCode = found[s.path].code]
       ELSE s : s \in shares}

(* What syncWithBackend makes of the list, given the hosts it was told and *)
(* the one it finds for each path: the share link is not touched.          *)
SyncedShares(hosts, found) ==
    {IF \E h \in hosts : h.path = s.path
       THEN [s EXCEPT !.status = "active", !.joinCode = found[s.path].code]
       ELSE [s EXCEPT !.status = "inactive"] : s \in shares}

SharesInit ==
    /\ shares = {}
    /\ dialog = EmptyDialog
    /\ deleteConfirm = 0
    /\ calls = {}
    /\ host_handles = [i \in Id |-> None]
    /\ tasks = {}
    /\ timers = {}
    /\ ids = 0 /\ codes = 0 /\ clicks = 0
    /\ overlapped = {}

-----------------------------------------------------------------------------
(* The user.  The dialogs are modal: a card is clicked while none is open. *)

Modal == dialog.open \/ deleteConfirm # 0

(* A click that calls the backend. *)
Clicked(call) ==
    /\ clicks < MaxClicks
    /\ Cardinality(calls) < MaxCalls
    /\ clicks' = clicks + 1
    /\ calls' = calls \cup {[call EXCEPT !.n = clicks + 1]}
    /\ UNCHANGED backend

OpenShareDialog ==
    /\ ~Modal
    /\ dialog' = [dialog EXCEPT !.open = TRUE]
    /\ UNCHANGED <<shares, deleteConfirm, calls, ids, clicks, backend>>

CloseShareDialog ==
    /\ dialog.open
    /\ dialog' = [dialog EXCEPT !.open = FALSE]
    /\ UNCHANGED <<shares, deleteConfirm, calls, ids, clicks, backend>>

SelectFolder(p) ==
    /\ dialog.open /\ ~dialog.hosting /\ dialog.path = None
    /\ dialog' = [dialog EXCEPT !.path = p]
    /\ UNCHANGED <<shares, deleteConfirm, calls, ids, clicks, backend>>

ClearFolder ==
    /\ dialog.open /\ ~dialog.hosting /\ dialog.path # None
    /\ dialog' = [dialog EXCEPT !.path = None]
    /\ UNCHANGED <<shares, deleteConfirm, calls, ids, clicks, backend>>

(* Nothing disables the button while an earlier click is being served. *)
CanStart == dialog.open /\ ~dialog.hosting /\ dialog.path # None

HandleStartHosting(expires) ==
    /\ CanStart
    /\ ids < MaxShares
    /\ ids' = ids + 1
    /\ Clicked([NewCall("create", "check", ids + 1) EXCEPT
                    !.path = dialog.path, !.expires = expires])
    /\ dialog' = [dialog EXCEPT !.shareId = ids + 1]
    /\ UNCHANGED <<shares, deleteConfirm>>

HandleStopHosting ==
    /\ dialog.open /\ dialog.hosting
    /\ Clicked(NewCall("dialogStop", "stop", dialog.shareId))
    /\ UNCHANGED <<ui, ids>>

(* Which buttons a card offers. *)
OffersStop(s) == ~Modal /\ s.status = "active"
OffersResume(s) == ~Modal /\ s.status # "active"

HandleStopShare(s) ==
    /\ OffersStop(s)
    /\ Clicked(NewCall("stop", "stop", s.id))
    /\ shares' = UpdateShareStatus(s.id, "inactive")
    /\ UNCHANGED <<dialog, deleteConfirm, ids>>

HandleResumeShare(s) ==
    /\ OffersResume(s)
    /\ Clicked([NewCall("resume", "check", s.id) EXCEPT !.path = s.path])
    /\ shares' = UpdateShareStatus(s.id, "active")
    /\ UNCHANGED <<dialog, deleteConfirm, ids>>

ConfirmDeleteShare(s) ==
    /\ OffersResume(s)
    /\ deleteConfirm' = s.id
    /\ UNCHANGED <<shares, dialog, calls, ids, clicks, backend>>

CancelDelete ==
    /\ deleteConfirm # 0
    /\ deleteConfirm' = 0
    /\ UNCHANGED <<shares, dialog, calls, ids, clicks, backend>>

HandleDeleteShare ==
    /\ deleteConfirm # 0
    /\ Clicked(NewCall("delete", "stop", deleteConfirm))
    /\ UNCHANGED <<ui, ids>>

-----------------------------------------------------------------------------
(* The backend: commands.rs *)

Started(c) == c.at = "insert"

Advance(c, d) == calls' = (calls \ {c}) \cup {d}

(* What becomes of a command's call when the command ends.  A handler that *)
(* reverts on error calls syncWithBackend; a reloaded page hears nothing.  *)
Ended(c, ok) ==
    CASE c.op \in {"create", "dialogStop"} -> {[c EXCEPT !.at = IF ok THEN "answer" ELSE "failed"]}
      [] c.op = "delete" -> {[c EXCEPT !.at = "answer"]}
      [] c.op \in {"resume", "stop"} /\ ~ok -> {SyncCall}
      [] OTHER -> {}

(* start_hosting_with_id looks its id up and lets go of the map ... *)
StartCheck(c) ==
    /\ c \in calls /\ c.at = "check"
    /\ host_handles[c.id] = None
    /\ codes + Cardinality({d \in calls : Started(d)}) < MaxStarts
    /\ Advance(c, [c EXCEPT !.at = "insert"])
    /\ overlapped' = IF \E d \in calls : Started(d) /\ d.id = c.id
                       THEN overlapped \cup {c.id} ELSE overlapped
    /\ UNCHANGED <<ui, host_handles, tasks, timers, codes, ids, clicks>>

(* ... refuses an id that is there, or a folder that is gone ... *)
StartRefused(c) ==
    /\ c \in calls /\ c.at = "check"
    /\ calls' = (calls \ {c}) \cup Ended(c, FALSE)
    /\ UNCHANGED <<ui, backend, ids, clicks>>

(* ... and puts the handle of the host it spawned over whatever is there.  *)
(* The expiration task is spawned by start_hosting_with_expiration alone.  *)
StartInsert(c) ==
    /\ c \in calls /\ Started(c)
    /\ codes' = codes + 1
    /\ tasks' = tasks \cup {[id |-> c.id, code |-> codes + 1]}
    /\ host_handles' = [host_handles EXCEPT
                            ![c.id] = [path |-> c.path, code |-> codes + 1]]
    /\ timers' = IF c.expires THEN timers \cup {c.id} ELSE timers
    /\ calls' = (calls \ {c}) \cup Ended([c EXCEPT !.code = codes + 1], TRUE)
    /\ UNCHANGED <<ui, ids, clicks, overlapped>>

(* stop_hosting, which the dialog falls back on, asks for an id nobody has. *)
Hosted(id) == id \in Id /\ host_handles[id] # None

(* Seeded fault: the handle is dropped and its task not aborted. *)
RemoveHostOnly(id) ==
    /\ host_handles' = [host_handles EXCEPT ![id] = None]
    /\ UNCHANGED tasks

(* Taking a handle out of the map aborts the task it names. *)
RemoveHost(id) ==
    /\ host_handles' = [host_handles EXCEPT ![id] = None]
    /\ tasks' = {t \in tasks : t.code # host_handles[id].code}

StopHostingById(c) ==
    /\ c \in calls /\ c.at = "stop"
    /\ Hosted(c.id)
    /\ RemoveHost(c.id)
    /\ calls' = (calls \ {c}) \cup Ended(c, TRUE)
    /\ UNCHANGED <<ui, timers, codes, ids, clicks, overlapped>>

StopFindsNone(c) ==
    /\ c \in calls /\ c.at = "stop"
    /\ ~Hosted(c.id)
    /\ calls' = (calls \ {c}) \cup Ended(c, FALSE)
    /\ UNCHANGED <<ui, backend, ids, clicks>>

(* The expiration task removes whatever host its id has by now.  Nothing   *)
(* in the page listens to the event it emits.                              *)
Expire(id) ==
    /\ id \in timers
    /\ timers' = timers \ {id}
    /\ IF Hosted(id) THEN RemoveHost(id) ELSE UNCHANGED <<host_handles, tasks>>
    /\ UNCHANGED <<ui, calls, codes, ids, clicks, overlapped>>

(* A host whose port is taken, or that fails later, ends: its handle stays. *)
ServeFails(t) ==
    /\ t \in tasks
    /\ tasks' = tasks \ {t}
    /\ UNCHANGED <<ui, calls, host_handles, timers, codes, ids, clicks, overlapped>>

-----------------------------------------------------------------------------
(* Back in the page *)

ShareCreated(c) ==
    /\ c \in calls /\ c.op = "create" /\ c.at = "answer"
    /\ calls' = calls \ {c}
    /\ shares' = AddShareToHistory(
                    [id |-> c.id, path |-> c.path, joinCode |-> c.code,
                     shareLink |-> c.code, status |-> "active",
                     expires |-> c.expires])
    /\ dialog' = [dialog EXCEPT !.hosting = TRUE, !.open = FALSE]
    /\ UNCHANGED <<deleteConfirm, backend, ids, clicks>>

DialogStopped(c) ==
    /\ c \in calls /\ c.op = "dialogStop" /\ c.at = "answer"
    /\ calls' = calls \ {c}
    /\ dialog' = [dialog EXCEPT !.hosting = FALSE, !.open = FALSE, !.shareId = 0]
    /\ UNCHANGED <<shares, deleteConfirm, backend, ids, clicks>>

(* An error message in the dialog. *)
DialogError(c) ==
    /\ c \in calls /\ c.at = "failed"
    /\ calls' = calls \ {c}
    /\ UNCHANGED <<ui, backend, ids, clicks>>

ShareDeleted(c) ==
    /\ c \in calls /\ c.op = "delete" /\ c.at = "answer"
    /\ calls' = calls \ {c}
    /\ shares' = RemoveShareFromHistory(c.id)
    /\ deleteConfirm' = 0
    /\ UNCHANGED <<dialog, backend, ids, clicks>>

(* The poll: every five seconds, whether or not the last one has returned. *)
SyncStart ==
    /\ Cardinality(calls) < MaxCalls
    /\ SyncCall \notin calls
    /\ calls' = calls \cup {SyncCall}
    /\ UNCHANGED <<ui, backend, ids, clicks>>

ActiveHosts == {host_handles[i] : i \in {j \in Id : host_handles[j] # None}}

SyncRead(c) ==
    /\ c \in calls /\ c.at = "read"
    /\ Advance(c, [c EXCEPT !.at = "answer", !.hosts = ActiveHosts])
    /\ UNCHANGED <<ui, backend, ids, clicks>>

SyncApply(c) ==
    /\ c \in calls /\ c.op = "sync" /\ c.at = "answer"
    /\ \E found \in [{h.path : h \in c.hosts} -> c.hosts] :
          /\ \A p \in DOMAIN found : found[p].path = p
          /\ shares' = SyncedShares(c.hosts, found)
    /\ calls' = calls \ {c}
    /\ UNCHANGED <<dialog, deleteConfirm, backend, ids, clicks>>

(* The reload button of the error page: the page starts anew from          *)
(* localStorage; commands that are running go on, unheard.                 *)
HandleReload ==
    /\ clicks < MaxClicks
    /\ clicks' = clicks + 1
    /\ shares' = LoadHistory(shares)
    /\ dialog' = EmptyDialog
    /\ deleteConfirm' = 0
    /\ calls' = {[c EXCEPT !.op = "lost"] : c \in {d \in calls : d.at \in {"check", "insert", "stop"}}}
    /\ UNCHANGED <<backend, ids>>

(* Quitting the application ends every host and every timer. *)
Restart ==
    /\ clicks < MaxClicks
    /\ clicks' = clicks + 1
    /\ shares' = LoadHistory(shares)
    /\ dialog' = EmptyDialog
    /\ deleteConfirm' = 0
    /\ calls' = {}
    /\ host_handles' = [i \in Id |-> None]
    /\ tasks' = {} /\ timers' = {}
    /\ UNCHANGED <<ids, codes, overlapped>>

-----------------------------------------------------------------------------
User ==
    \/ OpenShareDialog \/ CloseShareDialog
    \/ \E p \in Path : SelectFolder(p)
    \/ ClearFolder
    \/ \E e \in BOOLEAN : HandleStartHosting(e)
    \/ HandleStopHosting
    \/ \E s \in shares : \/ HandleStopShare(s) \/ HandleResumeShare(s)
                         \/ ConfirmDeleteShare(s)
    \/ CancelDelete \/ HandleDeleteShare
    \/ HandleReload \/ Restart

Progress(c) ==
    \/ StartCheck(c) \/ StartRefused(c) \/ StartInsert(c)
    \/ StopHostingById(c) \/ StopFindsNone(c)
    \/ ShareCreated(c) \/ DialogStopped(c) \/ DialogError(c) \/ ShareDeleted(c)
    \/ SyncRead(c) \/ SyncApply(c)

SharesNext ==
    \/ User
    \/ \E c \in calls : Progress(c)
    \/ SyncStart
    \/ \E i \in Id : Expire(i)
    \/ \E t \in tasks : ServeFails(t)

SharesSpec == SharesInit /\ [][SharesNext]_vars

(* The interval timer goes on firing, and commands go on being executed    *)
(* and their answers handled, those of the poll among them, in no          *)
(* particular order.                                                       *)
SharesFairSpec ==
    /\ SharesSpec
    /\ WF_vars(SyncStart)
    /\ WF_vars(\E c \in calls : Progress(c))
    /\ WF_vars(\E c \in calls : SyncApply(c))

-----------------------------------------------------------------------------
(* Properties *)

(* The list stays keyed: no two cards have one id or one folder, whatever  *)
(* the order in which starts return, so that Stop, Resume and Remove act   *)
(* on one entry (addShareToHistory replaces by folder, the other updates   *)
(* go by id).                                                              *)
HistoryKeyed ==
    \A s, t \in shares : s.id = t.id \/ s.path = t.path => s = t

(* A folder that is being served can be stopped: its task is the one that  *)
(* the map names under its id, unless two starts of that id were between   *)
(* their look-up and their insert at the same time.                        *)
ServedIsListed ==
    \A t \in tasks :
        \/ t.id \in overlapped
        \/ host_handles[t.id] # None /\ host_handles[t.id].code = t.code

(* The list of shares and the backend's map fit together: cards are keyed  *)
(* by id and by folder, and what is served can be stopped.                 *)
SharesInv == SharesTypeOK /\ HistoryKeyed /\ ServedIsListed

ShownAgrees ==
    \A s \in shares :
        /\ s.status = "active" <=> \E h \in ActiveHosts : h.path = s.path
        /\ s.status = "active" => [path |-> s.path, code |-> s.joinCode] \in ActiveHosts

(* Once the user is done, optimistic updates, answers to older polls and   *)
(* failed commands are all repaired: the list comes to agree with the      *)
(* backend's map, join codes included, and stays so.                       *)
PollConverges == <>[]ShownAgrees
=============================================================================
