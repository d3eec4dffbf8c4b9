--------------------------- MODULE DesktopMounts ---------------------------
(***************************************************************************)
(* Shared With Me: the desktop application's list of connections to other  *)
(* people's folders.                                                       *)
(*                                                                         *)
(* A connection is a mount thread of the Tauri backend, listed by id in    *)
(* client_handles.  The page learns of it from the result of the command,  *)
(* from a MountReady event that carries no id, and from a poll that goes   *)
(* by mount point.  Unmounting is left to a background command that goes   *)
(* by mount point too.                                                     *)
(*                                                                         *)
(* An address typed into the dialog is a valid join code here; the legacy  *)
(* connection by address and port is not modelled.                         *)
(***************************************************************************)
EXTENDS Naturals, FiniteSets

CONSTANTS
    JoinCode, Mount,
    None,
    MaxIds,      \* bound: connection ids drawn
    MaxPolls,    \* bound: polls awaiting the backend
    MaxClicks    \* bound: clicks that reach the backend, and restarts

ASSUME NoneIsNothing == None \notin JoinCode \cup Mount
ASSUME SomethingToMount == JoinCode # {} /\ Mount # {}
ASSUME MountBoundsAreNat == MaxIds \in Nat \ {0} /\ MaxPolls \in Nat /\ MaxClicks \in Nat

VARIABLES
    connections,      \* history.connections of useWormholeHistory
    dialog,           \* state of ConnectDialog, and its listener's hasEmitted
    pendingJoinCode,  \* code of the last deep link
    deleteConfirm,
    calls,            \* handlers that are awaiting the backend
    client_handles,   \* AppState.client_handles
    threads,          \* mount threads
    umounts,          \* mount points that a background umount is due for
    ids, clicks,
    raced             \* history variable: ids whose mount can outlive its handle

ui == <<connections, dialog, pendingJoinCode, deleteConfirm>>
backend == <<client_handles, threads, umounts, raced>>
vars == <<connections, dialog, pendingJoinCode, deleteConfirm, calls,
          client_handles, threads, umounts, ids, clicks, raced>>

Id == 1..MaxIds

ConnectionHistoryItem ==
    [id : Id, joinCode : JoinCode \cup {None}, mountPoint : Mount,
     status : {"connected", "disconnected", "connecting", "error"}]

(* A mount thread: its client connects (ready) while it mounts. *)
Thread ==
    [n : 0..MaxClicks, id : Id, mount : Mount, ready : BOOLEAN,
     at : {"starting", "mounted"}]

(* A handler that is awaiting.  A reconnection first waits in the folder   *)
(* picker; a connection is then looked up, made, and entered in the map.   *)
Op == {"create", "reconnect", "disconnect", "dialogDisconnect", "sync", "lost"}
Stage == {"pick", "check", "connect", "stop", "read", "answer", "failed"}
Call ==
    [op : Op, at : Stage, id : Id \cup {0}, code : JoinCode \cup {None},
     mount : Mount \cup {None}, mounts : SUBSET Mount, n : 0..MaxClicks]

NewCall(op, at, id) ==
    [op |-> op, at |-> at, id |-> id, code |-> None, mount |-> None,
     mounts |-> {}, n |-> 0]

SyncCall == NewCall("sync", "read", 0)

ConnectDialogState ==
    [open : BOOLEAN, code : JoinCode \cup {None}, mount : Mount \cup {None},
     connectionId : Id \cup {0}, connected : BOOLEAN, hasEmitted : BOOLEAN]

MountsTypeOK ==
    /\ connections \subseteq ConnectionHistoryItem
    /\ dialog \in ConnectDialogState
    /\ pendingJoinCode \in JoinCode \cup {None}
    /\ deleteConfirm \in Id \cup {0}
    /\ calls \subseteq Call
    /\ client_handles \in [Id -> Mount \cup {None}]
    /\ threads \subseteq Thread
    /\ umounts \subseteq Mount
    /\ ids \in 0..MaxIds
    /\ clicks \in 0..MaxClicks
    /\ raced \subseteq Id

-----------------------------------------------------------------------------
(* The history: types/history.ts *)

EmptyDialog ==
    [open |-> FALSE, code |-> None, mount |-> None, connectionId |-> 0,
     connected |-> FALSE, hasEmitted |-> FALSE]

LoadConnections(stored) == {[c EXCEPT !.status = "disconnected"] : c \in stored}

UpdateConnectionStatus(id, status) ==
    {IF c.id = id THEN [c EXCEPT !.status = status] ELSE c : c \in connections}

AddConnectionToHistory(conn) ==
    {c \in connections : c.joinCode # conn.joinCode} \cup {conn}

(* handleConnectionCreated: add the entry, then set every entry of that id *)
(* connected.                                                              *)
ConnectionCreated(code, mount, id) ==
    LET added == AddConnectionToHistory(
                    [id |-> id, joinCode |-> code, mountPoint |-> mount,
                     status |-> "connecting"])
    IN  {IF c.id = id THEN [c EXCEPT !.status = "connected"] ELSE c : c \in added}

RemoveConnectionFromHistory(id) == {c \in connections : c.id # id}

(* Seeded fault: the poll leaves a connection that is being made alone. *)
SyncedUnlessConnecting(mounts) ==
    {IF c.status = "connecting" THEN c
     ELSE [c EXCEPT !.status = IF c.mountPoint \in mounts
                                 THEN "connected" ELSE "disconnected"] : c \in connections}

SyncedConnections(mounts) ==
    {[c EXCEPT !.status = IF c.mountPoint \in mounts
                            THEN "connected" ELSE "disconnected"] : c \in connections}

(* The application starts with the history it finds in localStorage: here  *)
(* nothing, or one connection of an earlier session.                       *)
MountsInit ==
    /\ \/ connections = {} /\ ids = 0
       \/ /\ ids = 1
          /\ connections = LoadConnections({[id |-> 1, joinCode |-> CHOOSE c \in JoinCode : TRUE,
                                              mountPoint |-> CHOOSE m \in Mount : TRUE,
                                              status |-> "connected"]})
    /\ dialog = EmptyDialog
    /\ pendingJoinCode = None
    /\ deleteConfirm = 0
    /\ calls = {}
    /\ client_handles = [i \in Id |-> None]
    /\ threads = {}
    /\ umounts = {}
    /\ clicks = 0
    /\ raced = {}

-----------------------------------------------------------------------------
(* The user and the dialog.  The listener is registered anew, with its     *)
(* hasEmitted cleared, when the dialog opens and when the address or the   *)
(* connection's id in it changes.                                          *)

Modal == dialog.open \/ deleteConfirm # 0

Clicked(call) ==
    /\ clicks < MaxClicks
    /\ clicks' = clicks + 1
    /\ calls' = calls \cup {[call EXCEPT !.n = clicks + 1]}
    /\ UNCHANGED backend

(* The dialog takes the pending code over whenever it opens. *)
Opened(code) ==
    LET address == IF code # None THEN code ELSE dialog.code
    IN  [dialog EXCEPT !.open = TRUE, !.code = address,
                       !.hasEmitted = @ /\ dialog.open /\ address = dialog.code]

OpenConnectDialog ==
    /\ ~Modal
    /\ dialog' = Opened(pendingJoinCode)
    /\ UNCHANGED <<connections, pendingJoinCode, deleteConfirm, calls, ids, clicks, backend>>

(* A link opened elsewhere brings the dialog up, or changes the address in *)
(* it under the user's hands.  The effect runs when the pending code or    *)
(* the dialog's visibility changes.                                        *)
DeepLink(code) ==
    /\ ~dialog.open \/ pendingJoinCode # code
    /\ pendingJoinCode' = code
    /\ dialog' = Opened(code)
    /\ UNCHANGED <<connections, deleteConfirm, calls, ids, clicks, backend>>

CloseConnectDialog ==
    /\ dialog.open
    /\ dialog' = [dialog EXCEPT !.open = FALSE]
    /\ pendingJoinCode' = None
    /\ UNCHANGED <<connections, deleteConfirm, calls, ids, clicks, backend>>

TypeAddress(code) ==
    /\ dialog.open /\ ~dialog.connected /\ dialog.code # code
    /\ dialog' = [dialog EXCEPT !.code = code, !.hasEmitted = FALSE]
    /\ UNCHANGED <<connections, pendingJoinCode, deleteConfirm, calls, ids, clicks, backend>>

SelectMount(m) ==
    /\ dialog.open /\ ~dialog.connected /\ dialog.mount = None
    /\ dialog' = [dialog EXCEPT !.mount = m]
    /\ UNCHANGED <<connections, pendingJoinCode, deleteConfirm, calls, ids, clicks, backend>>

ClearMount ==
    /\ dialog.open /\ ~dialog.connected /\ dialog.mount # None
    /\ dialog' = [dialog EXCEPT !.mount = None]
    /\ UNCHANGED <<connections, pendingJoinCode, deleteConfirm, calls, ids, clicks, backend>>

CanConnect ==
    dialog.open /\ ~dialog.connected /\ dialog.code # None /\ dialog.mount # None

HandleConnect ==
    /\ CanConnect
    /\ ids < MaxIds
    /\ ids' = ids + 1
    /\ Clicked([NewCall("create", "check", ids + 1) EXCEPT
                    !.code = dialog.code, !.mount = dialog.mount])
    /\ dialog' = [dialog EXCEPT !.connectionId = ids + 1, !.hasEmitted = FALSE]
    /\ UNCHANGED <<connections, pendingJoinCode, deleteConfirm>>

HandleDialogDisconnect ==
    /\ dialog.open /\ dialog.connected
    /\ Clicked(NewCall("dialogDisconnect", "stop", dialog.connectionId))
    /\ UNCHANGED <<ui, ids>>

(* Which buttons a card offers: none while it is connecting. *)
OffersDisconnect(c) == ~Modal /\ c.status = "connected"
OffersReconnect(c) == ~Modal /\ c.status \in {"disconnected", "error"}

HandleDisconnect(c) ==
    /\ OffersDisconnect(c)
    /\ Clicked(NewCall("disconnect", "stop", c.id))
    /\ connections' = UpdateConnectionStatus(c.id, "disconnected")
    /\ UNCHANGED <<dialog, pendingJoinCode, deleteConfirm, ids>>

HandleReconnect(c) ==
    /\ OffersReconnect(c)
    /\ Clicked([NewCall("reconnect", "pick", c.id) EXCEPT !.code = c.joinCode])
    /\ connections' = UpdateConnectionStatus(c.id, "connecting")
    /\ UNCHANGED <<dialog, pendingJoinCode, deleteConfirm, ids>>

ConfirmRemoveConnection(c) ==
    /\ OffersReconnect(c)
    /\ deleteConfirm' = c.id
    /\ UNCHANGED <<connections, dialog, pendingJoinCode, calls, ids, clicks, backend>>

CancelRemove ==
    /\ deleteConfirm # 0
    /\ deleteConfirm' = 0
    /\ UNCHANGED <<connections, dialog, pendingJoinCode, calls, ids, clicks, backend>>

(* Unlike a share's, a connection's removal does not reach the backend. *)
HandleRemoveConnection ==
    /\ deleteConfirm # 0
    /\ connections' = RemoveConnectionFromHistory(deleteConfirm)
    /\ deleteConfirm' = 0
    /\ UNCHANGED <<dialog, pendingJoinCode, calls, ids, clicks, backend>>

(* The folder picker of a reconnection returns. *)
PickMount(k, m) ==
    /\ k \in calls /\ k.at = "pick"
    /\ calls' = (calls \ {k}) \cup {[k EXCEPT !.at = "check", !.mount = m]}
    /\ UNCHANGED <<ui, backend, ids, clicks>>

PickCancelled(k) ==
    /\ k \in calls /\ k.at = "pick"
    /\ calls' = calls \ {k}
    /\ connections' = UpdateConnectionStatus(k.id, "disconnected")
    /\ UNCHANGED <<dialog, pendingJoinCode, deleteConfirm, backend, ids, clicks>>

-----------------------------------------------------------------------------
(* The backend: commands.rs *)

Connected(id) == id \in Id /\ client_handles[id] # None
Connecting(k) == k.at = "connect"

Advance(k, l) == calls' = (calls \ {k}) \cup {l}

(* The answer of a command, unless the page that asked has been reloaded. *)
Returned(k, stage) == IF k.op = "lost" THEN {} ELSE {[k EXCEPT !.at = stage]}

(* connect_with_code_and_id looks its id and its mount point up and lets   *)
(* go of the map ...                                                       *)
ConnectCheck(k) ==
    /\ k \in calls /\ k.at = "check"
    /\ ~Connected(k.id)
    /\ \A i \in Id : client_handles[i] # k.mount
    /\ Advance(k, [k EXCEPT !.at = "connect"])
    /\ LET rivals == {l \in calls : Connecting(l) /\ (l.id = k.id \/ l.mount = k.mount)}
       IN  raced' = IF rivals = {} THEN raced
                                   ELSE raced \cup {k.id} \cup {l.id : l \in rivals}
    /\ UNCHANGED <<ui, client_handles, threads, umounts, ids, clicks>>

(* ... refuses one that is in use, or fails to make the folder or to reach *)
(* the host ...                                                            *)
ConnectFails(k) ==
    /\ k \in calls /\ k.at \in {"check", "connect"}
    /\ calls' = (calls \ {k}) \cup Returned(k, "failed")
    /\ UNCHANGED <<ui, backend, ids, clicks>>

(* ... and enters the thread it has spawned in the map. *)
ConnectInsert(k) ==
    /\ k \in calls /\ Connecting(k)
    /\ threads' = threads \cup {[n |-> k.n, id |-> k.id, mount |-> k.mount,
                                 ready |-> FALSE, at |-> "starting"]}
    /\ client_handles' = [client_handles EXCEPT ![k.id] = k.mount]
    /\ calls' = (calls \ {k}) \cup Returned(k, "answer")
    /\ LET before == {t \in threads : t.mount = k.mount}
       IN  raced' = IF before = {} /\ k.mount \notin umounts THEN raced
                       ELSE raced \cup {k.id} \cup {t.id : t \in before}
    /\ UNCHANGED <<ui, umounts, ids, clicks>>

(* mount2 returns when the file system is unmounted; an error is an event. *)
MountSucceeds(t) ==
    /\ t \in threads /\ t.at = "starting"
    /\ threads' = (threads \ {t}) \cup {[t EXCEPT !.at = "mounted"]}
    /\ UNCHANGED <<ui, calls, client_handles, umounts, ids, clicks, raced>>

MountEnds(t) ==
    /\ t \in threads /\ t.at = "mounted"
    /\ threads' = threads \ {t}
    /\ UNCHANGED <<ui, calls, client_handles, umounts, ids, clicks, raced>>

MountFails(t) ==
    /\ t \in threads /\ t.at = "starting"
    /\ threads' = threads \ {t}
    /\ dialog' = [dialog EXCEPT !.connected = @ /\ ~dialog.open]
    /\ UNCHANGED <<connections, pendingJoinCode, deleteConfirm, calls,
                   client_handles, umounts, ids, clicks, raced>>

(* Seeded fault: the thread is left to notice by itself. *)
DisconnectForgets(id) ==
    /\ client_handles' = [client_handles EXCEPT ![id] = None]
    /\ UNCHANGED <<umounts, threads, raced>>

(* disconnect_by_id forgets the mount at once and unmounts later. *)
DisconnectById(id) ==
    /\ client_handles' = [client_handles EXCEPT ![id] = None]
    /\ umounts' = umounts \cup {client_handles[id]}
    /\ UNCHANGED <<threads, raced>>

Disconnect(k) ==
    /\ k \in calls /\ k.at = "stop"
    /\ Connected(k.id)
    /\ DisconnectById(k.id)
    /\ calls' = (calls \ {k}) \cup (IF k.op = "disconnect" THEN {} ELSE Returned(k, "answer"))
    /\ UNCHANGED <<ui, ids, clicks>>

(* Without an id the dialog calls disconnect, which takes any connection. *)
DisconnectAny(k, id) ==
    /\ k \in calls /\ k.at = "stop" /\ k.id = 0
    /\ Connected(id)
    /\ DisconnectById(id)
    /\ calls' = (calls \ {k}) \cup Returned(k, "answer")
    /\ UNCHANGED <<ui, ids, clicks>>

DisconnectFindsNone(k) ==
    /\ k \in calls /\ k.at = "stop"
    /\ IF k.id = 0 THEN \A i \in Id : ~Connected(i) ELSE ~Connected(k.id)
    /\ calls' = (calls \ {k}) \cup
                    (IF k.op = "disconnect" THEN {SyncCall} ELSE Returned(k, "failed"))
    /\ UNCHANGED <<ui, backend, ids, clicks>>

(* umount -f and fusermount -uz take a mount point: one that is not yet    *)
(* mounted is missed.                                                      *)
Umount(m) ==
    /\ m \in umounts
    /\ umounts' = umounts \ {m}
    /\ LET mounted == {t \in threads : t.mount = m /\ t.at = "mounted"}
           missed == {t \in threads : t.mount = m /\ t.at = "starting"}
       IN  /\ IF mounted = {} THEN UNCHANGED threads
              ELSE \E t \in mounted : threads' = threads \ {t}
           /\ raced' = raced \cup {t.id : t \in missed}
    /\ UNCHANGED <<ui, calls, client_handles, ids, clicks>>

-----------------------------------------------------------------------------
(* Back in the page *)

(* The client of a thread has connected.  The event names a mount point;   *)
(* the dialog, if it is open, takes it for its own and adds the address    *)
(* and the id it shows just now, drawing an id if it has none.             *)
MountReady(t) ==
    /\ t \in threads /\ ~t.ready
    /\ threads' = (threads \ {t}) \cup {[t EXCEPT !.ready = TRUE]}
    /\ IF dialog.open /\ ~dialog.hasEmitted
         THEN /\ dialog.connectionId = 0 => ids < MaxIds
              /\ ids' = IF dialog.connectionId = 0 THEN ids + 1 ELSE ids
              /\ connections' = ConnectionCreated(dialog.code, t.mount,
                        IF dialog.connectionId = 0 THEN ids + 1 ELSE dialog.connectionId)
              /\ dialog' = [dialog EXCEPT !.hasEmitted = TRUE, !.connected = TRUE,
                                          !.mount = t.mount, !.open = FALSE]
         ELSE UNCHANGED <<connections, dialog, ids>>
    /\ UNCHANGED <<pendingJoinCode, deleteConfirm, calls, client_handles, umounts, clicks, raced>>

ClientFails(t) ==
    /\ t \in threads /\ ~t.ready
    /\ threads' = (threads \ {t}) \cup {[t EXCEPT !.ready = TRUE]}
    /\ dialog' = [dialog EXCEPT !.connected = @ /\ ~dialog.open]
    /\ UNCHANGED <<connections, pendingJoinCode, deleteConfirm, calls,
                   client_handles, umounts, ids, clicks, raced>>

ConnectReturns(k) ==
    /\ k \in calls /\ k.op = "create" /\ k.at = "answer"
    /\ calls' = calls \ {k}
    /\ connections' = ConnectionCreated(k.code, k.mount, k.id)
    /\ dialog' = [dialog EXCEPT !.connected = TRUE, !.mount = k.mount, !.open = FALSE]
    /\ UNCHANGED <<pendingJoinCode, deleteConfirm, backend, ids, clicks>>

(* The mount point in the entry stays the one of the first connection. *)
ReconnectReturns(k) ==
    /\ k \in calls /\ k.op = "reconnect" /\ k.at \in {"answer", "failed"}
    /\ calls' = calls \ {k}
    /\ connections' = UpdateConnectionStatus(k.id,
                          IF k.at = "answer" THEN "connected" ELSE "error")
    /\ UNCHANGED <<dialog, pendingJoinCode, deleteConfirm, backend, ids, clicks>>

DialogDisconnected(k) ==
    /\ k \in calls /\ k.op = "dialogDisconnect" /\ k.at = "answer"
    /\ calls' = calls \ {k}
    /\ dialog' = [dialog EXCEPT !.connected = FALSE, !.connectionId = 0, !.open = FALSE]
    /\ pendingJoinCode' = None
    /\ UNCHANGED <<connections, deleteConfirm, backend, ids, clicks>>

DialogError(k) ==
    /\ k \in calls /\ k.op \in {"create", "dialogDisconnect"} /\ k.at = "failed"
    /\ calls' = calls \ {k}
    /\ UNCHANGED <<ui, backend, ids, clicks>>

SyncStart ==
    /\ Cardinality({k \in calls : k.op = "sync"}) < MaxPolls
    /\ SyncCall \notin calls
    /\ calls' = calls \cup {SyncCall}
    /\ UNCHANGED <<ui, backend, ids, clicks>>

ActiveMounts == {client_handles[i] : i \in Id} \ {None}

SyncRead(k) ==
    /\ k \in calls /\ k.at = "read"
    /\ Advance(k, [k EXCEPT !.at = "answer", !.mounts = ActiveMounts])
    /\ UNCHANGED <<ui, backend, ids, clicks>>

SyncApply(k) ==
    /\ k \in calls /\ k.op = "sync" /\ k.at = "answer"
    /\ calls' = calls \ {k}
    /\ connections' = SyncedConnections(k.mounts)
    /\ UNCHANGED <<dialog, pendingJoinCode, deleteConfirm, backend, ids, clicks>>

HandleReload ==
    /\ clicks < MaxClicks
    /\ clicks' = clicks + 1
    /\ connections' = LoadConnections(connections)
    /\ dialog' = EmptyDialog
    /\ pendingJoinCode' = None
    /\ deleteConfirm' = 0
    /\ calls' = {[k EXCEPT !.op = "lost"] : k \in {l \in calls : l.at \in {"check", "connect", "stop"}}}
    /\ UNCHANGED <<backend, ids>>

(* Quitting ends every mount (AutoUnmount). *)
Restart ==
    /\ clicks < MaxClicks
    /\ clicks' = clicks + 1
    /\ connections' = LoadConnections(connections)
    /\ dialog' = EmptyDialog
    /\ pendingJoinCode' = None
    /\ deleteConfirm' = 0
    /\ calls' = {}
    /\ client_handles' = [i \in Id |-> None]
    /\ threads' = {} /\ umounts' = {}
    /\ UNCHANGED <<ids, raced>>

-----------------------------------------------------------------------------
User ==
    \/ OpenConnectDialog \/ CloseConnectDialog
    \/ \E c \in JoinCode : DeepLink(c) \/ TypeAddress(c)
    \/ \E m \in Mount : SelectMount(m)
    \/ ClearMount
    \/ HandleConnect \/ HandleDialogDisconnect
    \/ \E c \in connections : \/ HandleDisconnect(c) \/ HandleReconnect(c)
                              \/ ConfirmRemoveConnection(c)
    \/ CancelRemove \/ HandleRemoveConnection
    \/ \E k \in calls : PickCancelled(k) \/ \E m \in Mount : PickMount(k, m)
    \/ HandleReload \/ Restart

Progress(k) ==
    \/ ConnectCheck(k) \/ ConnectFails(k) \/ ConnectInsert(k)
    \/ Disconnect(k) \/ DisconnectFindsNone(k)
    \/ \E i \in Id : DisconnectAny(k, i)
    \/ ConnectReturns(k) \/ ReconnectReturns(k)
    \/ DialogDisconnected(k) \/ DialogError(k)
    \/ SyncRead(k) \/ SyncApply(k)

MountsNext ==
    \/ User
    \/ \E k \in calls : Progress(k)
    \/ SyncStart
    \/ \E t \in threads : \/ MountSucceeds(t) \/ MountEnds(t) \/ MountFails(t)
                          \/ MountReady(t) \/ ClientFails(t)
    \/ \E m \in Mount : Umount(m)

MountsSpec == MountsInit /\ [][MountsNext]_vars

(* The interval timer goes on firing, and a poll's command returns and is  *)
(* applied.  Nothing is asked of the other commands: a connection that is  *)
(* never made, or a folder picker that stays open, may not keep the cards  *)
(* from telling the truth.                                                 *)
MountsFairSpec ==
    /\ MountsSpec
    /\ WF_vars(SyncStart)
    /\ WF_vars(\E k \in calls : SyncRead(k))
    /\ WF_vars(\E k \in calls : SyncApply(k))

-----------------------------------------------------------------------------
(* Properties *)

(* The list has one card for a join code, although the event and the       *)
(* command's result both add one, with addresses read at different times.  *)
CodesKeyed ==
    \A c, d \in connections : c.joinCode = d.joinCode => c = d

(* A mounted folder can be unmounted: the map has it under its id, or an   *)
(* umount is due, unless it was mounted in a race: two connections made at *)
(* once under one id or for one mount point, an umount that came before    *)
(* the mount, or a mount point used again before it was free.              *)
MountedIsListed ==
    \A t \in threads : t.at = "mounted" =>
        \/ client_handles[t.id] = t.mount
        \/ t.mount \in umounts
        \/ t.id \in raced

(* The list of connections and the backend's map fit together: one card    *)
(* for a join code, and what is mounted can be unmounted.                  *)
MountsInv == MountsTypeOK /\ CodesKeyed /\ MountedIsListed

(* Once the user is done, every card says what the backend's map says of   *)
(* its mount point: no card stays connecting or in error, whatever polls,  *)
(* events, results and cancelled pickers were applied out of order.        *)
MountsConverge ==
    <>[](\A c \in connections :
            c.status = IF c.mountPoint \in ActiveMounts THEN "connected" ELSE "disconnected")
=============================================================================
