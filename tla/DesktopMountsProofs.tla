------------------------ MODULE DesktopMountsProofs ------------------------
(***************************************************************************)
(* The list of connections and the backend's map of mounts fit together,   *)
(* for any codes, mount points and numbers of clicks and polls.            *)
(*                                                                         *)
(* That a mounted folder can be unmounted is not inductive: a thread is    *)
(* listed, or due for an umount, from the moment it is spawned; an umount  *)
(* ends one thread of its mount point, so that two threads of one mount    *)
(* point are both in a race; and the insert of a connection overwrites     *)
(* nothing, because a connection between its look-up and its insert is     *)
(* alone with its id, unless that id is in a race.                         *)
(***************************************************************************)
EXTENDS DesktopMounts, TLAPS

(* What a handler captured fits what it is doing. *)
CallOK(k) ==
    /\ k.at \in {"pick", "check", "connect"} \/ k.op = "create" => k.id \in Id
    /\ k.at \in {"check", "connect"} \/ k.op = "create" => k.mount \in Mount

CallsInd == calls \subseteq Call /\ \A k \in calls : CallOK(k)

(* A connection past its look-up is alone with its id. *)
Inserts ==
    \A k \in calls : Connecting(k) /\ k.id \notin raced =>
        /\ client_handles[k.id] = None
        /\ \A l \in calls : Connecting(l) /\ l.id = k.id => l = k

ThreadListed ==
    \A t \in threads :
        \/ client_handles[t.id] = t.mount
        \/ t.mount \in umounts
        \/ t.id \in raced

SharedIsRaced ==
    \A t, u \in threads : t.mount = u.mount /\ t # u => t.id \in raced

CardsInd == connections \subseteq ConnectionHistoryItem /\ CodesKeyed

PageInd ==
    /\ CardsInd
    /\ dialog \in ConnectDialogState
    /\ pendingJoinCode \in JoinCode \cup {None}
    /\ deleteConfirm \in Id \cup {0}

CountersInd == ids \in 0 .. MaxIds /\ clicks \in 0 .. MaxClicks

BackendInd ==
    /\ client_handles \in [Id -> Mount \cup {None}]
    /\ threads \subseteq Thread
    /\ umounts \subseteq Mount
    /\ raced \subseteq Id
    /\ ThreadListed
    /\ SharedIsRaced

MountsInd == PageInd /\ CountersInd /\ CallsInd /\ BackendInd /\ Inserts
-----------------------------------------------------------------------------
(* The list of connections. *)

LEMMA StatusUpdate ==
    ASSUME CardsInd, NEW id,
           NEW st \in {"connected", "disconnected", "connecting", "error"},
           connections' = UpdateConnectionStatus(id, st)
    PROVE  CardsInd'
  <1>. DEFINE f(c) == IF c.id = id THEN [c EXCEPT !.status = st] ELSE c
  <1>1. \A c \in connections : f(c) \in ConnectionHistoryItem /\ f(c).joinCode = c.joinCode
    BY DEF CardsInd, ConnectionHistoryItem
  <1>2. connections' = {f(c) : c \in connections}
    BY DEF UpdateConnectionStatus
  <1>. HIDE DEF f
  <1>. QED
    BY <1>1, <1>2 DEF CardsInd, CodesKeyed

LEMMA LoadedCards ==
    ASSUME CardsInd, connections' = LoadConnections(connections)
    PROVE  CardsInd'
  <1>. DEFINE f(c) == [c EXCEPT !.status = "disconnected"]
  <1>1. \A c \in connections : f(c) \in ConnectionHistoryItem /\ f(c).joinCode = c.joinCode
    BY DEF CardsInd, ConnectionHistoryItem
  <1>2. connections' = {f(c) : c \in connections}
    BY DEF LoadConnections
  <1>. HIDE DEF f
  <1>. QED
    BY <1>1, <1>2 DEF CardsInd, CodesKeyed

(* The answer to a poll, however old it is. *)
LEMMA SyncedCards ==
    ASSUME CardsInd, NEW mounts, connections' = SyncedConnections(mounts)
    PROVE  CardsInd'
  <1>. DEFINE f(c) == [c EXCEPT !.status = IF c.mountPoint \in mounts
                                             THEN "connected" ELSE "disconnected"]
  <1>1. \A c \in connections : f(c) \in ConnectionHistoryItem /\ f(c).joinCode = c.joinCode
    BY DEF CardsInd, ConnectionHistoryItem
  <1>2. connections' = {f(c) : c \in connections}
    BY DEF SyncedConnections
  <1>. HIDE DEF f
  <1>. QED
    BY <1>1, <1>2 DEF CardsInd, CodesKeyed

(* A new connection takes the place of the card with the same code. *)
LEMMA CreatedCards ==
    ASSUME CardsInd, NEW code \in JoinCode \cup {None}, NEW mount \in Mount, NEW id \in Id,
           connections' = ConnectionCreated(code, mount, id)
    PROVE  CardsInd'
  <1>. DEFINE x == [id |-> id, joinCode |-> code, mountPoint |-> mount, status |-> "connecting"]
              added == {c \in connections : c.joinCode # x.joinCode} \cup {x}
              f(c) == IF c.id = id THEN [c EXCEPT !.status = "connected"] ELSE c
  <1>1. x \in ConnectionHistoryItem
    BY DEF ConnectionHistoryItem
  <1>2. /\ added \subseteq ConnectionHistoryItem
        /\ \A c, d \in added : c.joinCode = d.joinCode => c = d
    <2>. HIDE DEF x
    <2>. QED
      BY <1>1 DEF CardsInd, CodesKeyed
  <1>3. \A c \in added : f(c) \in ConnectionHistoryItem /\ f(c).joinCode = c.joinCode
    <2>. HIDE DEF added
    <2>. QED
      BY <1>2 DEF ConnectionHistoryItem
  <1>4. connections' = {f(c) : c \in added}
    BY DEF ConnectionCreated, AddConnectionToHistory
  <1>. HIDE DEF f, added
  <1>. QED
    BY <1>2, <1>3, <1>4 DEF CardsInd, CodesKeyed
-----------------------------------------------------------------------------
(* The calls. *)

LEMMA NewCallFacts ==
    ASSUME NEW op \in Op, NEW at \in Stage, NEW id \in Id \cup {0}
    PROVE  \E q \in Call : /\ q = NewCall(op, at, id)
                           /\ q.op = op /\ q.at = at /\ q.id = id
  <1>. DEFINE x == NewCall(op, at, id)
  <1>1. x \in Call /\ x.op = op /\ x.at = at /\ x.id = id
    BY MountBoundsAreNat DEF NewCall, Call
  <1>2. x = NewCall(op, at, id)
    OBVIOUS
  <1>. HIDE DEF x
  <1>. QED
    BY <1>1, <1>2, Zenon

LEMMA PollFacts == SyncCall \in Call /\ CallOK(SyncCall) /\ ~Connecting(SyncCall)
  <1>1. PICK q \in Call : /\ q = NewCall("sync", "read", 0)
                          /\ q.op = "sync" /\ q.at = "read" /\ q.id = 0
    BY NewCallFacts DEF Op, Stage
  <1>. QED
    BY <1>1 DEF SyncCall, CallOK, Connecting

(* The answer of a command. *)
LEMMA ReturnedFacts ==
    ASSUME NEW k \in Call, CallOK(k), NEW st \in {"answer", "failed"}
    PROVE  /\ Returned(k, st) \in SUBSET Call
           /\ \A d \in Returned(k, st) : CallOK(d) /\ ~Connecting(d)
  <1>1. PICK d : d = [k EXCEPT !.at = st]
    OBVIOUS
  <1>2. d \in Call /\ d.op = k.op /\ d.at = st /\ d.id = k.id /\ d.mount = k.mount
    BY <1>1 DEF Call, Stage
  <1>3. CallOK(d) /\ ~Connecting(d)
    BY <1>2 DEF CallOK, Connecting
  <1>. QED
    BY <1>1, <1>2, <1>3 DEF Returned

(* A call gives way to what becomes of it; none of that is connecting. *)
LEMMA CallGivesWay ==
    ASSUME CallsInd, NEW k \in calls, NEW D \in SUBSET Call,
           \A d \in D : CallOK(d) /\ ~Connecting(d), calls' = (calls \ {k}) \cup D
    PROVE  CallsInd' /\ \A d \in calls' : Connecting(d) => d \in calls /\ d # k
  BY DEF CallsInd

(* The page acts, or a handler goes on, and the backend stays as it is. *)
LEMMA PageStep ==
    ASSUME MountsInd, PageInd', CountersInd', CallsInd', UNCHANGED backend,
           \A k \in calls' : Connecting(k) => k \in calls
    PROVE  MountsInd'
  <1>1. BackendInd'
    BY DEF MountsInd, BackendInd, ThreadListed, SharedIsRaced, backend
  <1>2. Inserts'
    BY DEF MountsInd, Inserts, backend
  <1>. QED
    BY <1>1, <1>2 DEF MountsInd

(* The dialogs alone change. *)
LEMMA DialogStep ==
    ASSUME MountsInd, UNCHANGED <<connections, calls, ids, clicks, backend>>,
           dialog' \in ConnectDialogState, pendingJoinCode' \in JoinCode \cup {None},
           deleteConfirm' \in Id \cup {0}
    PROVE  MountsInd'
  <1>1. PageInd'
    BY DEF MountsInd, PageInd, CardsInd, CodesKeyed
  <1>2. CountersInd' /\ CallsInd'
    BY DEF MountsInd, CountersInd, CallsInd
  <1>. QED
    BY <1>1, <1>2, PageStep DEF backend

(* A click that calls the backend. *)
LEMMA ClickStep ==
    ASSUME MountsInd, NEW q \in Call, ~Connecting(q), CallOK(q), Clicked(q),
           ids' \in 0 .. MaxIds, PageInd'
    PROVE  MountsInd'
  <1>1. clicks + 1 \in 0 .. MaxClicks /\ clicks' = clicks + 1
    BY MountBoundsAreNat DEF Clicked, MountsInd, CountersInd
  <1>2. PICK r : r = [q EXCEPT !.n = clicks + 1]
    OBVIOUS
  <1>3. /\ r \in Call /\ r.op = q.op /\ r.at = q.at /\ r.id = q.id /\ r.mount = q.mount
        /\ calls' = calls \cup {r} /\ UNCHANGED backend
    BY <1>1, <1>2 DEF Call, Clicked
  <1>4. ~Connecting(r) /\ CallOK(r)
    BY <1>3 DEF Connecting, CallOK
  <1>5. CallsInd' /\ \A k \in calls' : Connecting(k) => k \in calls
    BY <1>3, <1>4 DEF MountsInd, CallsInd
  <1>6. CountersInd'
    BY <1>1 DEF CountersInd
  <1>. QED
    BY <1>3, <1>5, <1>6, PageStep
-----------------------------------------------------------------------------
(* The steps of the user. *)

LEMMA MountsIndInit == MountsInit => MountsInd
  <1>. SUFFICES ASSUME MountsInit PROVE MountsInd
    OBVIOUS
  <1>1. CardsInd /\ ids \in 0 .. MaxIds
    <2>1. CASE connections = {} /\ ids = 0
      BY <2>1, MountBoundsAreNat DEF CardsInd, CodesKeyed
    <2>2. CASE ~(connections = {} /\ ids = 0)
      <3>1. PICK c \in JoinCode, m \in Mount :
               connections = LoadConnections({[id |-> 1, joinCode |-> c, mountPoint |-> m,
                                               status |-> "connected"]})
        BY <2>2, SomethingToMount DEF MountsInit
      <3>2. PICK x : x = [id |-> 1, joinCode |-> c, mountPoint |-> m, status |-> "connected"]
        OBVIOUS
      <3>3. connections = {[x EXCEPT !.status = "disconnected"]}
        BY <3>1, <3>2 DEF LoadConnections
      <3>4. 1 \in Id /\ 1 \in 0 .. MaxIds
        BY MountBoundsAreNat DEF Id
      <3>5. [x EXCEPT !.status = "disconnected"] \in ConnectionHistoryItem
        BY <3>2, <3>4 DEF ConnectionHistoryItem
      <3>. QED
        BY <2>2, <3>3, <3>4, <3>5 DEF MountsInit, CardsInd, CodesKeyed
    <2>. QED
      BY <2>1, <2>2
  <1>2. PageInd
    BY <1>1 DEF MountsInit, PageInd, EmptyDialog, ConnectDialogState
  <1>3. CountersInd /\ CallsInd /\ BackendInd /\ Inserts
    BY <1>1, MountBoundsAreNat DEF MountsInit, CountersInd, CallsInd, BackendInd, ThreadListed,
       SharedIsRaced, Inserts
  <1>. QED
    BY <1>2, <1>3 DEF MountsInd

(* A reloaded page: the commands that are running go on, unheard. *)
LEMMA ReloadStep ==
    ASSUME MountsInd, HandleReload
    PROVE  MountsInd'
  <1>. DEFINE kept == {l \in calls : l.at \in {"check", "connect", "stop"}}
              g(k) == [k EXCEPT !.op = "lost"]
  <1>1. \A k \in calls : /\ g(k) \in Call /\ g(k).op = "lost" /\ g(k).at = k.at
                         /\ g(k).id = k.id /\ g(k).mount = k.mount
    BY DEF MountsInd, CallsInd, Call, Op
  <1>2. calls' = {g(k) : k \in kept} /\ ids' = ids /\ UNCHANGED backend
    BY DEF HandleReload
  <1>. HIDE DEF g
  <1>3. PageInd'
    <2>1. CardsInd'
      BY LoadedCards DEF HandleReload, MountsInd, PageInd
    <2>. QED
      BY <2>1 DEF HandleReload, PageInd, EmptyDialog, ConnectDialogState
  <1>4. CountersInd'
    BY MountBoundsAreNat DEF HandleReload, MountsInd, CountersInd
  <1>5. CallsInd'
    BY <1>1, <1>2 DEF MountsInd, CallsInd, CallOK
  <1>6. BackendInd'
    BY <1>2 DEF MountsInd, BackendInd, ThreadListed, SharedIsRaced, backend
  <1>7. Inserts'
    BY <1>1, <1>2 DEF MountsInd, Inserts, Connecting, backend
  <1>. QED
    BY <1>3, <1>4, <1>5, <1>6, <1>7 DEF MountsInd

(* The application is quit and started again. *)
LEMMA RestartStep ==
    ASSUME MountsInd, Restart
    PROVE  MountsInd'
  <1>1. CardsInd'
    BY LoadedCards DEF Restart, MountsInd, PageInd
  <1>2. PageInd'
    BY <1>1 DEF Restart, PageInd, EmptyDialog, ConnectDialogState
  <1>3. CountersInd'
    BY MountBoundsAreNat DEF Restart, MountsInd, CountersInd
  <1>4. CallsInd' /\ BackendInd' /\ Inserts'
    BY DEF Restart, MountsInd, CallsInd, BackendInd, ThreadListed, SharedIsRaced, Inserts
  <1>. QED
    BY <1>2, <1>3, <1>4 DEF MountsInd

(* The page around a change of the cards. *)
LEMMA CardStep ==
    ASSUME MountsInd, CardsInd', UNCHANGED <<dialog, pendingJoinCode>>,
           deleteConfirm' \in Id \cup {0}
    PROVE  PageInd'
  BY DEF MountsInd, PageInd

LEMMA UserStep ==
    ASSUME MountsInd, User
    PROVE  MountsInd'
  <1>0. /\ dialog \in ConnectDialogState /\ pendingJoinCode \in JoinCode \cup {None}
        /\ deleteConfirm \in Id \cup {0} /\ CardsInd /\ connections \subseteq ConnectionHistoryItem
        /\ ids \in 0 .. MaxIds
    BY DEF MountsInd, PageInd, CardsInd, CountersInd
  <1>1. ASSUME NEW code \in JoinCode \cup {None} PROVE Opened(code) \in ConnectDialogState
    <2>1. PICK address \in JoinCode \cup {None} :
             address = IF code # None THEN code ELSE dialog.code
      BY <1>0, <1>1 DEF ConnectDialogState
    <2>2. dialog.open \in BOOLEAN /\ dialog.hasEmitted \in BOOLEAN
      BY <1>0 DEF ConnectDialogState
    <2>3. PICK b \in BOOLEAN : b = (dialog.hasEmitted /\ dialog.open /\ address = dialog.code)
      BY <2>2, Zenon
    <2>4. Opened(code) = [dialog EXCEPT !.open = TRUE, !.code = address, !.hasEmitted = b]
      BY <1>0, <2>1, <2>3 DEF Opened, ConnectDialogState
    <2>. QED
      BY <1>0, <2>1, <2>4 DEF ConnectDialogState
  <1>2. CASE OpenConnectDialog \/ CloseConnectDialog \/ ClearMount \/ CancelRemove
    <2>1. dialog' \in ConnectDialogState
      BY <1>0, <1>1, <1>2 DEF OpenConnectDialog, CloseConnectDialog, ClearMount, CancelRemove,
         ConnectDialogState
    <2>2. pendingJoinCode' \in JoinCode \cup {None} /\ deleteConfirm' \in Id \cup {0}
      BY <1>0, <1>2 DEF OpenConnectDialog, CloseConnectDialog, ClearMount, CancelRemove
    <2>3. UNCHANGED <<connections, calls, ids, clicks, backend>>
      BY <1>2 DEF OpenConnectDialog, CloseConnectDialog, ClearMount, CancelRemove
    <2>. QED
      BY <2>1, <2>2, <2>3, DialogStep
  <1>3. ASSUME NEW c \in JoinCode, DeepLink(c) \/ TypeAddress(c) PROVE MountsInd'
    <2>1. dialog' \in ConnectDialogState
      BY <1>0, <1>1, <1>3 DEF DeepLink, TypeAddress, ConnectDialogState
    <2>2. pendingJoinCode' \in JoinCode \cup {None} /\ deleteConfirm' \in Id \cup {0}
      BY <1>0, <1>3 DEF DeepLink, TypeAddress
    <2>3. UNCHANGED <<connections, calls, ids, clicks, backend>>
      BY <1>3 DEF DeepLink, TypeAddress
    <2>. QED
      BY <2>1, <2>2, <2>3, DialogStep
  <1>4. ASSUME NEW m \in Mount, SelectMount(m) PROVE MountsInd'
    <2>1. dialog' \in ConnectDialogState
      BY <1>0, <1>4 DEF SelectMount, ConnectDialogState
    <2>2. UNCHANGED <<connections, calls, ids, clicks, backend, pendingJoinCode, deleteConfirm>>
      BY <1>4 DEF SelectMount
    <2>. QED
      BY <1>0, <2>1, <2>2, DialogStep
  <1>5. CASE HandleConnect
    <2>1. ids + 1 \in Id /\ ids' \in 0 .. MaxIds
      BY <1>0, <1>5, MountBoundsAreNat DEF HandleConnect, Id
    <2>2. PICK a \in JoinCode \cup {None}, m \in Mount : a = dialog.code /\ m = dialog.mount
      BY <1>0, <1>5 DEF HandleConnect, CanConnect, ConnectDialogState
    <2>3. PICK r \in Call : /\ r = NewCall("create", "check", ids + 1)
                            /\ r.op = "create" /\ r.at = "check" /\ r.id = ids + 1
      BY <2>1, NewCallFacts DEF Op, Stage
    <2>4. PICK q : q = [r EXCEPT !.code = a, !.mount = m]
      OBVIOUS
    <2>5. q \in Call /\ q.op = "create" /\ q.at = "check" /\ q.id = ids + 1 /\ q.mount = m
      BY <2>3, <2>4 DEF Call
    <2>6. ~Connecting(q) /\ CallOK(q)
      BY <2>1, <2>5 DEF Connecting, CallOK
    <2>7. Clicked(q) /\ UNCHANGED <<connections, pendingJoinCode, deleteConfirm>>
      BY <1>5, <2>2, <2>3, <2>4 DEF HandleConnect
    <2>8. dialog' \in ConnectDialogState
      BY <1>0, <1>5, <2>1 DEF HandleConnect, ConnectDialogState
    <2>9. PageInd'
      BY <1>0, <2>7, <2>8 DEF PageInd, CardsInd, CodesKeyed
    <2>. QED
      BY <2>1, <2>5, <2>6, <2>7, <2>9, ClickStep
  <1>6. CASE HandleDialogDisconnect
    <2>1. PICK q \in Call : /\ q = NewCall("dialogDisconnect", "stop", dialog.connectionId)
                            /\ q.op = "dialogDisconnect" /\ q.at = "stop"
      BY <1>0, NewCallFacts DEF Op, Stage, ConnectDialogState
    <2>2. ~Connecting(q) /\ CallOK(q)
      BY <2>1 DEF Connecting, CallOK
    <2>3. Clicked(q) /\ UNCHANGED ui /\ ids' = ids
      BY <1>6, <2>1 DEF HandleDialogDisconnect
    <2>4. PageInd'
      BY <1>0, <2>3 DEF PageInd, CardsInd, CodesKeyed, ui
    <2>. QED
      BY <1>0, <2>2, <2>3, <2>4, ClickStep
  <1>7. ASSUME NEW c \in connections, HandleDisconnect(c) PROVE MountsInd'
    <2>1. c.id \in Id
      BY <1>0 DEF ConnectionHistoryItem
    <2>2. PICK q \in Call : /\ q = NewCall("disconnect", "stop", c.id)
                            /\ q.op = "disconnect" /\ q.at = "stop"
      BY <2>1, NewCallFacts DEF Op, Stage
    <2>3. ~Connecting(q) /\ CallOK(q)
      BY <2>2 DEF Connecting, CallOK
    <2>4. Clicked(q) /\ UNCHANGED <<dialog, pendingJoinCode, deleteConfirm, ids>>
      BY <1>7, <2>2 DEF HandleDisconnect
    <2>5. CardsInd'
      BY <1>0, <1>7, StatusUpdate DEF HandleDisconnect
    <2>6. PageInd'
      BY <1>0, <2>4, <2>5, CardStep
    <2>. QED
      BY <1>0, <2>3, <2>4, <2>6, ClickStep
  <1>8. ASSUME NEW c \in connections, HandleReconnect(c) PROVE MountsInd'
    <2>1. PICK i \in Id, a \in JoinCode \cup {None} : i = c.id /\ a = c.joinCode
      BY <1>0 DEF ConnectionHistoryItem
    <2>2. PICK r \in Call : /\ r = NewCall("reconnect", "pick", i)
                            /\ r.op = "reconnect" /\ r.at = "pick" /\ r.id = i
      BY NewCallFacts DEF Op, Stage
    <2>3. PICK q : q = [r EXCEPT !.code = a]
      OBVIOUS
    <2>4. q \in Call /\ q.op = "reconnect" /\ q.at = "pick" /\ q.id = i
      BY <2>2, <2>3 DEF Call
    <2>5. ~Connecting(q) /\ CallOK(q)
      BY <2>4 DEF Connecting, CallOK
    <2>6. Clicked(q) /\ UNCHANGED <<dialog, pendingJoinCode, deleteConfirm, ids>>
      BY <1>8, <2>1, <2>2, <2>3 DEF HandleReconnect
    <2>7. CardsInd'
      BY <1>0, <1>8, StatusUpdate DEF HandleReconnect
    <2>8. PageInd'
      BY <1>0, <2>6, <2>7, CardStep
    <2>. QED
      BY <1>0, <2>4, <2>5, <2>6, <2>8, ClickStep
  <1>9. ASSUME NEW c \in connections, ConfirmRemoveConnection(c) PROVE MountsInd'
    <2>1. deleteConfirm' \in Id \cup {0}
      BY <1>0, <1>9 DEF ConfirmRemoveConnection, ConnectionHistoryItem
    <2>2. UNCHANGED <<connections, dialog, pendingJoinCode, calls, ids, clicks, backend>>
      BY <1>9 DEF ConfirmRemoveConnection
    <2>. QED
      BY <1>0, <2>1, <2>2, DialogStep
  <1>10. CASE HandleRemoveConnection
    <2>1. /\ connections' \subseteq connections /\ deleteConfirm' = 0
          /\ UNCHANGED <<dialog, pendingJoinCode, calls, ids, clicks>> /\ UNCHANGED backend
      BY <1>10 DEF HandleRemoveConnection, RemoveConnectionFromHistory
    <2>2. CardsInd'
      BY <1>0, <2>1 DEF CardsInd, CodesKeyed
    <2>3. PageInd'
      BY <2>1, <2>2, CardStep
    <2>4. CountersInd' /\ CallsInd'
      BY <2>1 DEF MountsInd, CountersInd, CallsInd
    <2>. QED
      BY <2>1, <2>3, <2>4, PageStep
  <1>11. ASSUME NEW k \in calls, PickCancelled(k) PROVE MountsInd'
    <2>1. CardsInd'
      BY <1>0, <1>11, StatusUpdate DEF PickCancelled
    <2>2. /\ calls' \subseteq calls /\ UNCHANGED <<dialog, pendingJoinCode, deleteConfirm, ids, clicks>>
          /\ UNCHANGED backend
      BY <1>11 DEF PickCancelled
    <2>3. PageInd'
      BY <1>0, <2>1, <2>2, CardStep
    <2>4. CountersInd' /\ CallsInd'
      BY <2>2 DEF MountsInd, CountersInd, CallsInd
    <2>. QED
      BY <2>2, <2>3, <2>4, PageStep
  <1>12. ASSUME NEW k \in calls, NEW m \in Mount, PickMount(k, m) PROVE MountsInd'
    <2>1. k \in Call /\ CallOK(k) /\ k.at = "pick"
      BY <1>12 DEF PickMount, MountsInd, CallsInd
    <2>2. PICK d : d = [k EXCEPT !.at = "check", !.mount = m]
      OBVIOUS
    <2>3. d \in Call /\ d.at = "check" /\ d.id = k.id /\ d.mount = m
      BY <2>1, <2>2 DEF Call, Stage
    <2>4. CallOK(d) /\ ~Connecting(d)
      BY <2>1, <2>3 DEF CallOK, Connecting
    <2>5. calls' = (calls \ {k}) \cup {d} /\ UNCHANGED <<ids, clicks>> /\ UNCHANGED ui /\ UNCHANGED backend
      BY <1>12, <2>2 DEF PickMount
    <2>6. CallsInd' /\ \A l \in calls' : Connecting(l) => l \in calls
      BY <2>3, <2>4, <2>5 DEF MountsInd, CallsInd
    <2>7. CountersInd' /\ PageInd'
      BY <2>5 DEF MountsInd, CountersInd, PageInd, CardsInd, CodesKeyed, ui
    <2>. QED
      BY <2>5, <2>6, <2>7, PageStep
  <1>. QED
    BY <1>2, <1>3, <1>4, <1>5, <1>6, <1>7, <1>8, <1>9, <1>10, <1>11, <1>12,
       ReloadStep, RestartStep DEF User
-----------------------------------------------------------------------------
(* The backend. *)

(* A connection looks its id and its mount point up and lets go of the map. *)
LEMMA ConnectCheckStep ==
    ASSUME MountsInd, NEW k \in calls, ConnectCheck(k)
    PROVE  MountsInd'
  <1>1. k \in Call /\ CallOK(k) /\ k.at = "check"
    BY DEF ConnectCheck, MountsInd, CallsInd
  <1>2. k.id \in Id /\ k.mount \in Mount
    BY <1>1 DEF CallOK
  <1>3. PICK d : d = [k EXCEPT !.at = "connect"]
    OBVIOUS
  <1>4. /\ d \in Call /\ d.at = "connect" /\ d.id = k.id /\ d.mount = k.mount /\ d.op = k.op
    BY <1>1, <1>3 DEF Call, Stage
  <1>5. /\ calls' = (calls \ {k}) \cup {d} /\ UNCHANGED ui
        /\ UNCHANGED <<client_handles, threads, umounts, ids, clicks>>
        /\ client_handles[k.id] = None
    BY <1>2, <1>3 DEF ConnectCheck, Advance, Connected
  <1>6. /\ raced \subseteq raced'
        /\ \A l \in calls : Connecting(l) /\ l.id = k.id => k.id \in raced'
        /\ \A i \in raced' : i \in raced \/ i = k.id \/ \E l \in calls : Connecting(l) /\ i = l.id
    BY DEF ConnectCheck
  <1>7. CallsInd'
    BY <1>2, <1>4, <1>5 DEF MountsInd, CallsInd, CallOK
  <1>8. PageInd' /\ CountersInd'
    BY <1>5 DEF MountsInd, PageInd, CardsInd, CodesKeyed, CountersInd, ui
  <1>9. raced' \subseteq Id
    BY <1>2, <1>6 DEF MountsInd, BackendInd, CallsInd, CallOK, Connecting
  <1>10. BackendInd'
    BY <1>5, <1>6, <1>9 DEF MountsInd, BackendInd, ThreadListed, SharedIsRaced
  <1>11. Inserts'
    <2>. SUFFICES ASSUME NEW a \in calls', Connecting(a), a.id \notin raced'
                  PROVE  /\ client_handles'[a.id] = None
                         /\ \A b \in calls' : Connecting(b) /\ b.id = a.id => b = a
      BY DEF Inserts
    <2>1. CASE a = d
      BY <1>4, <1>5, <1>6, <2>1
    <2>2. CASE a # d
      <3>1. a \in calls /\ a.id \notin raced
        BY <1>5, <1>6, <2>2
      <3>2. a.id # d.id
        BY <1>4, <1>6, <3>1
      <3>. QED
        BY <1>5, <3>1, <3>2 DEF MountsInd, Inserts
    <2>. QED
      BY <2>1, <2>2
  <1>. QED
    BY <1>7, <1>8, <1>10, <1>11 DEF MountsInd

(* A connection enters its thread in the map. *)
LEMMA ConnectInsertStep ==
    ASSUME MountsInd, NEW k \in calls, ConnectInsert(k)
    PROVE  MountsInd'
  <1>1. k \in Call /\ CallOK(k) /\ k.at = "connect" /\ Connecting(k)
    BY DEF ConnectInsert, Connecting, MountsInd, CallsInd
  <1>2. k.id \in Id /\ k.mount \in Mount /\ k.n \in 0 .. MaxClicks
    BY <1>1 DEF CallOK, Call
  <1>3. PICK D : D = Returned(k, "answer")
    OBVIOUS
  <1>4. D \in SUBSET Call /\ \A d \in D : CallOK(d) /\ ~Connecting(d)
    BY <1>1, <1>3, ReturnedFacts
  <1>5. PICK x : x = [n |-> k.n, id |-> k.id, mount |-> k.mount, ready |-> FALSE, at |-> "starting"]
    OBVIOUS
  <1>6. x \in Thread /\ x.id = k.id /\ x.mount = k.mount
    BY <1>2, <1>5 DEF Thread
  <1>7. /\ threads' = threads \cup {x} /\ calls' = (calls \ {k}) \cup D
        /\ UNCHANGED ui /\ UNCHANGED <<umounts, ids, clicks>>
        /\ client_handles' = [client_handles EXCEPT ![k.id] = k.mount]
    BY <1>3, <1>5 DEF ConnectInsert
  <1>8. /\ client_handles' \in [Id -> Mount \cup {None}]
        /\ \A i \in Id : client_handles'[i] = IF i = k.id THEN k.mount ELSE client_handles[i]
    BY <1>2, <1>7 DEF MountsInd, BackendInd
  <1>9. /\ raced \subseteq raced'
        /\ \A t \in threads : t.mount = k.mount => t.id \in raced' /\ k.id \in raced'
        /\ \A i \in raced' : i \in raced \/ i = k.id \/ \E t \in threads : i = t.id
    BY DEF ConnectInsert
  <1>10. CallsInd' /\ \A d \in calls' : Connecting(d) => d \in calls /\ d # k
    BY <1>4, <1>7, CallGivesWay DEF MountsInd
  <1>11. PageInd' /\ CountersInd'
    BY <1>7 DEF MountsInd, PageInd, CardsInd, CodesKeyed, CountersInd, ui
  <1>12. threads \subseteq Thread /\ \A t \in threads : t.id \in Id
    BY DEF MountsInd, BackendInd, Thread
  <1>13. raced' \subseteq Id
    BY <1>2, <1>9, <1>12 DEF MountsInd, BackendInd
  <1>14. k.id \in raced \/ client_handles[k.id] = None
    BY <1>1 DEF MountsInd, Inserts
  <1>15. ThreadListed'
    <2>. SUFFICES ASSUME NEW t \in threads'
                  PROVE  client_handles'[t.id] = t.mount \/ t.mount \in umounts' \/ t.id \in raced'
      BY DEF ThreadListed
    <2>1. CASE t = x
      BY <1>2, <1>6, <1>8, <2>1
    <2>2. CASE t \in threads
      <3>1. t.id \in Id /\ t.mount \in Mount
        BY <1>12, <2>2 DEF Thread
      <3>2. client_handles[t.id] = t.mount \/ t.mount \in umounts \/ t.id \in raced
        BY <2>2 DEF MountsInd, BackendInd, ThreadListed
      <3>3. t.mount # None
        BY <3>1, NoneIsNothing
      <3>. QED
        BY <1>7, <1>8, <1>9, <1>14, <3>1, <3>2, <3>3
    <2>. QED
      BY <1>7, <2>1, <2>2
  <1>16. SharedIsRaced'
    BY <1>6, <1>7, <1>9 DEF MountsInd, BackendInd, SharedIsRaced
  <1>17. Inserts'
    <2>. SUFFICES ASSUME NEW a \in calls', Connecting(a), a.id \notin raced'
                  PROVE  /\ client_handles'[a.id] = None
                         /\ \A b \in calls' : Connecting(b) /\ b.id = a.id => b = a
      BY DEF Inserts
    <2>1. a \in calls /\ a # k /\ a.id \notin raced /\ a.id \in Id
      BY <1>9, <1>10 DEF CallsInd, CallOK, Connecting
    <2>2. client_handles[a.id] = None /\ \A b \in calls : Connecting(b) /\ b.id = a.id => b = a
      BY <2>1 DEF MountsInd, Inserts
    <2>3. a.id # k.id
      BY <1>1, <2>1, <2>2
    <2>. QED
      BY <1>8, <1>10, <2>1, <2>2, <2>3
  <1>18. BackendInd'
    BY <1>6, <1>7, <1>8, <1>12, <1>13, <1>15, <1>16 DEF MountsInd, BackendInd
  <1>. QED
    BY <1>10, <1>11, <1>17, <1>18 DEF MountsInd

(* A connection leaves the map and an umount of its mount point is due. *)
LEMMA DisconnectStep ==
    ASSUME MountsInd, NEW k \in calls, NEW id, Connected(id), DisconnectById(id),
           NEW D \in SUBSET Call, \A d \in D : CallOK(d) /\ ~Connecting(d),
           calls' = (calls \ {k}) \cup D, UNCHANGED ui, UNCHANGED <<ids, clicks>>
    PROVE  MountsInd'
  <1>1. id \in Id /\ client_handles[id] \in Mount
    BY DEF Connected, MountsInd, BackendInd
  <1>2. /\ client_handles' \in [Id -> Mount \cup {None}]
        /\ \A i \in Id : client_handles'[i] = IF i = id THEN None ELSE client_handles[i]
        /\ umounts' = umounts \cup {client_handles[id]}
        /\ threads' = threads /\ raced' = raced
    BY <1>1 DEF DisconnectById, MountsInd, BackendInd
  <1>3. CallsInd' /\ \A d \in calls' : Connecting(d) => d \in calls
    BY CallGivesWay DEF MountsInd
  <1>4. PageInd' /\ CountersInd'
    BY DEF MountsInd, PageInd, CardsInd, CodesKeyed, CountersInd, ui
  <1>5. ThreadListed'
    BY <1>1, <1>2 DEF MountsInd, BackendInd, ThreadListed, Thread
  <1>6. BackendInd'
    BY <1>1, <1>2, <1>5 DEF MountsInd, BackendInd, SharedIsRaced
  <1>7. Inserts'
    BY <1>2, <1>3 DEF MountsInd, Inserts, CallsInd, CallOK, Connecting
  <1>. QED
    BY <1>3, <1>4, <1>6, <1>7 DEF MountsInd

(* A background umount ends one mounted thread and misses those starting. *)
LEMMA UmountStep ==
    ASSUME MountsInd, NEW m \in Mount, Umount(m)
    PROVE  MountsInd'
  <1>1. /\ umounts' = umounts \ {m} /\ UNCHANGED ui
        /\ UNCHANGED <<calls, client_handles, ids, clicks>>
    BY DEF Umount
  <1>2. /\ raced \subseteq raced' /\ threads' \subseteq threads
        /\ \A t \in threads : t.mount = m /\ t.at = "starting" => t.id \in raced'
        /\ \A i \in raced' : i \in raced \/ \E t \in threads : i = t.id
    BY DEF Umount
  <1>3. threads \subseteq Thread /\ \A t \in threads : t.id \in Id /\ t.at \in {"starting", "mounted"}
    BY DEF MountsInd, BackendInd, Thread
  <1>4. \A t \in threads' : t.mount = m => t.id \in raced'
    <2>. SUFFICES ASSUME NEW t \in threads', t.mount = m, t.at = "mounted" PROVE t.id \in raced'
      BY <1>2, <1>3
    <2>1. PICK u \in threads : u.mount = m /\ threads' = threads \ {u}
      BY <1>2 DEF Umount
    <2>. QED
      BY <1>2, <2>1 DEF MountsInd, BackendInd, SharedIsRaced
  <1>5. ThreadListed'
    BY <1>1, <1>2, <1>4 DEF MountsInd, BackendInd, ThreadListed
  <1>6. SharedIsRaced'
    BY <1>2 DEF MountsInd, BackendInd, SharedIsRaced
  <1>7. BackendInd'
    BY <1>1, <1>2, <1>3, <1>5, <1>6 DEF MountsInd, BackendInd
  <1>8. Inserts'
    BY <1>1, <1>2 DEF MountsInd, Inserts
  <1>9. PageInd' /\ CountersInd' /\ CallsInd'
    BY <1>1 DEF MountsInd, PageInd, CardsInd, CodesKeyed, CountersInd, CallsInd, ui
  <1>. QED
    BY <1>7, <1>8, <1>9 DEF MountsInd

(* A thread goes on, or ends. *)
LEMMA ThreadStep ==
    ASSUME MountsInd, NEW t \in threads, NEW T \in SUBSET Thread,
           \A u, v \in T : u = v,
           \A u \in T : u.id = t.id /\ u.mount = t.mount,
           threads' = (threads \ {t}) \cup T,
           UNCHANGED <<calls, client_handles, umounts, raced, clicks>>,
           PageInd', ids' \in 0 .. MaxIds
    PROVE  MountsInd'
  <1>1. ThreadListed'
    BY DEF MountsInd, BackendInd, ThreadListed
  <1>2. SharedIsRaced'
    BY DEF MountsInd, BackendInd, SharedIsRaced
  <1>3. BackendInd'
    BY <1>1, <1>2 DEF MountsInd, BackendInd
  <1>4. Inserts' /\ CallsInd' /\ CountersInd'
    BY DEF MountsInd, Inserts, CallsInd, CountersInd
  <1>. QED
    BY <1>3, <1>4 DEF MountsInd

LEMMA ThreadSteps ==
    ASSUME MountsInd, NEW t \in threads,
           \/ MountSucceeds(t) \/ MountEnds(t) \/ MountFails(t)
           \/ MountReady(t) \/ ClientFails(t)
    PROVE  MountsInd'
  <1>0. /\ t \in Thread /\ t.mount \in Mount /\ dialog \in ConnectDialogState /\ CardsInd
        /\ ids \in 0 .. MaxIds /\ PageInd
    BY DEF MountsInd, BackendInd, PageInd, CountersInd, Thread
  <1>1. PICK T \in SUBSET Thread :
           /\ threads' = (threads \ {t}) \cup T
           /\ \A u, v \in T : u = v
           /\ \A u \in T : u.id = t.id /\ u.mount = t.mount
    <2>1. CASE threads' = threads \ {t}
      <3>1. PICK T : T = {}
        OBVIOUS
      <3>. QED
        BY <2>1, <3>1
    <2>2. CASE ~(threads' = threads \ {t})
      <3>1. PICK u : /\ u = [t EXCEPT !.at = "mounted"] \/ u = [t EXCEPT !.ready = TRUE]
                     /\ threads' = (threads \ {t}) \cup {u}
        BY <2>2 DEF MountSucceeds, MountEnds, MountFails, MountReady, ClientFails
      <3>2. u \in Thread /\ u.id = t.id /\ u.mount = t.mount
        BY <1>0, <3>1 DEF Thread
      <3>3. PICK T : T = {u}
        OBVIOUS
      <3>. QED
        BY <3>1, <3>2, <3>3
    <2>. QED
      BY <2>1, <2>2
  <1>2. UNCHANGED <<calls, client_handles, umounts, raced, clicks>>
    BY DEF MountSucceeds, MountEnds, MountFails, MountReady, ClientFails
  <1>3. PageInd' /\ ids' \in 0 .. MaxIds
    <2>1. CASE MountSucceeds(t) \/ MountEnds(t)
      BY <1>0, <2>1 DEF MountSucceeds, MountEnds, ui, PageInd, CardsInd, CodesKeyed
    <2>2. CASE MountFails(t) \/ ClientFails(t)
      <3>1. PICK b \in BOOLEAN : b = (dialog.connected /\ ~dialog.open)
        BY <1>0 DEF ConnectDialogState
      <3>2. dialog' = [dialog EXCEPT !.connected = b]
        BY <1>0, <2>2, <3>1 DEF MountFails, ClientFails, ConnectDialogState
      <3>3. dialog' \in ConnectDialogState
        BY <1>0, <3>2 DEF ConnectDialogState
      <3>. QED
        BY <1>0, <2>2, <3>3 DEF MountFails, ClientFails, PageInd, CardsInd, CodesKeyed
    <2>3. CASE MountReady(t) /\ dialog.open /\ ~dialog.hasEmitted
      <3>1. PICK i \in Id : /\ i = IF dialog.connectionId = 0 THEN ids + 1 ELSE dialog.connectionId
                            /\ ids' \in 0 .. MaxIds
        BY <1>0, <2>3, MountBoundsAreNat DEF MountReady, ConnectDialogState, Id
      <3>2. connections' = ConnectionCreated(dialog.code, t.mount, i)
        BY <2>3, <3>1 DEF MountReady
      <3>3. PICK a \in JoinCode \cup {None} : a = dialog.code
        BY <1>0 DEF ConnectDialogState
      <3>4. CardsInd'
        BY <1>0, <3>2, <3>3, CreatedCards
      <3>5. dialog' \in ConnectDialogState
        BY <1>0, <2>3 DEF MountReady, ConnectDialogState
      <3>. QED
        BY <1>0, <2>3, <3>1, <3>4, <3>5 DEF MountReady, PageInd
    <2>4. CASE MountReady(t) /\ ~(dialog.open /\ ~dialog.hasEmitted)
      BY <1>0, <2>4 DEF MountReady, PageInd, CardsInd, CodesKeyed
    <2>. QED
      BY <2>1, <2>2, <2>3, <2>4
  <1>. QED
    BY <1>1, <1>2, <1>3, ThreadStep

(* A command ends, or a handler has its answer; the backend stays. *)
LEMMA HandlerStep ==
    ASSUME MountsInd, NEW k \in calls, NEW D \in SUBSET Call,
           \A d \in D : CallOK(d) /\ ~Connecting(d),
           calls' = (calls \ {k}) \cup D, UNCHANGED backend, UNCHANGED <<ids, clicks>>,
           PageInd'
    PROVE  MountsInd'
  <1>1. CallsInd' /\ \A d \in calls' : Connecting(d) => d \in calls
    BY CallGivesWay DEF MountsInd
  <1>2. CountersInd'
    BY DEF MountsInd, CountersInd
  <1>. QED
    BY <1>1, <1>2, PageStep

LEMMA ProgressStep ==
    ASSUME MountsInd, NEW k \in calls, Progress(k)
    PROVE  MountsInd'
  <1>0. k \in Call /\ CallOK(k) /\ PageInd /\ CardsInd /\ dialog \in ConnectDialogState
    BY DEF MountsInd, CallsInd, PageInd
  <1>1. CASE ConnectCheck(k) \/ ConnectInsert(k)
    BY <1>1, ConnectCheckStep, ConnectInsertStep
  <1>2. CASE ConnectFails(k) \/ DisconnectFindsNone(k)
    <2>1. PICK D : calls' = (calls \ {k}) \cup D /\ (D = Returned(k, "failed") \/ D = {SyncCall})
      BY <1>2 DEF ConnectFails, DisconnectFindsNone
    <2>2. D \in SUBSET Call /\ \A d \in D : CallOK(d) /\ ~Connecting(d)
      BY <1>0, <2>1, ReturnedFacts, PollFacts
    <2>3. UNCHANGED backend /\ UNCHANGED ui /\ UNCHANGED <<ids, clicks>>
      BY <1>2 DEF ConnectFails, DisconnectFindsNone
    <2>4. PageInd'
      BY <1>0, <2>3 DEF ui, PageInd, CardsInd, CodesKeyed
    <2>. QED
      BY <2>1, <2>2, <2>3, <2>4, HandlerStep
  <1>3. CASE Disconnect(k) \/ \E i \in Id : DisconnectAny(k, i)
    <2>1. PICK id : Connected(id) /\ DisconnectById(id)
      BY <1>3 DEF Disconnect, DisconnectAny
    <2>2. PICK D : calls' = (calls \ {k}) \cup D /\ (D = Returned(k, "answer") \/ D = {})
      BY <1>3 DEF Disconnect, DisconnectAny
    <2>3. D \in SUBSET Call /\ \A d \in D : CallOK(d) /\ ~Connecting(d)
      BY <1>0, <2>2, ReturnedFacts
    <2>4. UNCHANGED ui /\ UNCHANGED <<ids, clicks>>
      BY <1>3 DEF Disconnect, DisconnectAny
    <2>. QED
      BY <2>1, <2>2, <2>3, <2>4, DisconnectStep
  <1>4. CASE \/ ConnectReturns(k) \/ ReconnectReturns(k)
             \/ DialogDisconnected(k) \/ DialogError(k) \/ SyncApply(k)
    <2>1. /\ calls' = calls \ {k} /\ UNCHANGED backend /\ UNCHANGED <<ids, clicks>>
      BY <1>4 DEF ConnectReturns, ReconnectReturns, DialogDisconnected, DialogError, SyncApply
    <2>2. PICK D : D = {}
      OBVIOUS
    <2>3. /\ D \in SUBSET Call /\ calls' = (calls \ {k}) \cup D
          /\ \A d \in D : CallOK(d) /\ ~Connecting(d)
      BY <2>1, <2>2
    <2>4. PageInd'
      <3>1. CASE ConnectReturns(k)
        <4>1. k.id \in Id /\ k.mount \in Mount /\ k.code \in JoinCode \cup {None}
          BY <1>0, <3>1 DEF ConnectReturns, CallOK, Call
        <4>2. CardsInd'
          BY <1>0, <3>1, <4>1, CreatedCards DEF ConnectReturns
        <4>3. dialog' \in ConnectDialogState
          BY <1>0, <3>1, <4>1 DEF ConnectReturns, ConnectDialogState
        <4>. QED
          BY <1>0, <3>1, <4>2, <4>3 DEF ConnectReturns, PageInd
      <3>2. CASE ReconnectReturns(k)
        <4>1. CardsInd'
          BY <1>0, <3>2, StatusUpdate DEF ReconnectReturns
        <4>. QED
          BY <1>0, <3>2, <4>1 DEF ReconnectReturns, PageInd
      <3>3. CASE DialogDisconnected(k)
        <4>1. dialog' \in ConnectDialogState
          BY <1>0, <3>3 DEF DialogDisconnected, ConnectDialogState
        <4>. QED
          BY <1>0, <3>3, <4>1 DEF DialogDisconnected, PageInd, CardsInd, CodesKeyed
      <3>4. CASE DialogError(k)
        BY <1>0, <3>4 DEF DialogError, ui, PageInd, CardsInd, CodesKeyed
      <3>5. CASE SyncApply(k)
        <4>1. CardsInd'
          BY <1>0, <3>5, SyncedCards DEF SyncApply
        <4>. QED
          BY <1>0, <3>5, <4>1 DEF SyncApply, PageInd
      <3>. QED
        BY <1>4, <3>1, <3>2, <3>3, <3>4, <3>5
    <2>. QED
      BY <2>1, <2>3, <2>4, HandlerStep
  <1>5. CASE SyncRead(k)
    <2>1. ActiveMounts \in SUBSET Mount
      BY DEF ActiveMounts, MountsInd, BackendInd
    <2>2. PICK d : d = [k EXCEPT !.at = "answer", !.mounts = ActiveMounts]
      OBVIOUS
    <2>3. d \in Call /\ d.op = k.op /\ d.at = "answer" /\ d.id = k.id /\ d.mount = k.mount
      BY <1>0, <2>1, <2>2 DEF Call, Stage
    <2>4. CallOK(d) /\ ~Connecting(d)
      BY <1>0, <2>3 DEF CallOK, Connecting
    <2>5. PICK D : D = {d}
      OBVIOUS
    <2>6. /\ D \in SUBSET Call /\ calls' = (calls \ {k}) \cup D
          /\ \A e \in D : CallOK(e) /\ ~Connecting(e)
      BY <1>5, <2>2, <2>3, <2>4, <2>5 DEF SyncRead, Advance
    <2>7. UNCHANGED backend /\ UNCHANGED ui /\ UNCHANGED <<ids, clicks>>
      BY <1>5 DEF SyncRead
    <2>8. PageInd'
      BY <1>0, <2>7 DEF ui, PageInd, CardsInd, CodesKeyed
    <2>. QED
      BY <2>6, <2>7, <2>8, HandlerStep
  <1>. QED
    BY <1>1, <1>2, <1>3, <1>4, <1>5 DEF Progress

LEMMA MountsStep ==
    ASSUME MountsInd, [MountsNext]_vars
    PROVE  MountsInd'
  <1>1. CASE User
    BY <1>1, UserStep
  <1>2. ASSUME NEW k \in calls, Progress(k) PROVE MountsInd'
    BY <1>2, ProgressStep
  <1>3. CASE SyncStart
    <2>1. calls' = calls \cup {SyncCall} /\ UNCHANGED backend /\ UNCHANGED ui /\ UNCHANGED <<ids, clicks>>
      BY <1>3 DEF SyncStart
    <2>2. CallsInd' /\ \A d \in calls' : Connecting(d) => d \in calls
      BY <2>1, PollFacts DEF MountsInd, CallsInd
    <2>3. PageInd' /\ CountersInd'
      BY <2>1 DEF MountsInd, PageInd, CardsInd, CodesKeyed, CountersInd, ui
    <2>. QED
      BY <2>1, <2>2, <2>3, PageStep
  <1>4. ASSUME NEW t \in threads,
               \/ MountSucceeds(t) \/ MountEnds(t) \/ MountFails(t)
               \/ MountReady(t) \/ ClientFails(t)
        PROVE MountsInd'
    BY <1>4, ThreadSteps
  <1>5. ASSUME NEW m \in Mount, Umount(m) PROVE MountsInd'
    BY <1>5, UmountStep
  <1>6. CASE UNCHANGED vars
    BY <1>6, DialogStep DEF vars, backend, MountsInd, PageInd
  <1>. QED
    BY <1>1, <1>2, <1>3, <1>4, <1>5, <1>6 DEF MountsNext

(* The list of connections and the backend's map fit together in every     *)
(* reachable state: one card for a join code, and every mounted folder is  *)
(* listed under its id by client_handles or due for an umount, unless it   *)
(* was mounted in one of the races that MountedIsListed names.             *)
THEOREM MountsFitTogether == MountsSpec => []MountsInv
  <1>1. MountsInd => MountsInv
    BY DEF MountsInd, PageInd, CardsInd, CountersInd, CallsInd, BackendInd, ThreadListed,
       MountsInv, MountsTypeOK, MountedIsListed
  <1>. QED
    BY <1>1, MountsIndInit, MountsStep, PTL DEF MountsSpec
=============================================================================
