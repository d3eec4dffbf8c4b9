------------------------- MODULE SignalServerProofs -------------------------
(***************************************************************************)
(* Proofs about the signal server, for any numbers of peers and codes and  *)
(* any limit on a room.                                                    *)
(*                                                                         *)
(* What a room lists is tied to the tasks by where each task is: a task    *)
(* has a current room only between two messages, and as long as it will    *)
(* serve another message its sender is registered.                         *)
(***************************************************************************)
EXTENDS SignalServer, FiniteSetTheorems, TLAPS

(* The task of p will serve another message. *)
Stays(p) ==
    \/ task[p].at \in {"ready", "creating", "created", "relaying"}
    \/ task[p].at \in {"leaving", "removing"} /\ task[p].then = "ready"

(* The sender of a connection is there until its task is on the way out,   *)
(* and its current room is known only while it serves no departure and no  *)
(* creation.                                                               *)
TasksInv ==
    \A p \in Peer :
        /\ Stays(p) => p \in peer_senders
        /\ current_room[p] # None => task[p].at \in {"ready", "relaying"}

FiniteRooms == \A c \in Code : rooms[c].exists => IsFiniteSet(rooms[c].peers)

(* The inductive invariant. *)
SSInv == RoomsInv /\ FiniteRooms /\ TasksInv /\ NoGhosts /\ EmptyRoomGoes
-----------------------------------------------------------------------------
(* What a place of a task says about its other fields. *)
LEMMA TaskFields ==
    ASSUME NEW t \in Task
    PROVE  /\ t.at \in {"new", "ready", "closed", "creating", "created", "leaving",
                        "removing", "relaying"}
           /\ t.at \in {"creating", "created"} =>
                 t.code \in Code /\ t = [at |-> t.at, code |-> t.code]
           /\ t.at \in {"leaving", "removing"} =>
                 /\ t.code \in Code /\ t.then \in {"ready", "closed"}
                 /\ t = [at |-> t.at, code |-> t.code, then |-> t.then]
           /\ t.at = "relaying" => t.to \in Peer
  BY DEF Task, At

LEMMA SSInitInv == SSInit => SSInv
  BY DEF SSInit, SSInv, RoomsInv, SSTypeOK, HostListed, FiniteRooms, TasksInv, NoGhosts,
         EmptyRoomGoes, Task, At, NoRoom, Stays

-----------------------------------------------------------------------------
LEMMA RoomFields ==
    ASSUME SSInv, NEW c \in Code, rooms[c].exists
    PROVE  /\ rooms[c] \in Room
           /\ rooms[c].peers \subseteq Peer /\ IsFiniteSet(rooms[c].peers)
           /\ rooms[c].host_id \in rooms[c].peers \cup {None}
  <1>1. rooms[c] \in {NoRoom} \cup Room
    BY DEF SSInv, RoomsInv, SSTypeOK
  <1>2. NoRoom.exists = FALSE
    BY DEF NoRoom
  <1>3. rooms[c] # NoRoom
    BY <1>2
  <1>4. rooms[c] \in Room
    BY <1>1, <1>3
  <1>5. rooms[c].peers \subseteq Peer
    BY <1>4 DEF Room
  <1>6. IsFiniteSet(rooms[c].peers) /\ rooms[c].host_id \in rooms[c].peers \cup {None}
    BY DEF SSInv, RoomsInv, HostListed, FiniteRooms
  <1>. QED
    BY <1>4, <1>5, <1>6

(* Where a peer that a room lists must be. *)
Accounted(q, c) ==
    \/ current_room[q] = c /\ q \in peer_senders
    \/ task[q].at \in {"created", "leaving"} /\ task[q].code = c

(* A step of one task keeps the invariant when each room is left alone or  *)
(* is well-formed and not empty afterwards, and the peers it lists are     *)
(* still accounted for.                                                    *)
LEMMA StepPreservesInv ==
    ASSUME SSInv, SSTypeOK',
           \A c \in Code : rooms'[c].exists =>
              /\ rooms'[c].host_id \in rooms'[c].peers \cup {None}
              /\ IsFiniteSet(rooms'[c].peers)
              /\ \A q \in rooms'[c].peers : Accounted(q, c)'
              /\ rooms'[c].peers = {} =>
                    \E q \in Peer : (task[q].at = "removing" /\ task[q].code = c)',
           TasksInv'
    PROVE  SSInv'
  BY DEF SSInv, RoomsInv, HostListed, FiniteRooms, NoGhosts, Accounted, EmptyRoomGoes

LEMMA ListedAccounted ==
    ASSUME SSInv, NEW c \in Code, rooms[c].exists
    PROVE  /\ \A q \in rooms[c].peers : Accounted(q, c)
           /\ rooms[c].peers = {} =>
                 \E q \in Peer : task[q].at = "removing" /\ task[q].code = c
  BY DEF SSInv, NoGhosts, Accounted, EmptyRoomGoes

(* The same for a step of the task of p that changes at most the rooms in  *)
(* changed.                                                                *)
LEMMA OneTask ==
    ASSUME SSInv, SSTypeOK', TasksInv',
           NEW p \in Peer, NEW changed \in SUBSET Code,
           \A c \in Code \ changed : rooms'[c] = rooms[c],
           \A q \in Peer \ {p} : /\ task'[q] = task[q]
                                 /\ current_room'[q] = current_room[q]
                                 /\ q \in peer_senders => q \in peer_senders',
           \A c \in Code \ changed :
              rooms[c].exists /\ Accounted(p, c) => Accounted(p, c)',
           task[p].at = "removing" => task[p].code \in changed,
           \A c \in changed : rooms'[c].exists =>
              /\ rooms'[c].host_id \in rooms'[c].peers \cup {None}
              /\ IsFiniteSet(rooms'[c].peers)
              /\ \A q \in rooms'[c].peers : Accounted(q, c)'
              /\ rooms'[c].peers = {} =>
                    \E q \in Peer : (task[q].at = "removing" /\ task[q].code = c)'
    PROVE  SSInv'
  <1>1. ASSUME NEW c \in Code \ changed, rooms[c].exists
        PROVE  /\ \A q \in rooms[c].peers : Accounted(q, c)'
               /\ rooms[c].peers = {} =>
                     \E q \in Peer : (task[q].at = "removing" /\ task[q].code = c)'
    <2>1. \A q \in rooms[c].peers \ {p} : Accounted(q, c)'
      BY <1>1, RoomFields, ListedAccounted DEF Accounted
    <2>2. p \in rooms[c].peers => Accounted(p, c)'
      BY <1>1, ListedAccounted
    <2>3. ASSUME rooms[c].peers = {}
          PROVE  \E q \in Peer : (task[q].at = "removing" /\ task[q].code = c)'
      <3>1. PICK q \in Peer : task[q].at = "removing" /\ task[q].code = c
        BY <1>1, <2>3, ListedAccounted
      <3>2. task'[q] = task[q]
        BY <3>1
      <3>. QED
        BY <3>1, <3>2
    <2>. QED
      BY <2>1, <2>2, <2>3
  <1>2. \A c \in Code : rooms[c].exists =>
           /\ rooms[c].host_id \in rooms[c].peers \cup {None}
           /\ IsFiniteSet(rooms[c].peers)
    BY RoomFields
  <1>. QED
    BY <1>1, <1>2, StepPreservesInv

LEMMA RoomsKept ==
    ASSUME SSInv, SSTypeOK', TasksInv', rooms' = rooms,
           NEW p \in Peer,
           \A q \in Peer \ {p} : /\ task'[q] = task[q]
                                 /\ current_room'[q] = current_room[q]
                                 /\ q \in peer_senders => q \in peer_senders',
           \A c \in Code : rooms[c].exists /\ Accounted(p, c) => Accounted(p, c)',
           task[p].at # "removing"
    PROVE  SSInv'
  BY OneTask, {} \in SUBSET Code

LEMMA OneRoom ==
    ASSUME SSInv, SSTypeOK', TasksInv',
           NEW p \in Peer, NEW k \in Code,
           \A c \in Code \ {k} : rooms'[c] = rooms[c],
           \A q \in Peer \ {p} : /\ task'[q] = task[q]
                                 /\ current_room'[q] = current_room[q],
           peer_senders' = peer_senders,
           \A c \in Code \ {k} : ~Accounted(p, c),
           task[p].at = "removing" => task[p].code = k,
           rooms'[k].exists =>
              /\ rooms'[k].host_id \in rooms'[k].peers \cup {None}
              /\ IsFiniteSet(rooms'[k].peers)
              /\ \A q \in rooms'[k].peers : Accounted(q, k)'
              /\ rooms'[k].peers = {} => (task[p].at = "removing")' /\ task'[p].code = k
    PROVE  SSInv'
  <1>1. {k} \in SUBSET Code
    OBVIOUS
  <1>2. \A q \in Peer \ {p} : /\ task'[q] = task[q]
                              /\ current_room'[q] = current_room[q]
                              /\ q \in peer_senders => q \in peer_senders'
    OBVIOUS
  <1>3. task[p].at = "removing" => task[p].code \in {k}
    OBVIOUS
  <1>4. \A c \in {k} : rooms'[c].exists =>
              /\ rooms'[c].host_id \in rooms'[c].peers \cup {None}
              /\ IsFiniteSet(rooms'[c].peers)
              /\ \A q \in rooms'[c].peers : Accounted(q, c)'
              /\ rooms'[c].peers = {} =>
                    \E q \in Peer : (task[q].at = "removing" /\ task[q].code = c)'
    OBVIOUS
  <1>. QED
    BY <1>1, <1>2, <1>3, <1>4, OneTask

(* The types after a step on one room. *)
LEMMA OneRoomTypes ==
    ASSUME SSInv, NEW k \in Code, NEW room \in {NoRoom} \cup Room,
           rooms' = [rooms EXCEPT ![k] = room],
           room.exists => Cardinality(room.peers) <= MaxPeers,
           task' \in [Peer -> Task], peer_rooms' \in [Peer -> Code \cup {None}],
           current_room' \in [Peer -> Code \cup {None}],
           UNCHANGED <<peer_senders, mail, to_remove>>
    PROVE  SSTypeOK'
  <1>1. /\ rooms \in [Code -> {NoRoom} \cup Room]
        /\ \A c \in Code : rooms[c].exists => Cardinality(rooms[c].peers) <= MaxPeers
    BY DEF SSInv, RoomsInv, SSTypeOK
  <1>2. rooms' \in [Code -> {NoRoom} \cup Room]
    BY <1>1
  <1>3. rooms'[k] = room /\ \A c \in Code \ {k} : rooms'[c] = rooms[c]
    BY <1>1
  <1>4. \A c \in Code : rooms'[c].exists => Cardinality(rooms'[c].peers) <= MaxPeers
    BY <1>1, <1>3
  <1>. QED
    BY <1>2, <1>4 DEF SSInv, RoomsInv, SSTypeOK
-----------------------------------------------------------------------------
(* Messages that touch no room. *)
LEMMA ConnectInv ==
    ASSUME SSInv, NEW p \in Peer, Connect(p)
    PROVE  SSInv'
  <1>1. SSTypeOK'
    BY DEF SSInv, RoomsInv, SSTypeOK, Connect, Goto, At, Task
  <1>2. \A q \in Peer \ {p} : task'[q] = task[q]
    BY DEF SSInv, RoomsInv, SSTypeOK, Connect, Goto
  <1>3. task[p] = At("new") /\ task'[p] = At("ready")
    BY DEF SSInv, RoomsInv, SSTypeOK, Connect, Goto
  <1>4. TasksInv'
    BY <1>2, <1>3 DEF SSInv, TasksInv, Stays, Connect, At
  <1>5. \A c \in Code : Accounted(p, c) => Accounted(p, c)'
    BY <1>3 DEF Accounted, Connect, At
  <1>. QED
    BY <1>1, <1>2, <1>3, <1>4, <1>5, RoomsKept DEF Connect, At

LEMMA CreateRoomInv ==
    ASSUME SSInv, NEW p \in Peer, NEW k \in Code, CreateRoom(p, k)
    PROVE  SSInv'
  <1>1. SSTypeOK'
    BY TaskFields DEF SSInv, RoomsInv, SSTypeOK, CreateRoom, Goto, At, Task
  <1>2. \A q \in Peer \ {p} : /\ task'[q] = task[q]
                              /\ current_room'[q] = current_room[q]
    BY DEF SSInv, RoomsInv, SSTypeOK, CreateRoom, Goto
  <1>3. task[p] = At("ready") /\ task'[p] = [at |-> "creating", code |-> k]
    BY TaskFields DEF SSInv, RoomsInv, SSTypeOK, CreateRoom, Goto, At
  <1>4. TasksInv'
    BY <1>2, <1>3, TaskFields, NoneAssumption DEF SSInv, RoomsInv, SSTypeOK, TasksInv, Stays, CreateRoom, At
  <1>5. \A c \in Code : rooms[c].exists /\ Accounted(p, c) => Accounted(p, c)'
    BY <1>3, NoneAssumption DEF SSInv, TasksInv, Stays, Accounted, CreateRoom, At
  <1>. QED
    BY <1>1, <1>2, <1>3, <1>4, <1>5, RoomsKept DEF CreateRoom, At

LEMMA CreateRecordInv ==
    ASSUME SSInv, NEW p \in Peer, CreateRecord(p)
    PROVE  SSInv'
  <1>1. SSTypeOK'
    BY TaskFields DEF SSInv, RoomsInv, SSTypeOK, CreateRecord, Goto, At, Task
  <1>2. \A q \in Peer \ {p} : /\ task'[q] = task[q]
                              /\ current_room'[q] = current_room[q]
    BY DEF SSInv, RoomsInv, SSTypeOK, CreateRecord, Goto
  <1>3. task[p].at = "created" /\ task'[p] = At("ready") /\ current_room'[p] = task[p].code
    BY TaskFields DEF SSInv, RoomsInv, SSTypeOK, CreateRecord, Goto, At
  <1>4. TasksInv'
    BY <1>2, <1>3, TaskFields, NoneAssumption DEF SSInv, RoomsInv, SSTypeOK, TasksInv, Stays, CreateRecord, At
  <1>5. \A c \in Code : rooms[c].exists /\ Accounted(p, c) => Accounted(p, c)'
    BY <1>3, NoneAssumption DEF SSInv, TasksInv, Stays, Accounted, CreateRecord, At
  <1>. QED
    BY <1>1, <1>2, <1>3, <1>4, <1>5, RoomsKept DEF CreateRecord, At

LEMMA LeaveRoomInv ==
    ASSUME SSInv, NEW p \in Peer, LeaveRoom(p)
    PROVE  SSInv'
  <1>1. SSTypeOK'
    BY TaskFields DEF SSInv, RoomsInv, SSTypeOK, LeaveRoom, Goto, At, Task
  <1>2. \A q \in Peer \ {p} : /\ task'[q] = task[q]
                              /\ current_room'[q] = current_room[q]
    BY DEF SSInv, RoomsInv, SSTypeOK, LeaveRoom, Goto
  <1>3. task[p] = At("ready") /\ current_room'[p] = None /\ task'[p] = [at |-> "leaving", code |-> current_room[p], then |-> "ready"]
    BY TaskFields DEF SSInv, RoomsInv, SSTypeOK, LeaveRoom, Goto, At
  <1>4. TasksInv'
    BY <1>2, <1>3, TaskFields, NoneAssumption DEF SSInv, RoomsInv, SSTypeOK, TasksInv, Stays, LeaveRoom, At
  <1>5. \A c \in Code : rooms[c].exists /\ Accounted(p, c) => Accounted(p, c)'
    BY <1>3, NoneAssumption DEF SSInv, TasksInv, Stays, Accounted, LeaveRoom, At
  <1>. QED
    BY <1>1, <1>2, <1>3, <1>4, <1>5, RoomsKept DEF LeaveRoom, At

LEMMA LeaveNothingInv ==
    ASSUME SSInv, NEW p \in Peer, LeaveNothing(p)
    PROVE  SSInv'
  <1>1. SSTypeOK'
    BY TaskFields DEF SSInv, RoomsInv, SSTypeOK, LeaveNothing, Goto, At, Task
  <1>2. \A q \in Peer \ {p} : /\ task'[q] = task[q]
                              /\ current_room'[q] = current_room[q]
    BY DEF SSInv, RoomsInv, SSTypeOK, LeaveNothing, Goto
  <1>3. task[p].at = "leaving" /\ task'[p] = At(task[p].then)
    BY TaskFields DEF SSInv, RoomsInv, SSTypeOK, LeaveNothing, Goto, At
  <1>4. TasksInv'
    BY <1>2, <1>3, TaskFields, NoneAssumption DEF SSInv, RoomsInv, SSTypeOK, TasksInv, Stays, LeaveNothing, At
  <1>5. \A c \in Code : rooms[c].exists /\ Accounted(p, c) => Accounted(p, c)'
    BY <1>3, NoneAssumption DEF SSInv, TasksInv, Stays, Accounted, LeaveNothing, At
  <1>. QED
    BY <1>1, <1>2, <1>3, <1>4, <1>5, RoomsKept DEF LeaveNothing, At

LEMMA RelayInv ==
    ASSUME SSInv, NEW p \in Peer, NEW r \in Peer, Relay(p, r)
    PROVE  SSInv'
  <1>1. SSTypeOK'
    BY TaskFields DEF SSInv, RoomsInv, SSTypeOK, Relay, Goto, At, Task
  <1>2. \A q \in Peer \ {p} : /\ task'[q] = task[q]
                              /\ current_room'[q] = current_room[q]
    BY DEF SSInv, RoomsInv, SSTypeOK, Relay, Goto
  <1>3. task[p] = At("ready") /\ task'[p] = [at |-> "relaying", to |-> r]
    BY TaskFields DEF SSInv, RoomsInv, SSTypeOK, Relay, Goto, At
  <1>4. TasksInv'
    BY <1>2, <1>3, TaskFields, NoneAssumption DEF SSInv, RoomsInv, SSTypeOK, TasksInv, Stays, Relay, At
  <1>5. \A c \in Code : rooms[c].exists /\ Accounted(p, c) => Accounted(p, c)'
    BY <1>3, NoneAssumption DEF SSInv, TasksInv, Stays, Accounted, Relay, At
  <1>. QED
    BY <1>1, <1>2, <1>3, <1>4, <1>5, RoomsKept DEF Relay, At

LEMMA RelaySendInv ==
    ASSUME SSInv, NEW p \in Peer, RelaySend(p)
    PROVE  SSInv'
  <1>1. SSTypeOK'
    BY TaskFields DEF SSInv, RoomsInv, SSTypeOK, RelaySend, Goto, At, Task
  <1>2. \A q \in Peer \ {p} : /\ task'[q] = task[q]
                              /\ current_room'[q] = current_room[q]
    BY DEF SSInv, RoomsInv, SSTypeOK, RelaySend, Goto
  <1>3. task[p].at = "relaying" /\ task'[p] = At("ready")
    BY TaskFields DEF SSInv, RoomsInv, SSTypeOK, RelaySend, Goto, At
  <1>4. TasksInv'
    BY <1>2, <1>3, TaskFields, NoneAssumption DEF SSInv, RoomsInv, SSTypeOK, TasksInv, Stays, RelaySend, At
  <1>5. \A c \in Code : rooms[c].exists /\ Accounted(p, c) => Accounted(p, c)'
    BY <1>3, NoneAssumption DEF SSInv, TasksInv, Stays, Accounted, RelaySend, At
  <1>. QED
    BY <1>1, <1>2, <1>3, <1>4, <1>5, RoomsKept DEF RelaySend, At

LEMMA DisconnectInv ==
    ASSUME SSInv, NEW p \in Peer, Disconnect(p)
    PROVE  SSInv'
  <1>1. SSTypeOK'
    BY DEF SSInv, RoomsInv, SSTypeOK, Disconnect, Goto, At, Task
  <1>2. \A q \in Peer \ {p} : /\ task'[q] = task[q]
                              /\ current_room'[q] = current_room[q]
    BY DEF SSInv, RoomsInv, SSTypeOK, Disconnect, Goto
  <1>3. /\ task[p] = At("ready")
        /\ current_room'[p] = None
        /\ IF current_room[p] = None THEN task'[p] = At("closed")
           ELSE task'[p] = [at |-> "leaving", code |-> current_room[p], then |-> "closed"]
    BY DEF SSInv, RoomsInv, SSTypeOK, Disconnect, Goto, At
  <1>4. TasksInv'
    BY <1>2, <1>3 DEF SSInv, TasksInv, Stays, Disconnect, At
  <1>5. \A c \in Code : rooms[c].exists /\ Accounted(p, c) => Accounted(p, c)'
    BY <1>3, NoneAssumption DEF Accounted, At
  <1>. QED
    BY <1>1, <1>2, <1>3, <1>4, <1>5, RoomsKept DEF Disconnect, At

(* Steps that leave tasks, senders and listings alone. *)
LEMMA TasksKept ==
    ASSUME SSInv, SSTypeOK', UNCHANGED <<task, current_room, peer_senders>>,
           \A c \in Code : rooms'[c].exists =>
              /\ rooms[c].exists
              /\ rooms'[c].peers = rooms[c].peers
              /\ rooms'[c].host_id = rooms[c].host_id
    PROVE  SSInv'
  <1>1. TasksInv'
    BY DEF SSInv, TasksInv, Stays
  <1>2. ASSUME NEW c \in Code, rooms'[c].exists
        PROVE  /\ rooms'[c].host_id \in rooms'[c].peers \cup {None}
               /\ IsFiniteSet(rooms'[c].peers)
               /\ \A q \in rooms'[c].peers : Accounted(q, c)'
               /\ rooms'[c].peers = {} =>
                     \E q \in Peer : (task[q].at = "removing" /\ task[q].code = c)'
    BY <1>2, RoomFields, ListedAccounted DEF Accounted
  <1>. QED
    BY <1>1, <1>2, StepPreservesInv

LEMMA RelayedInv ==
    ASSUME SSInv, NEW p \in Peer, NEW from \in Peer, Relayed(p, from)
    PROVE  SSInv'
  <1>1. SSTypeOK'
    BY DEF SSInv, RoomsInv, SSTypeOK, Relayed
  <1>. QED
    BY <1>1, TasksKept DEF Relayed

LEMMA CollectIdleInv ==
    ASSUME SSInv, NEW k \in Code, CollectIdle(k)
    PROVE  SSInv'
  <1>1. SSTypeOK'
    BY DEF SSInv, RoomsInv, SSTypeOK, CollectIdle
  <1>. QED
    BY <1>1, TasksKept DEF CollectIdle

LEMMA GrowsIdleInv ==
    ASSUME SSInv, NEW k \in Code, GrowsIdle(k)
    PROVE  SSInv'
  <1>1. rooms[k] \in Room
    BY RoomFields DEF GrowsIdle
  <1>2. \A c \in Code \ {k} : rooms'[c] = rooms[c]
    BY DEF SSInv, RoomsInv, SSTypeOK, GrowsIdle
  <1>3. /\ rooms'[k] \in Room /\ rooms'[k].peers = rooms[k].peers
        /\ rooms'[k].host_id = rooms[k].host_id
    BY <1>1 DEF SSInv, RoomsInv, SSTypeOK, GrowsIdle, Room
  <1>4. SSTypeOK'
    BY <1>1, <1>2, <1>3 DEF SSInv, RoomsInv, SSTypeOK, GrowsIdle
  <1>. QED
    BY <1>2, <1>3, <1>4, TasksKept DEF GrowsIdle

LEMMA UpdatePeerInv ==
    ASSUME SSInv, NEW p \in Peer, UpdatePeer(p)
    PROVE  SSInv'
  <1>. DEFINE k == current_room[p]
  <1>1. k \in Code /\ rooms[k].exists
    BY DEF SSInv, RoomsInv, SSTypeOK, UpdatePeer
  <1>2. rooms[k] \in Room
    BY <1>1, RoomFields
  <1>3. \A c \in Code \ {k} : rooms'[c] = rooms[c]
    BY <1>1 DEF SSInv, RoomsInv, SSTypeOK, UpdatePeer
  <1>4. /\ rooms'[k] \in Room /\ rooms'[k].peers = rooms[k].peers
        /\ rooms'[k].host_id = rooms[k].host_id
    BY <1>1, <1>2 DEF SSInv, RoomsInv, SSTypeOK, UpdatePeer, Room
  <1>5. SSTypeOK'
    BY <1>1, <1>2, <1>3, <1>4 DEF SSInv, RoomsInv, SSTypeOK, UpdatePeer
  <1>. QED
    BY <1>1, <1>3, <1>4, <1>5, TasksKept DEF UpdatePeer

LEMMA RemoveIdleInv ==
    ASSUME SSInv, NEW k \in Code, RemoveIdle(k)
    PROVE  SSInv'
  <1>1. \A c \in Code \ {k} : rooms'[c] = rooms[c]
    BY DEF SSInv, RoomsInv, SSTypeOK, RemoveIdle
  <1>2. rooms'[k] = NoRoom /\ NoRoom.exists = FALSE
    BY DEF SSInv, RoomsInv, SSTypeOK, RemoveIdle, NoRoom
  <1>3. SSTypeOK'
    BY <1>1, <1>2 DEF SSInv, RoomsInv, SSTypeOK, RemoveIdle
  <1>. QED
    BY <1>1, <1>2, <1>3, TasksKept DEF RemoveIdle
-----------------------------------------------------------------------------
(* Steps of one task on one room. *)
LEMMA CreateInsertInv ==
    ASSUME SSInv, NEW p \in Peer, CreateInsert(p)
    PROVE  SSInv'
  <1>1. PICK k \in Code : /\ task[p] \in Task /\ task[p].at = "creating"
                          /\ task[p].code = k /\ task[p] = [at |-> "creating", code |-> k]
    BY TaskFields DEF SSInv, RoomsInv, SSTypeOK, CreateInsert
  <1>2. task'[p] = [at |-> "created", code |-> k]
    BY <1>1 DEF SSInv, RoomsInv, SSTypeOK, CreateInsert, Goto
  <1>3. \A q \in Peer \ {p} : task'[q] = task[q]
    BY DEF SSInv, RoomsInv, SSTypeOK, CreateInsert, Goto
  <1>4. rooms'[k] = NewRoom(p) /\ \A c \in Code \ {k} : rooms'[c] = rooms[c]
    BY <1>1 DEF SSInv, RoomsInv, SSTypeOK, CreateInsert
  <1>5. /\ NewRoom(p) \in Room /\ NewRoom(p).peers = {p} /\ NewRoom(p).host_id = p
        /\ IsFiniteSet({p}) /\ Cardinality({p}) <= MaxPeers
    <2>1. NewRoom(p) \in Room /\ NewRoom(p).peers = {p} /\ NewRoom(p).host_id = p
      BY DEF NewRoom, Room
    <2>2. IsFiniteSet({p}) /\ Cardinality({p}) = 1
      BY FS_Singleton
    <2>3. Cardinality({p}) <= MaxPeers
      BY <2>2, MaxPeersAssumption
    <2>. QED
      BY <2>1, <2>2, <2>3
  <1>6. rooms' = [rooms EXCEPT ![k] = NewRoom(p)] /\ NewRoom(p) \in {NoRoom} \cup Room
    BY <1>1, <1>5 DEF CreateInsert
  <1>7. task' \in [Peer -> Task]
    BY <1>1, <1>2 DEF SSInv, RoomsInv, SSTypeOK, CreateInsert, Goto, Task
  <1>8. SSTypeOK'
    BY <1>1, <1>5, <1>6, <1>7, OneRoomTypes DEF SSInv, RoomsInv, SSTypeOK, CreateInsert
  <1>9. TasksInv'
    BY <1>1, <1>2, <1>3 DEF SSInv, TasksInv, Stays, CreateInsert
  <1>10. \A c \in Code \ {k} : ~Accounted(p, c)
    BY <1>1, NoneAssumption DEF Accounted, SSInv, TasksInv
  <1>11. Accounted(p, k)'
    BY <1>2 DEF Accounted
  <1>12. UNCHANGED <<peer_senders, current_room>>
    BY DEF CreateInsert
  <1>13. /\ rooms'[k].host_id \in rooms'[k].peers \cup {None} /\ IsFiniteSet(rooms'[k].peers)
         /\ \A q \in rooms'[k].peers : q = p
         /\ rooms'[k].peers # {}
    BY <1>4, <1>5
  <1>14. task[p].at # "removing"
    BY <1>1
  <1>15. \A q \in rooms'[k].peers : Accounted(q, k)'
    BY <1>11, <1>13
  <1>. QED
    BY <1>3, <1>4, <1>8, <1>9, <1>10, <1>12, <1>13, <1>14, <1>15, OneRoom

LEMMA JoinRoomInv ==
    ASSUME SSInv, NEW p \in Peer, NEW k \in Code, JoinRoom(p, k)
    PROVE  SSInv'
  <1>1. rooms[k] \in Room /\ rooms[k].exists
    BY RoomFields DEF JoinRoom
  <1>2. /\ Cardinality(rooms[k].peers) < MaxPeers
        /\ rooms'[k] = [rooms[k] EXCEPT !.peers = @ \cup {p}, !.idle = FALSE]
    <2>1. Cardinality(rooms[k].peers) \in Nat
      BY <1>1, RoomFields, FS_CardinalityType
    <2>. QED
      BY <2>1, MaxPeersAssumption DEF JoinRoom, AddPeer, SSInv, RoomsInv, SSTypeOK
  <1>3. \A c \in Code \ {k} : rooms'[c] = rooms[c]
    BY DEF SSInv, RoomsInv, SSTypeOK, JoinRoom
  <1>4. /\ rooms'[k] \in Room /\ rooms'[k].peers = rooms[k].peers \cup {p}
        /\ rooms'[k].host_id = rooms[k].host_id
    BY <1>1, <1>2, ZenonT(30) DEF Room
  <1>5. /\ IsFiniteSet(rooms'[k].peers)
        /\ Cardinality(rooms'[k].peers) <= MaxPeers
    <2>1. IsFiniteSet(rooms[k].peers) /\ Cardinality(rooms[k].peers) \in Nat
      BY <1>1, RoomFields, FS_CardinalityType
    <2>2. CASE p \in rooms[k].peers
      <3>1. rooms'[k].peers = rooms[k].peers
        BY <1>4, <2>2
      <3>2. Cardinality(rooms[k].peers) <= MaxPeers
        BY <1>2, <2>1, MaxPeersAssumption
      <3>. QED
        BY <2>1, <3>1, <3>2
    <2>3. CASE p \notin rooms[k].peers
      <3>1. /\ IsFiniteSet(rooms[k].peers \cup {p})
            /\ Cardinality(rooms[k].peers \cup {p}) = Cardinality(rooms[k].peers) + 1
        BY <2>1, <2>3, FS_AddElement
      <3>. QED
        BY <1>2, <1>4, <2>1, <3>1, MaxPeersAssumption
    <2>. QED
      BY <2>2, <2>3
  <1>6. rooms' = [rooms EXCEPT ![k] = rooms'[k]]
    BY <1>2 DEF SSInv, RoomsInv, SSTypeOK, JoinRoom
  <1>7. SSTypeOK'
    BY <1>4, <1>5, <1>6, OneRoomTypes DEF SSInv, RoomsInv, SSTypeOK, JoinRoom
  <1>8. /\ task[p] = At("ready") /\ current_room[p] = None /\ current_room'[p] = k
        /\ \A q \in Peer \ {p} : current_room'[q] = current_room[q]
        /\ task' = task
    BY DEF SSInv, RoomsInv, SSTypeOK, JoinRoom
  <1>9. TasksInv'
    BY <1>8 DEF SSInv, TasksInv, Stays, JoinRoom, At
  <1>10. \A c \in Code : ~Accounted(p, c)
    BY <1>8, NoneAssumption DEF Accounted, At
  <1>11. p \in peer_senders' /\ peer_senders' = peer_senders
    BY <1>8 DEF SSInv, TasksInv, Stays, JoinRoom, At
  <1>12. \A q \in rooms'[k].peers : Accounted(q, k)'
    <2>1. Accounted(p, k)'
      BY <1>8, <1>11 DEF Accounted
    <2>2. \A q \in rooms[k].peers \ {p} : Accounted(q, k)'
      BY <1>1, <1>8, <1>11, RoomFields, ListedAccounted DEF Accounted
    <2>. QED
      BY <1>4, <2>1, <2>2
  <1>13. rooms'[k].host_id \in rooms'[k].peers \cup {None} /\ rooms'[k].peers # {}
    BY <1>1, <1>4, RoomFields
  <1>14. task[p].at # "removing"
    BY <1>8 DEF At
  <1>. QED
    BY <1>3, <1>5, <1>7, <1>8, <1>9, <1>10, <1>11, <1>12, <1>13, <1>14, OneRoom

LEMMA LeaveTakeOutInv ==
    ASSUME SSInv, NEW p \in Peer, LeaveTakeOut(p)
    PROVE  SSInv'
  <1>1. PICK k \in Code :
           /\ task[p] \in Task /\ task[p].at = "leaving"
           /\ task[p].code = k /\ task[p].then \in {"ready", "closed"}
           /\ task[p] = [at |-> "leaving", code |-> k, then |-> task[p].then]
    BY TaskFields DEF SSInv, RoomsInv, SSTypeOK, LeaveTakeOut
  <1>. DEFINE left == RemovePeer(rooms[k], p)
  <1>2. rooms[k].exists /\ rooms[k] \in Room
    BY <1>1, RoomFields DEF LeaveTakeOut
  <1>3. /\ left \in Room /\ left.peers = rooms[k].peers \ {p}
        /\ left.host_id \in left.peers \cup {None}
    BY <1>1, <1>2, RoomFields DEF RemovePeer, Room
  <1>4. rooms'[k] = left /\ \A c \in Code \ {k} : rooms'[c] = rooms[c]
    BY <1>1 DEF SSInv, RoomsInv, SSTypeOK, LeaveTakeOut
  <1>5. /\ left.peers = {} => task'[p] = [at |-> "removing", code |-> k,
                                          then |-> task[p].then]
        /\ left.peers # {} => task'[p] = At(task[p].then)
    BY <1>1 DEF SSInv, RoomsInv, SSTypeOK, LeaveTakeOut, Goto
  <1>6. \A q \in Peer \ {p} : task'[q] = task[q]
    BY DEF SSInv, RoomsInv, SSTypeOK, LeaveTakeOut, Goto
  <1>7. /\ IsFiniteSet(left.peers)
        /\ Cardinality(left.peers) <= MaxPeers
    <2>1. IsFiniteSet(rooms[k].peers) /\ Cardinality(rooms[k].peers) <= MaxPeers
      BY <1>1, <1>2, RoomFields DEF SSInv, RoomsInv, SSTypeOK
    <2>2. /\ IsFiniteSet(left.peers) /\ Cardinality(left.peers) <= Cardinality(rooms[k].peers)
      BY <1>3, <2>1, FS_Subset
    <2>3. Cardinality(left.peers) \in Nat /\ Cardinality(rooms[k].peers) \in Nat
      BY <2>1, <2>2, FS_CardinalityType
    <2>. QED
      BY <2>1, <2>2, <2>3, MaxPeersAssumption
  <1>8. rooms' = [rooms EXCEPT ![k] = left] /\ left \in {NoRoom} \cup Room
    BY <1>1, <1>3 DEF LeaveTakeOut
  <1>9. task' \in [Peer -> Task]
    <2>1. task'[p] \in Task
      BY <1>1, <1>5 DEF Task, At
    <2>. QED
      BY <1>6, <2>1 DEF SSInv, RoomsInv, SSTypeOK, LeaveTakeOut, Goto
  <1>10. SSTypeOK'
    <2>1. /\ peer_rooms' \in [Peer -> Code \cup {None}]
          /\ current_room' \in [Peer -> Code \cup {None}]
          /\ UNCHANGED <<peer_senders, mail, to_remove>>
      BY DEF SSInv, RoomsInv, SSTypeOK, LeaveTakeOut
    <2>. HIDE DEF left
    <2>. QED
      BY <1>1, <1>7, <1>8, <1>9, <2>1, OneRoomTypes
  <1>11. TasksInv'
    BY <1>1, <1>5, <1>6 DEF SSInv, TasksInv, Stays, LeaveTakeOut, At
  <1>12. \A c \in Code \ {k} : ~Accounted(p, c)
    BY <1>1, NoneAssumption DEF Accounted, SSInv, TasksInv
  <1>13. \A q \in left.peers : Accounted(q, k)'
    BY <1>1, <1>2, <1>3, <1>6, RoomFields, ListedAccounted DEF Accounted, LeaveTakeOut
  <1>14. left.peers = {} => task'[p].at = "removing" /\ task'[p].code = k
    BY <1>5
  <1>15. UNCHANGED <<peer_senders, current_room>> /\ task[p].at # "removing"
    BY <1>1 DEF LeaveTakeOut
  <1>16. /\ rooms'[k].host_id \in rooms'[k].peers \cup {None}
         /\ IsFiniteSet(rooms'[k].peers)
         /\ \A q \in rooms'[k].peers : Accounted(q, k)'
         /\ rooms'[k].peers = {} => task'[p].at = "removing" /\ task'[p].code = k
    BY <1>3, <1>4, <1>7, <1>13, <1>14
  <1>. QED
    BY <1>4, <1>6, <1>10, <1>11, <1>12, <1>15, <1>16, OneRoom

LEMMA LeaveRemoveInv ==
    ASSUME SSInv, NEW p \in Peer, LeaveRemove(p)
    PROVE  SSInv'
  <1>1. PICK k \in Code : /\ task[p] \in Task /\ task[p].at = "removing"
                          /\ task[p].code = k /\ task[p].then \in {"ready", "closed"}
    BY TaskFields DEF SSInv, RoomsInv, SSTypeOK, LeaveRemove
  <1>2. task'[p] = At(task[p].then)
    BY <1>1 DEF SSInv, RoomsInv, SSTypeOK, LeaveRemove, Goto
  <1>3. \A q \in Peer \ {p} : task'[q] = task[q]
    BY DEF SSInv, RoomsInv, SSTypeOK, LeaveRemove, Goto
  <1>4. /\ rooms'[k] = NoRoom /\ NoRoom.exists = FALSE
        /\ \A c \in Code \ {k} : rooms'[c] = rooms[c]
    BY <1>1 DEF SSInv, RoomsInv, SSTypeOK, LeaveRemove, NoRoom
  <1>5. rooms' \in [Code -> {NoRoom} \cup Room] /\ task' \in [Peer -> Task]
    BY <1>1 DEF SSInv, RoomsInv, SSTypeOK, LeaveRemove, Goto, Task, At
  <1>6. SSTypeOK'
    BY <1>4, <1>5 DEF SSInv, RoomsInv, SSTypeOK, LeaveRemove
  <1>7. TasksInv'
    BY <1>1, <1>2, <1>3 DEF SSInv, TasksInv, Stays, LeaveRemove, At
  <1>8. \A c \in Code : ~Accounted(p, c)
    BY <1>1, NoneAssumption DEF Accounted, SSInv, TasksInv
  <1>9. UNCHANGED <<peer_senders, current_room>>
    BY DEF LeaveRemove
  <1>10. rooms'[k].exists = FALSE /\ task[p].code = k
    BY <1>1, <1>4
  <1>. QED
    BY <1>1, <1>3, <1>4, <1>6, <1>7, <1>8, <1>9, <1>10, OneRoom
-----------------------------------------------------------------------------
LEMMA SSNextInv == SSInv /\ [SSNext]_vars => SSInv'
  <1>. SUFFICES ASSUME SSInv, [SSNext]_vars
                PROVE  SSInv'
    OBVIOUS
  <1>1. CASE UNCHANGED vars
    <2>1. SSTypeOK'
      BY <1>1 DEF SSInv, RoomsInv, SSTypeOK, vars
    <2>. QED
      BY <1>1, <2>1, TasksKept DEF vars
  <1>2. ASSUME NEW p \in Peer, Connect(p) \/ Message(p) \/ Disconnect(p) \/ Underway(p)
        PROVE  SSInv'
    BY <1>2, ConnectInv, CreateRoomInv, JoinRoomInv, UpdatePeerInv, LeaveRoomInv, RelayInv,
       DisconnectInv, CreateInsertInv, CreateRecordInv, LeaveTakeOutInv, LeaveNothingInv,
       LeaveRemoveInv, RelaySendInv
    DEF Message, Underway
  <1>3. ASSUME NEW p \in Peer, NEW q \in Peer, Relayed(p, q)
        PROVE  SSInv'
    BY <1>3, RelayedInv
  <1>4. ASSUME NEW c \in Code, GrowsIdle(c) \/ CollectIdle(c) \/ RemoveIdle(c)
        PROVE  SSInv'
    BY <1>4, GrowsIdleInv, CollectIdleInv, RemoveIdleInv
  <1>. QED
    BY <1>1, <1>2, <1>3, <1>4 DEF SSNext

(* Rooms, tasks and senders agree in every reachable state, whatever       *)
(* creations, departures and clean-ups cross each other.                   *)
THEOREM ServerInvariant == SSSpec => []SSInv
  BY SSInitInv, SSNextInv, PTL DEF SSSpec

(* No room ever holds more peers than its limit (add_peer), and its host   *)
(* is one of them or has left.                                             *)
THEOREM RoomsInOrder == SSSpec => []RoomsInv
  BY ServerInvariant, PTL DEF SSInv

(* A room lists only peers whose task is in it, has just created it or is  *)
(* about to leave it: a disconnected peer is never announced to another.   *)
THEOREM NoGhostsEver == SSSpec => []NoGhosts
  BY ServerInvariant, PTL DEF SSInv

(* An empty room always has a task that is about to remove it              *)
(* (leave_room), so that its code comes back into use.                     *)
THEOREM EmptyRoomsGo == SSSpec => []EmptyRoomGoes
  BY ServerInvariant, PTL DEF SSInv
=============================================================================
