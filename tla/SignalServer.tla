---------------------------- MODULE SignalServer ----------------------------
(***************************************************************************)
(* The signal server: rooms in which a host and its guests find each other *)
(* by join code (crates/teleport-signal/src/server.rs, room.rs).           *)
(*                                                                         *)
(* Every WebSocket connection is a task of its own on a runtime with       *)
(* several threads.  The maps rooms, peer_rooms and peer_senders are       *)
(* concurrent: one call on one of them is atomic, as is what happens while *)
(* the guard of get_mut is alive, and nothing else.  So CreateRoom and     *)
(* leave_room, which look at a room and come back to it, take several      *)
(* steps here.  A task serves one message at a time.                       *)
(*                                                                         *)
(* Join codes are the codes after validation and normalisation.  Of        *)
(* PeerInfo only the role of the host is kept, of last_activity whether    *)
(* the room has been idle for longer than ROOM_IDLE_TIMEOUT_SECS.  Answers *)
(* that change nothing (errors, Pong, health checks) are left out.         *)
(***************************************************************************)
EXTENDS Naturals, FiniteSets

CONSTANTS
    Peer,           \* connections, named by the server
    Code,           \* join codes
    MaxPeers,       \* MAX_PEERS_PER_ROOM
    None            \* no room, no host

ASSUME MaxPeersAssumption == MaxPeers \in Nat \ {0}
ASSUME NoneAssumption == None \notin Peer \cup Code

VARIABLES
    rooms,          \* SignalServer::rooms
    peer_rooms,     \* SignalServer::peer_rooms
    peer_senders,   \* SignalServer::peer_senders
    current_room,   \* handle_connection: current_room of each task
    task,           \* where each connection's task is
    mail,           \* for each peer, the senders of messages to be relayed
    to_remove       \* cleanup_idle_rooms: codes found idle, not removed yet

vars == <<rooms, peer_rooms, peer_senders, current_room, task, mail, to_remove>>

NoRoom == [exists |-> FALSE]

Room == [exists : {TRUE}, peers : SUBSET Peer, host_id : Peer \cup {None},
         idle : BOOLEAN]

At(where) == [at |-> where]

Task ==
    {At("new"), At("ready"), At("closed")}
    \cup [at : {"creating", "created"}, code : Code]
    \cup [at : {"leaving", "removing"}, code : Code, then : {"ready", "closed"}]
    \cup [at : {"relaying"}, to : Peer]

SSTypeOK ==
    /\ rooms \in [Code -> {NoRoom} \cup Room]
    /\ \A c \in Code : rooms[c].exists => Cardinality(rooms[c].peers) <= MaxPeers
    /\ peer_rooms \in [Peer -> Code \cup {None}]
    /\ peer_senders \subseteq Peer
    /\ current_room \in [Peer -> Code \cup {None}]
    /\ task \in [Peer -> Task]
    /\ mail \in [Peer -> SUBSET Peer]
    /\ to_remove \subseteq Code

SSInit ==
    /\ rooms = [c \in Code |-> NoRoom]
    /\ peer_rooms = [p \in Peer |-> None]
    /\ peer_senders = {}
    /\ current_room = [p \in Peer |-> None]
    /\ task = [p \in Peer |-> At("new")]
    /\ mail = [p \in Peer |-> {}]
    /\ to_remove = {}

Goto(p, state) == task' = [task EXCEPT ![p] = state]

Connect(p) ==
    /\ task[p] = At("new")
    /\ peer_senders' = peer_senders \cup {p}
    /\ Goto(p, At("ready"))
    /\ UNCHANGED <<rooms, peer_rooms, current_room, mail, to_remove>>
-----------------------------------------------------------------------------
(* Room *)

NewRoom(p) == [exists |-> TRUE, peers |-> {p}, host_id |-> p, idle |-> FALSE]

(* add_peer of a guest; a full room stays as it is (RoomFull). *)
AddPeer(room, p) ==
    IF Cardinality(room.peers) >= MaxPeers
    THEN room ELSE [room EXCEPT !.peers = @ \cup {p}, !.idle = FALSE]

(* Seeded fault: the role of the host is not cleared. *)
RemovePeerKeepsHost(room, p) ==
    [room EXCEPT !.peers = @ \ {p}, !.idle = FALSE]

RemovePeer(room, p) ==
    [room EXCEPT !.peers = @ \ {p},
                 !.host_id = IF @ = p THEN None ELSE @,
                 !.idle = FALSE]
-----------------------------------------------------------------------------
(* CreateRoom: contains_key, then insert, then the two records of it. *)

CreateRoom(p, c) ==
    /\ task[p] = At("ready")
    /\ current_room[p] = None
    /\ ~rooms[c].exists
    /\ Goto(p, [at |-> "creating", code |-> c])
    /\ UNCHANGED <<rooms, peer_rooms, peer_senders, current_room, mail, to_remove>>

CreateInsert(p) ==
    /\ task[p].at = "creating"
    /\ rooms' = [rooms EXCEPT ![task[p].code] = NewRoom(p)]
    /\ Goto(p, [task[p] EXCEPT !.at = "created"])
    /\ UNCHANGED <<peer_rooms, peer_senders, current_room, mail, to_remove>>

CreateRecord(p) ==
    /\ task[p].at = "created"
    /\ peer_rooms' = [peer_rooms EXCEPT ![p] = task[p].code]
    /\ current_room' = [current_room EXCEPT ![p] = task[p].code]
    /\ Goto(p, At("ready"))
    /\ UNCHANGED <<rooms, peer_senders, mail, to_remove>>

(* JoinRoom holds the guard of the room all the time. *)
JoinRoom(p, c) ==
    /\ task[p] = At("ready")
    /\ current_room[p] = None
    /\ rooms[c].exists
    /\ AddPeer(rooms[c], p) # rooms[c]
    /\ rooms' = [rooms EXCEPT ![c] = AddPeer(@, p)]
    /\ peer_rooms' = [peer_rooms EXCEPT ![p] = c]
    /\ current_room' = [current_room EXCEPT ![p] = c]
    /\ UNCHANGED <<peer_senders, task, mail, to_remove>>

(* PeerInfo: update_peer touches the room of a peer it lists. *)
UpdatePeer(p) ==
    LET c == current_room[p]
    IN  /\ task[p] = At("ready")
        /\ c # None
        /\ rooms[c].exists /\ p \in rooms[c].peers
        /\ rooms' = [rooms EXCEPT ![c].idle = FALSE]
        /\ UNCHANGED <<peer_rooms, peer_senders, current_room, task, mail, to_remove>>
-----------------------------------------------------------------------------
(* leave_room: the record, then the room under its guard, then, with the   *)
(* guard dropped, the removal of a room that was empty.                    *)

LeaveRoom(p) ==
    /\ task[p] = At("ready")
    /\ current_room[p] # None
    /\ current_room' = [current_room EXCEPT ![p] = None]
    /\ peer_rooms' = [peer_rooms EXCEPT ![p] = None]
    /\ Goto(p, [at |-> "leaving", code |-> current_room[p], then |-> "ready"])
    /\ UNCHANGED <<rooms, peer_senders, mail, to_remove>>

(* Seeded fault: the task forgets its room when the connection ends. *)
DisconnectForgets(p) ==
    /\ task[p] = At("ready")
    /\ peer_senders' = peer_senders \ {p}
    /\ mail' = [mail EXCEPT ![p] = {}]
    /\ peer_rooms' = [peer_rooms EXCEPT ![p] = None]
    /\ current_room' = [current_room EXCEPT ![p] = None]
    /\ Goto(p, At("closed"))
    /\ UNCHANGED <<rooms, to_remove>>

(* The connection ends, closed by the peer or broken. *)
Disconnect(p) ==
    /\ task[p] = At("ready")
    /\ peer_senders' = peer_senders \ {p}
    /\ mail' = [mail EXCEPT ![p] = {}]
    /\ IF current_room[p] = None
       THEN /\ Goto(p, At("closed"))
            /\ UNCHANGED <<peer_rooms, current_room>>
       ELSE /\ peer_rooms' = [peer_rooms EXCEPT ![p] = None]
            /\ current_room' = [current_room EXCEPT ![p] = None]
            /\ Goto(p, [at |-> "leaving", code |-> current_room[p], then |-> "closed"])
    /\ UNCHANGED <<rooms, to_remove>>

LeaveTakeOut(p) ==
    LET t == task[p]
        left == RemovePeer(rooms[t.code], p)
    IN  /\ t.at = "leaving"
        /\ rooms[t.code].exists
        /\ rooms' = [rooms EXCEPT ![t.code] = left]
        /\ Goto(p, IF left.peers = {} THEN [t EXCEPT !.at = "removing"] ELSE At(t.then))
        /\ UNCHANGED <<peer_rooms, peer_senders, current_room, mail, to_remove>>

LeaveNothing(p) ==
    /\ task[p].at = "leaving"
    /\ ~rooms[task[p].code].exists
    /\ Goto(p, At(task[p].then))
    /\ UNCHANGED <<rooms, peer_rooms, peer_senders, current_room, mail, to_remove>>

(* Seeded fault: an empty room is left for the idle timeout. *)
LeaveRemoveNot(p) ==
    /\ task[p].at = "removing"
    /\ Goto(p, At(task[p].then))
    /\ UNCHANGED <<rooms, peer_rooms, peer_senders, current_room, mail, to_remove>>

LeaveRemove(p) ==
    /\ task[p].at = "removing"
    /\ rooms' = [rooms EXCEPT ![task[p].code] = NoRoom]
    /\ Goto(p, At(task[p].then))
    /\ UNCHANGED <<peer_rooms, peer_senders, current_room, mail, to_remove>>
-----------------------------------------------------------------------------
(* Relay: the room of the target is looked up first, its sender after. *)

Relay(p, q) ==
    /\ task[p] = At("ready")
    /\ current_room[p] # None
    /\ peer_rooms[q] = current_room[p]
    /\ Goto(p, [at |-> "relaying", to |-> q])
    /\ UNCHANGED <<rooms, peer_rooms, peer_senders, current_room, mail, to_remove>>

RelaySend(p) ==
    LET q == task[p].to
    IN  /\ task[p].at = "relaying"
        /\ mail' = IF q \in peer_senders
                   THEN [mail EXCEPT ![q] = @ \cup {p}] ELSE mail
        /\ Goto(p, At("ready"))
        /\ UNCHANGED <<rooms, peer_rooms, peer_senders, current_room, to_remove>>

Relayed(p, from) ==
    /\ task[p] = At("ready")
    /\ from \in mail[p]
    /\ mail' = [mail EXCEPT ![p] = @ \ {from}]
    /\ UNCHANGED <<rooms, peer_rooms, peer_senders, current_room, task, to_remove>>
-----------------------------------------------------------------------------
(* cleanup_idle_rooms, once a minute: idle rooms are collected and then    *)
(* removed one by one.                                                     *)

GrowsIdle(c) ==
    /\ rooms[c].exists /\ ~rooms[c].idle
    /\ rooms' = [rooms EXCEPT ![c].idle = TRUE]
    /\ UNCHANGED <<peer_rooms, peer_senders, current_room, task, mail, to_remove>>

CollectIdle(c) ==
    /\ rooms[c].exists /\ rooms[c].idle
    /\ to_remove' = to_remove \cup {c}
    /\ UNCHANGED <<rooms, peer_rooms, peer_senders, current_room, task, mail>>

RemoveIdle(c) ==
    /\ c \in to_remove
    /\ to_remove' = to_remove \ {c}
    /\ rooms' = [rooms EXCEPT ![c] = NoRoom]
    /\ UNCHANGED <<peer_rooms, peer_senders, current_room, task, mail>>
-----------------------------------------------------------------------------
Message(p) ==
    \/ \E c \in Code : CreateRoom(p, c) \/ JoinRoom(p, c)
    \/ UpdatePeer(p) \/ LeaveRoom(p)
    \/ \E q \in Peer : Relay(p, q)

Underway(p) ==
    \/ CreateInsert(p) \/ CreateRecord(p)
    \/ LeaveTakeOut(p) \/ LeaveNothing(p) \/ LeaveRemove(p)
    \/ RelaySend(p)

SSNext ==
    \/ \E p \in Peer : Connect(p) \/ Message(p) \/ Disconnect(p) \/ Underway(p)
    \/ \E p, q \in Peer : Relayed(p, q)
    \/ \E c \in Code : GrowsIdle(c) \/ CollectIdle(c) \/ RemoveIdle(c)

SSSpec == SSInit /\ [][SSNext]_vars
-----------------------------------------------------------------------------
(* Whom a room lists: peers whose own task is in that room, or has just    *)
(* created it or is about to leave it.  A peer that has gone is in no room *)
(* and nobody is ever given its address, whatever creations, departures    *)
(* and clean-ups cross each other.                                         *)
NoGhosts ==
    \A c \in Code : rooms[c].exists =>
        \A p \in rooms[c].peers :
            \/ current_room[p] = c /\ p \in peer_senders
            \/ task[p].at \in {"created", "leaving"} /\ task[p].code = c

(* The host of a room is one of its peers: get_host, which looks it up     *)
(* among them, answers None only when the host has left.                   *)
HostListed ==
    \A c \in Code : rooms[c].exists => rooms[c].host_id \in rooms[c].peers \cup {None}

(* Rooms are in order: no room holds more peers than its limit, and its    *)
(* host is a peer of it.                                                   *)
RoomsInv == SSTypeOK /\ HostListed

(* An empty room has somebody about to remove it: codes do not leak.       *)
EmptyRoomGoes ==
    \A c \in Code : rooms[c].exists /\ rooms[c].peers = {} =>
        \E p \in Peer : task[p].at = "removing" /\ task[p].code = c
=============================================================================
