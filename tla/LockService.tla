---------------------------- MODULE LockService ----------------------------
(***************************************************************************)
(* File locks end to end: clients, QUIC connections and the host's request *)
(* tasks around the lock table of LockManager                              *)
(* (crates/teleport-daemon/src/host.rs, client.rs, sync_engine.rs).        *)
(*                                                                         *)
(* A client is one WormholeClient: it connects once, never reconnects, and *)
(* the host names it by its holder id.  It has two request streams at a    *)
(* time: one for the filesystem bridge, which serves one call after the    *)
(* other, and one for the background sync runner.  The host accepts a      *)
(* stream and spawns a task for it that nobody awaits: tasks of one client *)
(* run in parallel with each other, with other clients' and with the end   *)
(* of their own session.  handle_write_chunk checks the token, lets go of  *)
(* the table's lock and writes the file afterwards: two steps here.        *)
(*                                                                         *)
(* Both sides count the lease of Lease ticks for themselves, the host from *)
(* the grant and the client from the receipt of the answer.  age, the      *)
(* time a grant has been under way, and late, its age at receipt, are      *)
(* history: no guard reads them.  What a write stores is not kept: this    *)
(* module is about when writes happen.                                     *)
(***************************************************************************)
EXTENDS LockManager

CONSTANTS
    Lease,      \* 30 s in ticks: timeout_ms of every LockRequest
    Slot,       \* the request streams of a client that are looked at
    NoToken     \* LockToken::default(), sent when the runner has no lock

ASSUME LeaseAssumption == TTL = {Lease}
ASSUME SlotAssumption == Slot \subseteq {"fuse", "sync"}
ASSUME NoTokenAssumption == NoToken \notin Token

VARIABLES
    session,    \* host: handle_connection's loop, per client
    conn,       \* the QUIC connection of each client
    stream,     \* the request stream of each client and slot
    file_lock   \* client: SyncEngine::locks

vars == <<locks, issued, session, conn, stream, file_lock>>

Idle == [at |-> "idle"]

(* A stream before its answer.  sent: under way to the host; task: a task  *)
(* owns it; checked: a write whose token has been validated.               *)
Request ==
    [at : {"sent", "task", "checked"}, op : {"acquire", "release", "write"},
     inode : Inode, lock_type : LockType, token : Token \cup {NoToken}]

(* A stream after it: ok is granted or success. *)
Answer ==
    [at : {"answered"}, op : {"acquire", "release", "write"}, inode : Inode,
     lock_type : LockType, token : Token \cup {NoToken}, ok : BOOLEAN,
     age : 0 .. Lease]

NoLock == [remaining |-> 0]

FileLock ==
    [token : Token, lock_type : LockType, remaining : 1 .. Lease,
     late : 0 .. Lease]

ServiceTypeOK ==
    /\ TypeOK
    /\ session \in [Holder -> {"open", "closed"}]
    /\ conn \in [Holder -> {"up", "down"}]
    /\ stream \in [Holder -> [Slot -> {Idle} \cup Request \cup Answer]]
    /\ file_lock \in [Holder -> [Inode -> {NoLock} \cup FileLock]]

Init ==
    /\ LMInit
    /\ session = [c \in Holder |-> "open"]
    /\ conn = [c \in Holder |-> "up"]
    /\ stream = [c \in Holder |-> [s \in Slot |-> Idle]]
    /\ file_lock = [c \in Holder |-> [i \in Inode |-> NoLock]]
-----------------------------------------------------------------------------
(* The client. *)

HasLock(c, i) == file_lock[c][i].remaining > 0

(* get_lock_token(...).unwrap_or_default() *)
LockToken(c, i) == IF HasLock(c, i) THEN file_lock[c][i].token ELSE NoToken

Send(c, s, op, i, lock_type, token) ==
    /\ conn[c] = "up"
    /\ stream[c][s] = Idle
    /\ stream' = [stream EXCEPT ![c][s] =
          [at |-> "sent", op |-> op, inode |-> i, lock_type |-> lock_type,
           token |-> token]]
    /\ UNCHANGED <<locks, issued, session, conn, file_lock>>

AcquireLock(c, i, lock_type) ==
    "fuse" \in Slot /\ Send(c, "fuse", "acquire", i, lock_type, NoToken)

(* Without a lock release_lock returns at once and sends nothing. *)
ReleaseLock(c, i) ==
    /\ "fuse" \in Slot
    /\ HasLock(c, i)
    /\ Send(c, "fuse", "release", i, "Exclusive", LockToken(c, i))

(* write over the bridge refuses without a lock; the sync runner uploads   *)
(* all the same and lets the host reject it.                               *)
Write(c, s, i) ==
    /\ s = "fuse" => HasLock(c, i)
    /\ Send(c, s, "write", i, "Exclusive", LockToken(c, i))

(* The answer arrives: store_lock, remove_lock or nothing. *)
Receive(c, s) ==
    LET r == stream[c][s]
    IN  /\ r.at = "answered"
        /\ conn[c] = "up"
        /\ stream' = [stream EXCEPT ![c][s] = Idle]
        /\ file_lock' = [file_lock EXCEPT ![c][r.inode] =
              CASE r.op = "acquire" /\ r.ok ->
                     [token |-> r.token, lock_type |-> r.lock_type,
                      remaining |-> Lease, late |-> r.age]
                [] r.op = "release" -> NoLock
                [] OTHER -> @]
        /\ UNCHANGED <<locks, issued, session, conn>>

(* The connection ends: closed by the client, or lost. *)
Disconnect(c) ==
    /\ conn[c] = "up"
    /\ conn' = [conn EXCEPT ![c] = "down"]
    /\ UNCHANGED <<locks, issued, session, stream, file_lock>>
-----------------------------------------------------------------------------
(* The host's loop for one connection. *)

(* A stream is accepted and a task spawned for it.  The loop then looks at *)
(* the age of the session, with no await in between, and goes on ...       *)
AcceptStream(c, s) ==
    /\ session[c] = "open"
    /\ conn[c] = "up"
    /\ stream[c][s].at = "sent"
    /\ stream' = [stream EXCEPT ![c][s].at = "task"]
    /\ UNCHANGED <<locks, issued, session, conn, file_lock>>

(* ... or ends, when the session is older than MAX_SESSION_DURATION. *)
AcceptAndExpire(c, s) ==
    /\ session[c] = "open"
    /\ conn[c] = "up"
    /\ stream[c][s].at = "sent"
    /\ stream' = [stream EXCEPT ![c][s].at = "task"]
    /\ session' = [session EXCEPT ![c] = "closed"]
    /\ conn' = [conn EXCEPT ![c] = "down"]
    /\ ReleaseAllByHolder(c)
    /\ UNCHANGED file_lock

(* accept_bi fails: the client's locks go and the loop ends. *)
SessionCloses(c) ==
    /\ session[c] = "open"
    /\ conn[c] = "down"
    /\ session' = [session EXCEPT ![c] = "closed"]
    /\ ReleaseAllByHolder(c)
    /\ UNCHANGED <<conn, stream, file_lock>>
-----------------------------------------------------------------------------
(* The host's tasks.  A task outlives its connection; then nobody reads    *)
(* its answer.                                                             *)

Task(c, s, op, at) == stream[c][s].at = at /\ stream[c][s].op = op

Respond(c, s, ok, token) ==
    LET r == stream[c][s]
    IN  stream' = [stream EXCEPT ![c][s] =
           IF conn[c] = "down" THEN Idle
           ELSE [at |-> "answered", op |-> r.op, inode |-> r.inode,
                 lock_type |-> r.lock_type, token |-> token, ok |-> ok,
                 age |-> 0]]

HandleAcquireLock(c, s) ==
    LET r == stream[c][s]
    IN  /\ Task(c, s, "acquire", "task")
        /\ \/ \E t \in Token :
                 /\ AcquireGranted(r.inode, r.lock_type, c, Lease, t)
                 /\ Respond(c, s, TRUE, t)
           \/ /\ AcquireConflict(r.inode, r.lock_type)
              /\ Respond(c, s, FALSE, NoToken)
        /\ UNCHANGED <<session, conn, file_lock>>

(* Seeded fault: the release empties the entry, whoever else is in it. *)
HandleReleaseInode(c, s) ==
    LET r == stream[c][s]
    IN  /\ Task(c, s, "release", "task")
        /\ locks' = [locks EXCEPT ![r.inode] = Unlocked]
        /\ UNCHANGED issued
        /\ Respond(c, s, TRUE, r.token)
        /\ UNCHANGED <<session, conn, file_lock>>

HandleReleaseLock(c, s) ==
    LET r == stream[c][s]
    IN  /\ Task(c, s, "release", "task")
        /\ \/ /\ Release(r.token)
              /\ Respond(c, s, TRUE, r.token)
           \/ /\ ~Held(r.token)
              /\ UNCHANGED lmVars
              /\ Respond(c, s, FALSE, r.token)
        /\ UNCHANGED <<session, conn, file_lock>>

(* handle_write_chunk up to the answer LockRequired or past the check. *)
HandleWriteCheck(c, s) ==
    LET r == stream[c][s]
    IN  /\ Task(c, s, "write", "task")
        /\ IF Validate(r.inode, r.token, "Exclusive")
           THEN stream' = [stream EXCEPT ![c][s].at = "checked"]
           ELSE Respond(c, s, FALSE, NoToken)
        /\ UNCHANGED <<locks, issued, session, conn, file_lock>>

(* The file is written, or opening, seeking or writing fails. *)
HandleWriteFile(c, s) ==
    LET r == stream[c][s]
    IN  /\ Task(c, s, "write", "checked")
        /\ Respond(c, s, TRUE, NoToken)
        /\ UNCHANGED <<locks, issued, session, conn, file_lock>>

HandleWriteError(c, s) ==
    /\ Task(c, s, "write", "checked")
    /\ Respond(c, s, FALSE, NoToken)
    /\ UNCHANGED <<locks, issued, session, conn, file_lock>>

(* recv_message or send_message fails once the connection is gone. *)
StreamLost(c, s) ==
    /\ conn[c] = "down"
    /\ stream[c][s].at \in {"sent", "task", "answered"}
    /\ stream' = [stream EXCEPT ![c][s] = Idle]
    /\ UNCHANGED <<locks, issued, session, conn, file_lock>>
-----------------------------------------------------------------------------
(* An entry past its deadline is as good as none, get_lock does not return *)
(* it, so it is dropped at once; cleanup_expired_locks then finds nothing. *)
Expiring(lock) == IF lock.remaining <= 1 THEN NoLock ELSE Aged(lock)

UnderWay(r) ==
    IF r.at = "answered" /\ r.op = "acquire" /\ r.ok /\ r.age < Lease
    THEN [r EXCEPT !.age = @ + 1] ELSE r

TimePasses ==
    /\ Tick
    /\ file_lock' = [c \in Holder |-> [i \in Inode |-> Expiring(file_lock[c][i])]]
    /\ stream' = [c \in Holder |-> [s \in Slot |-> UnderWay(stream[c][s])]]
    /\ UNCHANGED <<session, conn>>

HostTask(c, s) ==
    \/ HandleAcquireLock(c, s)
    \/ HandleReleaseLock(c, s)
    \/ HandleWriteCheck(c, s)
    \/ HandleWriteFile(c, s)
    \/ HandleWriteError(c, s)
    \/ StreamLost(c, s)

HostLoop(c) ==
    \/ \E s \in Slot : AcceptStream(c, s) \/ AcceptAndExpire(c, s)
    \/ SessionCloses(c)

ClientCall(c) ==
    \/ \E i \in Inode, lt \in LockType : AcquireLock(c, i, lt)
    \/ \E i \in Inode : ReleaseLock(c, i)
    \/ \E i \in Inode, s \in Slot : Write(c, s, i)
    \/ \E s \in Slot : Receive(c, s)
    \/ Disconnect(c)

Next ==
    \/ \E c \in Holder : ClientCall(c) \/ HostLoop(c)
    \/ \E c \in Holder, s \in Slot : HostTask(c, s)
    \/ TimePasses

Spec == Init /\ [][Next]_vars
-----------------------------------------------------------------------------
(* Sessions, tasks and clients touch the table only through its methods:   *)
(* what holds of the table holds of the service.                           *)
ImplementsLockManager == LMSpec

ReleaseUnderWay(c, token) ==
    \E s \in Slot : stream[c][s] # Idle /\ stream[c][s].op = "release"
                       /\ stream[c][s].token = token

(* A client that thinks it holds a lock is right, until as much time is    *)
(* left as the grant was late in reaching it: its host still has the hold, *)
(* under this client's name, of this type and with exactly that much less  *)
(* time on it.  A release under way and the end of the connection are the  *)
(* only exceptions.                                                        *)
BeliefAccurate ==
    \A c \in Holder, i \in Inode :
        LET l == file_lock[c][i]
        IN  /\ HasLock(c, i)
            /\ l.remaining > l.late
            /\ conn[c] = "up"
            => \/ ReleaseUnderWay(c, l.token)
               \/ \E h \in HoldsOf(locks[i], l.token) :
                     /\ h.holder_id = c
                     /\ h.lock_type = l.lock_type
                     /\ h.remaining = l.remaining - l.late

LiveHoldOf(c) ==
    \E i \in Inode : \E h \in locks[i].holders :
        h.holder_id = c /\ ~IsExpired(h)

(* A client that is gone stops blocking the others for good, also when one *)
(* of its requests was still being served while its locks were released.   *)
DisconnectFrees ==
    \A c \in Holder : (conn[c] = "down") ~> [](~LiveHoldOf(c))
=============================================================================
