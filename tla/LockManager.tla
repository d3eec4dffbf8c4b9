---------------------------- MODULE LockManager ----------------------------
(***************************************************************************)
(* The host's table of file locks                                         *)
(* (crates/teleport-daemon/src/lock_manager.rs).                           *)
(*                                                                         *)
(* Every operation of the code runs under the write lock of one            *)
(* RwLock<HashMap<Inode, LockStatus>>, so each is one atomic action.  The  *)
(* absolute deadline expires_at of a hold is represented by the time that  *)
(* is left until it, LockHold::time_remaining(), which Tick decreases: the *)
(* table stays finite however long the host runs.  An inode without an     *)
(* entry in the map is the same as one whose entry is Unlocked.  The field *)
(* acquired_at, which no code reads, and the error payloads are left out.  *)
(***************************************************************************)
EXTENDS Naturals, FiniteSets

CONSTANTS
    Inode,      \* inodes of the shared folder
    Token,      \* lock tokens: 16 random bytes, never drawn twice
    Holder,     \* holder ids, one per client session
    TTL         \* lease lengths a caller may ask for, in ticks

ASSUME TTLAssumption == TTL \subseteq Nat \ {0}

VARIABLES
    locks,      \* LockManager::locks
    issued      \* the tokens LockToken::generate has returned so far

lmVars == <<locks, issued>>

LockType == {"Shared", "Exclusive"}

LockHold == [token : Token, lock_type : LockType, holder_id : Holder,
             remaining : Nat]

LockStatus == [kind : {"Unlocked", "SharedLock", "ExclusiveLock"},
               holders : SUBSET LockHold]

Unlocked == [kind |-> "Unlocked", holders |-> {}]

TypeOK ==
    /\ locks \in [Inode -> LockStatus]
    /\ issued \subseteq Token

LMInit ==
    /\ locks = [i \in Inode |-> Unlocked]
    /\ issued = {}
-----------------------------------------------------------------------------
(* Seeded fault: leases never run out. *)
NeverExpired(hold) == FALSE

IsExpired(hold) == hold.remaining = 0

(* Seeded fault: the variant is not reset when the last hold goes. *)
RetainKeepsVariant(status, keep) == [status EXCEPT !.holders = keep]

(* The status that is left when only the holds in keep survive: both       *)
(* retain-then-is_empty and the removal of a single hold end this way.     *)
Retain(status, keep) ==
    IF keep = {} THEN Unlocked ELSE [status EXCEPT !.holders = keep]

(* Seeded fault: one expired reader takes the whole entry with it. *)
CleanedAsAWhole(status) ==
    IF \E h \in status.holders : IsExpired(h) THEN Unlocked ELSE status

(* cleanup_expired_locked for one inode. *)
Cleaned(status) == Retain(status, {h \in status.holders : ~IsExpired(h)})

(* Seeded faults: a writer joins readers; a reader joins a writer. *)
GrantableUpgrade(status, lock_type) == status.kind \in {"Unlocked", "SharedLock"}

GrantableReader(status, lock_type) ==
    status.kind = "Unlocked" \/ lock_type = "Shared"

(* The match on (status, lock_type) that decides a request. *)
Grantable(status, lock_type) ==
    \/ status.kind = "Unlocked"
    \/ status.kind = "SharedLock" /\ lock_type = "Shared"

KindOf(lock_type) ==
    IF lock_type = "Shared" THEN "SharedLock" ELSE "ExclusiveLock"

(* Seeded fault: a token drawn before is handed out again. *)
AcquireReusesToken(i, lock_type, holder, ttl, token) ==
    LET status == Cleaned(locks[i])
        hold == [token |-> token, lock_type |-> lock_type,
                 holder_id |-> holder, remaining |-> ttl]
    IN  /\ Grantable(status, lock_type)
        /\ issued' = issued \cup {token}
        /\ locks' = [locks EXCEPT ![i] =
                        [kind |-> KindOf(lock_type),
                         holders |-> status.holders \cup {hold}]]

(* acquire, granted: expired holds of the inode go first, then the hold is *)
(* added under a token never returned before.                              *)
AcquireGranted(i, lock_type, holder, ttl, token) ==
    LET status == Cleaned(locks[i])
        hold == [token |-> token, lock_type |-> lock_type,
                 holder_id |-> holder, remaining |-> ttl]
    IN  /\ Grantable(status, lock_type)
        /\ token \notin issued
        /\ issued' = issued \cup {token}
        /\ locks' = [locks EXCEPT ![i] =
                        [kind |-> KindOf(lock_type),
                         holders |-> status.holders \cup {hold}]]

(* acquire, LockError::Conflict: the clean-up has happened all the same. *)
AcquireConflict(i, lock_type) ==
    LET status == Cleaned(locks[i])
    IN  /\ ~Grantable(status, lock_type)
        /\ locks' = [locks EXCEPT ![i] = status]
        /\ UNCHANGED issued

(* The holds carrying a token, expired or not: release and renew search    *)
(* the whole table for it and never look at the deadline.                  *)
HoldsOf(status, token) == {h \in status.holders : h.token = token}

Held(token) == \E i \in Inode : HoldsOf(locks[i], token) # {}

(* release of a token that is in the table; otherwise TokenNotFound and no *)
(* change.                                                                 *)
Release(token) ==
    /\ \E i \in Inode :
          /\ HoldsOf(locks[i], token) # {}
          /\ locks' = [locks EXCEPT ![i] =
                Retain(locks[i], locks[i].holders \ HoldsOf(locks[i], token))]
    /\ UNCHANGED issued

(* renew sets a new deadline, also for a hold that has expired but has not *)
(* been cleaned up yet.                                                    *)
Renew(token, ttl) ==
    /\ \E i \in Inode :
          /\ HoldsOf(locks[i], token) # {}
          /\ locks' = [locks EXCEPT ![i].holders =
                {h \in @ : h.token # token}
                  \cup {[h EXCEPT !.remaining = ttl] :
                           h \in HoldsOf(locks[i], token)}]
    /\ UNCHANGED issued

(* cleanup_expired over all inodes. *)
CleanupExpired ==
    /\ locks' = [i \in Inode |-> Cleaned(locks[i])]
    /\ UNCHANGED issued

(* Seeded fault: the filter on the holder is forgotten. *)
ReleaseEverybody(holder) ==
    /\ locks' = [i \in Inode |-> Unlocked]
    /\ UNCHANGED issued

(* release_all_by_holder, called when a session ends. *)
ReleaseAllByHolder(holder) ==
    /\ locks' = [i \in Inode |->
                    Retain(locks[i],
                           {h \in locks[i].holders : h.holder_id # holder})]
    /\ UNCHANGED issued

(* validate(inode, token, required): the check made before every write. *)
Validate(i, token, required) ==
    \E h \in locks[i].holders :
        /\ h.token = token
        /\ ~IsExpired(h)
        /\ \/ locks[i].kind = "ExclusiveLock"
           \/ locks[i].kind = "SharedLock" /\ required = "Shared"

(* One unit of time passes for every hold. *)
Aged(hold) ==
    [hold EXCEPT !.remaining = IF @ = 0 THEN 0 ELSE @ - 1]

Tick ==
    /\ locks' = [i \in Inode |->
                    [locks[i] EXCEPT !.holders = {Aged(h) : h \in @}]]
    /\ UNCHANGED issued
-----------------------------------------------------------------------------
LMNext ==
    \/ \E i \in Inode, lt \in LockType, h \in Holder, ttl \in TTL, t \in Token :
          AcquireGranted(i, lt, h, ttl, t)
    \/ \E i \in Inode, lt \in LockType : AcquireConflict(i, lt)
    \/ \E t \in Token : Release(t)
    \/ \E t \in Token, ttl \in TTL : Renew(t, ttl)
    \/ CleanupExpired
    \/ \E h \in Holder : ReleaseAllByHolder(h)
    \/ Tick

LMSpec == LMInit /\ [][LMNext]_lmVars
-----------------------------------------------------------------------------
EntryConsistent(status) ==
    /\ status.kind = "Unlocked" <=> status.holders = {}
    /\ status.kind = "ExclusiveLock" => \A g, h \in status.holders : g = h
    /\ \A h \in status.holders : KindOf(h.lock_type) = status.kind

(* The enum variant of an entry always agrees with the holds in it: no     *)
(* empty SharedLock lingers and blocks writers, no ExclusiveLock carries a *)
(* second hold, and a hold's own lock_type is the variant it sits in.      *)
StatusConsistent == \A i \in Inode : EntryConsistent(locks[i])

(* A token names one hold of one inode, so that release and renew, which   *)
(* scan the whole map and stop at the first match, cannot hit another      *)
(* client's hold.                                                          *)
TokenUnique ==
    \A i, j \in Inode :
        \A g \in locks[i].holders, h \in locks[j].holders :
            g.token = h.token => i = j /\ g = h

(* Only tokens that acquire has returned are in the table. *)
OnlyIssued ==
    \A i \in Inode : \A h \in locks[i].holders : h.token \in issued

(* The table is consistent: entries are well-formed, a status agrees with  *)
(* its holders, a token is there once and only if acquire returned it.     *)
(* This is the inductive invariant of the proofs.                          *)
LMInv == TypeOK /\ StatusConsistent /\ TokenUnique /\ OnlyIssued

(* What the write path relies on: while one token validates for an         *)
(* exclusive access to an inode, no other token validates for any access   *)
(* to it, whatever mixture of expiry, renewal of expired holds, clean-up   *)
(* and disconnects led there.                                              *)
MutualExclusion ==
    \A i \in Inode, t, u \in Token :
        Validate(i, t, "Exclusive") /\ Validate(i, u, "Shared") => t = u

(* A token that has left the table (released, expired and cleaned up, or   *)
(* dropped with its session) never validates or blocks anybody again: no   *)
(* later acquire or renew brings it back.                                  *)
TokenNeverReturns ==
    [][\A t \in issued : ~Held(t) => ~Held(t)']_lmVars

(* A hold whose time is not up leaves the table only because its own token *)
(* was released or its own session ended: no acquire, renewal or clean-up  *)
(* on behalf of somebody else takes it away.                               *)
LiveHoldSurvives ==
    [][\A i \in Inode : \A h \in locks[i].holders :
          ~IsExpired(h) =>
             \/ \E g \in locks'[i].holders :
                   /\ g.token = h.token
                   /\ g.holder_id = h.holder_id
                   /\ g.lock_type = h.lock_type
             \/ Release(h.token)
             \/ ReleaseAllByHolder(h.holder_id)]_lmVars
-----------------------------------------------------------------------------
(* The table seen as reader/writer leases: the holds, without the holder   *)
(* and the deadline.                                                       *)
Leases ==
    [i \in Inode |->
        {[token |-> h.token, lock_type |-> h.lock_type] : h \in locks[i].holders}]

RW == INSTANCE RwLease WITH leases <- Leases, granted <- issued

(* The table implements reader/writer leases with one-shot tokens. *)
ImplementsRwLease == RW!RWSpec
=============================================================================
