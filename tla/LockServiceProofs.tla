------------------------- MODULE LockServiceProofs -------------------------
(***************************************************************************)
(* Theorems about the lock table, for any number of inodes, tokens and     *)
(* holders and any lease lengths, and about the service in front of it,    *)
(* for any clients.                                                        *)
(*                                                                         *)
(* The table.  The inductive invariant is LMInv: the shape of the entries  *)
(* (StatusConsistent) alone is not inductive, because a renewal keeps an   *)
(* ExclusiveLock single only if no second hold carries the renewed token,  *)
(* and that in turn needs that every token in the table was issued before, *)
(* so that a grant cannot repeat it.                                       *)
(*                                                                         *)
(* The service implements the table, so that what is proved of the table   *)
(* holds of the service.  The steps of the service are steps of the table  *)
(* only in states where the requests under way carry proper inodes, lock   *)
(* types and tokens, so types come first; and they are not inductive       *)
(* alone: a token that a client stores or releases must be a real one and  *)
(* not the default token, which OwnToken adds.  That a client is right     *)
(* about its locks rests on tokens having a home: a token is stored, or    *)
(* being released, by one client for one inode, and a token that is still  *)
(* on its way to its client is used by nobody.                             *)
(***************************************************************************)
EXTENDS LockService, TLAPS

-----------------------------------------------------------------------------
(* The lock table.                                                         *)

(* What retain leaves behind: a consistent entry with exactly the holds    *)
(* that were kept.                                                         *)
LEMMA RetainFacts ==
    ASSUME NEW status \in LockStatus, EntryConsistent(status),
           NEW keep \in SUBSET status.holders
    PROVE  /\ Retain(status, keep) \in LockStatus
           /\ EntryConsistent(Retain(status, keep))
           /\ Retain(status, keep).holders = keep
  <1>1. CASE keep = {}
    BY <1>1 DEF Retain, Unlocked, LockStatus, EntryConsistent
  <1>2. CASE keep # {}
    <2>1. Retain(status, keep) = [kind |-> status.kind, holders |-> keep]
      BY <1>2 DEF Retain, LockStatus
    <2>2. keep \in SUBSET LockHold
      BY DEF LockStatus
    <2>3. Retain(status, keep) \in LockStatus
      BY <2>1, <2>2 DEF LockStatus
    <2>. QED
      BY <1>2, <2>1, <2>3 DEF EntryConsistent
  <1>. QED
    BY <1>1, <1>2

(* Cleaning an entry removes the expired holds and nothing else. *)
LEMMA CleanedFacts ==
    ASSUME NEW status \in LockStatus, EntryConsistent(status)
    PROVE  /\ Cleaned(status) \in LockStatus
           /\ EntryConsistent(Cleaned(status))
           /\ Cleaned(status).holders = {h \in status.holders : ~IsExpired(h)}
  BY RetainFacts DEF Cleaned

(* An entry is its two fields. *)
LEMMA ExceptHolders ==
    ASSUME NEW status \in LockStatus, NEW S
    PROVE  [status EXCEPT !.holders = S] = [kind |-> status.kind, holders |-> S]
  BY DEF LockStatus

(* A hold that ages or is renewed stays the same hold but for its deadline. *)
LEMMA AgedFacts ==
    ASSUME NEW h \in LockHold
    PROVE  /\ Aged(h) \in LockHold
           /\ Aged(h).token = h.token
           /\ Aged(h).lock_type = h.lock_type
           /\ Aged(h).holder_id = h.holder_id
  BY DEF Aged, LockHold

LEMMA RedatedFacts ==
    ASSUME NEW h \in LockHold, NEW ttl \in TTL
    PROVE  /\ [h EXCEPT !.remaining = ttl] \in LockHold
           /\ [h EXCEPT !.remaining = ttl].token = h.token
           /\ [h EXCEPT !.remaining = ttl].lock_type = h.lock_type
           /\ [h EXCEPT !.remaining = ttl].holder_id = h.holder_id
  BY TTLAssumption DEF LockHold

(* g is the hold h, but for its deadline. *)
SameHold(g, h) ==
    /\ g.token = h.token
    /\ g.lock_type = h.lock_type
    /\ g.holder_id = h.holder_id

(* A step after which every hold was there before it. *)
NoNewHold ==
    /\ issued' = issued
    /\ \A j \in Inode : \A g \in locks'[j].holders :
          \E h \in locks[j].holders : SameHold(g, h)

(* A step that only takes holds away, entry by entry, keeps the invariant. *)
LEMMA ShrinkPreservesInv ==
    ASSUME LMInv,
           locks' \in [Inode -> LockStatus],
           issued' = issued,
           \A i \in Inode : /\ EntryConsistent(locks'[i])
                            /\ locks'[i].holders \subseteq locks[i].holders
    PROVE  LMInv' /\ NoNewHold
  <1>1. LMInv'
    BY DEF LMInv, TypeOK, StatusConsistent, TokenUnique, OnlyIssued
  <1>2. NoNewHold
    BY DEF NoNewHold, SameHold
  <1>. QED
    BY <1>1, <1>2

LEMMA InitInv == LMInit => LMInv
  BY DEF LMInit, LMInv, TypeOK, StatusConsistent, EntryConsistent,
         TokenUnique, OnlyIssued, Unlocked, LockStatus

(* After a grant an entry holds nothing but old holds and the new one, and *)
(* every old hold that has not expired is still there.                     *)
LEMMA GrantAddsOne ==
    ASSUME LMInv,
           NEW i \in Inode, NEW lt \in LockType, NEW c \in Holder,
           NEW ttl \in TTL, NEW t \in Token,
           AcquireGranted(i, lt, c, ttl, t)
    PROVE  /\ \A j \in Inode : \A g \in locks'[j].holders :
                 g \in locks[j].holders \/ (j = i /\ g.token = t)
           /\ \A j \in Inode : \A h \in locks[j].holders :
                 ~IsExpired(h) => h \in locks'[j].holders
  <1>. DEFINE hold == [token |-> t, lock_type |-> lt,
                       holder_id |-> c, remaining |-> ttl]
  <1>1. locks[i] \in LockStatus /\ EntryConsistent(locks[i])
    BY DEF LMInv, TypeOK, StatusConsistent
  <1>2. Cleaned(locks[i]).holders = {h \in locks[i].holders : ~IsExpired(h)}
    BY <1>1, CleanedFacts
  <1>3. \A j \in Inode : locks'[j].holders =
            IF j = i THEN Cleaned(locks[i]).holders \cup {hold} ELSE locks[j].holders
    BY DEF AcquireGranted, LMInv, TypeOK
  <1>4. hold.token = t
    OBVIOUS
  <1>. HIDE DEF hold
  <1>. QED
    BY <1>2, <1>3, <1>4

(* A grant keeps the invariant: the entry it extends is empty or shared    *)
(* once the expired holds are gone, and its token is new to the table.     *)
LEMMA GrantPreservesInv ==
    ASSUME LMInv,
           NEW i \in Inode, NEW lt \in LockType, NEW c \in Holder,
           NEW ttl \in TTL, NEW t \in Token,
           AcquireGranted(i, lt, c, ttl, t)
    PROVE  LMInv'
  <1>. DEFINE status == Cleaned(locks[i])
              hold == [token |-> t, lock_type |-> lt,
                       holder_id |-> c, remaining |-> ttl]
              entry == [kind |-> KindOf(lt), holders |-> status.holders \cup {hold}]
  <1>1. /\ locks[i] \in LockStatus
        /\ EntryConsistent(locks[i])
    BY DEF LMInv, TypeOK, StatusConsistent
  <1>2. /\ status \in LockStatus
        /\ EntryConsistent(status)
        /\ status.holders \subseteq locks[i].holders
    BY <1>1, CleanedFacts
  <1>3. hold \in LockHold
    BY TTLAssumption DEF LockHold
  <1>4. /\ locks' = [locks EXCEPT ![i] = entry]
        /\ issued' = issued \cup {t}
        /\ t \notin issued
        /\ Grantable(status, lt)
    BY DEF AcquireGranted
  <1>5. entry \in LockStatus
    BY <1>2, <1>3 DEF LockStatus, KindOf
  <1>6. EntryConsistent(entry)
    <2>1. status.kind = "Unlocked" \/ (status.kind = "SharedLock" /\ lt = "Shared")
      BY <1>4 DEF Grantable
    <2>. HIDE DEF status
    <2>2. CASE status.kind = "Unlocked"
      <3>1. status.holders = {}
        BY <1>2, <2>2 DEF EntryConsistent
      <3>2. entry = [kind |-> KindOf(lt), holders |-> {hold}]
        BY <3>1
      <3>3. KindOf(lt) # "Unlocked" /\ hold.lock_type = lt
        BY DEF KindOf
      <3>. HIDE DEF entry, hold
      <3>. QED
        BY <3>2, <3>3 DEF EntryConsistent
    <2>3. CASE status.kind = "SharedLock" /\ lt = "Shared"
      BY <1>2, <2>3 DEF EntryConsistent, KindOf
    <2>. QED
      BY <2>1, <2>2, <2>3
  <1>. HIDE DEF entry, status
  <1>7. /\ locks' \in [Inode -> LockStatus]
        /\ locks'[i] = entry
        /\ \A j \in Inode : j # i => locks'[j] = locks[j]
    BY <1>4, <1>5 DEF LMInv, TypeOK
  <1>8. TypeOK' /\ StatusConsistent'
    BY <1>4, <1>6, <1>7 DEF LMInv, TypeOK, StatusConsistent
  <1>9. \A j \in Inode : \A h \in locks'[j].holders :
            h \in locks[j].holders \/ (j = i /\ h = hold)
    BY <1>2, <1>7 DEF entry
  <1>10. \A j \in Inode : \A h \in locks[j].holders : h.token \in issued /\ h.token # t
    BY <1>4 DEF LMInv, OnlyIssued
  <1>11. TokenUnique'
    <2>. SUFFICES ASSUME NEW j \in Inode, NEW k \in Inode,
                         NEW g \in locks'[j].holders, NEW h \in locks'[k].holders,
                         g.token = h.token
                  PROVE  j = k /\ g = h
      BY DEF TokenUnique
    <2>1. hold.token = t
      OBVIOUS
    <2>. HIDE DEF hold
    <2>. QED
      BY <1>9, <1>10, <2>1 DEF LMInv, TokenUnique
  <1>12. OnlyIssued'
    BY <1>4, <1>9, <1>10 DEF OnlyIssued
  <1>. QED
    BY <1>8, <1>11, <1>12 DEF LMInv

(* Giving up a token, expired or not, keeps the invariant. *)
LEMMA ReleasePreservesInv ==
    ASSUME LMInv, NEW t \in Token, Release(t)
    PROVE  LMInv' /\ NoNewHold
  <1>1. PICK i \in Inode :
            locks' = [locks EXCEPT ![i] =
                Retain(locks[i], locks[i].holders \ HoldsOf(locks[i], t))]
    BY DEF Release
  <1>2. locks[i] \in LockStatus /\ EntryConsistent(locks[i])
    BY DEF LMInv, TypeOK, StatusConsistent
  <1>. DEFINE keep == locks[i].holders \ HoldsOf(locks[i], t)
  <1>3. /\ Retain(locks[i], keep) \in LockStatus
        /\ EntryConsistent(Retain(locks[i], keep))
        /\ Retain(locks[i], keep).holders \subseteq locks[i].holders
    <2>1. keep \in SUBSET locks[i].holders
      OBVIOUS
    <2>. HIDE DEF keep
    <2>. QED
      BY <1>2, <2>1, RetainFacts
  <1>. HIDE DEF keep
  <1>4. /\ locks' \in [Inode -> LockStatus]
        /\ \A j \in Inode : locks'[j] = IF j = i THEN Retain(locks[i], keep)
                                               ELSE locks[j]
    BY <1>1, <1>3 DEF LMInv, TypeOK, keep
  <1>5. \A j \in Inode : /\ EntryConsistent(locks'[j])
                         /\ locks'[j].holders \subseteq locks[j].holders
    BY <1>3, <1>4 DEF LMInv, StatusConsistent
  <1>6. issued' = issued
    BY DEF Release
  <1>. QED
    BY <1>4, <1>5, <1>6, ShrinkPreservesInv

(* Cleaning one entry or all of them keeps the invariant. *)
LEMMA CleanupPreservesInv ==
    ASSUME LMInv, issued' = issued, NEW S \in SUBSET Inode,
           locks' = [i \in Inode |-> IF i \in S THEN Cleaned(locks[i]) ELSE locks[i]]
    PROVE  LMInv' /\ NoNewHold
  <1>1. \A i \in Inode : locks[i] \in LockStatus /\ EntryConsistent(locks[i])
    BY DEF LMInv, TypeOK, StatusConsistent
  <1>2. \A i \in Inode : /\ Cleaned(locks[i]) \in LockStatus
                         /\ EntryConsistent(Cleaned(locks[i]))
                         /\ Cleaned(locks[i]).holders \subseteq locks[i].holders
    BY <1>1, CleanedFacts
  <1>. QED
    BY <1>1, <1>2, ShrinkPreservesInv

(* The end of a session keeps the invariant. *)
LEMMA ReleaseAllPreservesInv ==
    ASSUME LMInv, NEW c \in Holder, ReleaseAllByHolder(c)
    PROVE  LMInv' /\ NoNewHold
  <1>. DEFINE keep(i) == {h \in locks[i].holders : h.holder_id # c}
  <1>1. \A i \in Inode : locks[i] \in LockStatus /\ EntryConsistent(locks[i])
    BY DEF LMInv, TypeOK, StatusConsistent
  <1>2. \A i \in Inode : keep(i) \in SUBSET locks[i].holders
    OBVIOUS
  <1>3. locks' = [i \in Inode |-> Retain(locks[i], keep(i))] /\ issued' = issued
    BY DEF ReleaseAllByHolder
  <1>. HIDE DEF keep
  <1>4. \A i \in Inode : /\ Retain(locks[i], keep(i)) \in LockStatus
                         /\ EntryConsistent(Retain(locks[i], keep(i)))
                         /\ Retain(locks[i], keep(i)).holders \subseteq locks[i].holders
    BY <1>1, <1>2, RetainFacts
  <1>. QED
    BY <1>3, <1>4, ShrinkPreservesInv

(* A renewal keeps the invariant: the renewed hold keeps its token, type   *)
(* and place.                                                              *)
LEMMA RenewPreservesInv ==
    ASSUME LMInv, NEW t \in Token, NEW ttl \in TTL, Renew(t, ttl)
    PROVE  LMInv' /\ NoNewHold
  <1>. DEFINE New(h) == IF h.token = t THEN [h EXCEPT !.remaining = ttl] ELSE h
  <1>1. PICK i \in Inode :
            locks' = [locks EXCEPT ![i].holders =
                {h \in @ : h.token # t}
                  \cup {[h EXCEPT !.remaining = ttl] : h \in HoldsOf(locks[i], t)}]
    BY DEF Renew
  <1>2. locks[i] \in LockStatus /\ EntryConsistent(locks[i])
    BY DEF LMInv, TypeOK, StatusConsistent
  <1>3. \A j \in Inode : locks[j].holders \subseteq LockHold
    BY DEF LMInv, TypeOK, LockStatus
  <1>4. \A h \in LockHold : /\ New(h) \in LockHold
                            /\ SameHold(New(h), h)
    BY RedatedFacts DEF SameHold
  <1>. DEFINE entry == [kind |-> locks[i].kind,
                        holders |-> {New(h) : h \in locks[i].holders}]
  <1>5. locks' = [locks EXCEPT ![i] = entry]
    <2>1. {New(h) : h \in locks[i].holders} =
            {h \in locks[i].holders : h.token # t}
              \cup {[h EXCEPT !.remaining = ttl] : h \in HoldsOf(locks[i], t)}
      BY DEF HoldsOf
    <2>2. locks' = [locks EXCEPT ![i] =
                [locks[i] EXCEPT !.holders = {New(h) : h \in locks[i].holders}]]
      BY <1>1, <2>1 DEF LMInv, TypeOK
    <2>. QED
      BY <1>2, <2>2, ExceptHolders
  <1>. HIDE DEF New
  <1>6. entry \in LockStatus
    BY <1>2, <1>3, <1>4 DEF LockStatus
  <1>7. EntryConsistent(entry)
    BY <1>2, <1>3, <1>4 DEF EntryConsistent, SameHold
  <1>. HIDE DEF entry
  <1>8. /\ locks' \in [Inode -> LockStatus]
        /\ \A j \in Inode : locks'[j] = IF j = i THEN entry ELSE locks[j]
        /\ issued' = issued
    BY <1>5, <1>6 DEF LMInv, TypeOK, Renew
  <1>9. TypeOK' /\ StatusConsistent'
    BY <1>7, <1>8 DEF LMInv, TypeOK, StatusConsistent
  <1>10. \A j \in Inode : \A g \in locks'[j].holders :
            \E h \in locks[j].holders :
               /\ g = IF j = i THEN New(h) ELSE h
               /\ SameHold(g, h)
    BY <1>3, <1>4, <1>8 DEF entry, SameHold
  <1>11. TokenUnique'
    BY <1>10 DEF LMInv, TokenUnique, SameHold
  <1>12. OnlyIssued'
    BY <1>8, <1>10 DEF LMInv, OnlyIssued, SameHold
  <1>. QED
    BY <1>8, <1>9, <1>10, <1>11, <1>12 DEF LMInv, NoNewHold

(* The passing of time keeps the invariant. *)
LEMMA TickPreservesInv ==
    ASSUME LMInv, Tick
    PROVE  LMInv' /\ NoNewHold
  <1>1. \A j \in Inode : /\ locks[j] \in LockStatus
                         /\ EntryConsistent(locks[j])
                         /\ locks[j].holders \subseteq LockHold
    BY DEF LMInv, TypeOK, StatusConsistent, LockStatus
  <1>. DEFINE entry(j) == [kind |-> locks[j].kind,
                           holders |-> {Aged(h) : h \in locks[j].holders}]
  <1>2. locks' = [j \in Inode |-> entry(j)] /\ issued' = issued
    <2>1. locks' = [j \in Inode |->
                [locks[j] EXCEPT !.holders = {Aged(h) : h \in locks[j].holders}]]
      BY DEF Tick
    <2>2. \A j \in Inode :
            [locks[j] EXCEPT !.holders = {Aged(h) : h \in locks[j].holders}] = entry(j)
      BY <1>1, ExceptHolders
    <2>. HIDE DEF entry
    <2>. QED
      BY <2>1, <2>2 DEF Tick
  <1>3. \A j \in Inode : entry(j) \in LockStatus
    BY <1>1, AgedFacts DEF LockStatus
  <1>4. \A j \in Inode : EntryConsistent(entry(j))
    BY <1>1, AgedFacts DEF EntryConsistent
  <1>5. TypeOK' /\ StatusConsistent'
    BY <1>2, <1>3, <1>4 DEF LMInv, TypeOK, StatusConsistent
  <1>6. \A j \in Inode : \A g \in locks'[j].holders :
            \E h \in locks[j].holders : g = Aged(h) /\ SameHold(g, h)
    BY <1>1, <1>2, AgedFacts DEF SameHold
  <1>7. TokenUnique'
    BY <1>6 DEF LMInv, TokenUnique, SameHold
  <1>8. OnlyIssued'
    BY <1>2, <1>6 DEF LMInv, OnlyIssued, SameHold
  <1>. QED
    BY <1>2, <1>5, <1>6, <1>7, <1>8 DEF LMInv, NoNewHold

(* Every step but a grant keeps the invariant and adds no hold. *)
LEMMA StepShape ==
    ASSUME LMInv, [LMNext]_lmVars
    PROVE  \/ LMInv' /\ NoNewHold
           \/ \E i \in Inode, lt \in LockType, c \in Holder, ttl \in TTL, t \in Token :
                 AcquireGranted(i, lt, c, ttl, t)
  <1>1. ASSUME NEW i \in Inode, NEW lt \in LockType, AcquireConflict(i, lt)
        PROVE  LMInv' /\ NoNewHold
    <2>1. /\ locks' = [j \in Inode |-> IF j \in {i} THEN Cleaned(locks[j]) ELSE locks[j]]
          /\ issued' = issued
      BY <1>1 DEF AcquireConflict, LMInv, TypeOK
    <2>. QED
      BY <2>1, CleanupPreservesInv
  <1>2. ASSUME NEW t \in Token, Release(t) PROVE LMInv' /\ NoNewHold
    BY <1>2, ReleasePreservesInv
  <1>3. ASSUME NEW t \in Token, NEW ttl \in TTL, Renew(t, ttl)
        PROVE  LMInv' /\ NoNewHold
    BY <1>3, RenewPreservesInv
  <1>4. CASE CleanupExpired
    <2>1. /\ locks' = [j \in Inode |-> IF j \in Inode THEN Cleaned(locks[j]) ELSE locks[j]]
          /\ issued' = issued
      BY <1>4 DEF CleanupExpired
    <2>. QED
      BY <2>1, CleanupPreservesInv
  <1>5. ASSUME NEW c \in Holder, ReleaseAllByHolder(c) PROVE LMInv' /\ NoNewHold
    BY <1>5, ReleaseAllPreservesInv
  <1>6. CASE Tick
    BY <1>6, TickPreservesInv
  <1>7. CASE UNCHANGED lmVars
    <2>1. LMInv'
      BY <1>7 DEF lmVars, LMInv, TypeOK, StatusConsistent, TokenUnique, OnlyIssued
    <2>2. NoNewHold
      BY <1>7 DEF lmVars, NoNewHold, SameHold
    <2>. QED
      BY <2>1, <2>2
  <1>. QED
    BY <1>1, <1>2, <1>3, <1>4, <1>5, <1>6, <1>7 DEF LMNext

(* Every step of the table keeps the invariant. *)
LEMMA NextPreservesInv == LMInv /\ [LMNext]_lmVars => LMInv'
  BY StepShape, GrantPreservesInv

(* The inductive invariant holds in every reachable state of the table. *)
THEOREM TableInvariant == LMSpec => []LMInv
  BY InitInv, NextPreservesInv, PTL DEF LMSpec

(* At most one token validates for exclusive access (handle_write_chunk's  *)
(* guard) and then no other token validates at all, in every reachable     *)
(* state.                                                                  *)
THEOREM MutualExclusionHolds == LMSpec => []MutualExclusion
  <1>1. LMInv => MutualExclusion
    BY DEF LMInv, StatusConsistent, EntryConsistent, MutualExclusion, Validate
  <1>. QED
    BY <1>1, TableInvariant, PTL

(* A token that has left the table stays out of it: every hold after a     *)
(* step is an old one or carries a token that was not issued before.       *)
THEOREM TokenNeverReturnsHolds == LMSpec => TokenNeverReturns
  <1>. DEFINE Step == \A t \in issued : ~Held(t) => ~Held(t)'
  <1>1. ASSUME LMInv, [LMNext]_lmVars PROVE Step
    <2>. SUFFICES ASSUME NEW t \in issued, Held(t)' PROVE Held(t)
      OBVIOUS
    <2>1. PICK j \in Inode : \E g \in locks'[j].holders : g.token = t
      BY DEF Held, HoldsOf
    <2>2. CASE NoNewHold
      BY <2>1, <2>2 DEF NoNewHold, SameHold, Held, HoldsOf
    <2>3. ASSUME NEW i \in Inode, NEW lt \in LockType, NEW c \in Holder,
                 NEW ttl \in TTL, NEW u \in Token, AcquireGranted(i, lt, c, ttl, u)
          PROVE  Held(t)
      <3>1. u # t
        BY <2>3 DEF AcquireGranted
      <3>2. \E g \in locks[j].holders : g.token = t
        BY <1>1, <2>1, <2>3, <3>1, GrantAddsOne
      <3>. QED
        BY <2>1, <3>2 DEF Held, HoldsOf
    <2>. QED
      BY <1>1, <2>2, <2>3, StepShape
  <1>2. LMInv /\ [LMNext]_lmVars => [Step]_lmVars
    BY <1>1
  <1>. QED
    BY <1>2, TableInvariant, PTL DEF LMSpec, TokenNeverReturns

(* A hold whose time is not up survives every step but the release of its  *)
(* token and the end of its session.                                       *)
THEOREM LiveHoldSurvivesHolds == LMSpec => LiveHoldSurvives
  <1>. DEFINE Kept(i, h) == \E g \in locks'[i].holders :
                               /\ g.token = h.token
                               /\ g.holder_id = h.holder_id
                               /\ g.lock_type = h.lock_type
              Step == \A i \in Inode : \A h \in locks[i].holders :
                        ~IsExpired(h) => \/ Kept(i, h)
                                         \/ Release(h.token)
                                         \/ ReleaseAllByHolder(h.holder_id)
  <1>1. ASSUME LMInv, [LMNext]_lmVars PROVE Step
    <2>. SUFFICES ASSUME NEW i \in Inode, NEW h \in locks[i].holders,
                         ~IsExpired(h),
                         ~Release(h.token), ~ReleaseAllByHolder(h.holder_id)
                  PROVE  Kept(i, h)
      OBVIOUS
    <2>1. \A j \in Inode : locks[j] \in LockStatus /\ EntryConsistent(locks[j])
      BY <1>1 DEF LMInv, TypeOK, StatusConsistent
    <2>2. h \in LockHold
      BY <2>1 DEF LockStatus
    <2>3. locks \in [Inode -> LockStatus]
      BY <1>1 DEF LMInv, TypeOK
    <2>4. \A j \in Inode : \A k \in locks[j].holders :
             ~IsExpired(k) => k \in Cleaned(locks[j]).holders
      BY <2>1, CleanedFacts
    <2>5. ASSUME NEW j \in Inode, NEW lt \in LockType, NEW c \in Holder,
                 NEW ttl \in TTL, NEW t \in Token, AcquireGranted(j, lt, c, ttl, t)
          PROVE  Kept(i, h)
      BY <1>1, <2>5, GrantAddsOne
    <2>6. ASSUME NEW j \in Inode, NEW lt \in LockType, AcquireConflict(j, lt)
          PROVE  Kept(i, h)
      BY <2>3, <2>4, <2>6 DEF AcquireConflict
    <2>7. ASSUME NEW t \in Token, Release(t) PROVE Kept(i, h)
      <3>1. t # h.token
        BY <2>7
      <3>2. PICK j \in Inode : locks' = [locks EXCEPT ![j] =
                Retain(locks[j], locks[j].holders \ HoldsOf(locks[j], t))]
        BY <2>7 DEF Release
      <3>. DEFINE keep == locks[j].holders \ HoldsOf(locks[j], t)
      <3>3. keep \in SUBSET locks[j].holders
        OBVIOUS
      <3>4. j = i => h \in keep
        BY <3>1 DEF HoldsOf
      <3>5. Retain(locks[j], keep).holders = keep
        <4>. HIDE DEF keep
        <4>. QED
          BY <2>1, <3>3, RetainFacts
      <3>6. locks'[i] = IF j = i THEN Retain(locks[j], keep) ELSE locks[i]
        BY <2>3, <3>2
      <3>. HIDE DEF keep
      <3>. QED
        BY <3>4, <3>5, <3>6
    <2>8. ASSUME NEW t \in Token, NEW ttl \in TTL, Renew(t, ttl)
          PROVE  Kept(i, h)
      <3>1. PICK j \in Inode : locks' = [locks EXCEPT ![j].holders =
                {g \in @ : g.token # t}
                  \cup {[g EXCEPT !.remaining = ttl] : g \in HoldsOf(locks[j], t)}]
        BY <2>8 DEF Renew
      <3>2. i # j => locks'[i] = locks[i]
        BY <2>3, <3>1
      <3>3. i = j => locks'[i].holders = {g \in locks[i].holders : g.token # t}
                  \cup {[g EXCEPT !.remaining = ttl] : g \in HoldsOf(locks[i], t)}
        BY <2>1, <2>3, <3>1 DEF LockStatus
      <3>4. CASE i = j /\ h.token = t
        <4>1. [h EXCEPT !.remaining = ttl] \in locks'[i].holders
          BY <3>3, <3>4 DEF HoldsOf
        <4>. QED
          BY <2>2, <4>1, RedatedFacts
      <3>5. CASE i # j \/ h.token # t
        BY <3>2, <3>3, <3>5
      <3>. QED
        BY <3>4, <3>5
    <2>9. CASE CleanupExpired
      BY <2>4, <2>9 DEF CleanupExpired
    <2>10. ASSUME NEW c \in Holder, ReleaseAllByHolder(c) PROVE Kept(i, h)
      <3>. DEFINE keep == {g \in locks[i].holders : g.holder_id # c}
      <3>1. c # h.holder_id
        BY <2>10
      <3>2. h \in keep /\ keep \in SUBSET locks[i].holders
        BY <3>1
      <3>3. locks'[i] = Retain(locks[i], keep)
        BY <2>10 DEF ReleaseAllByHolder
      <3>. HIDE DEF keep
      <3>4. locks'[i].holders = keep
        BY <2>1, <3>2, <3>3, RetainFacts
      <3>. QED
        BY <3>2, <3>4
    <2>11. CASE Tick
      <3>1. locks'[i].holders = {Aged(g) : g \in locks[i].holders}
        BY <2>1, <2>11 DEF Tick, LockStatus
      <3>2. Aged(h) \in locks'[i].holders
        BY <3>1
      <3>. QED
        BY <2>2, <3>2, AgedFacts
    <2>12. CASE UNCHANGED lmVars
      BY <2>12 DEF lmVars
    <2>. HIDE DEF Kept
    <2>. QED
      BY <1>1, <2>5, <2>6, <2>7, <2>8, <2>9, <2>10, <2>11, <2>12 DEF LMNext
  <1>2. LMInv /\ [LMNext]_lmVars => [Step]_lmVars
    BY <1>1
  <1>. QED
    BY <1>2, TableInvariant, PTL DEF LMSpec, LiveHoldSurvives

(* The lease view of a step that adds no hold is a Drop. *)
LEMMA NoNewHoldIsDrop ==
    ASSUME NoNewHold
    PROVE  RW!Drop
  <1>1. DOMAIN Leases' = Inode
    BY DEF Leases
  <1>2. \A i \in Inode : Leases'[i] \subseteq Leases[i]
    BY DEF NoNewHold, SameHold, Leases
  <1>. QED
    BY <1>1, <1>2 DEF RW!Drop, NoNewHold

(* The holds of a consistent entry are compatible as leases. *)
LEMMA ConsistentIsCompatible ==
    ASSUME NEW status \in LockStatus, EntryConsistent(status)
    PROVE  RW!Compatible({[token |-> h.token, lock_type |-> h.lock_type] :
                             h \in status.holders})
  <1>1. SUFFICES ASSUME NEW g \in status.holders, NEW h \in status.holders, g # h
                 PROVE  g.lock_type = "Shared" /\ h.lock_type = "Shared"
    BY DEF RW!Compatible
  <1>2. status.kind = "SharedLock"
    BY <1>1 DEF LockStatus, EntryConsistent
  <1>. QED
    BY <1>2 DEF EntryConsistent, KindOf

(* The lease view of a grant is a Grant: the leases kept are the ones of   *)
(* the holds that have not expired.                                        *)
LEMMA GrantIsGrant ==
    ASSUME LMInv, LMInv',
           NEW i \in Inode, NEW lt \in LockType, NEW c \in Holder,
           NEW ttl \in TTL, NEW t \in Token,
           AcquireGranted(i, lt, c, ttl, t)
    PROVE  RW!Grant(i, [token |-> t, lock_type |-> lt])
  <1>. DEFINE lease == [token |-> t, lock_type |-> lt]
              hold == [token |-> t, lock_type |-> lt,
                       holder_id |-> c, remaining |-> ttl]
              AsLease(h) == [token |-> h.token, lock_type |-> h.lock_type]
              live == {h \in locks[i].holders : ~IsExpired(h)}
              kept == {AsLease(h) : h \in live}
  <1>1. locks[i] \in LockStatus /\ EntryConsistent(locks[i])
    BY DEF LMInv, TypeOK, StatusConsistent
  <1>2. Cleaned(locks[i]).holders = live
    BY <1>1, CleanedFacts
  <1>3. \A j \in Inode : locks'[j].holders =
            IF j = i THEN live \cup {hold} ELSE locks[j].holders
    <2>. HIDE DEF live
    <2>. QED
      BY <1>2 DEF AcquireGranted, LMInv, TypeOK
  <1>4. \A j \in Inode : /\ Leases[j] = {AsLease(h) : h \in locks[j].holders}
                         /\ Leases'[j] = {AsLease(h) : h \in locks'[j].holders}
    BY DEF Leases
  <1>5. kept \in SUBSET Leases[i]
    BY <1>4
  <1>6. AsLease(hold) = lease
    OBVIOUS
  <1>. HIDE DEF AsLease, live, hold, lease
  <1>7. Leases'[i] = kept \cup {lease}
    BY <1>3, <1>4, <1>6
  <1>8. \A j \in Inode : j # i => Leases'[j] = Leases[j]
    BY <1>3, <1>4
  <1>. HIDE DEF kept
  <1>9. Leases' = [Leases EXCEPT ![i] = kept \cup {lease}]
    <2>1. DOMAIN Leases = Inode /\ DOMAIN Leases' = Inode
          /\ Leases = [j \in Inode |-> Leases[j]]
          /\ Leases' = [j \in Inode |-> Leases'[j]]
      BY DEF Leases
    <2>. QED
      BY <1>7, <1>8, <2>1
  <1>10. RW!Compatible(kept \cup {lease})
    <2>1. locks'[i] \in LockStatus /\ EntryConsistent(locks'[i])
      BY DEF LMInv, TypeOK, StatusConsistent
    <2>2. RW!Compatible(Leases'[i])
      BY <1>4, <2>1, ConsistentIsCompatible DEF AsLease
    <2>. QED
      BY <1>7, <2>2
  <1>11. /\ lease.token \notin issued
         /\ issued' = issued \cup {lease.token}
    BY DEF AcquireGranted, lease
  <1>. QED
    BY <1>5, <1>9, <1>10, <1>11 DEF RW!Grant, lease

(* The table implements reader/writer leases: a grant is an abstract grant *)
(* and every other step, time included, only drops leases or stutters.     *)
THEOREM TableImplementsRwLease == LMSpec => ImplementsRwLease
  <1>1. LMInit => RW!RWInit
    BY DEF LMInit, RW!RWInit, Leases, Unlocked
  <1>2. ASSUME LMInv, [LMNext]_lmVars PROVE RW!RWNext
    <2>1. CASE NoNewHold
      BY <2>1, NoNewHoldIsDrop DEF RW!RWNext
    <2>2. ASSUME NEW i \in Inode, NEW lt \in LockType, NEW c \in Holder,
                 NEW ttl \in TTL, NEW t \in Token, AcquireGranted(i, lt, c, ttl, t)
          PROVE  RW!RWNext
      <3>1. RW!Grant(i, [token |-> t, lock_type |-> lt])
        BY <1>2, <2>2, GrantIsGrant, NextPreservesInv
      <3>2. [token |-> t, lock_type |-> lt] \in RW!LeaseRecord
        BY DEF RW!LeaseRecord, LockType
      <3>. QED
        BY <3>1, <3>2 DEF RW!RWNext
    <2>. QED
      BY <1>2, <2>1, <2>2, StepShape
  <1>3. LMInv /\ [LMNext]_lmVars => [RW!RWNext]_(RW!rwVars)
    BY <1>2
  <1>. QED
    BY <1>1, <1>3, TableInvariant, PTL DEF LMSpec, ImplementsRwLease, RW!RWSpec

-----------------------------------------------------------------------------
(* The lock service.                                                       *)

(* A release names a token, and a grant that is under way carries one. *)
OwnToken(r) ==
    /\ r.at \in {"sent", "task", "answered"} /\ r.op = "release" => r.token \in Token
    /\ r.at = "answered" /\ r.op = "acquire" /\ r.ok => r.token \in Token

StreamState == {Idle} \cup Request \cup Answer

(* What each stream and each stored lock looks like. *)
ClientInv ==
    /\ session \in [Holder -> {"open", "closed"}]
    /\ conn \in [Holder -> {"up", "down"}]
    /\ stream \in [Holder -> [Slot -> StreamState]]
    /\ file_lock \in [Holder -> [Inode -> {NoLock} \cup FileLock]]
    /\ \A c \in Holder, s \in Slot : OwnToken(stream[c][s])

(* The lease is a lease length callers may ask for. *)
LEMMA LeaseIsTTL == Lease \in TTL /\ Lease \in Nat \ {0}
  BY LeaseAssumption, TTLAssumption

(* A stream is idle, under way or answered: which one its at tells. *)
LEMMA StreamCases ==
    ASSUME NEW r \in StreamState
    PROVE  /\ r.at \in {"sent", "task", "checked"} => r \in Request
           /\ r.at = "answered" => r \in Answer
           /\ r.at \in {"idle", "sent", "task", "checked", "answered"}
  BY DEF StreamState, Idle, Request, Answer

(* Changing one stream leaves the others as they are. *)
LEMMA StreamUpdate ==
    ASSUME ClientInv, NEW c \in Holder, NEW s \in Slot, NEW r \in StreamState,
           OwnToken(r), stream' = [stream EXCEPT ![c][s] = r]
    PROVE  /\ stream' \in [Holder -> [Slot -> StreamState]]
           /\ \A d \in Holder, t \in Slot : OwnToken(stream'[d][t])
  <1>1. stream \in [Holder -> [Slot -> StreamState]]
    BY DEF ClientInv
  <1>2. \A d \in Holder, t \in Slot :
           stream'[d][t] = IF d = c /\ t = s THEN r ELSE stream[d][t]
    BY <1>1
  <1>3. stream' \in [Holder -> [Slot -> StreamState]]
    BY <1>1
  <1>. QED
    BY <1>2, <1>3 DEF ClientInv

(* A step that changes one stream and no lock of a client. *)
LEMMA StreamStep ==
    ASSUME ClientInv, NEW c \in Holder, NEW s \in Slot, NEW r \in StreamState,
           OwnToken(r), stream' = [stream EXCEPT ![c][s] = r],
           session' \in [Holder -> {"open", "closed"}],
           conn' \in [Holder -> {"up", "down"}],
           file_lock' = file_lock
    PROVE  ClientInv'
  BY StreamUpdate DEF ClientInv

LEMMA ClientInit == Init => ClientInv
  <1>. SUFFICES ASSUME Init PROVE ClientInv
    OBVIOUS
  <1>1. stream \in [Holder -> [Slot -> StreamState]]
    BY DEF Init, StreamState
  <1>2. \A c \in Holder, s \in Slot : OwnToken(stream[c][s])
    BY DEF Init, Idle, OwnToken
  <1>3. file_lock \in [Holder -> [Inode -> {NoLock} \cup FileLock]]
    BY DEF Init
  <1>. QED
    BY <1>1, <1>2, <1>3 DEF Init, ClientInv

(* The answer of a task is a stream state. *)
LEMMA RespondStep ==
    ASSUME ClientInv, NEW c \in Holder, NEW s \in Slot,
           stream[c][s] \in Request,
           NEW ok \in BOOLEAN, NEW t \in Token \cup {NoToken},
           stream[c][s].op = "release" => t \in Token,
           stream[c][s].op = "acquire" /\ ok => t \in Token,
           Respond(c, s, ok, t),
           UNCHANGED <<session, conn, file_lock>>
    PROVE  ClientInv'
  <1>. DEFINE q == stream[c][s]
              a == [at |-> "answered", op |-> q.op, inode |-> q.inode,
                    lock_type |-> q.lock_type, token |-> t, ok |-> ok, age |-> 0]
              r == IF conn[c] = "down" THEN Idle ELSE a
  <1>1. stream' = [stream EXCEPT ![c][s] = r]
    BY DEF Respond
  <1>2. a \in Answer
    BY LeaseIsTTL DEF Request, Answer
  <1>3. OwnToken(a) /\ OwnToken(Idle)
    BY DEF OwnToken, Idle
  <1>4. r \in StreamState /\ OwnToken(r)
    BY <1>2, <1>3 DEF StreamState
  <1>. HIDE DEF r
  <1>. QED
    BY <1>1, <1>4, StreamStep DEF ClientInv

(* Requests that clients send. *)
LEMMA SendStep ==
    ASSUME ClientInv, NEW c \in Holder, NEW s \in Slot, NEW i \in Inode,
           NEW op \in {"acquire", "release", "write"},
           NEW lt \in LockType, NEW t \in Token \cup {NoToken},
           op = "release" => t \in Token,
           Send(c, s, op, i, lt, t)
    PROVE  ClientInv' /\ UNCHANGED lmVars
  <1>. DEFINE r == [at |-> "sent", op |-> op, inode |-> i, lock_type |-> lt, token |-> t]
  <1>1. r \in StreamState /\ OwnToken(r)
    BY DEF StreamState, Request, OwnToken
  <1>2. stream' = [stream EXCEPT ![c][s] = r]
    BY DEF Send
  <1>. HIDE DEF r
  <1>3. ClientInv'
    BY <1>1, <1>2, StreamStep DEF Send, ClientInv
  <1>. QED
    BY <1>3 DEF Send, lmVars

(* What a client believes of a lock is a token or the default token. *)
LEMMA LockTokenType ==
    ASSUME ClientInv, NEW c \in Holder, NEW i \in Inode
    PROVE  /\ LockToken(c, i) \in Token \cup {NoToken}
           /\ HasLock(c, i) => LockToken(c, i) \in Token
  <1>1. file_lock[c][i] \in {NoLock} \cup FileLock
    BY DEF ClientInv
  <1>2. HasLock(c, i) => file_lock[c][i] \in FileLock
    BY <1>1 DEF HasLock, NoLock
  <1>3. HasLock(c, i) => file_lock[c][i].token \in Token
    BY <1>2 DEF FileLock
  <1>. QED
    BY <1>3 DEF LockToken

(* The answer arrives and the client stores or drops its lock. *)
LEMMA ReceiveStep ==
    ASSUME ClientInv, NEW c \in Holder, NEW s \in Slot, Receive(c, s)
    PROVE  ClientInv' /\ UNCHANGED lmVars
  <1>. DEFINE r == stream[c][s]
              l == CASE r.op = "acquire" /\ r.ok ->
                          [token |-> r.token, lock_type |-> r.lock_type,
                           remaining |-> Lease, late |-> r.age]
                     [] r.op = "release" -> NoLock
                     [] OTHER -> file_lock[c][r.inode]
  <1>1. r \in StreamState /\ OwnToken(r)
    BY DEF ClientInv
  <1>2. r \in Answer
    BY <1>1, StreamCases DEF Receive
  <1>3. l \in {NoLock} \cup FileLock
    <2>1. file_lock[c][r.inode] \in {NoLock} \cup FileLock
      BY <1>2 DEF ClientInv, Answer
    <2>2. ASSUME r.op = "acquire" /\ r.ok
          PROVE  [token |-> r.token, lock_type |-> r.lock_type,
                  remaining |-> Lease, late |-> r.age] \in FileLock
      BY <1>1, <1>2, <2>2, LeaseIsTTL DEF Answer, OwnToken, FileLock
    <2>. HIDE DEF r
    <2>. QED
      BY <2>1, <2>2
  <1>4. /\ stream' = [stream EXCEPT ![c][s] = Idle]
        /\ file_lock' = [file_lock EXCEPT ![c][r.inode] = l]
        /\ UNCHANGED <<session, conn, lmVars>>
    BY DEF Receive, lmVars, ClientInv
  <1>5. r.inode \in Inode
    BY <1>2 DEF Answer
  <1>. HIDE DEF l, r
  <1>6. file_lock' \in [Holder -> [Inode -> {NoLock} \cup FileLock]]
    BY <1>3, <1>4, <1>5 DEF ClientInv
  <1>7. Idle \in StreamState /\ OwnToken(Idle)
    BY DEF StreamState, OwnToken, Idle
  <1>8. /\ stream' \in [Holder -> [Slot -> StreamState]]
        /\ \A d \in Holder, t \in Slot : OwnToken(stream'[d][t])
    BY <1>4, <1>7, StreamUpdate
  <1>. QED
    BY <1>4, <1>6, <1>8 DEF ClientInv

(* Time passes on both sides. *)
LEMMA TimeStep ==
    ASSUME ClientInv, TimePasses
    PROVE  ClientInv'
  <1>1. ASSUME NEW l \in {NoLock} \cup FileLock
        PROVE  Expiring(l) \in {NoLock} \cup FileLock
    <2>1. CASE l.remaining <= 1
      BY <2>1 DEF Expiring
    <2>2. CASE ~(l.remaining <= 1)
      <3>1. l \in FileLock
        BY <2>2 DEF NoLock
      <3>2. Expiring(l) = [l EXCEPT !.remaining = l.remaining - 1]
        BY <2>2, <3>1, LeaseIsTTL DEF Expiring, Aged, FileLock
      <3>. QED
        BY <2>2, <3>1, <3>2, LeaseIsTTL DEF FileLock
    <2>. QED
      BY <2>1, <2>2
  <1>2. ASSUME NEW r \in StreamState, OwnToken(r)
        PROVE  UnderWay(r) \in StreamState /\ OwnToken(UnderWay(r))
    <2>1. CASE r.at = "answered" /\ r.op = "acquire" /\ r.ok /\ r.age < Lease
      <3>1. r \in Answer
        BY <1>2, <2>1, StreamCases
      <3>2. UnderWay(r) = [r EXCEPT !.age = r.age + 1]
        BY <2>1, <3>1 DEF UnderWay, Answer
      <3>3. [r EXCEPT !.age = r.age + 1] \in Answer
        BY <2>1, <3>1, LeaseIsTTL DEF Answer
      <3>4. OwnToken([r EXCEPT !.age = r.age + 1])
        BY <1>2, <2>1, <3>1 DEF OwnToken, Answer
      <3>. QED
        BY <3>2, <3>3, <3>4 DEF StreamState
    <2>2. CASE ~(r.at = "answered" /\ r.op = "acquire" /\ r.ok /\ r.age < Lease)
      BY <1>2, <2>2 DEF UnderWay
    <2>. QED
      BY <2>1, <2>2
  <1>3. file_lock' \in [Holder -> [Inode -> {NoLock} \cup FileLock]]
    BY <1>1 DEF TimePasses, ClientInv
  <1>4. stream' \in [Holder -> [Slot -> StreamState]]
    BY <1>2 DEF TimePasses, ClientInv
  <1>5. \A d \in Holder, t \in Slot : OwnToken(stream'[d][t])
    BY <1>2 DEF TimePasses, ClientInv
  <1>. QED
    BY <1>3, <1>4, <1>5 DEF TimePasses, ClientInv

(* A stream moves on without an answer: accepted, or past its check. *)
LEMMA MoveOn ==
    ASSUME ClientInv, NEW c \in Holder, NEW s \in Slot, NEW at \in {"task", "checked"},
           stream[c][s].at \in {"sent", "task"},
           at = "checked" => stream[c][s].op = "write",
           stream' = [stream EXCEPT ![c][s].at = at],
           session' \in [Holder -> {"open", "closed"}],
           conn' \in [Holder -> {"up", "down"}],
           file_lock' = file_lock
    PROVE  ClientInv'
  <1>. DEFINE q == stream[c][s]
              r == [q EXCEPT !.at = at]
  <1>1. q \in StreamState /\ OwnToken(q)
    BY DEF ClientInv
  <1>2. q \in Request
    BY <1>1, StreamCases
  <1>3. r \in StreamState /\ OwnToken(r)
    BY <1>1, <1>2 DEF StreamState, Request, OwnToken
  <1>4. stream' = [stream EXCEPT ![c][s] = r]
    OBVIOUS
  <1>. HIDE DEF r
  <1>. QED
    BY <1>3, <1>4, StreamStep

(* A task's request: its inode, lock type and token. *)
LEMMA TaskRequest ==
    ASSUME ClientInv, NEW c \in Holder, NEW s \in Slot,
           stream[c][s].at \in {"sent", "task", "checked"}
    PROVE  /\ stream[c][s] \in Request
           /\ stream[c][s].inode \in Inode
           /\ stream[c][s].lock_type \in LockType
           /\ stream[c][s].token \in Token \cup {NoToken}
           /\ stream[c][s].at # "checked" /\ stream[c][s].op = "release"
                 => stream[c][s].token \in Token
  <1>1. stream[c][s] \in StreamState /\ OwnToken(stream[c][s])
    BY DEF ClientInv
  <1>2. stream[c][s] \in Request
    BY <1>1, StreamCases
  <1>. QED
    BY <1>1, <1>2 DEF Request, OwnToken

(* A client's step leaves the table alone. *)
LEMMA ClientStep ==
    ASSUME ClientInv, NEW c \in Holder, ClientCall(c)
    PROVE  ClientInv' /\ UNCHANGED lmVars
  <1>1. ASSUME NEW i \in Inode, NEW lt \in LockType, AcquireLock(c, i, lt)
        PROVE  ClientInv' /\ UNCHANGED lmVars
    BY <1>1, SendStep DEF AcquireLock
  <1>2. ASSUME NEW i \in Inode, ReleaseLock(c, i)
        PROVE  ClientInv' /\ UNCHANGED lmVars
    BY <1>2, SendStep, LockTokenType DEF ReleaseLock, LockType
  <1>3. ASSUME NEW i \in Inode, NEW s \in Slot, Write(c, s, i)
        PROVE  ClientInv' /\ UNCHANGED lmVars
    BY <1>3, SendStep, LockTokenType DEF Write, LockType
  <1>4. ASSUME NEW s \in Slot, Receive(c, s)
        PROVE  ClientInv' /\ UNCHANGED lmVars
    BY <1>4, ReceiveStep
  <1>5. CASE Disconnect(c)
    BY <1>5 DEF Disconnect, ClientInv, lmVars
  <1>. QED
    BY <1>1, <1>2, <1>3, <1>4, <1>5 DEF ClientCall

(* The host's loop drops the locks of its client or leaves the table alone. *)
LEMMA LoopStep ==
    ASSUME ClientInv, NEW c \in Holder, HostLoop(c)
    PROVE  ClientInv' /\ [LMNext]_lmVars
  <1>1. ASSUME NEW s \in Slot, AcceptStream(c, s)
        PROVE  ClientInv' /\ [LMNext]_lmVars
    <2>1. ClientInv'
      BY <1>1, MoveOn DEF AcceptStream, ClientInv
    <2>. QED
      BY <1>1, <2>1 DEF AcceptStream, lmVars
  <1>2. ASSUME NEW s \in Slot, AcceptAndExpire(c, s)
        PROVE  ClientInv' /\ [LMNext]_lmVars
    <2>1. ClientInv'
      BY <1>2, MoveOn DEF AcceptAndExpire, ClientInv
    <2>. QED
      BY <1>2, <2>1 DEF AcceptAndExpire, LMNext
  <1>3. CASE SessionCloses(c)
    <2>1. ClientInv'
      BY <1>3 DEF SessionCloses, ClientInv
    <2>. QED
      BY <1>3, <2>1 DEF SessionCloses, LMNext
  <1>. QED
    BY <1>1, <1>2, <1>3 DEF HostLoop

(* A task calls one method of the table, or none. *)
LEMMA TaskStep ==
    ASSUME ClientInv, NEW c \in Holder, NEW s \in Slot, HostTask(c, s)
    PROVE  ClientInv' /\ [LMNext]_lmVars
  <1>. DEFINE r == stream[c][s]
  <1>1. CASE HandleAcquireLock(c, s)
    <2>1. r \in Request /\ r.inode \in Inode /\ r.lock_type \in LockType
      BY <1>1, TaskRequest DEF HandleAcquireLock, Task
    <2>2. ASSUME NEW t \in Token, AcquireGranted(r.inode, r.lock_type, c, Lease, t),
                 Respond(c, s, TRUE, t)
          PROVE  ClientInv' /\ LMNext
      <3>1. ClientInv'
        BY <1>1, <2>1, <2>2, RespondStep DEF HandleAcquireLock, Task
      <3>2. LMNext
        BY <2>1, <2>2, LeaseIsTTL DEF LMNext
      <3>. QED
        BY <3>1, <3>2
    <2>3. ASSUME AcquireConflict(r.inode, r.lock_type), Respond(c, s, FALSE, NoToken)
          PROVE  ClientInv' /\ LMNext
      <3>1. ClientInv'
        BY <1>1, <2>1, <2>3, RespondStep DEF HandleAcquireLock, Task
      <3>2. LMNext
        BY <2>1, <2>3 DEF LMNext
      <3>. QED
        BY <3>1, <3>2
    <2>. QED
      BY <1>1, <2>2, <2>3 DEF HandleAcquireLock
  <1>2. CASE HandleReleaseLock(c, s)
    <2>1. r \in Request /\ r.token \in Token /\ r.op = "release"
      BY <1>2, TaskRequest DEF HandleReleaseLock, Task
    <2>2. PICK ok \in BOOLEAN : Respond(c, s, ok, r.token)
      BY <1>2 DEF HandleReleaseLock
    <2>3. ClientInv'
      BY <1>2, <2>1, <2>2, RespondStep DEF HandleReleaseLock
    <2>4. LMNext \/ UNCHANGED lmVars
      BY <1>2, <2>1 DEF HandleReleaseLock, LMNext
    <2>. QED
      BY <2>3, <2>4
  <1>3. CASE HandleWriteCheck(c, s)
    <2>1. r \in Request /\ r.op = "write" /\ r.at = "task"
      BY <1>3, TaskRequest DEF HandleWriteCheck, Task
    <2>2. ASSUME Respond(c, s, FALSE, NoToken) PROVE ClientInv'
      BY <1>3, <2>1, <2>2, RespondStep DEF HandleWriteCheck
    <2>3. ASSUME stream' = [stream EXCEPT ![c][s].at = "checked"] PROVE ClientInv'
      BY <1>3, <2>1, <2>3, MoveOn DEF HandleWriteCheck, ClientInv
    <2>. QED
      BY <1>3, <2>2, <2>3 DEF HandleWriteCheck, lmVars
  <1>4. CASE HandleWriteFile(c, s) \/ HandleWriteError(c, s)
    <2>1. r \in Request /\ r.op = "write"
      BY <1>4, TaskRequest DEF HandleWriteFile, HandleWriteError, Task
    <2>2. PICK ok \in BOOLEAN : Respond(c, s, ok, NoToken)
      BY <1>4 DEF HandleWriteFile, HandleWriteError
    <2>3. UNCHANGED <<session, conn, file_lock>> /\ UNCHANGED lmVars
      BY <1>4 DEF HandleWriteFile, HandleWriteError, lmVars
    <2>. QED
      BY <2>1, <2>2, <2>3, RespondStep
  <1>5. CASE StreamLost(c, s)
    <2>1. Idle \in StreamState /\ OwnToken(Idle)
      BY DEF StreamState, OwnToken, Idle
    <2>. QED
      BY <1>5, <2>1, StreamStep DEF StreamLost, ClientInv, lmVars
  <1>. QED
    BY <1>1, <1>2, <1>3, <1>4, <1>5 DEF HostTask

(* Every step of the service keeps the types and is a step of the table. *)
LEMMA ServiceStep ==
    ASSUME ClientInv, [Next]_vars
    PROVE  ClientInv' /\ [LMNext]_lmVars
  <1>1. ASSUME NEW c \in Holder, ClientCall(c) \/ HostLoop(c)
        PROVE  ClientInv' /\ [LMNext]_lmVars
    BY <1>1, ClientStep, LoopStep
  <1>2. ASSUME NEW c \in Holder, NEW s \in Slot, HostTask(c, s)
        PROVE  ClientInv' /\ [LMNext]_lmVars
    BY <1>2, TaskStep
  <1>3. CASE TimePasses
    BY <1>3, TimeStep DEF TimePasses, LMNext
  <1>4. CASE UNCHANGED vars
    BY <1>4 DEF vars, lmVars, ClientInv
  <1>. QED
    BY <1>1, <1>2, <1>3, <1>4 DEF Next

(* Sessions, tasks and clients use the lock table only through its         *)
(* methods: every behaviour of the service is one of the table.            *)
THEOREM ServiceImplementsLockManager == Spec => ImplementsLockManager
  <1>1. Init => ClientInv /\ LMInit
    BY ClientInit DEF Init
  <1>2. ClientInv /\ [Next]_vars => ClientInv' /\ [LMNext]_lmVars
    BY ServiceStep
  <1>. QED
    BY <1>1, <1>2, PTL DEF Spec, ImplementsLockManager, LMSpec

(* The requests, the answers and the locks clients store are well typed in *)
(* every reachable state of the service, as is the table.                  *)
THEOREM ServiceTypes == Spec => []ServiceTypeOK
  <1>1. Init => ClientInv
    BY ClientInit
  <1>2. ClientInv /\ [Next]_vars => ClientInv'
    BY ServiceStep
  <1>3. ClientInv /\ LMInv => ServiceTypeOK
    BY DEF ClientInv, StreamState, LMInv, ServiceTypeOK
  <1>. QED
    BY <1>1, <1>2, <1>3, ServiceImplementsLockManager, TableInvariant, PTL
       DEF Spec, ImplementsLockManager

(* At no time two tokens open one file for writing, whatever clients,      *)
(* sessions, request tasks and lost connections do.                        *)
THEOREM ServiceMutualExclusion == Spec => []MutualExclusion
  BY ServiceImplementsLockManager, MutualExclusionHolds, PTL
     DEF ImplementsLockManager
-----------------------------------------------------------------------------
(* What clients believe. *)

IsRelease(r) == r.at # "idle" /\ r.op = "release"

IsGrant(r) == r.at = "answered" /\ r.op = "acquire" /\ r.ok

(* The token is on its way to client c. *)
Granted(c, s, token) == IsGrant(stream[c][s]) /\ stream[c][s].token = token

(* Client c has the token for inode i, or is giving it back. *)
Uses(c, i, token) ==
    \/ HasLock(c, i) /\ file_lock[c][i].token = token
    \/ \E s \in Slot : /\ IsRelease(stream[c][s])
                       /\ stream[c][s].token = token /\ stream[c][s].inode = i

(* A token has one home, and none while its grant is on the way. *)
HomeInv ==
    /\ \A c, d \in Holder, i, j \in Inode, t \in Token :
          Uses(c, i, t) /\ Uses(d, j, t) => c = d /\ i = j
    /\ \A c \in Holder, i \in Inode, t \in Token : Uses(c, i, t) => t \in issued
    /\ \A c \in Holder, s \in Slot, t \in Token :
          Granted(c, s, t) =>
             /\ t \in issued
             /\ \A d \in Holder, i \in Inode : ~Uses(d, i, t)
             /\ \A d \in Holder, u \in Slot : Granted(d, u, t) => d = c /\ u = s

(* The host has the hold, with so much time left. *)
Backed(c, i, token, lock_type, remaining) ==
    \E h \in HoldsOf(locks[i], token) :
        h.holder_id = c /\ h.lock_type = lock_type /\ h.remaining = remaining

(* A grant on its way, not yet late by a whole lease, is backed. *)
GrantInv ==
    \A c \in Holder, s \in Slot :
        LET r == stream[c][s]
        IN  IsGrant(r) /\ r.age < Lease /\ conn[c] = "up" =>
                Backed(c, r.inode, r.token, r.lock_type, Lease - r.age)

(* The inductive invariant, on top of LMInv and ClientInv. *)
BeliefInv == HomeInv /\ GrantInv /\ BeliefAccurate

(* A hold with time left is taken away by its release and by the end of    *)
(* its session only.                                                       *)
LEMMA BackedKept ==
    ASSUME LMInv, NEW c \in Holder, NEW i \in Inode, NEW t \in Token, NEW lt \in LockType,
           NEW rem \in Nat \ {0}, Backed(c, i, t, lt, rem),
           \/ UNCHANGED lmVars
           \/ \E j \in Inode, kt \in LockType, d \in Holder, u \in Token :
                 AcquireGranted(j, kt, d, Lease, u)
           \/ \E j \in Inode, kt \in LockType : AcquireConflict(j, kt)
           \/ \E u \in Token \ {t} : Release(u)
           \/ \E d \in Holder \ {c} : ReleaseAllByHolder(d)
    PROVE  Backed(c, i, t, lt, rem)'
  <1>1. PICK h \in locks[i].holders :
           h.token = t /\ h.holder_id = c /\ h.lock_type = lt /\ h.remaining = rem
    BY DEF Backed, HoldsOf
  <1>2. SUFFICES h \in locks'[i].holders
    BY <1>1 DEF Backed, HoldsOf
  <1>3. /\ locks \in [Inode -> LockStatus] /\ ~IsExpired(h)
        /\ \A j \in Inode : locks[j] \in LockStatus /\ EntryConsistent(locks[j])
    BY <1>1 DEF LMInv, TypeOK, StatusConsistent, IsExpired
  <1>4. \A j \in Inode : Cleaned(locks[j]).holders = {g \in locks[j].holders : ~IsExpired(g)}
    BY <1>3, CleanedFacts
  <1>5. CASE UNCHANGED lmVars
    BY <1>1, <1>5 DEF lmVars
  <1>6. ASSUME NEW j \in Inode, NEW kt \in LockType, NEW d \in Holder, NEW u \in Token,
               AcquireGranted(j, kt, d, Lease, u)
        PROVE  h \in locks'[i].holders
    <2>1. CASE i = j
      <3>1. Cleaned(locks[i]).holders \subseteq locks'[i].holders
        BY <1>3, <1>6, <2>1 DEF AcquireGranted
      <3>. QED
        BY <1>1, <1>3, <1>4, <3>1
    <2>2. CASE i # j
      BY <1>1, <1>3, <1>6, <2>2 DEF AcquireGranted
    <2>. QED
      BY <2>1, <2>2
  <1>7. ASSUME NEW j \in Inode, NEW kt \in LockType, AcquireConflict(j, kt)
        PROVE  h \in locks'[i].holders
    <2>1. CASE i = j
      BY <1>1, <1>3, <1>4, <1>7, <2>1 DEF AcquireConflict
    <2>2. CASE i # j
      BY <1>1, <1>3, <1>7, <2>2 DEF AcquireConflict
    <2>. QED
      BY <2>1, <2>2
  <1>8. ASSUME NEW u \in Token \ {t}, Release(u)
        PROVE  h \in locks'[i].holders
    <2>1. PICK j \in Inode :
             locks' = [locks EXCEPT ![j] =
                          Retain(locks[j], locks[j].holders \ HoldsOf(locks[j], u))]
      BY <1>8 DEF Release
    <2>. DEFINE keep == locks[j].holders \ HoldsOf(locks[j], u)
    <2>2. Retain(locks[j], keep).holders = keep
      BY <1>3, RetainFacts
    <2>3. CASE i = j
      <3>1. h \in keep
        BY <1>1, <1>8, <2>3 DEF HoldsOf
      <3>. HIDE DEF keep
      <3>2. locks'[i] = Retain(locks[j], keep)
        BY <1>3, <2>1, <2>3 DEF keep
      <3>. QED
        BY <2>2, <3>1, <3>2
    <2>4. CASE i # j
      BY <1>1, <1>3, <2>1, <2>4
    <2>. QED
      BY <2>3, <2>4
  <1>9. ASSUME NEW d \in Holder \ {c}, ReleaseAllByHolder(d)
        PROVE  h \in locks'[i].holders
    <2>. DEFINE keep == {g \in locks[i].holders : g.holder_id # d}
    <2>1. locks'[i] = Retain(locks[i], keep)
      BY <1>9 DEF ReleaseAllByHolder
    <2>2. Retain(locks[i], keep).holders = keep
      BY <1>3, RetainFacts
    <2>. QED
      BY <1>1, <1>9, <2>1, <2>2
  <1>. QED
    BY <1>5, <1>6, <1>7, <1>8, <1>9

(* Time passes for a hold. *)
LEMMA BackedTick ==
    ASSUME LMInv, Tick, NEW c \in Holder, NEW i \in Inode, NEW t, NEW lt,
           NEW rem \in Nat \ {0}, Backed(c, i, t, lt, rem)
    PROVE  Backed(c, i, t, lt, rem - 1)'
  <1>1. PICK h \in locks[i].holders :
           h.token = t /\ h.holder_id = c /\ h.lock_type = lt /\ h.remaining = rem
    BY DEF Backed, HoldsOf
  <1>2. locks[i] \in LockStatus /\ h \in LockHold
    BY <1>1 DEF LMInv, TypeOK, LockStatus
  <1>3. /\ Aged(h).token = t /\ Aged(h).holder_id = c /\ Aged(h).lock_type = lt
        /\ Aged(h).remaining = rem - 1
    BY <1>1, <1>2 DEF Aged, LockHold
  <1>4. Aged(h) \in locks'[i].holders
    BY <1>1, <1>2 DEF Tick, LockStatus
  <1>. QED
    BY <1>3, <1>4 DEF Backed, HoldsOf

(* A grant is backed from the start. *)
LEMMA BackedFresh ==
    ASSUME LMInv, NEW c \in Holder, NEW i \in Inode, NEW t \in Token, NEW lt \in LockType,
           AcquireGranted(i, lt, c, Lease, t)
    PROVE  Backed(c, i, t, lt, Lease)'
  <1>. DEFINE hold == [token |-> t, lock_type |-> lt, holder_id |-> c, remaining |-> Lease]
  <1>1. hold \in locks'[i].holders
    BY DEF AcquireGranted, LMInv, TypeOK
  <1>. QED
    BY <1>1 DEF Backed, HoldsOf

(* Client c takes itself for the holder of a lock on i. *)
Trusts(c, i) ==
    HasLock(c, i) /\ file_lock[c][i].remaining > file_lock[c][i].late /\ conn[c] = "up"

LEMMA BeliefIs ==
    BeliefAccurate <=>
        \A c \in Holder, i \in Inode :
            Trusts(c, i) =>
               \/ ReleaseUnderWay(c, file_lock[c][i].token)
               \/ Backed(c, i, file_lock[c][i].token, file_lock[c][i].lock_type,
                         file_lock[c][i].remaining - file_lock[c][i].late)
  BY DEF BeliefAccurate, Trusts, Backed

LEMMA BeliefIsNext ==
    ASSUME \A c \in Holder, i \in Inode : \A l :
              l = file_lock'[c][i] /\ Trusts(c, i)' =>
                 \/ ReleaseUnderWay(c, l.token)'
                 \/ Backed(c, i, l.token, l.lock_type, l.remaining - l.late)'
    PROVE  BeliefAccurate'
  BY DEF BeliefAccurate, Trusts, Backed, ReleaseUnderWay, HasLock, HoldsOf

LEMMA LockFields ==
    ASSUME ClientInv, NEW c \in Holder, NEW i \in Inode, HasLock(c, i)
    PROVE  /\ file_lock[c][i] \in FileLock
           /\ file_lock[c][i].token \in Token /\ file_lock[c][i].lock_type \in LockType
           /\ file_lock[c][i].remaining \in 1 .. Lease /\ file_lock[c][i].late \in 0 .. Lease
           /\ file_lock[c][i].remaining > file_lock[c][i].late =>
                 file_lock[c][i].remaining - file_lock[c][i].late \in Nat \ {0}
  <1>1. file_lock[c][i] \in {NoLock} \cup FileLock
    BY DEF ClientInv
  <1>2. file_lock[c][i] \in FileLock
    BY <1>1 DEF HasLock, NoLock
  <1>3. /\ file_lock[c][i].token \in Token /\ file_lock[c][i].lock_type \in LockType
        /\ file_lock[c][i].remaining \in 1 .. Lease /\ file_lock[c][i].late \in 0 .. Lease
    BY <1>2 DEF FileLock
  <1>. QED
    BY <1>2, <1>3, LeaseIsTTL

LEMMA GrantFields ==
    ASSUME ClientInv, NEW c \in Holder, NEW s \in Slot, IsGrant(stream[c][s])
    PROVE  /\ stream[c][s] \in Answer /\ stream[c][s].token \in Token
           /\ stream[c][s].inode \in Inode /\ stream[c][s].lock_type \in LockType
           /\ stream[c][s].age \in 0 .. Lease
           /\ stream[c][s].age < Lease => Lease - stream[c][s].age \in Nat \ {0}
  <1>1. stream[c][s] \in StreamState /\ OwnToken(stream[c][s])
    BY DEF ClientInv
  <1>2. stream[c][s] \in Answer
    BY <1>1, StreamCases DEF IsGrant
  <1>3. /\ stream[c][s].token \in Token
        /\ stream[c][s].inode \in Inode /\ stream[c][s].lock_type \in LockType
        /\ stream[c][s].age \in 0 .. Lease
    BY <1>1, <1>2 DEF OwnToken, IsGrant, Answer
  <1>. QED
    BY <1>2, <1>3, LeaseIsTTL

LEMMA ReleaseFields ==
    ASSUME ClientInv, NEW c \in Holder, NEW s \in Slot, IsRelease(stream[c][s])
    PROVE  /\ stream[c][s].inode \in Inode
           /\ Uses(c, stream[c][s].inode, stream[c][s].token)
           /\ ReleaseUnderWay(c, stream[c][s].token)
  <1>1. stream[c][s] \in StreamState
    BY DEF ClientInv
  <1>2. stream[c][s].inode \in Inode /\ stream[c][s] # Idle
    BY <1>1, StreamCases DEF IsRelease, Request, Answer, Idle
  <1>. QED
    BY <1>2 DEF Uses, ReleaseUnderWay, IsRelease

LEMMA ReleaseUnderWayIs ==
    ASSUME ClientInv, NEW c \in Holder, NEW t
    PROVE  ReleaseUnderWay(c, t) <=>
              \E s \in Slot : IsRelease(stream[c][s]) /\ stream[c][s].token = t
  <1>1. \A s \in Slot : stream[c][s] # Idle <=> stream[c][s].at # "idle"
    BY DEF ClientInv, StreamState, Idle, Request, Answer
  <1>. QED
    BY <1>1 DEF ReleaseUnderWay, IsRelease

(* Tokens keep their homes when nobody begins to use or is granted one. *)
LEMMA HomeKept ==
    ASSUME HomeInv, issued \subseteq issued',
           \A c \in Holder, i \in Inode, t \in Token : Uses(c, i, t)' => Uses(c, i, t),
           \A c \in Holder, s \in Slot, t \in Token : Granted(c, s, t)' => Granted(c, s, t)
    PROVE  HomeInv'
  BY DEF HomeInv

(* A step on one stream that stores no lock and grants none. *)
LEMMA StreamHome ==
    ASSUME ClientInv, HomeInv, issued \subseteq issued',
           NEW c \in Holder, NEW s \in Slot, NEW r \in StreamState,
           stream' = [stream EXCEPT ![c][s] = r], file_lock' = file_lock,
           IsRelease(r) => Uses(c, r.inode, r.token), ~IsGrant(r)
    PROVE  HomeInv'
  <1>1. \A d \in Holder, u \in Slot :
           stream'[d][u] = IF d = c /\ u = s THEN r ELSE stream[d][u]
    BY DEF ClientInv
  <1>2. \A d \in Holder, i \in Inode, t \in Token : Uses(d, i, t)' => Uses(d, i, t)
    <2>. SUFFICES ASSUME NEW d \in Holder, NEW i \in Inode, NEW t \in Token, Uses(d, i, t)'
                  PROVE  Uses(d, i, t)
      OBVIOUS
    <2>1. CASE HasLock(d, i)' /\ file_lock'[d][i].token = t
      BY <2>1 DEF Uses, HasLock
    <2>2. ASSUME NEW u \in Slot, IsRelease(stream'[d][u]), stream'[d][u].token = t,
                 stream'[d][u].inode = i
          PROVE  Uses(d, i, t)
      <3>1. CASE d = c /\ u = s
        BY <1>1, <2>2, <3>1
      <3>2. CASE ~(d = c /\ u = s)
        BY <1>1, <2>2, <3>2 DEF Uses
      <3>. QED
        BY <3>1, <3>2
    <2>. QED
      BY <2>1, <2>2 DEF Uses, IsRelease
  <1>3. \A d \in Holder, u \in Slot, t \in Token : Granted(d, u, t)' => Granted(d, u, t)
    BY <1>1 DEF Granted, IsGrant
  <1>. QED
    BY <1>2, <1>3, HomeKept

(* The same for what clients believe, when the table keeps every hold of a *)
(* connected client but the one this stream gives back.                    *)
LEMMA StreamBelief ==
    ASSUME ClientInv, ClientInv', BeliefInv, issued \subseteq issued',
           NEW c \in Holder, NEW s \in Slot, NEW r \in StreamState,
           stream' = [stream EXCEPT ![c][s] = r], file_lock' = file_lock,
           IsRelease(r) => Uses(c, r.inode, r.token), ~IsGrant(r),
           \A d \in Holder : conn'[d] = "up" => conn[d] = "up",
           conn'[c] = "up" /\ IsRelease(stream[c][s]) =>
              IsRelease(r) /\ r.token = stream[c][s].token,
           \A d \in Holder, i \in Inode, t \in Token, lt \in LockType, rem \in Nat \ {0} :
              conn'[d] = "up" /\ Backed(d, i, t, lt, rem) =>
                 \/ Backed(d, i, t, lt, rem)'
                 \/ IsRelease(stream[c][s]) /\ stream[c][s].token = t
    PROVE  BeliefInv'
  <1>0. \A d \in Holder, u \in Slot :
           stream'[d][u] = IF d = c /\ u = s THEN r ELSE stream[d][u]
    BY DEF ClientInv
  <1>1. HomeInv'
    BY StreamHome DEF BeliefInv
  <1>2. GrantInv'
    <2>. SUFFICES ASSUME NEW d \in Holder, NEW u \in Slot, NEW q, q = stream'[d][u],
                         IsGrant(q), q.age < Lease, conn'[d] = "up"
                  PROVE  Backed(d, q.inode, q.token, q.lock_type, Lease - q.age)'
      BY DEF GrantInv, IsGrant, Backed, HoldsOf
    <2>1. q = stream[d][u]
      BY <1>0
    <2>2. /\ q.token \in Token /\ q.inode \in Inode /\ q.lock_type \in LockType
          /\ Lease - q.age \in Nat \ {0}
      BY <2>1, GrantFields
    <2>3. Backed(d, q.inode, q.token, q.lock_type, Lease - q.age)
      BY <2>1 DEF BeliefInv, GrantInv
    <2>4. ~(IsRelease(stream[c][s]) /\ stream[c][s].token = q.token)
      <3>1. Granted(d, u, q.token)
        BY <2>1 DEF Granted
      <3>2. \A e \in Holder, i \in Inode : ~Uses(e, i, q.token)
        BY <2>2, <3>1 DEF BeliefInv, HomeInv
      <3>. QED
        BY <3>2, ReleaseFields
    <2>. QED
      BY <2>2, <2>3, <2>4
  <1>3. BeliefAccurate'
    <2>. SUFFICES ASSUME NEW d \in Holder, NEW i \in Inode, NEW l, l = file_lock'[d][i],
                         Trusts(d, i)'
                  PROVE  \/ ReleaseUnderWay(d, l.token)'
                         \/ Backed(d, i, l.token, l.lock_type, l.remaining - l.late)'
      BY BeliefIsNext
    <2>1. l = file_lock[d][i] /\ HasLock(d, i) /\ Trusts(d, i) /\ conn'[d] = "up"
      BY DEF Trusts, HasLock
    <2>2. /\ l.token \in Token /\ l.lock_type \in LockType
          /\ l.remaining - l.late \in Nat \ {0}
      BY <2>1, LockFields DEF Trusts
    <2>3. \/ ReleaseUnderWay(d, l.token)
          \/ Backed(d, i, l.token, l.lock_type, l.remaining - l.late)
      BY <2>1, BeliefIs DEF BeliefInv
    <2>4. ASSUME ReleaseUnderWay(d, l.token)
          PROVE  ReleaseUnderWay(d, l.token)'
      <3>1. PICK u \in Slot : IsRelease(stream[d][u]) /\ stream[d][u].token = l.token
        BY <2>4, ReleaseUnderWayIs
      <3>2. IsRelease(stream'[d][u]) /\ stream'[d][u].token = l.token
        BY <1>0, <2>1, <3>1
      <3>3. stream'[d][u] # Idle
        BY <3>2 DEF IsRelease, Idle
      <3>. QED
        BY <3>2, <3>3 DEF ReleaseUnderWay, IsRelease
    <2>5. ASSUME IsRelease(stream[c][s]), stream[c][s].token = l.token
          PROVE  ReleaseUnderWay(d, l.token)
      <3>1. Uses(d, i, l.token)
        BY <2>1 DEF Uses
      <3>2. stream[c][s].inode \in Inode /\ Uses(c, stream[c][s].inode, l.token)
        BY <2>5, ReleaseFields
      <3>3. c = d
        BY <2>2, <3>1, <3>2 DEF BeliefInv, HomeInv
      <3>. QED
        BY <2>5, <3>3, ReleaseFields
    <2>. QED
      BY <2>1, <2>2, <2>3, <2>4, <2>5
  <1>. QED
    BY <1>1, <1>2, <1>3 DEF BeliefInv

(* A step of a stream under which the table loses no hold with time left. *)
LEMMA QuietBelief ==
    ASSUME LMInv, ClientInv, ClientInv', BeliefInv,
           NEW c \in Holder, NEW s \in Slot, NEW r \in StreamState,
           stream' = [stream EXCEPT ![c][s] = r], file_lock' = file_lock,
           IsRelease(r) => Uses(c, r.inode, r.token), ~IsGrant(r),
           conn' = conn,
           conn[c] = "up" /\ IsRelease(stream[c][s]) =>
              IsRelease(r) /\ r.token = stream[c][s].token,
           \/ UNCHANGED lmVars
           \/ \E j \in Inode, kt \in LockType, d \in Holder, u \in Token :
                 AcquireGranted(j, kt, d, Lease, u)
           \/ \E j \in Inode, kt \in LockType : AcquireConflict(j, kt)
    PROVE  BeliefInv'
  <1>1. issued \subseteq issued'
    BY DEF AcquireGranted, AcquireConflict, lmVars
  <1>2. \A d \in Holder, i \in Inode, t \in Token, lt \in LockType, rem \in Nat \ {0} :
           Backed(d, i, t, lt, rem) => Backed(d, i, t, lt, rem)'
    BY BackedKept
  <1>. QED
    BY <1>1, <1>2, StreamBelief

(* A client sends a request. *)
LEMMA SendBelief ==
    ASSUME LMInv, ClientInv, ClientInv', BeliefInv, NEW c \in Holder, NEW s \in Slot,
           NEW i \in Inode, NEW op \in {"acquire", "release", "write"},
           NEW lt \in LockType, NEW t \in Token \cup {NoToken},
           op = "release" => HasLock(c, i) /\ file_lock[c][i].token = t,
           Send(c, s, op, i, lt, t)
    PROVE  BeliefInv'
  <1>. DEFINE r == [at |-> "sent", op |-> op, inode |-> i, lock_type |-> lt, token |-> t]
  <1>1. r \in StreamState
    BY DEF StreamState, Request
  <1>2. /\ stream' = [stream EXCEPT ![c][s] = r] /\ file_lock' = file_lock
        /\ conn' = conn /\ UNCHANGED lmVars
    BY DEF Send, lmVars
  <1>3. IsRelease(r) => Uses(c, r.inode, r.token)
    BY DEF IsRelease, Uses
  <1>4. ~IsGrant(r)
    BY DEF IsGrant
  <1>5. ~IsRelease(stream[c][s])
    BY DEF Send, IsRelease, Idle
  <1>. HIDE DEF r
  <1>. QED
    BY <1>1, <1>2, <1>3, <1>4, <1>5, QuietBelief

(* A stream moves on, accepted or past its check, and the session of its   *)
(* client may end on the spot.                                             *)
LEMMA MoveOnBelief ==
    ASSUME LMInv, ClientInv, ClientInv', BeliefInv, NEW c \in Holder, NEW s \in Slot,
           NEW at \in {"task", "checked"},
           stream[c][s].at \in {"sent", "task"},
           stream' = [stream EXCEPT ![c][s].at = at],
           file_lock' = file_lock,
           \/ conn' = conn /\ UNCHANGED lmVars
           \/ conn' = [conn EXCEPT ![c] = "down"] /\ ReleaseAllByHolder(c)
    PROVE  BeliefInv'
  <1>. DEFINE q == stream[c][s]
              r == [q EXCEPT !.at = at]
  <1>1. q \in Request
    BY StreamCases DEF ClientInv
  <1>2. r \in StreamState /\ r.token = q.token /\ r.inode = q.inode /\ r.op = q.op
    BY <1>1 DEF StreamState, Request
  <1>3. ~IsGrant(r) /\ (IsRelease(r) <=> IsRelease(q))
    BY <1>1 DEF Request, IsGrant, IsRelease
  <1>4. IsRelease(r) => Uses(c, r.inode, r.token)
    BY <1>2, <1>3, ReleaseFields
  <1>5. stream' = [stream EXCEPT ![c][s] = r]
    OBVIOUS
  <1>6. issued \subseteq issued'
    BY DEF ReleaseAllByHolder, lmVars
  <1>7. \A d \in Holder : conn'[d] = "up" => conn[d] = "up" /\ (conn' = conn \/ d # c)
    BY DEF ClientInv
  <1>8. \A d \in Holder, i \in Inode, t \in Token, lt \in LockType, rem \in Nat \ {0} :
           conn'[d] = "up" /\ Backed(d, i, t, lt, rem) => Backed(d, i, t, lt, rem)'
    <2>. SUFFICES ASSUME NEW d \in Holder, NEW i \in Inode, NEW t \in Token,
                         NEW lt \in LockType, NEW rem \in Nat \ {0},
                         conn'[d] = "up", Backed(d, i, t, lt, rem)
                  PROVE  Backed(d, i, t, lt, rem)'
      OBVIOUS
    <2>1. CASE UNCHANGED lmVars
      BY <2>1, BackedKept
    <2>2. CASE conn' = [conn EXCEPT ![c] = "down"] /\ ReleaseAllByHolder(c)
      <3>1. c \in Holder \ {d}
        BY <2>2 DEF ClientInv
      <3>. QED
        BY <2>2, <3>1, BackedKept
    <2>. QED
      BY <2>1, <2>2
  <1>9. conn'[c] = "up" /\ IsRelease(stream[c][s]) =>
           IsRelease(r) /\ r.token = stream[c][s].token
    BY <1>2, <1>3
  <1>10. \A d \in Holder : conn'[d] = "up" => conn[d] = "up"
    BY <1>7
  <1>. HIDE DEF r, q
  <1>. QED
    BY <1>2, <1>3, <1>4, <1>5, <1>6, <1>8, <1>9, <1>10, StreamBelief

(* A task answers something else than a grant. *)
LEMMA RespondBelief ==
    ASSUME LMInv, ClientInv, ClientInv', BeliefInv, NEW c \in Holder, NEW s \in Slot,
           stream[c][s] \in Request, NEW ok \in BOOLEAN, NEW t \in Token \cup {NoToken},
           stream[c][s].op = "acquire" => ~ok \/ conn[c] = "down",
           stream[c][s].op = "release" => t = stream[c][s].token,
           Respond(c, s, ok, t),
           conn' = conn, file_lock' = file_lock,
           \/ UNCHANGED lmVars
           \/ \E j \in Inode, kt \in LockType, d \in Holder, u \in Token :
                 AcquireGranted(j, kt, d, Lease, u)
           \/ \E j \in Inode, kt \in LockType : AcquireConflict(j, kt)
           \/ stream[c][s].op = "release" /\ t \in Token /\ Release(t)
    PROVE  BeliefInv'
  <1>. DEFINE q == stream[c][s]
              a == [at |-> "answered", op |-> q.op, inode |-> q.inode,
                    lock_type |-> q.lock_type, token |-> t, ok |-> ok, age |-> 0]
              r == IF conn[c] = "down" THEN Idle ELSE a
  <1>1. stream' = [stream EXCEPT ![c][s] = r]
    BY DEF Respond
  <1>2. a \in Answer
    BY LeaseIsTTL DEF Request, Answer
  <1>3. r \in StreamState /\ ~IsGrant(r)
    BY <1>2 DEF StreamState, IsGrant, Idle
  <1>4. IsRelease(q) <=> q.op = "release"
    BY DEF Request, IsRelease
  <1>5. IsRelease(r) => Uses(c, r.inode, r.token)
    <2>1. IsRelease(r) => r = a /\ q.op = "release"
      BY DEF IsRelease, Idle
    <2>. QED
      BY <1>4, <2>1, ReleaseFields
  <1>6. conn[c] = "up" /\ IsRelease(q) => IsRelease(r) /\ r.token = q.token
    BY <1>4 DEF IsRelease
  <1>7. issued \subseteq issued'
    BY DEF AcquireGranted, AcquireConflict, Release, lmVars
  <1>8. \A d \in Holder, i \in Inode, u \in Token, lt \in LockType, rem \in Nat \ {0} :
           Backed(d, i, u, lt, rem) =>
              Backed(d, i, u, lt, rem)' \/ (IsRelease(q) /\ q.token = u)
    <2>. SUFFICES ASSUME NEW d \in Holder, NEW i \in Inode, NEW u \in Token,
                         NEW lt \in LockType, NEW rem \in Nat \ {0},
                         Backed(d, i, u, lt, rem), ~(IsRelease(q) /\ q.token = u)
                  PROVE  Backed(d, i, u, lt, rem)'
      OBVIOUS
    <2>1. CASE q.op = "release" /\ t \in Token /\ Release(t)
      <3>1. t \in Token \ {u}
        BY <1>4, <2>1
      <3>. QED
        BY <2>1, <3>1, BackedKept
    <2>2. CASE ~(q.op = "release" /\ t \in Token /\ Release(t))
      BY <2>2, BackedKept
    <2>. QED
      BY <2>1, <2>2
  <1>9. conn'[c] = "up" /\ IsRelease(stream[c][s]) =>
           IsRelease(r) /\ r.token = stream[c][s].token
    BY <1>6
  <1>10. \A d \in Holder : conn'[d] = "up" => conn[d] = "up"
    OBVIOUS
  <1>11. \A d \in Holder, i \in Inode, u \in Token, lt \in LockType, rem \in Nat \ {0} :
            conn'[d] = "up" /\ Backed(d, i, u, lt, rem) =>
               \/ Backed(d, i, u, lt, rem)'
               \/ IsRelease(stream[c][s]) /\ stream[c][s].token = u
    BY <1>8
  <1>. HIDE DEF r, q
  <1>. QED
    BY <1>1, <1>3, <1>5, <1>7, <1>9, <1>10, <1>11, StreamBelief

(* Neither streams nor stored locks change: the connection or the session  *)
(* of a client ends, or nothing happens.                                   *)
LEMMA StillBelief ==
    ASSUME LMInv, ClientInv, ClientInv', BeliefInv,
           UNCHANGED <<stream, file_lock>>,
           \/ UNCHANGED <<conn, lmVars>>
           \/ \E c \in Holder : Disconnect(c)
           \/ \E c \in Holder : SessionCloses(c)
    PROVE  BeliefInv'
  <1>1. issued \subseteq issued'
    BY DEF Disconnect, SessionCloses, ReleaseAllByHolder, lmVars
  <1>2. \A d \in Holder : conn'[d] = "up" => conn[d] = "up"
    BY DEF Disconnect, SessionCloses, ClientInv
  <1>3. \A d \in Holder, i \in Inode, t \in Token, lt \in LockType, rem \in Nat \ {0} :
           conn'[d] = "up" /\ Backed(d, i, t, lt, rem) => Backed(d, i, t, lt, rem)'
    <2>. SUFFICES ASSUME NEW d \in Holder, NEW i \in Inode, NEW t \in Token,
                         NEW lt \in LockType, NEW rem \in Nat \ {0},
                         conn'[d] = "up", Backed(d, i, t, lt, rem)
                  PROVE  Backed(d, i, t, lt, rem)'
      OBVIOUS
    <2>1. CASE UNCHANGED lmVars
      BY <2>1, BackedKept
    <2>2. ASSUME NEW c \in Holder, SessionCloses(c)
          PROVE  Backed(d, i, t, lt, rem)'
      <3>1. c \in Holder \ {d} /\ ReleaseAllByHolder(c)
        BY <1>2, <2>2 DEF SessionCloses
      <3>. QED
        BY <3>1, BackedKept
    <2>. QED
      BY <2>1, <2>2 DEF Disconnect, lmVars
  <1>4. HomeInv'
    <2>1. \A c \in Holder, i \in Inode, t \in Token : Uses(c, i, t)' => Uses(c, i, t)
      BY DEF Uses, HasLock, IsRelease
    <2>2. \A c \in Holder, s \in Slot, t \in Token : Granted(c, s, t)' => Granted(c, s, t)
      BY DEF Granted, IsGrant
    <2>. QED
      BY <1>1, <2>1, <2>2, HomeKept DEF BeliefInv
  <1>5. GrantInv'
    <2>. SUFFICES ASSUME NEW d \in Holder, NEW u \in Slot, NEW q, q = stream'[d][u],
                         IsGrant(q), q.age < Lease, conn'[d] = "up"
                  PROVE  Backed(d, q.inode, q.token, q.lock_type, Lease - q.age)'
      BY DEF GrantInv, IsGrant, Backed, HoldsOf
    <2>1. q = stream[d][u]
      OBVIOUS
    <2>2. /\ q.token \in Token /\ q.inode \in Inode /\ q.lock_type \in LockType
          /\ Lease - q.age \in Nat \ {0}
      BY <2>1, GrantFields
    <2>3. Backed(d, q.inode, q.token, q.lock_type, Lease - q.age)
      BY <1>2, <2>1 DEF BeliefInv, GrantInv
    <2>. QED
      BY <1>3, <2>2, <2>3
  <1>6. BeliefAccurate'
    <2>. SUFFICES ASSUME NEW d \in Holder, NEW i \in Inode, NEW l, l = file_lock'[d][i],
                         Trusts(d, i)'
                  PROVE  \/ ReleaseUnderWay(d, l.token)'
                         \/ Backed(d, i, l.token, l.lock_type, l.remaining - l.late)'
      BY BeliefIsNext
    <2>1. l = file_lock[d][i] /\ HasLock(d, i) /\ Trusts(d, i) /\ conn'[d] = "up"
      BY <1>2 DEF Trusts, HasLock
    <2>2. /\ l.token \in Token /\ l.lock_type \in LockType
          /\ l.remaining - l.late \in Nat \ {0}
      BY <2>1, LockFields DEF Trusts
    <2>3. \/ ReleaseUnderWay(d, l.token)
          \/ Backed(d, i, l.token, l.lock_type, l.remaining - l.late)
      BY <2>1, BeliefIs DEF BeliefInv
    <2>4. ReleaseUnderWay(d, l.token) => ReleaseUnderWay(d, l.token)'
      BY DEF ReleaseUnderWay
    <2>. QED
      BY <1>3, <2>1, <2>2, <2>3, <2>4
  <1>. QED
    BY <1>4, <1>5, <1>6 DEF BeliefInv

(* A lock is granted and its answer is on its way. *)
LEMMA GrantBelief ==
    ASSUME LMInv, ClientInv, ClientInv', BeliefInv, NEW c \in Holder, NEW s \in Slot,
           stream[c][s] \in Request, stream[c][s].op = "acquire", conn[c] = "up",
           NEW t \in Token,
           AcquireGranted(stream[c][s].inode, stream[c][s].lock_type, c, Lease, t),
           Respond(c, s, TRUE, t), conn' = conn, file_lock' = file_lock
    PROVE  BeliefInv'
  <1>1. PICK i \in Inode, lt \in LockType :
           i = stream[c][s].inode /\ lt = stream[c][s].lock_type
    BY DEF Request
  <1>. DEFINE a == [at |-> "answered", op |-> "acquire", inode |-> i,
                    lock_type |-> lt, token |-> t, ok |-> TRUE, age |-> 0]
  <1>2. stream' = [stream EXCEPT ![c][s] = a]
    BY <1>1 DEF Respond
  <1>3. \A d \in Holder, u \in Slot :
           stream'[d][u] = IF d = c /\ u = s THEN a ELSE stream[d][u]
    BY <1>2 DEF ClientInv
  <1>4. t \notin issued /\ issued' = issued \cup {t}
    BY DEF AcquireGranted
  <1>5. \A d \in Holder, j \in Inode, u \in Token, kt \in LockType, rem \in Nat \ {0} :
           Backed(d, j, u, kt, rem) => Backed(d, j, u, kt, rem)'
    BY <1>1, BackedKept
  <1>6. Backed(c, i, t, lt, Lease)'
    BY <1>1, BackedFresh
  <1>7. ~IsRelease(stream[c][s]) /\ ~IsRelease(a) /\ IsGrant(a)
    BY DEF IsRelease, IsGrant, Request
  <1>8. HomeInv'
    <2>1. ASSUME NEW d \in Holder, NEW j \in Inode, NEW u \in Token, Uses(d, j, u)'
          PROVE  Uses(d, j, u)
      <3>1. CASE HasLock(d, j)' /\ file_lock'[d][j].token = u
        BY <3>1 DEF Uses, HasLock
      <3>2. ASSUME NEW v \in Slot, IsRelease(stream'[d][v]), stream'[d][v].token = u,
                   stream'[d][v].inode = j
            PROVE  Uses(d, j, u)
        <4>1. ~(d = c /\ v = s)
          BY <1>3, <1>7, <3>2
        <4>. QED
          BY <1>3, <3>2, <4>1 DEF Uses
      <3>. QED
        BY <2>1, <3>1, <3>2 DEF Uses, IsRelease
    <2>2. ASSUME NEW d \in Holder, NEW v \in Slot, NEW u \in Token, Granted(d, v, u)'
          PROVE  \/ d = c /\ v = s /\ u = t
                 \/ Granted(d, v, u)
      BY <1>3, <2>2 DEF Granted, IsGrant
    <2>3. \A d \in Holder, j \in Inode : ~Uses(d, j, t)
      BY <1>4 DEF BeliefInv, HomeInv
    <2>4. \A d \in Holder, v \in Slot : ~Granted(d, v, t)
      BY <1>4 DEF BeliefInv, HomeInv
    <2>. QED
      BY <1>4, <2>1, <2>2, <2>3, <2>4 DEF BeliefInv, HomeInv
  <1>9. GrantInv'
    <2>. SUFFICES ASSUME NEW d \in Holder, NEW u \in Slot, NEW p, p = stream'[d][u],
                         IsGrant(p), p.age < Lease, conn'[d] = "up"
                  PROVE  Backed(d, p.inode, p.token, p.lock_type, Lease - p.age)'
      BY DEF GrantInv, IsGrant, Backed, HoldsOf
    <2>1. CASE d = c /\ u = s
      <3>1. p = a
        BY <1>3, <2>1
      <3>2. p.inode = i /\ p.token = t /\ p.lock_type = lt /\ Lease - p.age = Lease
        BY <3>1, LeaseIsTTL
      <3>. QED
        BY <1>6, <2>1, <3>2
    <2>2. CASE ~(d = c /\ u = s)
      <3>1. p = stream[d][u]
        BY <1>3, <2>2
      <3>2. /\ p.token \in Token /\ p.inode \in Inode /\ p.lock_type \in LockType
            /\ Lease - p.age \in Nat \ {0}
        BY <3>1, GrantFields
      <3>3. Backed(d, p.inode, p.token, p.lock_type, Lease - p.age)
        BY <3>1 DEF BeliefInv, GrantInv
      <3>. QED
        BY <1>5, <3>2, <3>3
    <2>. QED
      BY <2>1, <2>2
  <1>10. BeliefAccurate'
    <2>. SUFFICES ASSUME NEW d \in Holder, NEW j \in Inode, NEW l, l = file_lock'[d][j],
                         Trusts(d, j)'
                  PROVE  \/ ReleaseUnderWay(d, l.token)'
                         \/ Backed(d, j, l.token, l.lock_type, l.remaining - l.late)'
      BY BeliefIsNext
    <2>1. l = file_lock[d][j] /\ HasLock(d, j) /\ Trusts(d, j)
      BY DEF Trusts, HasLock
    <2>2. /\ l.token \in Token /\ l.lock_type \in LockType
          /\ l.remaining - l.late \in Nat \ {0}
      BY <2>1, LockFields DEF Trusts
    <2>3. \/ ReleaseUnderWay(d, l.token)
          \/ Backed(d, j, l.token, l.lock_type, l.remaining - l.late)
      BY <2>1, BeliefIs DEF BeliefInv
    <2>4. ASSUME ReleaseUnderWay(d, l.token)
          PROVE  ReleaseUnderWay(d, l.token)'
      <3>1. PICK u \in Slot : IsRelease(stream[d][u]) /\ stream[d][u].token = l.token
        BY <2>4, ReleaseUnderWayIs
      <3>2. stream'[d][u] = stream[d][u]
        BY <1>3, <1>7, <3>1
      <3>3. stream'[d][u] # Idle
        BY <3>1, <3>2 DEF IsRelease, Idle
      <3>. QED
        BY <3>1, <3>2, <3>3 DEF ReleaseUnderWay, IsRelease
    <2>. QED
      BY <1>5, <2>2, <2>3, <2>4
  <1>. QED
    BY <1>8, <1>9, <1>10 DEF BeliefInv

(* The client learns of its lock, or that a release has been answered. *)
LEMMA ReceiveBelief ==
    ASSUME LMInv, ClientInv, ClientInv', BeliefInv, NEW c \in Holder, NEW s \in Slot,
           Receive(c, s)
    PROVE  BeliefInv'
  <1>1. PICK q \in Answer : q = stream[c][s] /\ OwnToken(q)
    BY StreamCases DEF ClientInv, Receive
  <1>2. PICK i \in Inode : i = q.inode
    BY <1>1 DEF Answer
  <1>3. /\ \A d \in Holder, u \in Slot :
              stream'[d][u] = IF d = c /\ u = s THEN Idle ELSE stream[d][u]
        /\ \A d \in Holder, j \in Inode :
              ~(d = c /\ j = i) => file_lock'[d][j] = file_lock[d][j]
        /\ UNCHANGED <<locks, issued, conn>>
    BY <1>1, <1>2 DEF Receive, ClientInv
  <1>4. file_lock'[c][i] =
           CASE q.op = "acquire" /\ q.ok ->
                  [token |-> q.token, lock_type |-> q.lock_type,
                   remaining |-> Lease, late |-> q.age]
             [] q.op = "release" -> NoLock
             [] OTHER -> file_lock[c][i]
    BY <1>1, <1>2 DEF Receive, ClientInv
  <1>5. ~IsRelease(Idle) /\ ~IsGrant(Idle)
    BY DEF IsRelease, IsGrant, Idle
  <1>6. IsGrant(q) <=> q.op = "acquire" /\ q.ok
    BY <1>1 DEF Receive, IsGrant
  <1>7. IsGrant(q) => file_lock'[c][i].token = q.token /\ q.token \in Token
    BY <1>1, <1>4, <1>6 DEF OwnToken, IsGrant
  <1>8. ~IsGrant(q) => file_lock'[c][i] = file_lock[c][i] \/ file_lock'[c][i] = NoLock
    BY <1>4, <1>6
  <1>9. ASSUME NEW d \in Holder, NEW j \in Inode, NEW u \in Token, Uses(d, j, u)'
        PROVE  Uses(d, j, u) \/ (IsGrant(q) /\ d = c /\ j = i /\ u = q.token)
    <2>1. CASE HasLock(d, j)' /\ file_lock'[d][j].token = u
      <3>1. CASE ~(d = c /\ j = i)
        BY <1>3, <2>1, <3>1 DEF Uses, HasLock
      <3>2. CASE d = c /\ j = i /\ IsGrant(q)
        BY <1>7, <2>1, <3>2
      <3>3. CASE d = c /\ j = i /\ ~IsGrant(q)
        BY <1>8, <2>1, <3>3 DEF Uses, HasLock, NoLock
      <3>. QED
        BY <3>1, <3>2, <3>3
    <2>2. ASSUME NEW v \in Slot, IsRelease(stream'[d][v]), stream'[d][v].token = u,
                 stream'[d][v].inode = j
          PROVE  Uses(d, j, u)
      <3>1. stream'[d][v] = stream[d][v]
        BY <1>3, <1>5, <2>2
      <3>. QED
        BY <2>2, <3>1 DEF Uses
    <2>. QED
      BY <1>9, <2>1, <2>2 DEF Uses, IsRelease
  <1>10. ASSUME NEW d \in Holder, NEW v \in Slot, NEW u \in Token, Granted(d, v, u)'
         PROVE  Granted(d, v, u) /\ ~(d = c /\ v = s)
    BY <1>3, <1>5, <1>10 DEF Granted, IsGrant
  <1>11. IsGrant(q) => Granted(c, s, q.token)
    BY <1>1 DEF Granted
  <1>12. HomeInv'
    <2>1. CASE ~IsGrant(q)
      BY <1>3, <1>9, <1>10, <2>1, HomeKept DEF BeliefInv
    <2>2. CASE IsGrant(q)
      <3>1. /\ q.token \in Token /\ q.token \in issued
            /\ \A d \in Holder, j \in Inode : ~Uses(d, j, q.token)
            /\ \A d \in Holder, u \in Slot : Granted(d, u, q.token) => d = c /\ u = s
        BY <1>7, <1>11, <2>2 DEF BeliefInv, HomeInv
      <3>. QED
        BY <1>3, <1>9, <1>10, <3>1 DEF BeliefInv, HomeInv
    <2>. QED
      BY <2>1, <2>2
  <1>13. \A d \in Holder, j \in Inode : \A u, kt, rem :
            Backed(d, j, u, kt, rem) => Backed(d, j, u, kt, rem)'
    BY <1>3 DEF Backed
  <1>14. GrantInv'
    <2>. SUFFICES ASSUME NEW d \in Holder, NEW u \in Slot, NEW p, p = stream'[d][u],
                         IsGrant(p), p.age < Lease, conn'[d] = "up"
                  PROVE  Backed(d, p.inode, p.token, p.lock_type, Lease - p.age)'
      BY DEF GrantInv, IsGrant, Backed, HoldsOf
    <2>1. p = stream[d][u]
      BY <1>3, <1>5
    <2>2. p.inode \in Inode
      BY <2>1, GrantFields
    <2>3. Backed(d, p.inode, p.token, p.lock_type, Lease - p.age)
      BY <1>3, <2>1 DEF BeliefInv, GrantInv
    <2>. QED
      BY <1>13, <2>2, <2>3
  <1>15. BeliefAccurate'
    <2>. SUFFICES ASSUME NEW d \in Holder, NEW j \in Inode, NEW l, l = file_lock'[d][j],
                         Trusts(d, j)'
                  PROVE  \/ ReleaseUnderWay(d, l.token)'
                         \/ Backed(d, j, l.token, l.lock_type, l.remaining - l.late)'
      BY BeliefIsNext
    <2>1. l.remaining > 0 /\ l.remaining > l.late /\ conn[d] = "up"
      BY <1>3 DEF Trusts, HasLock
    <2>2. CASE d = c /\ j = i /\ IsGrant(q)
      <3>1. l = [token |-> q.token, lock_type |-> q.lock_type,
                 remaining |-> Lease, late |-> q.age]
        BY <1>4, <1>6, <2>2
      <3>2. Backed(c, i, q.token, q.lock_type, Lease - q.age)
        BY <1>1, <1>2, <2>1, <2>2, <3>1 DEF BeliefInv, GrantInv
      <3>. QED
        BY <1>13, <2>2, <3>1, <3>2
    <2>3. CASE ~(d = c /\ j = i /\ IsGrant(q))
      <3>1. l = file_lock[d][j] /\ HasLock(d, j) /\ Trusts(d, j)
        BY <1>3, <1>8, <2>1, <2>3 DEF Trusts, HasLock, NoLock
      <3>2. ~(d = c /\ j = i /\ IsRelease(q))
        <4>1. d = c /\ j = i /\ IsRelease(q) => l = NoLock
          BY <1>4 DEF IsRelease
        <4>. QED
          BY <2>1, <4>1 DEF NoLock
      <3>3. \/ ReleaseUnderWay(d, l.token)
            \/ Backed(d, j, l.token, l.lock_type, l.remaining - l.late)
        BY <3>1, BeliefIs DEF BeliefInv
      <3>4. ASSUME ReleaseUnderWay(d, l.token)
            PROVE  ReleaseUnderWay(d, l.token)'
        <4>1. PICK u \in Slot : IsRelease(stream[d][u]) /\ stream[d][u].token = l.token
          BY <3>4, ReleaseUnderWayIs
        <4>2. ~(d = c /\ u = s)
          <5>1. SUFFICES ASSUME d = c, u = s PROVE FALSE
            OBVIOUS
          <5>2. Uses(c, i, l.token)
            BY <1>1, <1>2, <4>1, <5>1, ReleaseFields
          <5>3. Uses(d, j, l.token) /\ l.token \in Token
            BY <3>1, LockFields DEF Uses
          <5>4. i = j
            BY <5>2, <5>3 DEF BeliefInv, HomeInv
          <5>. QED
            BY <1>1, <3>2, <4>1, <5>1, <5>4
        <4>3. stream'[d][u] = stream[d][u] /\ stream[d][u] # Idle
          BY <1>3, <1>5, <4>1, <4>2
        <4>. QED
          BY <4>1, <4>3 DEF ReleaseUnderWay, IsRelease
      <3>. QED
        BY <1>13, <3>3, <3>4
    <2>. QED
      BY <2>2, <2>3
  <1>. QED
    BY <1>12, <1>14, <1>15 DEF BeliefInv

(* Time passes: host and client count the same lease down together, and a  *)
(* grant that is under way falls behind by what it ages.                   *)
LEMMA TimeBelief ==
    ASSUME LMInv, ClientInv, ClientInv', BeliefInv, TimePasses
    PROVE  BeliefInv'
  <1>1. /\ Tick /\ conn' = conn /\ issued' = issued
        /\ \A d \in Holder, u \in Slot : stream'[d][u] = UnderWay(stream[d][u])
        /\ \A d \in Holder, j \in Inode : file_lock'[d][j] = Expiring(file_lock[d][j])
    BY DEF TimePasses, Tick
  <1>2. ASSUME NEW d \in Holder, NEW u \in Slot
        PROVE  \/ stream'[d][u] = stream[d][u]
               \/ /\ IsGrant(stream[d][u]) /\ stream[d][u].age < Lease
                  /\ stream'[d][u] = [stream[d][u] EXCEPT !.age = stream[d][u].age + 1]
    BY <1>1 DEF UnderWay, IsGrant
  <1>3. ASSUME NEW d \in Holder, NEW u \in Slot, IsGrant(stream'[d][u])
        PROVE  /\ IsGrant(stream[d][u])
               /\ stream'[d][u].token = stream[d][u].token
               /\ stream'[d][u].inode = stream[d][u].inode
               /\ stream'[d][u].lock_type = stream[d][u].lock_type
               /\ stream'[d][u].age < Lease => stream'[d][u].age = stream[d][u].age + 1
    <2>1. CASE stream'[d][u] = stream[d][u]
      <3>1. stream[d][u].age < Lease => FALSE
        <4>1. SUFFICES ASSUME stream[d][u].age < Lease PROVE FALSE
          OBVIOUS
        <4>2. stream[d][u] \in Answer /\ stream[d][u].age \in 0 .. Lease
          BY <1>3, <2>1, GrantFields
        <4>3. stream'[d][u] = [stream[d][u] EXCEPT !.age = stream[d][u].age + 1]
          BY <1>1, <1>3, <2>1, <4>1, <4>2 DEF UnderWay, IsGrant, Answer
        <4>4. stream'[d][u].age = stream[d][u].age + 1
          BY <4>2, <4>3 DEF Answer
        <4>. QED
          BY <2>1, <4>2, <4>4, LeaseIsTTL
      <3>. QED
        BY <1>3, <2>1, <3>1
    <2>2. CASE /\ IsGrant(stream[d][u]) /\ stream[d][u].age < Lease
               /\ stream'[d][u] = [stream[d][u] EXCEPT !.age = stream[d][u].age + 1]
      <3>1. stream[d][u] \in Answer
        BY <2>2, GrantFields
      <3>. QED
        BY <2>2, <3>1 DEF Answer
    <2>. QED
      BY <1>2, <2>1, <2>2
  <1>4. ASSUME NEW d \in Holder, NEW u \in Slot
        PROVE  /\ IsRelease(stream[d][u]) => stream'[d][u] = stream[d][u]
               /\ IsRelease(stream'[d][u]) => stream'[d][u] = stream[d][u]
    <2>1. CASE stream'[d][u] = stream[d][u]
      BY <2>1
    <2>2. CASE /\ IsGrant(stream[d][u])
               /\ stream'[d][u] = [stream[d][u] EXCEPT !.age = stream[d][u].age + 1]
      <3>1. stream[d][u] \in Answer
        BY <2>2, GrantFields
      <3>. QED
        BY <2>2, <3>1 DEF IsRelease, IsGrant, Answer
    <2>. QED
      BY <1>2, <2>1, <2>2
  <1>5. ASSUME NEW d \in Holder, NEW j \in Inode, HasLock(d, j)'
        PROVE  /\ HasLock(d, j)
               /\ file_lock'[d][j].token = file_lock[d][j].token
               /\ file_lock'[d][j].lock_type = file_lock[d][j].lock_type
               /\ file_lock'[d][j].late = file_lock[d][j].late
               /\ file_lock'[d][j].remaining = file_lock[d][j].remaining - 1
    <2>1. file_lock[d][j] \in {NoLock} \cup FileLock
      BY DEF ClientInv
    <2>2. ~(file_lock[d][j].remaining <= 1)
      BY <1>1, <1>5 DEF HasLock, Expiring, NoLock
    <2>3. file_lock[d][j] \in FileLock
      BY <2>1, <2>2 DEF NoLock
    <2>4. file_lock[d][j].remaining \in Nat /\ file_lock[d][j].remaining # 0
      BY <2>2, <2>3, LeaseIsTTL DEF FileLock
    <2>5. file_lock'[d][j] = [file_lock[d][j] EXCEPT !.remaining = file_lock[d][j].remaining - 1]
      BY <1>1, <2>2, <2>3, <2>4 DEF Expiring, Aged, FileLock
    <2>. QED
      BY <2>3, <2>4, <2>5 DEF HasLock, FileLock
  <1>6. HomeInv'
    <2>1. ASSUME NEW d \in Holder, NEW j \in Inode, NEW t \in Token, Uses(d, j, t)'
          PROVE  Uses(d, j, t)
      <3>1. CASE HasLock(d, j)' /\ file_lock'[d][j].token = t
        BY <1>5, <3>1 DEF Uses
      <3>2. ASSUME NEW u \in Slot, IsRelease(stream'[d][u]), stream'[d][u].token = t,
                   stream'[d][u].inode = j
            PROVE  Uses(d, j, t)
        BY <1>4, <3>2 DEF Uses
      <3>. QED
        BY <2>1, <3>1, <3>2 DEF Uses, IsRelease
    <2>2. ASSUME NEW d \in Holder, NEW u \in Slot, NEW t \in Token, Granted(d, u, t)'
          PROVE  Granted(d, u, t)
      <3>1. IsGrant(stream'[d][u]) /\ stream'[d][u].token = t
        BY <2>2 DEF Granted, IsGrant
      <3>. QED
        BY <1>3, <3>1 DEF Granted
    <2>. QED
      BY <1>1, <2>1, <2>2, HomeKept DEF BeliefInv
  <1>7. GrantInv'
    <2>. SUFFICES ASSUME NEW d \in Holder, NEW u \in Slot, NEW p, p = stream'[d][u],
                         IsGrant(p), p.age < Lease, conn'[d] = "up"
                  PROVE  Backed(d, p.inode, p.token, p.lock_type, Lease - p.age)'
      BY DEF GrantInv, IsGrant, Backed, HoldsOf
    <2>1. PICK q : q = stream[d][u]
      OBVIOUS
    <2>2. /\ IsGrant(q) /\ p.token = q.token /\ p.inode = q.inode
          /\ p.lock_type = q.lock_type /\ p.age = q.age + 1
      BY <1>3, <2>1
    <2>3. q.inode \in Inode /\ q.age \in 0 .. Lease
      BY <2>1, <2>2, GrantFields
    <2>4. q.age < Lease /\ Lease - q.age \in Nat \ {0} /\ (Lease - q.age) - 1 = Lease - p.age
      BY <2>2, <2>3, LeaseIsTTL
    <2>5. Backed(d, q.inode, q.token, q.lock_type, Lease - q.age)
      BY <1>1, <2>1, <2>2, <2>4 DEF BeliefInv, GrantInv
    <2>6. Backed(d, q.inode, q.token, q.lock_type, (Lease - q.age) - 1)'
      BY <1>1, <2>3, <2>4, <2>5, BackedTick
    <2>. QED
      BY <2>2, <2>4, <2>6
  <1>8. BeliefAccurate'
    <2>. SUFFICES ASSUME NEW d \in Holder, NEW j \in Inode, NEW l, l = file_lock'[d][j],
                         Trusts(d, j)'
                  PROVE  \/ ReleaseUnderWay(d, l.token)'
                         \/ Backed(d, j, l.token, l.lock_type, l.remaining - l.late)'
      BY BeliefIsNext
    <2>1. PICK k : k = file_lock[d][j]
      OBVIOUS
    <2>2. /\ HasLock(d, j) /\ l.token = k.token /\ l.lock_type = k.lock_type
          /\ l.late = k.late /\ l.remaining = k.remaining - 1 /\ l.remaining > l.late
          /\ conn[d] = "up"
      BY <1>1, <1>5, <2>1 DEF Trusts
    <2>3. k.remaining \in Nat /\ k.late \in Nat
      BY <2>1, <2>2, LockFields, LeaseIsTTL
    <2>4. /\ k.remaining > k.late /\ k.remaining - k.late \in Nat \ {0}
          /\ (k.remaining - k.late) - 1 = l.remaining - l.late
      BY <2>2, <2>3
    <2>5. \/ ReleaseUnderWay(d, k.token)
          \/ Backed(d, j, k.token, k.lock_type, k.remaining - k.late)
      BY <2>1, <2>2, <2>4, BeliefIs DEF BeliefInv, Trusts
    <2>6. ASSUME ReleaseUnderWay(d, k.token)
          PROVE  ReleaseUnderWay(d, k.token)'
      <3>1. PICK u \in Slot : IsRelease(stream[d][u]) /\ stream[d][u].token = k.token
        BY <2>6, ReleaseUnderWayIs
      <3>2. stream'[d][u] = stream[d][u] /\ stream[d][u] # Idle
        BY <1>4, <3>1 DEF IsRelease, Idle
      <3>. QED
        BY <3>1, <3>2 DEF ReleaseUnderWay, IsRelease
    <2>7. ASSUME Backed(d, j, k.token, k.lock_type, k.remaining - k.late)
          PROVE  Backed(d, j, k.token, k.lock_type, (k.remaining - k.late) - 1)'
      BY <1>1, <2>4, <2>7, BackedTick
    <2>. QED
      BY <2>2, <2>4, <2>5, <2>6, <2>7
  <1>. QED
    BY <1>6, <1>7, <1>8 DEF BeliefInv

LEMMA BeliefInit == Init => BeliefInv
  <1>. SUFFICES ASSUME Init PROVE BeliefInv
    OBVIOUS
  <1>1. \A c \in Holder, s \in Slot : stream[c][s] = Idle
    BY DEF Init
  <1>2. \A c \in Holder, i \in Inode : ~HasLock(c, i)
    BY DEF Init, HasLock, NoLock
  <1>3. /\ \A c \in Holder, i \in Inode, t \in Token : ~Uses(c, i, t)
        /\ \A c \in Holder, s \in Slot, t \in Token : ~Granted(c, s, t)
    BY <1>1, <1>2 DEF Uses, Granted, IsRelease, IsGrant, Idle
  <1>4. HomeInv
    BY <1>3 DEF HomeInv
  <1>5. GrantInv
    BY <1>1 DEF GrantInv, IsGrant, Idle
  <1>6. BeliefAccurate
    BY <1>2 DEF BeliefAccurate
  <1>. QED
    BY <1>4, <1>5, <1>6 DEF BeliefInv

(* The tasks of the host keep what clients believe true. *)
LEMMA TaskBelief ==
    ASSUME LMInv, ClientInv, ClientInv', BeliefInv, NEW c \in Holder, NEW s \in Slot,
           HostTask(c, s)
    PROVE  BeliefInv'
  <1>1. CASE HandleAcquireLock(c, s)
    <2>1. /\ stream[c][s] \in Request /\ stream[c][s].op = "acquire"
          /\ stream[c][s].inode \in Inode /\ stream[c][s].lock_type \in LockType
          /\ conn' = conn /\ file_lock' = file_lock
      BY <1>1, TaskRequest DEF HandleAcquireLock, Task
    <2>2. ASSUME NEW t \in Token, Respond(c, s, TRUE, t),
                 AcquireGranted(stream[c][s].inode, stream[c][s].lock_type, c, Lease, t)
          PROVE  BeliefInv'
      <3>1. CASE conn[c] = "up"
        BY <2>1, <2>2, <3>1, GrantBelief
      <3>2. CASE conn[c] = "down"
        BY <2>1, <2>2, <3>2, RespondBelief
      <3>. QED
        BY <3>1, <3>2 DEF ClientInv
    <2>3. ASSUME AcquireConflict(stream[c][s].inode, stream[c][s].lock_type),
                 Respond(c, s, FALSE, NoToken)
          PROVE  BeliefInv'
      BY <2>1, <2>3, RespondBelief
    <2>. QED
      BY <1>1, <2>2, <2>3 DEF HandleAcquireLock
  <1>2. CASE HandleReleaseLock(c, s)
    <2>1. /\ stream[c][s] \in Request /\ stream[c][s].op = "release"
          /\ stream[c][s].token \in Token
          /\ conn' = conn /\ file_lock' = file_lock
      BY <1>2, TaskRequest DEF HandleReleaseLock, Task
    <2>2. PICK ok \in BOOLEAN : /\ Respond(c, s, ok, stream[c][s].token)
                                /\ Release(stream[c][s].token) \/ UNCHANGED lmVars
      BY <1>2 DEF HandleReleaseLock
    <2>. QED
      BY <2>1, <2>2, RespondBelief
  <1>3. CASE HandleWriteCheck(c, s)
    <2>1. /\ stream[c][s] \in Request /\ stream[c][s].op = "write"
          /\ stream[c][s].at = "task"
          /\ conn' = conn /\ file_lock' = file_lock /\ UNCHANGED lmVars
      BY <1>3, TaskRequest DEF HandleWriteCheck, Task, lmVars
    <2>2. ASSUME Respond(c, s, FALSE, NoToken) PROVE BeliefInv'
      BY <2>1, <2>2, RespondBelief
    <2>3. ASSUME stream' = [stream EXCEPT ![c][s].at = "checked"] PROVE BeliefInv'
      BY <2>1, <2>3, MoveOnBelief
    <2>. QED
      BY <1>3, <2>2, <2>3 DEF HandleWriteCheck
  <1>4. CASE HandleWriteFile(c, s) \/ HandleWriteError(c, s)
    <2>1. /\ stream[c][s] \in Request /\ stream[c][s].op = "write"
          /\ conn' = conn /\ file_lock' = file_lock /\ UNCHANGED lmVars
      BY <1>4, TaskRequest DEF HandleWriteFile, HandleWriteError, Task, lmVars
    <2>2. PICK ok \in BOOLEAN : Respond(c, s, ok, NoToken)
      BY <1>4 DEF HandleWriteFile, HandleWriteError
    <2>. QED
      BY <2>1, <2>2, RespondBelief
  <1>5. CASE StreamLost(c, s)
    <2>1. Idle \in StreamState /\ ~IsGrant(Idle) /\ ~IsRelease(Idle)
      BY DEF StreamState, IsGrant, IsRelease, Idle
    <2>2. /\ stream' = [stream EXCEPT ![c][s] = Idle] /\ file_lock' = file_lock
          /\ conn' = conn /\ conn[c] # "up" /\ UNCHANGED lmVars
      BY <1>5 DEF StreamLost, lmVars
    <2>. QED
      BY <2>1, <2>2, QuietBelief
  <1>. QED
    BY <1>1, <1>2, <1>3, <1>4, <1>5 DEF HostTask

(* So do the calls of the clients and the loops of the host. *)
LEMMA CallBelief ==
    ASSUME LMInv, ClientInv, ClientInv', BeliefInv, NEW c \in Holder,
           ClientCall(c) \/ HostLoop(c)
    PROVE  BeliefInv'
  <1>1. ASSUME NEW i \in Inode, NEW lt \in LockType, AcquireLock(c, i, lt)
        PROVE  BeliefInv'
    BY <1>1, SendBelief DEF AcquireLock
  <1>2. ASSUME NEW i \in Inode, ReleaseLock(c, i)
        PROVE  BeliefInv'
    <2>1. file_lock[c][i].token = LockToken(c, i) /\ LockToken(c, i) \in Token
      BY <1>2, LockTokenType DEF ReleaseLock, LockToken
    <2>2. "fuse" \in Slot /\ HasLock(c, i) /\ "Exclusive" \in LockType
          /\ Send(c, "fuse", "release", i, "Exclusive", LockToken(c, i))
      BY <1>2 DEF ReleaseLock, LockType
    <2>. QED
      BY <2>1, <2>2, SendBelief
  <1>3. ASSUME NEW i \in Inode, NEW s \in Slot, Write(c, s, i)
        PROVE  BeliefInv'
    BY <1>3, SendBelief, LockTokenType DEF Write, LockType
  <1>4. ASSUME NEW s \in Slot, Receive(c, s)
        PROVE  BeliefInv'
    BY <1>4, ReceiveBelief
  <1>5. CASE Disconnect(c)
    BY <1>5, StillBelief DEF Disconnect
  <1>6. ASSUME NEW s \in Slot, AcceptStream(c, s)
        PROVE  BeliefInv'
    BY <1>6, MoveOnBelief DEF AcceptStream, lmVars
  <1>7. ASSUME NEW s \in Slot, AcceptAndExpire(c, s)
        PROVE  BeliefInv'
    BY <1>7, MoveOnBelief DEF AcceptAndExpire
  <1>8. CASE SessionCloses(c)
    BY <1>8, StillBelief DEF SessionCloses
  <1>. QED
    BY <1>1, <1>2, <1>3, <1>4, <1>5, <1>6, <1>7, <1>8 DEF ClientCall, HostLoop

LEMMA BeliefStep ==
    ASSUME LMInv, ClientInv, BeliefInv, [Next]_vars
    PROVE  BeliefInv'
  <1>1. ClientInv'
    BY ServiceStep
  <1>2. ASSUME NEW c \in Holder, ClientCall(c) \/ HostLoop(c)
        PROVE  BeliefInv'
    BY <1>1, <1>2, CallBelief
  <1>3. ASSUME NEW c \in Holder, NEW s \in Slot, HostTask(c, s)
        PROVE  BeliefInv'
    BY <1>1, <1>3, TaskBelief
  <1>4. CASE TimePasses
    BY <1>1, <1>4, TimeBelief
  <1>5. CASE UNCHANGED vars
    BY <1>1, <1>5, StillBelief DEF vars, lmVars
  <1>. QED
    BY <1>2, <1>3, <1>4, <1>5 DEF Next

(* A client that thinks it holds a lock (SyncEngine::locks) is right: the  *)
(* host still has the hold under its name, of its type and with the time   *)
(* the client counts, less the delay of the grant, unless a release is     *)
(* under way or the connection is gone.  For any number of clients, files  *)
(* and streams, any lease and any delay.                                   *)
THEOREM BeliefIsAccurate == Spec => []BeliefAccurate
  <1>1. Init => ClientInv /\ BeliefInv
    BY ClientInit, BeliefInit
  <1>2. ClientInv /\ [Next]_vars => ClientInv'
    BY ServiceStep
  <1>3. LMInv /\ ClientInv /\ BeliefInv /\ [Next]_vars => BeliefInv'
    BY BeliefStep
  <1>4. BeliefInv => BeliefAccurate
    BY DEF BeliefInv
  <1>5. Spec => []LMInv
    BY ServiceImplementsLockManager, TableInvariant, PTL DEF ImplementsLockManager
  <1>. QED
    BY <1>1, <1>2, <1>3, <1>4, <1>5, PTL DEF Spec
=============================================================================
