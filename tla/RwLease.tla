------------------------------ MODULE RwLease ------------------------------
(***************************************************************************)
(* What a lock table promises its users, without time, holders or the      *)
(* layout of its entries: on every inode either any number of readers or   *)
(* one writer, each under a token that is granted once in the lifetime of  *)
(* the table.  Leases may be lost at any moment, several at once (release, *)
(* expiry, end of a session); a grant may drop leases of the inode it is   *)
(* made on.                                                                *)
(***************************************************************************)
CONSTANTS Inode, Token

VARIABLES
    leases,     \* for each inode, the leases that exist on it
    granted     \* every token granted so far

rwVars == <<leases, granted>>

LeaseRecord == [token : Token, lock_type : {"Shared", "Exclusive"}]

Compatible(held) ==
    \A a, b \in held :
        a # b => a.lock_type = "Shared" /\ b.lock_type = "Shared"

RWInit ==
    /\ leases = [i \in Inode |-> {}]
    /\ granted = {}

Grant(i, lease) ==
    /\ lease.token \notin granted
    /\ granted' = granted \cup {lease.token}
    /\ \E kept \in SUBSET leases[i] :
          /\ Compatible(kept \cup {lease})
          /\ leases' = [leases EXCEPT ![i] = kept \cup {lease}]

Drop ==
    /\ DOMAIN leases' = Inode
    /\ \A i \in Inode : leases'[i] \subseteq leases[i]
    /\ UNCHANGED granted

RWNext ==
    \/ \E i \in Inode, l \in LeaseRecord : Grant(i, l)
    \/ Drop

RWSpec == RWInit /\ [][RWNext]_rwVars
=============================================================================
